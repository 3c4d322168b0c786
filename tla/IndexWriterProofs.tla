-------------------------- MODULE IndexWriterProofs --------------------------
(***************************************************************************)
(* The dictionary is sorted, every cell of a column file names its term    *)
(* and every template listed for a term has a row with it, for any input   *)
(* and thresholds and any order of the groups.  The writer comes nearer to *)
(* the end with every step and always has one to take, and its term ids    *)
(* are bounded.  The ids of the groups are fresh, a hypothesis of these    *)
(* theorems that the last one takes back to the hashes.                    *)
(***************************************************************************)
EXTENDS IndexWriter, PatternsProofs

-----------------------------------------------------------------------------
(* Sequences one after the other.                                          *)

\* The recursion of FlattenSeq has a solution.
LEMMA FlattenExists ==
  ASSUME NEW seqs, NEW m \in Nat
  PROVE  \E f : f = [i \in 1 .. m |-> IF i = 1 THEN seqs[i] ELSE f[i - 1] \o seqs[i]]
<1> DEFINE Solves(f, n) ==
             f = [i \in 1 .. n |-> IF i = 1 THEN seqs[i] ELSE f[i - 1] \o seqs[i]]
           Without == {n \in 0 .. m : ~ \E f : Solves(f, n)}
<1> SUFFICES ASSUME ~ \E f : Solves(f, m) PROVE FALSE
  OBVIOUS
<1> HIDE DEF Solves
<1>1. PICK n \in Without : \A k \in Without : n <= k
  <2>1. Without \in SUBSET Nat /\ m \in Without
    OBVIOUS
  <2> HIDE DEF Without
  <2> QED
    BY <2>1, LeastElement
<1>2. n \in 0 .. m /\ ~ \E f : Solves(f, n)
  OBVIOUS
<1> USE DEF Solves
<1>3. n # 0
  <2>1. Solves([i \in 1 .. 0 |-> 0], 0)
    OBVIOUS
  <2> QED
    BY <1>2, <2>1
<1>4. PICK f : Solves(f, n - 1)
  <2>1. n - 1 \in 0 .. m /\ ~(n <= n - 1)
    BY <1>2, <1>3
  <2>2. n - 1 \notin Without
    <3> HIDE DEF Without
    <3> QED
      BY <1>1, <2>1
  <2> QED
    BY <2>1, <2>2
<1> DEFINE g == [i \in 1 .. n |-> IF i = n THEN (IF i = 1 THEN seqs[i] ELSE f[i - 1] \o seqs[i])
                                           ELSE f[i]]
<1>5. ASSUME NEW i \in 1 .. n
      PROVE  g[i] = IF i = 1 THEN seqs[i] ELSE g[i - 1] \o seqs[i]
  <2>1. i # n => i \in 1 .. n - 1
    BY <1>2
  <2>2. i # 1 => i - 1 \in 1 .. n /\ i - 1 # n
    BY <1>2
  <2>3. i # n => f[i] = IF i = 1 THEN seqs[i] ELSE f[i - 1] \o seqs[i]
    BY <1>4, <2>1
  <2>4. i # 1 => g[i - 1] = f[i - 1]
    BY <2>2
  <2> QED
    BY <2>3, <2>4
<1>6. Solves(g, n)
  <2>1. g = [i \in 1 .. n |-> g[i]]
    OBVIOUS
  <2>2. [i \in 1 .. n |-> g[i]] =
          [i \in 1 .. n |-> IF i = 1 THEN seqs[i] ELSE g[i - 1] \o seqs[i]]
    <3> HIDE DEF g
    <3> QED
      BY <1>5
  <2> HIDE DEF g
  <2> QED
    BY <2>1, <2>2
<1> QED
  BY <1>2, <1>6

\* What FlattenSeq makes of the first i sequences is ends[i].
IsFlat(flat, seqs, ends) ==
  /\ DOMAIN ends = 0 .. Len(seqs)
  /\ \A i \in 0 .. Len(seqs) : ends[i] \in Nat
  /\ ends[0] = 0 /\ ends[Len(seqs)] = Len(flat)
  /\ \A i \in 1 .. Len(seqs) :
       /\ ends[i] = ends[i - 1] + Len(seqs[i])
       /\ ends[i] <= Len(flat)
       /\ \A j \in 1 .. Len(seqs[i]) : flat[ends[i - 1] + j] = seqs[i][j]
  /\ \A n \in 1 .. Len(flat) :
       \E i \in 1 .. Len(seqs) : \E j \in 1 .. Len(seqs[i]) : n = ends[i - 1] + j

\* A place in one of the sequences is a place in what they are flattened to.
LEMMA Within ==
  ASSUME NEW a \in Nat, NEW b \in Nat, NEW c \in Nat, NEW l \in Nat, NEW k \in Nat,
         b = a + l, b <= c, 1 <= k, k <= l
  PROVE  a + k <= c /\ a + k >= 1
OBVIOUS

LEMMA FlattenIs ==
  ASSUME NEW S, NEW seqs \in Seq(Seq(S))
  PROVE  /\ FlattenSeq(seqs) \in Seq(S)
         /\ \E ends : IsFlat(FlattenSeq(seqs), seqs, ends)
<1> DEFINE N == Len(seqs)
<1>0. N \in Nat
  OBVIOUS
<1>1. CASE N = 0
  <2>1. seqs = << >> /\ FlattenSeq(seqs) = << >>
    BY <1>1 DEF FlattenSeq
  <2>2. IsFlat(<< >>, << >>, [i \in 0 .. 0 |-> 0])
    BY DEF IsFlat
  <2> QED
    BY <2>1, <2>2
<1>2. CASE N # 0
  <2> DEFINE Solves(f) ==
               f = [i \in 1 .. N |-> IF i = 1 THEN seqs[i] ELSE f[i - 1] \o seqs[i]]
             flatten == CHOOSE f : Solves(f)
  <2>1. FlattenSeq(seqs) = flatten[N]
    BY <1>2 DEF FlattenSeq
  <2>2. Solves(flatten)
    <3>1. \E f : Solves(f)
      BY <1>0, FlattenExists
    <3> QED
      BY <3>1
  <2>3. \A i \in 1 .. N : flatten[i] = IF i = 1 THEN seqs[i] ELSE flatten[i - 1] \o seqs[i]
    BY <2>2
  <2> HIDE DEF flatten, Solves
  <2>4. \A i \in 1 .. N : seqs[i] \in Seq(S) /\ Len(seqs[i]) \in Nat
    BY ElementOfSeq
  <2> DEFINE ends == [i \in 0 .. N |-> IF i = 0 THEN 0 ELSE Len(flatten[i])]
             Fits(n) ==
               /\ flatten[n] \in Seq(S)
               /\ \A i \in 1 .. n :
                    /\ ends[i] \in Nat /\ ends[i - 1] \in Nat
                    /\ ends[i] = ends[i - 1] + Len(seqs[i])
                    /\ ends[i] <= ends[n]
                    /\ \A j \in 1 .. Len(seqs[i]) : flatten[n][ends[i - 1] + j] = seqs[i][j]
               /\ \A p \in 1 .. ends[n] :
                    \E i \in 1 .. n : \E j \in 1 .. Len(seqs[i]) : p = ends[i - 1] + j
             Unfit == {n \in 1 .. N : ~Fits(n)}
  <2>5. \A i \in 1 .. N : ends[i] = Len(flatten[i]) /\ ends[0] = 0
    BY <1>0
  <2> HIDE DEF ends
  <2>6. Fits(1)
    <3>1. 1 \in 1 .. N /\ flatten[1] = seqs[1]
      BY <1>0, <1>2, <2>3
    <3>2. 1 .. 1 = {1} /\ 1 - 1 = 0
      OBVIOUS
    <3>3. seqs[1] \in Seq(S) /\ Len(seqs[1]) \in Nat /\ ends[1] = Len(seqs[1]) /\ ends[0] = 0
      BY <2>4, <2>5, <3>1
    <3>4. /\ ends[1] = ends[0] + Len(seqs[1])
          /\ ends[1] <= ends[1]
          /\ \A j \in 1 .. Len(seqs[1]) : ends[0] + j = j
      BY <3>3
    <3> QED
      BY <3>1, <3>2, <3>3, <3>4
  <2>7. Unfit = {}
    <3> SUFFICES ASSUME Unfit # {} PROVE FALSE
      OBVIOUS
    <3>1. PICK n \in Unfit : \A k \in Unfit : n <= k
      <4>1. Unfit \in SUBSET Nat
        OBVIOUS
      <4> HIDE DEF Unfit
      <4> QED
        BY <4>1, LeastElement
    <3>2. n \in 1 .. N /\ ~Fits(n)
      OBVIOUS
    <3>3. n # 1
      <4> HIDE DEF Fits
      <4> QED
        BY <2>6, <3>2
    <3>4. n - 1 \in 1 .. N /\ Fits(n - 1)
      <4>1. n - 1 \in 1 .. N /\ ~(n <= n - 1)
        BY <3>2, <3>3
      <4>2. n - 1 \notin Unfit
        <5> HIDE DEF Unfit
        <5> QED
          BY <3>1, <4>1
      <4> HIDE DEF Fits
      <4> QED
        BY <4>1, <4>2
    <3> DEFINE old == flatten[n - 1]
    <3>5. /\ flatten[n] = old \o seqs[n]
          /\ old \in Seq(S) /\ seqs[n] \in Seq(S)
      BY <2>3, <2>4, <3>2, <3>3, <3>4
    <3>6. flatten[n] \in Seq(S) /\ IsConcat(flatten[n], old, seqs[n])
      BY <3>5, ConcatParts
    <3>7. /\ ends[n] = Len(flatten[n]) /\ ends[n - 1] = Len(old)
          /\ ends[n] \in Nat /\ ends[n - 1] \in Nat /\ Len(seqs[n]) \in Nat
          /\ ends[n] = ends[n - 1] + Len(seqs[n])
      <4>1. ends[n] = Len(flatten[n]) /\ ends[n - 1] = Len(old)
        BY <2>5, <3>2, <3>4
      <4>2. Len(flatten[n]) \in Nat /\ Len(old) \in Nat /\ Len(seqs[n]) \in Nat
        BY <3>5, <3>6, LenProperties
      <4>3. Len(flatten[n]) = Len(old) + Len(seqs[n])
        BY <3>6 DEF IsConcat
      <4> QED
        BY <4>1, <4>2, <4>3
    <3>8. ASSUME NEW i \in 1 .. n
          PROVE  /\ ends[i] \in Nat /\ ends[i - 1] \in Nat
                 /\ ends[i] = ends[i - 1] + Len(seqs[i])
                 /\ ends[i] <= ends[n]
                 /\ \A j \in 1 .. Len(seqs[i]) : flatten[n][ends[i - 1] + j] = seqs[i][j]
      <4>1. CASE i = n
        <5>1. \A j \in 1 .. Len(seqs[n]) : flatten[n][ends[n - 1] + j] = seqs[n][j]
          BY <3>6, <3>7 DEF IsConcat
        <5>2. ends[n] <= ends[n]
          BY <3>7
        <5> QED
          BY <3>7, <4>1, <5>1, <5>2
      <4>2. CASE i # n
        <5>1. i \in 1 .. n - 1 /\ i \in 1 .. N
          BY <3>2, <4>2
        <5>2. /\ ends[i] \in Nat /\ ends[i - 1] \in Nat
              /\ ends[i] = ends[i - 1] + Len(seqs[i])
              /\ ends[i] <= ends[n - 1]
              /\ \A j \in 1 .. Len(seqs[i]) : old[ends[i - 1] + j] = seqs[i][j]
          BY <3>4, <5>1
        <5>3. Len(seqs[i]) \in Nat
          BY <2>4, <5>1
        <5>4. \A j \in 1 .. Len(seqs[i]) : ends[i - 1] + j \in 1 .. Len(old)
          <6> HIDE DEF old
          <6> TAKE j \in 1 .. Len(seqs[i])
          <6>1. ends[i - 1] + j <= ends[n - 1] /\ ends[i - 1] + j >= 1
            <7>1. /\ ends[i - 1] \in Nat /\ ends[i] \in Nat /\ ends[n - 1] \in Nat
                  /\ ends[i] = ends[i - 1] + Len(seqs[i]) /\ ends[i] <= ends[n - 1]
                  /\ j \in Nat /\ 1 <= j /\ j <= Len(seqs[i]) /\ Len(seqs[i]) \in Nat
              BY <3>7, <5>2, <5>3
            <7> HIDE DEF Fits, Unfit, N
            <7> QED
              BY <7>1, Within, SMTT(30)
          <6> QED
            BY <3>7, <5>2, <6>1, SMTT(30)
        <5>5. \A j \in 1 .. Len(seqs[i]) : flatten[n][ends[i - 1] + j] = old[ends[i - 1] + j]
          BY <3>6, <5>4 DEF IsConcat
        <5>6. ends[i] <= ends[n]
          <6> HIDE DEF old
          <6>1. ends[n - 1] <= ends[n]
            BY <3>7
          <6> QED
            BY <3>7, <5>2, <6>1
        <5> QED
          BY <5>2, <5>5, <5>6
      <4> QED
        BY <4>1, <4>2
    <3>9. ASSUME NEW p \in 1 .. ends[n]
          PROVE  \E i \in 1 .. n : \E j \in 1 .. Len(seqs[i]) : p = ends[i - 1] + j
      <4>1. CASE p <= ends[n - 1]
        <5>1. p \in 1 .. ends[n - 1]
          BY <3>7, <4>1
        <5>2. PICK i \in 1 .. n - 1 : \E j \in 1 .. Len(seqs[i]) : p = ends[i - 1] + j
          BY <3>4, <5>1
        <5>3. i \in 1 .. n
          BY <3>2
        <5> QED
          BY <5>2, <5>3
      <4>2. CASE ~(p <= ends[n - 1])
        <5>1. p - ends[n - 1] \in 1 .. Len(seqs[n]) /\ p = ends[n - 1] + (p - ends[n - 1])
          <6> HIDE DEF old
          <6>1. /\ p \in Nat /\ p <= ends[n - 1] + Len(seqs[n])
                /\ ends[n - 1] \in Nat /\ Len(seqs[n]) \in Nat
            BY <3>7
          <6> QED
            BY <4>2, <6>1, SMTT(30)
        <5>2. n \in 1 .. n
          BY <3>2
        <5> QED
          BY <5>1, <5>2
      <4> QED
        BY <4>1, <4>2
    <3> QED
      BY <3>2, <3>6, <3>8, <3>9
  <2>8. N \in 1 .. N /\ Fits(N)
    <3>1. N \in 1 .. N
      BY <1>0, <1>2
    <3> HIDE DEF Fits
    <3> QED
      BY <2>7, <3>1
  <2>9. flatten[N] \in Seq(S) /\ ends[N] = Len(flatten[N]) /\ DOMAIN ends = 0 .. N
    BY <2>5, <2>8 DEF ends
  <2>10. \A i \in 0 .. N : ends[i] \in Nat
    <3>1. ends[0] \in Nat
      BY <2>5, <2>8
    <3>2. \A i \in 1 .. N : ends[i] \in Nat
      BY <2>8
    <3> QED
      BY <1>0, <3>1, <3>2
  <2>11. IsFlat(flatten[N], seqs, ends)
    BY <2>5, <2>8, <2>9, <2>10 DEF IsFlat
  <2> QED
    BY <2>1, <2>9, <2>11
<1> QED
  BY <1>1, <1>2

-----------------------------------------------------------------------------
(* The inductive invariant of the writer.                                  *)

Ids == 0 .. term_map.next_term_id - 1

\* The term of an id is still to be written.
Unwritten(id) == \E e \in left : e.id = id

\* The order of the groups: each once.
OrderOK ==
  /\ Len(order) \in Nat /\ DOMAIN order = 1 .. Len(order)
  /\ \A k \in 1 .. Len(order) : order[k] \in DOMAIN groups
  /\ \A j, k \in 1 .. Len(order) : order[j] = order[k] => j = k
  /\ \A g \in DOMAIN groups : \E k \in 1 .. Len(order) : order[k] = g

\* An id that is dealt with and that a row holds has the new id of an entry
\* with its term, and that lists the templates with such rows.
IdMapped(id) ==
  LET entry == disk.dictionary[old_to_new[id] + 1]
  IN  /\ old_to_new[id] \in 0 .. new_id - 1
      /\ Stored(term_map, id, entry.term)
      /\ TemplatesWith(id) \subseteq entry.template_ids

\* An id that is the reason why an entry lists a template.
ListedFor(d, t, id) ==
  /\ t \in TemplatesWith(id) /\ ~Unwritten(id)
  /\ old_to_new[id] = d - 1

Entries == [term : Texts, template_ids : SUBSET Nat]

DictionaryOK ==
  /\ term_templates = [id \in Ids |-> TemplatesWith(id)]
  /\ old_to_new = [id \in 0 .. term_map.next_term_id |-> old_to_new[id]]
  /\ \A e \in left : /\ e \in [text : Texts, id : Ids]
                     /\ Stored(term_map, e.id, e.text)
  /\ disk.dictionary \in Seq(Entries) /\ new_id = Len(disk.dictionary)
  /\ \A m, n \in 1 .. new_id :
       m < n => Rank[disk.dictionary[m].term] < Rank[disk.dictionary[n].term]
  /\ \A d \in 1 .. new_id : \A e \in left : Rank[disk.dictionary[d].term] < Rank[e.text]
  /\ \A id \in Ids : Unwritten(id) \/ TemplatesWith(id) = {} \/ IdMapped(id)
  /\ \A d \in 1 .. new_id : \A t \in disk.dictionary[d].template_ids :
       \E id \in Ids : ListedFor(d, t, id)

WrittenTemplates ==
  [k \in 1 .. Len(order) |->
     [template_id |-> k - 1,
      num_docs    |-> Template(k).num_docs,
      parts       |-> [i \in 1 .. Len(Template(k).tokens) |->
                         Part(Template(k).tokens[i])]]]

FilesOK ==
  /\ written \in 0 .. Len(order)
  /\ DOMAIN disk.columns = 1 .. written
  /\ \A k \in 1 .. written : disk.columns[k] = ColumnFile(Template(k))
  /\ disk.columns = [k \in 1 .. written |-> disk.columns[k]]

WriterInv ==
  /\ StoreInv
  /\ disk = [dictionary |-> disk.dictionary, values |-> disk.values,
             templates |-> disk.templates, columns |-> disk.columns]
  /\ stage \in {"idle", "index terms", "dictionary", "templates", "columns", "done"}
  /\ stage # "idle" => phase = "merged" /\ OrderOK
  /\ stage \in {"idle", "index terms"} => disk.dictionary = << >> /\ new_id = 0
  /\ stage \notin {"idle", "index terms"} => DictionaryOK
  /\ stage \in {"templates", "columns", "done"} =>
       left = {} /\ disk.values = ValueBlocks(disk.dictionary)
  /\ stage \in {"columns", "done"} => FilesOK /\ disk.templates = WrittenTemplates
  /\ stage \notin {"columns", "done"} => written = 0 /\ disk.columns = << >>
  /\ stage = "done" => written = Len(order)

-----------------------------------------------------------------------------
(* The columns in the order of the template's variables.                   *)

VariablesOf(group) == {i \in 1 .. Len(group.tokens) : IsVariable(group.tokens[i])}

LEMMA VariableAtFacts ==
  ASSUME NEW group \in Groups
  PROVE  /\ NumVariables(group) \in Nat
         /\ \A n \in 1 .. NumVariables(group) :
              /\ VariableAt(group, n) \in 1 .. Len(group.tokens)
              /\ IsVariable(group.tokens[VariableAt(group, n)])
              /\ Cardinality({j \in 1 .. VariableAt(group, n) : IsVariable(group.tokens[j])}) = n
         /\ \A i \in 1 .. Len(group.tokens) : IsVariable(group.tokens[i]) =>
              LET n == Cardinality({j \in 1 .. i : IsVariable(group.tokens[j])})
              IN  n \in 1 .. NumVariables(group) /\ VariableAt(group, n) = i
<1> DEFINE keep == VariablesOf(group)
           N == Cardinality(keep)
           Rank0(i) == Cardinality({j \in 1 .. i : IsVariable(group.tokens[j])})
<1>1. Len(group.tokens) \in Nat /\ keep \in SUBSET (1 .. Len(group.tokens))
  BY GroupFields DEF VariablesOf
<1>2. NumVariables(group) = N
  BY DEF NumVariables, VariablesOf
<1>3. ASSUME NEW i \in keep
      PROVE  Rank0(i) = Cardinality({s \in keep : s <= i})
  <2>1. \A s : s \in 1 .. i /\ IsVariable(group.tokens[s]) <=> s \in keep /\ s <= i
    BY <1>1 DEF VariablesOf
  <2>2. {j \in 1 .. i : IsVariable(group.tokens[j])} = {s \in keep : s <= i}
    BY <2>1
  <2> QED
    BY <2>2
<1>4. /\ N \in Nat
      /\ \A n \in 1 .. N : /\ NthOf(keep, n) \in keep
                           /\ Cardinality({s \in keep : s <= NthOf(keep, n)}) = n
      /\ \A x \in keep : \E n \in 1 .. N : NthOf(keep, n) = x
  <2> HIDE DEF keep
  <2> QED
    BY <1>1, NthExists, NthOnto
<1> HIDE DEF keep
<1>5. ASSUME NEW n \in 1 .. N
      PROVE  /\ VariableAt(group, n) = NthOf(keep, n) /\ VariableAt(group, n) \in keep
             /\ Rank0(VariableAt(group, n)) = n
  <2> DEFINE Is(i) == i \in 1 .. Len(group.tokens) /\ IsVariable(group.tokens[i]) /\ Rank0(i) = n
  <2>1. NthOf(keep, n) \in keep /\ Rank0(NthOf(keep, n)) = n
    BY <1>3, <1>4
  <2>2. Is(NthOf(keep, n))
    BY <2>1 DEF keep, VariablesOf
  <2>3. VariableAt(group, n) = CHOOSE i : Is(i)
    BY DEF VariableAt
  <2>4. Is(VariableAt(group, n))
    <3> HIDE DEF Is
    <3> QED
      BY <2>2, <2>3
  <2>5. VariableAt(group, n) \in keep
    BY <2>4 DEF keep, VariablesOf
  <2>6. PICK m \in 1 .. N : NthOf(keep, m) = VariableAt(group, n)
    BY <1>4, <2>5
  <2>7. Rank0(VariableAt(group, n)) = m
    BY <1>3, <1>4, <2>5, <2>6
  <2>8. m = n
    BY <2>4, <2>7
  <2> QED
    BY <2>4, <2>5, <2>6, <2>8
<1>6. ASSUME NEW i \in keep
      PROVE  Rank0(i) \in 1 .. N /\ VariableAt(group, Rank0(i)) = i
  <2>1. PICK n \in 1 .. N : NthOf(keep, n) = i
    BY <1>4
  <2>2. Rank0(i) = n
    BY <1>3, <1>4, <2>1
  <2> QED
    BY <1>5, <2>1, <2>2
<1> QED
  BY <1>2, <1>4, <1>5, <1>6 DEF keep, VariablesOf

\* iter_columns: every variable's column, in the order of the tokens.
LEMMA IterFacts ==
  ASSUME NEW group \in Groups, ColumnsOwned(group)
  PROVE  /\ IterColumns(group) \in Seq(Seq(Nat))
         /\ Len(IterColumns(group)) = NumVariables(group)
         /\ \A n \in 1 .. NumVariables(group) :
              IterColumns(group)[n] =
                group.columns[group.tokens[VariableAt(group, n)].column_index]
<1> DEFINE N == NumVariables(group)
           Column(n) == group.columns[group.tokens[VariableAt(group, n)].column_index]
<1>1. N \in Nat
  BY VariableAtFacts
<1>2. ASSUME NEW n \in 1 .. N
      PROVE  Column(n) \in Seq(Nat)
  <2>1. group.tokens[VariableAt(group, n)].column_index \in 1 .. Len(group.columns)
    BY VariableAtFacts DEF ColumnsOwned
  <2> QED
    BY <2>1, GroupFields
<1>3. IterColumns(group) = [n \in 1 .. N |-> Column(n)]
  BY DEF IterColumns
<1>4. IterColumns(group) \in [1 .. N -> Seq(Nat)]
  BY <1>2, <1>3
<1> QED
  BY <1>1, <1>3, <1>4, FunctionIsSeq

-----------------------------------------------------------------------------
(* The cells of the groups that the writer finds.                          *)

LEMMA MergedGroup ==
  ASSUME WriterInv, stage # "idle", NEW k \in 1 .. Len(order)
  PROVE  GroupOK(Template(k), term_map, lines, origin[order[k]])
<1>1. phase = "merged" /\ order[k] \in DOMAIN groups
  BY DEF WriterInv, OrderOK
<1> QED
  BY <1>1 DEF WriterInv, StoreInv, PatternsInv, StoreOK, Template

LEMMA MergedTerms ==
  ASSUME WriterInv, stage # "idle"
  PROVE  /\ term_map \in TermMaps /\ TermIdsSound
         /\ term_map.next_term_id \in Nat
         /\ \A id, text : Stored(term_map, id, text) /\ text \in Texts /\ id \in Nat => id \in Ids
         /\ \A id \in Ids : \A s, t \in Texts :
              Stored(term_map, id, s) /\ Stored(term_map, id, t) => s = t
<1>1. phase = "merged"
  BY DEF WriterInv
<1>2. term_map \in TermMaps /\ TermIdsSound
  BY <1>1 DEF WriterInv, StoreInv, PatternsInv, StoreOK
<1>3. term_map.next_term_id \in Nat
  BY <1>2 DEF TermMaps
<1>4. ASSUME NEW id \in Nat, NEW text \in Texts, Stored(term_map, id, text)
      PROVE  id \in Ids
  <2>1. id < term_map.next_term_id
    BY <1>2, <1>4 DEF TermIdsSound, IdsNameOneTerm, IdsBelowCounter, Stored, InMap, InBuffer, TermMaps
  <2> QED
    BY <1>3, <2>1 DEF Ids
<1>5. ASSUME NEW id \in Ids, NEW s \in Texts, NEW t \in Texts,
             Stored(term_map, id, s), Stored(term_map, id, t)
      PROVE  s = t
  <2>1. PICK u \in Texts : \A v \in Texts : Stored(term_map, id, v) => v = u
    BY <1>2 DEF TermIdsSound, IdsNameOneTerm, Ids
  <2> QED
    BY <1>5, <2>1
<1> QED
  BY <1>2, <1>3, <1>4, <1>5

\* What a row of a variable holds is the id of a term.
LEMMA CellIsId ==
  ASSUME WriterInv, stage # "idle", NEW k \in 1 .. Len(order),
         NEW n \in 1 .. NumVariables(Template(k)), NEW r \in 1 .. Template(k).num_docs
  PROVE  /\ Len(IterColumns(Template(k))[n]) = Template(k).num_docs
         /\ IterColumns(Template(k))[n][r] \in Ids
         /\ \E text \in Texts : Stored(term_map, IterColumns(Template(k))[n][r], text)
<1> DEFINE group == Template(k)
           i == VariableAt(group, n)
           column == group.columns[group.tokens[i].column_index]
<1>1. GroupOK(group, term_map, lines, origin[order[k]])
  BY MergedGroup
<1>2. /\ group \in Groups /\ ColumnsOwned(group)
      /\ \A c \in 1 .. Len(group.columns) : Len(group.columns[c]) = group.num_docs
      /\ RowReads(group, term_map, r, lines[origin[order[k]][r]])
  BY <1>1 DEF GroupOK
<1> HIDE DEF group
<1>3. n \in 1 .. NumVariables(group) /\ r \in 1 .. group.num_docs
  BY DEF group
<1>4. i \in 1 .. Len(group.tokens) /\ IsVariable(group.tokens[i])
  BY <1>2, <1>3, VariableAtFacts
<1>5. IterColumns(group)[n] = column
  BY <1>2, <1>3, IterFacts
<1> HIDE DEF i
<1>6. Len(column) = group.num_docs /\ column[r] \in Nat
  BY <1>2, <1>3, <1>4, CellFacts
<1>7. \E text \in Texts : Stored(term_map, column[r], text)
  <2> DEFINE line == lines[origin[order[k]][r]]
  <2>1. line[i] \in Texts /\ CellRecovers(group, term_map, i, r, line[i])
    BY <1>2, <1>4 DEF RowReads
  <2>2. Capped[line[i]] \in Texts
    BY <2>1, CappedAssumption DEF CappedAssumption
  <2>3. ~IsConstant(group.tokens[i])
    BY <1>4 DEF IsVariable, IsConstant
  <2> QED
    BY <2>1, <2>2, <2>3 DEF CellRecovers, CellReads
<1>8. column[r] \in Ids
  BY <1>6, <1>7, MergedTerms
<1> QED
  BY <1>5, <1>6, <1>7, <1>8 DEF group

LEMMA HoldsFacts ==
  ASSUME WriterInv, stage # "idle", NEW k \in 1 .. Len(order), NEW id
  PROVE  Holds(k, id) <=>
           \E n \in 1 .. NumVariables(Template(k)) : \E r \in 1 .. Template(k).num_docs :
             IterColumns(Template(k))[n][r] = id
<1> DEFINE columns == IterColumns(Template(k))
           N == NumVariables(Template(k))
<1>1. GroupOK(Template(k), term_map, lines, origin[order[k]])
  BY MergedGroup
<1>2. /\ columns \in Seq(Seq(Nat)) /\ Len(columns) = N /\ N \in Nat
  BY <1>1, IterFacts, VariableAtFacts DEF GroupOK
<1>3. DOMAIN columns = 1 .. N
  BY <1>2, LenProperties
<1>4. \A n \in 1 .. N : DOMAIN columns[n] = 1 .. Template(k).num_docs
  <2> TAKE n \in 1 .. N
  <2>1. columns[n] \in Seq(Nat)
    BY <1>2, <1>3, ElementOfSeq
  <2>2. Len(columns[n]) = Template(k).num_docs
    <3>1. Template(k) \in Groups /\ ColumnsOwned(Template(k))
      BY <1>1 DEF GroupOK
    <3>2. /\ VariableAt(Template(k), n) \in 1 .. Len(Template(k).tokens)
          /\ IsVariable(Template(k).tokens[VariableAt(Template(k), n)])
      BY <3>1, VariableAtFacts
    <3>3. columns[n] = Template(k).columns[Template(k).tokens[VariableAt(Template(k), n)].column_index]
      BY <3>1, IterFacts
    <3>4. \A c \in 1 .. Len(Template(k).columns) : Len(Template(k).columns[c]) = Template(k).num_docs
      BY <1>1 DEF GroupOK
    <3> QED
      BY <3>1, <3>2, <3>3, <3>4, CellFacts
  <2> QED
    BY <2>1, <2>2, LenProperties
<1> HIDE DEF columns, N
<1>5. Holds(k, id) <=> \E n \in DOMAIN columns : id \in Range(columns[n])
  BY DEF Holds, columns
<1>6. \A n \in 1 .. N : id \in Range(columns[n]) <=>
        \E r \in 1 .. Template(k).num_docs : columns[n][r] = id
  BY <1>4 DEF Range
<1> QED
  BY <1>3, <1>5, <1>6 DEF columns, N

-----------------------------------------------------------------------------
(* Every step of the writer preserves the invariant.                       *)

LEMMA TemplateIdsAreNumbers ==
  ASSUME OrderOK, NEW id
  PROVE  /\ TemplatesWith(id) \in SUBSET Nat
         /\ \A t \in TemplatesWith(id) : t + 1 \in 1 .. Len(order) /\ Holds(t + 1, id)
         /\ \A k \in 1 .. Len(order) : Holds(k, id) => k - 1 \in TemplatesWith(id)
<1>1. Len(order) \in Nat
  BY DEF OrderOK
<1>2. DOMAIN order = 1 .. Len(order)
  BY DEF OrderOK
<1>3. \A t \in TemplatesWith(id) : \E k \in 1 .. Len(order) : t = k - 1 /\ Holds(k, id)
  BY <1>2 DEF TemplatesWith
<1>4. \A k \in 1 .. Len(order) : k \in Nat /\ k >= 1 /\ (k - 1) + 1 = k /\ k - 1 \in Nat
  BY <1>1
<1>5. \A k \in 1 .. Len(order) : Holds(k, id) => k - 1 \in TemplatesWith(id)
  BY <1>2 DEF TemplatesWith
<1> QED
  BY <1>3, <1>4, <1>5

\* The groups and their order stay as they are from assign_template_ids on.
LEMMA WriterFrame ==
  ASSUME UNCHANGED <<vars, order>>
  PROVE  /\ UNCHANGED <<term_map, groups, lines, origin, phase>>
         /\ Ids' = Ids
         /\ \A k : Template(k)' = Template(k)
         /\ \A id : TemplatesWith(id)' = TemplatesWith(id)
         /\ OrderOK => OrderOK'
<1>1. UNCHANGED <<term_map, groups, lines, origin, phase, order>>
  BY DEF vars, ingestVars, patternVars
<1>2. Ids' = Ids
  BY <1>1 DEF Ids
<1>3. \A k : Template(k)' = Template(k)
  BY <1>1 DEF Template
<1>4. \A k, id : Holds(k, id)' <=> Holds(k, id)
  BY <1>1 DEF Holds, Template, IterColumns, NumVariables, VariableAt, IsVariable, Range
<1>5. \A id : TemplatesWith(id)' = TemplatesWith(id)
  BY <1>1, <1>4 DEF TemplatesWith
<1>6. OrderOK => OrderOK'
  BY <1>1 DEF OrderOK
<1> QED
  BY <1>1, <1>2, <1>3, <1>5, <1>6

LEMMA DictionaryStays ==
  ASSUME DictionaryOK, UNCHANGED <<vars, order, term_templates, left, new_id, old_to_new>>,
         disk'.dictionary = disk.dictionary
  PROVE  DictionaryOK'
<1>1. /\ UNCHANGED <<term_map, groups>> /\ Ids' = Ids
      /\ \A id : TemplatesWith(id)' = TemplatesWith(id)
  BY WriterFrame
<1>2. \A id : Unwritten(id)' <=> Unwritten(id)
  BY DEF Unwritten
<1>3. \A id : IdMapped(id) => IdMapped(id)'
  BY <1>1 DEF IdMapped, Stored, InMap, InBuffer
<1>4. \A d, t, id : ListedFor(d, t, id) => ListedFor(d, t, id)'
  BY <1>1, <1>2 DEF ListedFor
<1>5. \A id, text : Stored(term_map, id, text)' <=> Stored(term_map, id, text)
  BY <1>1 DEF Stored, InMap, InBuffer
<1> QED
  BY <1>1, <1>2, <1>3, <1>4, <1>5 DEF DictionaryOK

LEMMA StoreStepInv ==
  ASSUME StoreInv, NewIdsFresh, [Next]_vars
  PROVE  StoreInv'
BY FreshWhenMerged, PatternsStepInv, RowsStep, LinesStep DEF StoreInv

LEMMA WriterInitInv == WriterInit => WriterInv
<1> SUFFICES ASSUME WriterInit PROVE WriterInv
  OBVIOUS
<1>1. Init
  BY DEF WriterInit
<1>2. StoreInv
  <2>1. lines \in Seq(Lines)
    BY <1>1 DEF Init, IngestInit
  <2> QED
    BY <1>1, <2>1, PatternsInitInv DEF StoreInv, RowsOnceInv, Init
<1> QED
  BY <1>2 DEF WriterInit, WriterInv

LEMMA ReorganiseKeepsInv ==
  ASSUME WriterInv, NewIdsFresh, Reorganise
  PROVE  WriterInv'
<1>1. StoreInv /\ [Next]_vars /\ UNCHANGED writerVars
  BY DEF WriterInv, Reorganise, Next
<1>2. StoreInv'
  BY <1>1, StoreStepInv
<1>3. phase # "merged"
  <2>1. StoreInv => (phase = "merged" => work = Idle /\ aside = << >>)
    BY DEF StoreInv, PatternsInv
  <2> QED
    BY <1>1, <2>1 DEF Reorganise, Ingest, EndOfInput, Split, Merge, SplitGroup, MoveTerm, SplitNextToken,
                SplitGroupDone, InsertSplitGroup, EndSplit, Classify, StartMerge, ConvertMember,
                ConvertNextToken, TakeFirst, AppendMember, InsertMerged, EndMerge, Splitting,
                Merging, Converting, Appending
<1>4. stage = "idle"
  BY <1>3 DEF WriterInv
<1> QED
  BY <1>1, <1>2, <1>4 DEF WriterInv, writerVars

LEMMA AssignKeepsInv ==
  ASSUME WriterInv, NewIdsFresh, NEW ids \in SetToSeqs(DOMAIN groups), AssignTemplateIds(ids)
  PROVE  WriterInv'
<1>1. /\ StoreInv /\ [Next]_vars /\ phase = "merged" /\ phase' = "merged" /\ groups' = groups
      /\ order' = ids /\ stage' = "index terms" /\ stage = "idle"
      /\ UNCHANGED <<term_templates, left, new_id, old_to_new, written, disk>>
  BY DEF WriterInv, AssignTemplateIds, vars, ingestVars, patternVars
<1>2. StoreInv'
  BY <1>1, StoreStepInv
<1>3. IsFiniteSet(DOMAIN groups)
  BY <1>1 DEF StoreInv, PatternsInv, StoreOK
<1>4. DOMAIN ids = 1 .. Len(ids)
  <2>1. Cardinality(DOMAIN groups) \in Nat
    BY <1>3, FS_CardinalityType
  <2>2. ids \in [1 .. Cardinality(DOMAIN groups) -> DOMAIN groups]
    BY DEF SetToSeqs
  <2> QED
    BY <2>1, <2>2
<1>5. OrderOK'
  <2>1. /\ Len(ids) \in Nat
        /\ \A n \in 1 .. Len(ids) : ids[n] \in DOMAIN groups
        /\ \A m, n \in 1 .. Len(ids) : ids[m] = ids[n] => m = n
        /\ \A x \in DOMAIN groups : \E n \in 1 .. Len(ids) : ids[n] = x
    BY <1>3, SetToSeqsFacts
  <2> QED
    BY <1>1, <1>4, <2>1 DEF OrderOK
<1> QED
  BY <1>1, <1>2, <1>5 DEF WriterInv

LEMMA TermIdIdxKeepsInv ==
  ASSUME WriterInv, NewIdsFresh, TermIdIdx
  PROVE  WriterInv'
<1>1. /\ StoreInv /\ [Next]_vars /\ UNCHANGED <<vars, order>>
      /\ phase = "merged" /\ OrderOK
      /\ stage = "index terms" /\ stage' = "dictionary"
      /\ UNCHANGED <<new_id, written, disk>>
      /\ term_templates' = [id \in Ids |-> TemplatesWith(id)]
      /\ left' = {e \in [text : Texts, id : Ids] : Stored(term_map, e.id, e.text)}
      /\ old_to_new' = [id \in 0 .. term_map.next_term_id |-> 0]
      /\ disk.dictionary = << >> /\ new_id = 0
  BY DEF WriterInv, TermIdIdx, Ids
<1>2. StoreInv'
  BY <1>1, StoreStepInv
<1>3. /\ UNCHANGED <<term_map, groups, phase>> /\ Ids' = Ids /\ OrderOK'
      /\ \A id : TemplatesWith(id)' = TemplatesWith(id)
  BY <1>1, WriterFrame
<1>4. /\ term_map \in TermMaps /\ TermIdsSound
      /\ term_map.next_term_id \in Nat
  BY <1>1, MergedTerms
<1>5. ASSUME NEW id \in Ids PROVE Unwritten(id)'
  <2>1. PICK text \in Texts : Stored(term_map, id, text)
    BY <1>4 DEF TermIdsSound, IdsNameOneTerm, Ids
  <2>2. [text |-> text, id |-> id] \in left'
    BY <1>1, <2>1
  <2> QED
    BY <2>2 DEF Unwritten
<1>6. DictionaryOK'
  <2>1. (term_templates = [id \in Ids |-> TemplatesWith(id)])'
    BY <1>1, <1>3
  <2>2. (old_to_new = [id \in 0 .. term_map.next_term_id |-> old_to_new[id]])'
    BY <1>1, <1>3
  <2>3. \A e \in left' : /\ e \in [text : Texts, id : Ids']
                         /\ Stored(term_map, e.id, e.text)'
    BY <1>1, <1>3 DEF Stored, InMap, InBuffer
  <2>4. disk'.dictionary = << >> /\ new_id' = 0
    BY <1>1
  <2>6. Len(<< >>) = 0 /\ << >> \in Seq(Entries)
    BY EmptySeq
  <2>5. 1 .. 0 = {}
    OBVIOUS
  <2> QED
    BY <1>3, <1>5, <2>1, <2>2, <2>3, <2>4, <2>5, <2>6 DEF DictionaryOK
<1>7. /\ disk = [dictionary |-> disk.dictionary, values |-> disk.values,
                 templates |-> disk.templates, columns |-> disk.columns]
      /\ written = 0 /\ disk.columns = << >>
  BY <1>1 DEF WriterInv
<1> QED
  BY <1>1, <1>2, <1>3, <1>6, <1>7 DEF WriterInv

\* All entries of a term that is left share its ids, and those of no other.
LEMMA OldIdsFacts ==
  ASSUME WriterInv, stage = "dictionary", NEW text \in Texts
  PROVE  /\ \A e \in left : e.id \in OldIds(text) <=> e.text = text
         /\ \A id \in OldIds(text) : /\ id \in Ids /\ Stored(term_map, id, text)
                                     /\ Unwritten(id)
         /\ \A id : (\E e \in left : e.id = id /\ e.text # text)
                      <=> Unwritten(id) /\ id \notin OldIds(text)
<1>1. \A e \in left : /\ e.text \in Texts /\ e.id \in Ids
                      /\ Stored(term_map, e.id, e.text)
  BY DEF WriterInv, DictionaryOK
<1>2. \A id \in Ids : \A s, t \in Texts :
        Stored(term_map, id, s) /\ Stored(term_map, id, t) => s = t
  BY MergedTerms
<1>3. \A id : id \in OldIds(text) <=> \E e \in left : e.text = text /\ e.id = id
  BY DEF OldIds
<1>4. \A d, e \in left : d.id = e.id => d.text = e.text
  <2> TAKE d, e \in left
  <2> HAVE d.id = e.id
  <2>1. /\ d.text \in Texts /\ e.text \in Texts /\ d.id \in Ids
        /\ Stored(term_map, d.id, d.text) /\ Stored(term_map, d.id, e.text)
    BY <1>1
  <2> QED
    BY <1>2, <2>1
<1> QED
  BY <1>1, <1>3, <1>4 DEF Unwritten

LEMMA WriteTermKeepsDictionary ==
  ASSUME WriterInv, NEW text \in Texts, WriteTerm(text)
  PROVE  DictionaryOK'
<1> DEFINE ids == OldIds(text)
           templates == TemplatesOf(ids)
           entry == [term |-> text, template_ids |-> templates]
           dict == disk.dictionary
<1>1. /\ stage = "dictionary" /\ UNCHANGED <<vars, order, term_templates>>
      /\ ids # {} /\ \A e \in left : Rank[text] <= Rank[e.text]
      /\ left' = {e \in left : e.id \notin ids}
      /\ old_to_new' = [id \in DOMAIN old_to_new |-> IF id \in ids THEN new_id ELSE old_to_new[id]]
      /\ new_id' = IF templates = {} THEN new_id ELSE new_id + 1
      /\ disk' = IF templates = {} THEN disk
                 ELSE [disk EXCEPT !.dictionary = Append(@, entry)]
  BY DEF WriteTerm, LeftAfter, NewIdAfter
<1>2. /\ DictionaryOK /\ OrderOK
      /\ disk = [dictionary |-> disk.dictionary, values |-> disk.values,
                 templates |-> disk.templates, columns |-> disk.columns]
  BY <1>1 DEF WriterInv
<1>3. /\ \A e \in left : e.id \in ids <=> e.text = text
      /\ \A id \in ids : id \in Ids /\ Stored(term_map, id, text) /\ Unwritten(id)
      /\ \A id : (\E e \in left : e.id = id /\ e.text # text) <=> Unwritten(id) /\ id \notin ids
  BY <1>1, OldIdsFacts
<1>4. /\ term_templates = [id \in Ids |-> TemplatesWith(id)]
      /\ old_to_new = [id \in 0 .. term_map.next_term_id |-> old_to_new[id]]
      /\ \A e \in left : /\ e \in [text : Texts, id : Ids]
                         /\ Stored(term_map, e.id, e.text)
      /\ dict \in Seq(Entries) /\ new_id = Len(dict)
      /\ \A m, n \in 1 .. new_id : m < n => Rank[dict[m].term] < Rank[dict[n].term]
      /\ \A d \in 1 .. new_id : \A e \in left : Rank[dict[d].term] < Rank[e.text]
      /\ \A id \in Ids : Unwritten(id) \/ TemplatesWith(id) = {} \/ IdMapped(id)
      /\ \A d \in 1 .. new_id : \A t \in dict[d].template_ids : \E id \in Ids : ListedFor(d, t, id)
  BY <1>2 DEF DictionaryOK
<1>5. /\ UNCHANGED <<term_map, groups, lines, origin, phase>> /\ Ids' = Ids
      /\ \A id : TemplatesWith(id)' = TemplatesWith(id)
      /\ \A id, t : Stored(term_map, id, t)' <=> Stored(term_map, id, t)
  BY <1>1, WriterFrame DEF Stored, InMap, InBuffer
<1>6. term_map.next_term_id \in Nat /\ \A id \in Ids : id \in 0 .. term_map.next_term_id
  BY <1>1, MergedTerms DEF Ids
<1>7. \A id \in ids : TemplatesWith(id) \subseteq templates
  BY <1>3, <1>4 DEF TemplatesOf
<1>8. \A t \in templates : \E id \in ids : t \in TemplatesWith(id)
  BY <1>3, <1>4 DEF TemplatesOf
<1>9. entry \in Entries
  <2>1. \A id \in ids : TemplatesWith(id) \in SUBSET Nat
    BY <1>2, TemplateIdsAreNumbers
  <2>2. templates \in SUBSET Nat
    BY <1>8, <2>1
  <2> QED
    BY <2>2 DEF Entries
<1> HIDE DEF ids, templates
<1>10. \A id : Unwritten(id)' <=> Unwritten(id) /\ id \notin ids
  BY <1>1, <1>3 DEF Unwritten
<1>11. \A id \in Ids : old_to_new'[id] = IF id \in ids THEN new_id ELSE old_to_new[id]
  BY <1>1, <1>4, <1>6
<1>12. (old_to_new = [id \in 0 .. term_map.next_term_id |-> old_to_new[id]])'
  BY <1>1, <1>4, <1>5
<1>13. (term_templates = [id \in Ids |-> TemplatesWith(id)])'
  BY <1>1, <1>4, <1>5
<1>14. \A e \in left' : /\ e \in left /\ e.text # text
                        /\ e \in [text : Texts, id : Ids']
                        /\ Stored(term_map, e.id, e.text)'
  BY <1>1, <1>3, <1>4, <1>5
<1>15. CASE templates = {}
  <2>1. disk' = disk /\ new_id' = new_id
    BY <1>1, <1>15
  <2>2. ASSUME NEW id \in Ids
        PROVE  Unwritten(id)' \/ TemplatesWith(id) = {} \/ IdMapped(id)'
    <3>1. CASE id \in ids
      BY <1>7, <1>15, <3>1
    <3>2. CASE id \notin ids
      <4>1. Unwritten(id) \/ TemplatesWith(id) = {} \/ IdMapped(id)
        BY <1>4
      <4>2. old_to_new'[id] = old_to_new[id]
        BY <1>11, <3>2
      <4> QED
        BY <1>5, <1>10, <2>1, <3>2, <4>1, <4>2 DEF IdMapped
    <3> QED
      BY <3>1, <3>2
  <2>3. ASSUME NEW d \in 1 .. new_id, NEW t \in dict[d].template_ids
        PROVE  \E id \in Ids : ListedFor(d, t, id)'
    <3>1. PICK id \in Ids : ListedFor(d, t, id)
      BY <1>4
    <3>2. id \notin ids
      BY <1>3, <3>1 DEF ListedFor
    <3>3. ListedFor(d, t, id)'
      BY <1>5, <1>10, <1>11, <3>1, <3>2 DEF ListedFor
    <3> QED
      BY <3>3
  <2> QED
    BY <1>4, <1>5, <1>12, <1>13, <1>14, <2>1, <2>2, <2>3 DEF DictionaryOK
<1>16. CASE templates # {}
  <2>1. /\ disk'.dictionary = Append(dict, entry) /\ new_id' = new_id + 1
    BY <1>1, <1>2, <1>16
  <2> DEFINE new == disk'.dictionary
  <2>2. /\ new \in Seq(Entries) /\ Len(new) = new_id + 1 /\ new_id \in Nat
        /\ \A d \in 1 .. new_id : new[d] = dict[d]
        /\ new[new_id + 1] = entry
    <3> HIDE DEF entry, dict
    <3> QED
      BY <1>4, <1>9, <2>1, AppendProperties, LenProperties
  <2> HIDE DEF new
  <2>3. PICK f \in left : f.text = text
    BY <1>1, <1>3 DEF ids, OldIds
  <2>4. \A d \in 1 .. new_id : Rank[dict[d].term] < Rank[text]
    BY <1>4, <2>3
  <2>5. \A d \in 1 .. new_id' : d \in 1 .. new_id \/ d = new_id + 1
    BY <2>1, <2>2
  <2>6. \A m, n \in 1 .. new_id' : m < n => Rank[new[m].term] < Rank[new[n].term]
    <3> TAKE m, n \in 1 .. new_id'
    <3> HAVE m < n
    <3>1. m \in 1 .. new_id
      BY <2>1, <2>2
    <3>2. CASE n \in 1 .. new_id
      BY <1>4, <2>2, <3>1, <3>2
    <3>3. CASE n = new_id + 1
      BY <2>2, <2>4, <3>1, <3>3
    <3> QED
      BY <2>5, <3>2, <3>3
  <2>7. \A d \in 1 .. new_id' : \A e \in left' : Rank[new[d].term] < Rank[e.text]
    <3> TAKE d \in 1 .. new_id'
    <3> TAKE e \in left'
    <3>1. e \in left /\ e.text # text /\ e.text \in Texts
      BY <1>14, <1>4
    <3>2. CASE d \in 1 .. new_id
      BY <1>4, <2>2, <3>1, <3>2
    <3>3. CASE d = new_id + 1
      <4>1. Rank[text] <= Rank[e.text] /\ Rank[text] # Rank[e.text]
            /\ Rank[text] \in Nat /\ Rank[e.text] \in Nat
        BY <1>1, <3>1, RankAssumption DEF RankAssumption
      <4>2. new[d].term = text
        BY <2>2, <3>3
      <4> QED
        BY <4>1, <4>2
    <3> QED
      BY <2>5, <3>2, <3>3
  <2>8. ASSUME NEW id \in Ids
        PROVE  Unwritten(id)' \/ TemplatesWith(id) = {} \/ IdMapped(id)'
    <3>1. CASE id \in ids
      <4>1. old_to_new'[id] = new_id /\ new_id \in 0 .. new_id' - 1
        BY <1>11, <2>1, <2>2, <3>1
      <4>2. new[old_to_new'[id] + 1] = entry
        BY <2>2, <4>1
      <4>3. Stored(term_map, id, text)' /\ TemplatesWith(id)' \subseteq templates
        BY <1>3, <1>5, <1>7, <3>1
      <4> QED
        BY <4>1, <4>2, <4>3 DEF IdMapped, new
    <3>2. CASE id \notin ids
      <4>1. Unwritten(id) \/ TemplatesWith(id) = {} \/ IdMapped(id)
        BY <1>4
      <4>2. old_to_new'[id] = old_to_new[id]
        BY <1>11, <3>2
      <4>3. ASSUME IdMapped(id) PROVE IdMapped(id)'
        <5>1. /\ old_to_new[id] \in 0 .. new_id - 1
              /\ Stored(term_map, id, dict[old_to_new[id] + 1].term)
              /\ TemplatesWith(id) \subseteq dict[old_to_new[id] + 1].template_ids
          BY <4>3 DEF IdMapped
        <5>2. old_to_new[id] + 1 \in 1 .. new_id /\ old_to_new[id] \in 0 .. new_id' - 1
          BY <2>1, <2>2, <5>1
        <5>3. new[old_to_new[id] + 1] = dict[old_to_new[id] + 1]
          BY <2>2, <5>2
        <5> QED
          BY <1>5, <4>2, <5>1, <5>2, <5>3 DEF IdMapped, new
      <4> QED
        BY <1>10, <3>2, <4>1, <4>3
    <3> QED
      BY <3>1, <3>2
  <2>9. ASSUME NEW d \in 1 .. new_id', NEW t \in new[d].template_ids
        PROVE  \E id \in Ids : ListedFor(d, t, id)'
    <3>1. CASE d \in 1 .. new_id
      <4>1. PICK id \in Ids : ListedFor(d, t, id)
        BY <1>4, <2>2, <3>1
      <4>2. id \notin ids
        BY <1>3, <4>1 DEF ListedFor
      <4>3. ListedFor(d, t, id)'
        BY <1>5, <1>10, <1>11, <4>1, <4>2 DEF ListedFor
      <4> QED
        BY <4>3
    <3>2. CASE d = new_id + 1
      <4>1. PICK id \in ids : t \in TemplatesWith(id)
        BY <1>8, <2>2, <3>2
      <4>2. id \in Ids /\ old_to_new'[id] = d - 1
        BY <1>3, <1>11, <2>2, <3>2, <4>1
      <4>3. ListedFor(d, t, id)'
        BY <1>5, <1>10, <4>1, <4>2 DEF ListedFor
      <4> QED
        BY <4>2, <4>3
    <3> QED
      BY <2>5, <3>1, <3>2
  <2> QED
    BY <1>5, <1>12, <1>13, <1>14, <2>1, <2>2, <2>6, <2>7, <2>8, <2>9 DEF DictionaryOK, new
<1> QED
  BY <1>15, <1>16

LEMMA WriteTermKeepsInv ==
  ASSUME WriterInv, NewIdsFresh, NEW text \in Texts, WriteTerm(text)
  PROVE  WriterInv'
<1>1. /\ StoreInv /\ [Next]_vars /\ UNCHANGED <<vars, order>> /\ OrderOK
      /\ phase = "merged" /\ stage = "dictionary" /\ stage' = "dictionary" /\ written' = written
      /\ disk' = IF TemplatesOf(OldIds(text)) = {} THEN disk
                 ELSE [disk EXCEPT !.dictionary =
                        Append(@, [term |-> text, template_ids |-> TemplatesOf(OldIds(text))])]
      /\ disk = [dictionary |-> disk.dictionary, values |-> disk.values,
                 templates |-> disk.templates, columns |-> disk.columns]
      /\ written = 0 /\ disk.columns = << >>
  BY DEF WriteTerm, WriterInv
<1>2. StoreInv' /\ phase' = phase /\ OrderOK'
  BY <1>1, StoreStepInv, WriterFrame
<1>3. DictionaryOK'
  BY WriteTermKeepsDictionary
<1>4. /\ disk' = [dictionary |-> disk'.dictionary, values |-> disk'.values,
                  templates |-> disk'.templates, columns |-> disk'.columns]
      /\ disk'.columns = disk.columns
  BY <1>1
<1> QED
  BY <1>1, <1>2, <1>3, <1>4 DEF WriterInv

\* The steps after the dictionary leave it and the ids alone.
LEMMA AfterDictionary ==
  ASSUME WriterInv, NewIdsFresh, stage \notin {"idle", "index terms"},
         UNCHANGED <<vars, order, term_templates, left, new_id, old_to_new>>,
         disk'.dictionary = disk.dictionary
  PROVE  /\ StoreInv' /\ phase' = "merged" /\ OrderOK' /\ DictionaryOK'
         /\ \A k : Template(k)' = Template(k)
         /\ WrittenTemplates' = WrittenTemplates
         /\ \A k : ColumnFile(Template(k))' = ColumnFile(Template(k))
<1>1. StoreInv /\ [Next]_vars /\ DictionaryOK /\ OrderOK /\ phase = "merged"
  BY DEF WriterInv
<1>2. StoreInv' /\ phase' = "merged" /\ OrderOK' /\ DictionaryOK'
  BY <1>1, StoreStepInv, WriterFrame, DictionaryStays
<1>3. \A k : Template(k)' = Template(k)
  BY WriterFrame
<1>4. WrittenTemplates' = WrittenTemplates
  BY <1>3 DEF WrittenTemplates, Part, IsConstant
<1>5. \A k : ColumnFile(Template(k))' = ColumnFile(Template(k))
  <2> TAKE k
  <2>2. IterColumns(Template(k))' = IterColumns(Template(k))
    BY <1>3
  <2>3. FlattenSeq(IterColumns(Template(k)))' = FlattenSeq(IterColumns(Template(k)))
    BY <2>2
  <2> QED
    BY <2>3 DEF ColumnFile
<1> QED
  BY <1>2, <1>3, <1>4, <1>5

LEMMA EndDictionaryKeepsInv ==
  ASSUME WriterInv, NewIdsFresh, EndDictionary
  PROVE  WriterInv'
<1>1. /\ stage = "dictionary" /\ stage' = "templates" /\ left = {}
      /\ UNCHANGED <<vars, order, term_templates, left, new_id, old_to_new, written>>
      /\ disk' = [disk EXCEPT !.values = ValueBlocks(disk.dictionary)]
      /\ disk = [dictionary |-> disk.dictionary, values |-> disk.values,
                 templates |-> disk.templates, columns |-> disk.columns]
      /\ written = 0 /\ disk.columns = << >>
  BY DEF EndDictionary, WriterInv
<1>2. /\ disk' = [dictionary |-> disk.dictionary, values |-> ValueBlocks(disk.dictionary),
                  templates |-> disk.templates, columns |-> disk.columns]
  BY <1>1
<1>3. StoreInv' /\ phase' = "merged" /\ OrderOK' /\ DictionaryOK'
  BY <1>1, <1>2, AfterDictionary
<1>4. disk'.values = ValueBlocks(disk'.dictionary)
  BY <1>2
<1>5. ValueBlocks(disk.dictionary)' = ValueBlocks(disk'.dictionary)
  OBVIOUS
<1> QED
  BY <1>1, <1>2, <1>3, <1>4, <1>5 DEF WriterInv

LEMMA WriteTemplatesKeepsInv ==
  ASSUME WriterInv, NewIdsFresh, WriteTemplates
  PROVE  WriterInv'
<1>1. /\ stage = "templates" /\ stage' = "columns"
      /\ UNCHANGED <<vars, order, term_templates, left, new_id, old_to_new, written>>
      /\ disk' = [disk EXCEPT !.templates = WrittenTemplates]
      /\ disk = [dictionary |-> disk.dictionary, values |-> disk.values,
                 templates |-> disk.templates, columns |-> disk.columns]
      /\ written = 0 /\ disk.columns = << >> /\ OrderOK
      /\ left = {} /\ disk.values = ValueBlocks(disk.dictionary)
  BY DEF WriteTemplates, WriterInv, WrittenTemplates
<1>2. /\ disk' = [dictionary |-> disk.dictionary, values |-> disk.values,
                  templates |-> WrittenTemplates, columns |-> disk.columns]
  BY <1>1
<1>3. StoreInv' /\ phase' = "merged" /\ OrderOK' /\ DictionaryOK' /\ WrittenTemplates' = WrittenTemplates
  BY <1>1, <1>2, AfterDictionary
<1>4. FilesOK'
  <2>1. disk'.columns = << >> /\ written' = 0
    BY <1>1, <1>2
  <2>2. DOMAIN << >> = 1 .. 0 /\ 1 .. 0 = {} /\ << >> = [k \in 1 .. 0 |-> << >>[k]]
    OBVIOUS
  <2>3. 0 \in 0 .. Len(order)'
    BY <1>3 DEF OrderOK
  <2> QED
    BY <2>1, <2>2, <2>3 DEF FilesOK
<1>5. disk'.values = ValueBlocks(disk.dictionary)' /\ disk'.dictionary = disk.dictionary
  BY <1>1, <1>2
<1> QED
  BY <1>1, <1>2, <1>3, <1>4, <1>5 DEF WriterInv

LEMMA WriteColumnKeepsInv ==
  ASSUME WriterInv, NewIdsFresh, WriteColumn
  PROVE  WriterInv'
<1>1. /\ stage = "columns" /\ stage' = "columns" /\ written < Len(order) /\ written' = written + 1
      /\ UNCHANGED <<vars, order, term_templates, left, new_id, old_to_new>>
      /\ disk' = [disk EXCEPT !.columns = Append(@, ColumnFile(Template(written + 1)))]
      /\ disk = [dictionary |-> disk.dictionary, values |-> disk.values,
                 templates |-> disk.templates, columns |-> disk.columns]
      /\ OrderOK /\ FilesOK /\ disk.templates = WrittenTemplates
      /\ left = {} /\ disk.values = ValueBlocks(disk.dictionary)
  <2>1. Template(written') = Template(written + 1)
    BY DEF WriteColumn
  <2> QED
    BY <2>1 DEF WriteColumn, WriterInv
<1> DEFINE file == ColumnFile(Template(written + 1))
<1>2. /\ disk' = [dictionary |-> disk.dictionary, values |-> disk.values,
                  templates |-> disk.templates, columns |-> Append(disk.columns, file)]
  BY <1>1
<1>3. /\ StoreInv' /\ phase' = "merged" /\ OrderOK' /\ DictionaryOK' /\ WrittenTemplates' = WrittenTemplates
      /\ \A k : ColumnFile(Template(k))' = ColumnFile(Template(k))
  BY <1>1, <1>2, AfterDictionary
<1>4. FilesOK'
  <2>1. /\ written \in Nat /\ Len(order) \in Nat /\ written' \in 0 .. Len(order)'
        /\ disk.columns = [k \in 1 .. written |-> disk.columns[k]]
        /\ \A k \in 1 .. written : disk.columns[k] = ColumnFile(Template(k))
    BY <1>1 DEF FilesOK, OrderOK
  <2> HIDE DEF file
  <2>2. Len(disk.columns) = written
    BY <2>1
  <2>3. Append(disk.columns, file) =
          [k \in 1 .. written + 1 |-> IF k = written + 1 THEN file ELSE disk.columns[k]]
    BY <2>1, <2>2 DEF Append
  <2> DEFINE new == Append(disk.columns, file)
  <2>4. /\ DOMAIN new = 1 .. written + 1
        /\ new = [k \in 1 .. written + 1 |-> new[k]]
        /\ \A k \in 1 .. written : new[k] = disk.columns[k]
        /\ new[written + 1] = file
    BY <2>1, <2>3
  <2>5. \A k \in 1 .. written + 1 : new[k] = ColumnFile(Template(k))
    BY <2>1, <2>4 DEF file
  <2>6. disk'.columns = new
    BY <1>2 DEF file
  <2> HIDE DEF new
  <2> QED
    BY <1>1, <1>3, <2>1, <2>4, <2>5, <2>6 DEF FilesOK
<1>5. disk'.values = ValueBlocks(disk.dictionary)' /\ disk'.dictionary = disk.dictionary
  BY <1>1, <1>2
<1> QED
  BY <1>1, <1>2, <1>3, <1>4, <1>5 DEF WriterInv

LEMMA EndColumnsKeepsInv ==
  ASSUME WriterInv, NewIdsFresh, EndColumns
  PROVE  WriterInv'
<1>1. /\ stage = "columns" /\ stage' = "done" /\ written = Len(order)
      /\ UNCHANGED <<vars, order, term_templates, left, new_id, old_to_new, written, disk>>
      /\ FilesOK /\ disk.templates = WrittenTemplates
  BY DEF EndColumns, WriterInv
<1>2. /\ StoreInv' /\ phase' = "merged" /\ OrderOK' /\ DictionaryOK' /\ WrittenTemplates' = WrittenTemplates
      /\ \A k : ColumnFile(Template(k))' = ColumnFile(Template(k))
  BY <1>1, AfterDictionary
<1>3. FilesOK'
  BY <1>1, <1>2 DEF FilesOK
<1>4. ValueBlocks(disk.dictionary)' = ValueBlocks(disk.dictionary)
  BY <1>1
<1> QED
  BY <1>1, <1>2, <1>3, <1>4 DEF WriterInv

LEMMA WriterStutterKeepsInv ==
  ASSUME WriterInv, NewIdsFresh, UNCHANGED allVars
  PROVE  WriterInv'
<1>1. /\ UNCHANGED <<vars, order, term_templates, left, new_id, old_to_new, written, disk, stage>>
      /\ StoreInv /\ [Next]_vars
  BY DEF allVars, writerVars, WriterInv
<1>2. StoreInv' /\ phase' = phase
  BY <1>1, StoreStepInv DEF vars, patternVars
<1>3. CASE stage \in {"idle", "index terms"}
  BY <1>1, <1>2, <1>3, WriterFrame DEF WriterInv
<1>4. CASE stage \notin {"idle", "index terms"}
  <2>1. /\ OrderOK' /\ DictionaryOK' /\ WrittenTemplates' = WrittenTemplates
        /\ \A k : ColumnFile(Template(k))' = ColumnFile(Template(k))
    BY <1>1, <1>4, AfterDictionary
  <2>2. FilesOK => FilesOK'
    BY <1>1, <2>1 DEF FilesOK
  <2>3. ValueBlocks(disk.dictionary)' = ValueBlocks(disk.dictionary)
    BY <1>1
  <2> QED
    BY <1>1, <1>2, <1>4, <2>1, <2>2, <2>3 DEF WriterInv
<1> QED
  BY <1>3, <1>4

(***************************************************************************)
(* The inductive invariant of index() as a whole, up to the files.         *)
(***************************************************************************)
THEOREM WriterInvariant == WriterSpec /\ []NewIdsFresh => []WriterInv
<1>1. WriterInit => WriterInv
  BY WriterInitInv
<1>2. WriterInv /\ NewIdsFresh /\ [WriterNext]_allVars => WriterInv'
  BY ReorganiseKeepsInv, AssignKeepsInv, TermIdIdxKeepsInv, WriteTermKeepsInv,
     EndDictionaryKeepsInv, WriteTemplatesKeepsInv, WriteColumnKeepsInv, EndColumnsKeepsInv,
     WriterStutterKeepsInv DEF WriterNext, Write, Done
<1> QED BY <1>1, <1>2, PTL DEF WriterSpec

-----------------------------------------------------------------------------
(* What the files hold.                                                    *)

(* The dictionary's terms are strictly ascending, whatever the order in    *)
(* which term_id_idx and the buffer give the entries.                      *)
THEOREM DictionaryStaysSorted == WriterSpec /\ []NewIdsFresh => []DictionarySorted
<1>1. WriterInv => DictionarySorted
  <2> SUFFICES ASSUME WriterInv PROVE DictionarySorted
    OBVIOUS
  <2>1. CASE stage \in {"idle", "index terms"}
    <3>0. disk.dictionary = << >>
      BY <2>1 DEF WriterInv
    <3>1. DOMAIN disk.dictionary = {}
      BY <3>0
    <3> QED
      BY <3>1 DEF DictionarySorted
  <2>2. CASE stage \notin {"idle", "index terms"}
    <3>1. /\ disk.dictionary \in Seq(Entries) /\ new_id = Len(disk.dictionary)
          /\ \A m, n \in 1 .. new_id :
               m < n => Rank[disk.dictionary[m].term] < Rank[disk.dictionary[n].term]
      BY <2>2 DEF WriterInv, DictionaryOK
    <3>2. DOMAIN disk.dictionary = 1 .. new_id
      BY <3>1, LenProperties
    <3> QED
      BY <3>1, <3>2 DEF DictionarySorted
  <2> QED
    BY <2>1, <2>2
<1> QED
  BY <1>1, WriterInvariant, PTL

\* Where the cells of a column file come from.
LEMMA FileFacts ==
  ASSUME WriterInv, stage # "idle", NEW k \in 1 .. Len(order)
  PROVE  LET cells == FlattenSeq(IterColumns(Template(k)))
         IN  /\ cells \in Seq(Nat)
             /\ \A p \in 1 .. Len(cells) :
                  \E n \in 1 .. NumVariables(Template(k)) : \E r \in 1 .. Template(k).num_docs :
                    cells[p] = IterColumns(Template(k))[n][r]
             /\ \A n \in 1 .. NumVariables(Template(k)) : \A r \in 1 .. Template(k).num_docs :
                  \E p \in 1 .. Len(cells) : cells[p] = IterColumns(Template(k))[n][r]
<1> DEFINE columns == IterColumns(Template(k))
           cells == FlattenSeq(columns)
           N == NumVariables(Template(k))
           rows == Template(k).num_docs
<1>1. columns \in Seq(Seq(Nat)) /\ Len(columns) = N /\ N \in Nat
  BY MergedGroup, IterFacts, VariableAtFacts DEF GroupOK
<1>2. PICK ends : cells \in Seq(Nat) /\ IsFlat(cells, columns, ends)
  BY <1>1, FlattenIs
<1>3. \A n \in 1 .. N : Len(columns[n]) = rows
  <2>1. Template(k) \in Groups /\ ColumnsOwned(Template(k))
        /\ \A c \in 1 .. Len(Template(k).columns) : Len(Template(k).columns[c]) = rows
    BY MergedGroup DEF GroupOK
  <2> TAKE n \in 1 .. N
  <2>2. /\ VariableAt(Template(k), n) \in 1 .. Len(Template(k).tokens)
        /\ IsVariable(Template(k).tokens[VariableAt(Template(k), n)])
    BY <2>1, VariableAtFacts
  <2>3. columns[n] = Template(k).columns[Template(k).tokens[VariableAt(Template(k), n)].column_index]
    BY <2>1, IterFacts
  <2> QED
    BY <2>1, <2>2, <2>3, CellFacts
<1> HIDE DEF columns, N, rows, cells
<1>4. /\ \A i \in 1 .. N : \A j \in 1 .. rows :
           /\ ends[i - 1] \in Nat /\ ends[i] <= Len(cells) /\ ends[i] = ends[i - 1] + rows
           /\ cells[ends[i - 1] + j] = columns[i][j]
      /\ \A p \in 1 .. Len(cells) :
           \E i \in 1 .. N : \E j \in 1 .. rows : p = ends[i - 1] + j
  <2>1. \A i \in 1 .. N : i - 1 \in 0 .. N
    BY <1>1
  <2>2. /\ \A i \in 0 .. N : ends[i] \in Nat
        /\ \A i \in 1 .. N :
             /\ ends[i] = ends[i - 1] + Len(columns[i]) /\ ends[i] <= Len(cells)
             /\ \A j \in 1 .. Len(columns[i]) : cells[ends[i - 1] + j] = columns[i][j]
        /\ \A p \in 1 .. Len(cells) :
             \E i \in 1 .. N : \E j \in 1 .. Len(columns[i]) : p = ends[i - 1] + j
    BY <1>1, <1>2 DEF IsFlat
  <2>3. ASSUME NEW i \in 1 .. N, NEW j \in 1 .. rows
        PROVE  /\ ends[i - 1] \in Nat /\ ends[i] <= Len(cells) /\ ends[i] = ends[i - 1] + rows
               /\ cells[ends[i - 1] + j] = columns[i][j]
    BY <1>3, <2>1, <2>2
  <2>4. ASSUME NEW p \in 1 .. Len(cells)
        PROVE  \E i \in 1 .. N : \E j \in 1 .. rows : p = ends[i - 1] + j
    BY <1>3, <2>2
  <2> QED
    BY <2>3, <2>4
<1>5. ASSUME NEW n \in 1 .. N, NEW r \in 1 .. rows
      PROVE  \E p \in 1 .. Len(cells) : cells[p] = columns[n][r]
  <2>1. /\ ends[n - 1] \in Nat /\ ends[n] <= Len(cells) /\ ends[n] = ends[n - 1] + rows
        /\ cells[ends[n - 1] + r] = columns[n][r]
    BY <1>4
  <2>2. rows \in Nat /\ Len(cells) \in Nat
    <3>1. Template(k) \in Groups
      BY MergedGroup DEF GroupOK
    <3> QED
      BY <1>2, <3>1, GroupFields, LenProperties DEF rows
  <2>3. r \in Nat /\ 1 <= r /\ r <= rows
    BY <2>2
  <2>4. ends[n - 1] + r \in 1 .. Len(cells)
    BY <2>1, <2>2, <2>3
  <2> QED
    BY <2>1, <2>4
<1>6. ASSUME NEW p \in 1 .. Len(cells)
      PROVE  \E n \in 1 .. N : \E r \in 1 .. rows : cells[p] = columns[n][r]
  BY <1>4
<1>7. cells \in Seq(Nat)
  BY <1>2
<1> QED
  BY <1>5, <1>6, <1>7 DEF columns, cells, N, rows

\* The new id of a cell is the ordinal of its term, that lists the template.
LEMMA CellIsMapped ==
  ASSUME WriterInv, stage \in {"templates", "columns", "done"}, NEW k \in 1 .. Len(order),
         NEW n \in 1 .. NumVariables(Template(k)), NEW r \in 1 .. Template(k).num_docs
  PROVE  LET id    == IterColumns(Template(k))[n][r]
             entry == disk.dictionary[old_to_new[id] + 1]
         IN  /\ id \in Ids /\ old_to_new[id] \in 0 .. Len(disk.dictionary) - 1
             /\ Stored(term_map, id, entry.term) /\ k - 1 \in entry.template_ids
<1> DEFINE id == IterColumns(Template(k))[n][r]
<1>1. /\ left = {} /\ DictionaryOK /\ OrderOK
  BY DEF WriterInv
<1>2. id \in Ids /\ Holds(k, id)
  BY CellIsId, HoldsFacts
<1> HIDE DEF id
<1>3. k - 1 \in TemplatesWith(id)
  BY <1>1, <1>2, TemplateIdsAreNumbers
<1>4. ~Unwritten(id)
  BY <1>1 DEF Unwritten
<1>5. IdMapped(id) /\ new_id = Len(disk.dictionary)
  BY <1>1, <1>2, <1>3, <1>4 DEF DictionaryOK
<1> QED
  BY <1>2, <1>3, <1>5 DEF IdMapped, id

(* Every cell of every column file names, by ordinal, the term that its    *)
(* term id stood for, and that term's entry lists the template.            *)
THEOREM CellsNameTerms == WriterSpec /\ []NewIdsFresh => []CellsNameTheirTerms
<1>1. WriterInv => CellsNameTheirTerms
  <2> SUFFICES ASSUME WriterInv, NEW k \in 1 .. written,
                      NEW p \in 1 .. Len(FlattenSeq(IterColumns(Template(k))))
               PROVE  LET cells   == FlattenSeq(IterColumns(Template(k)))
                          ordinal == disk.columns[k][p]
                          entry   == disk.dictionary[ordinal + 1]
                      IN  /\ ordinal < Len(disk.dictionary)
                          /\ Stored(term_map, cells[p], entry.term)
                          /\ k - 1 \in entry.template_ids
    BY DEF CellsNameTheirTerms
  <2> DEFINE cells == FlattenSeq(IterColumns(Template(k)))
  <2>1. stage \in {"columns", "done"} /\ FilesOK /\ OrderOK
    <3>1. written # 0
      OBVIOUS
    <3> QED
      BY <3>1 DEF WriterInv
  <2>2. k \in 1 .. Len(order) /\ disk.columns[k] = ColumnFile(Template(k))
    BY <2>1 DEF FilesOK, OrderOK
  <2>3. PICK n \in 1 .. NumVariables(Template(k)) : \E r \in 1 .. Template(k).num_docs :
          cells[p] = IterColumns(Template(k))[n][r]
    BY <2>1, <2>2, FileFacts
  <2>4. PICK r \in 1 .. Template(k).num_docs : cells[p] = IterColumns(Template(k))[n][r]
    BY <2>3
  <2>5. disk.columns[k][p] = old_to_new[cells[p]]
    BY <2>2 DEF ColumnFile
  <2>6. /\ old_to_new[cells[p]] \in 0 .. Len(disk.dictionary) - 1
        /\ Stored(term_map, cells[p], disk.dictionary[old_to_new[cells[p]] + 1].term)
        /\ k - 1 \in disk.dictionary[old_to_new[cells[p]] + 1].template_ids
    BY <2>1, <2>2, <2>4, CellIsMapped
  <2>7. Len(disk.dictionary) \in Nat
    BY <2>1, LenProperties DEF WriterInv, DictionaryOK
  <2> HIDE DEF cells
  <2>8. old_to_new[cells[p]] < Len(disk.dictionary)
    BY <2>6, <2>7
  <2> QED
    BY <2>5, <2>6, <2>8 DEF cells
<1> QED
  BY <1>1, WriterInvariant, PTL

(* No template is listed for a term that none of its rows holds.           *)
THEOREM EntriesKeepRows == WriterSpec /\ []NewIdsFresh => []EntriesHaveRows
<1>1. WriterInv => EntriesHaveRows
  <2> SUFFICES ASSUME WriterInv, stage = "done", NEW d \in DOMAIN disk.dictionary,
                      NEW t \in disk.dictionary[d].template_ids
               PROVE  d - 1 \in Range(disk.columns[t + 1])
    BY DEF EntriesHaveRows
  <2>1. FilesOK /\ OrderOK /\ DictionaryOK /\ written = Len(order)
    BY DEF WriterInv
  <2>2. d \in 1 .. new_id
    BY <2>1, LenProperties DEF DictionaryOK
  <2>3. PICK id \in Ids : ListedFor(d, t, id)
    BY <2>1, <2>2 DEF DictionaryOK
  <2> DEFINE k == t + 1
             cells == FlattenSeq(IterColumns(Template(k)))
  <2>4. k \in 1 .. Len(order) /\ Holds(k, id) /\ old_to_new[id] = d - 1
    BY <2>1, <2>3, TemplateIdsAreNumbers DEF ListedFor
  <2> HIDE DEF k
  <2>5. PICK n \in 1 .. NumVariables(Template(k)) : \E r \in 1 .. Template(k).num_docs :
          IterColumns(Template(k))[n][r] = id
    BY <2>4, HoldsFacts
  <2>6. PICK r \in 1 .. Template(k).num_docs : IterColumns(Template(k))[n][r] = id
    BY <2>5
  <2>7. PICK p \in 1 .. Len(cells) : cells[p] = id
    BY <2>4, <2>6, FileFacts
  <2>8. disk.columns[k] = [q \in 1 .. Len(cells) |-> old_to_new[cells[q]]]
    BY <2>1, <2>4 DEF FilesOK, ColumnFile
  <2>9. disk.columns[k][p] = d - 1 /\ p \in DOMAIN disk.columns[k]
    <3> HIDE DEF cells
    <3> QED
      BY <2>4, <2>7, <2>8
  <2> QED
    BY <2>9 DEF Range, k
<1> QED
  BY <1>1, WriterInvariant, PTL

-----------------------------------------------------------------------------
(* index() comes nearer to its end.                                        *)

\* What is left to do of index(), ordered as ToGo is.
IndexToGo ==
  CASE stage = "idle"        -> <<ToGo[1] + 5, ToGo[2], ToGo[3], ToGo[4], ToGo[5]>>
    [] stage = "index terms" -> <<4, 0, 0, 0, 0>>
    [] stage = "dictionary"  -> <<3, Cardinality(left), 0, 0, 0>>
    [] stage = "templates"   -> <<2, 0, 0, 0, 0>>
    [] stage = "columns"     -> <<1, Len(order) - written, 0, 0, 0>>
    [] stage = "done"        -> <<0, 0, 0, 0, 0>>

\* A step of the writer leaves the groups alone.
LEMMA WriterStepIsStep ==
  ASSUME [WriterNext]_allVars
  PROVE  [Next]_vars
BY DEF WriterNext, Reorganise, Next, Write, Done, AssignTemplateIds, TermIdIdx, WriteTerm,
       EndDictionary, WriteTemplates, WriteColumn, EndColumns, allVars

\* The entries left to write are as many as their ids at most.
LEMMA LeftFinite ==
  ASSUME WriterInv, stage = "dictionary"
  PROVE  IsFiniteSet(left) /\ Cardinality(left) \in Nat
<1>1. /\ DictionaryOK /\ phase = "merged" /\ StoreInv
  BY DEF WriterInv
<1>2. TermIdsSound /\ term_map.next_term_id \in Nat
  BY <1>1, MergedTerms
<1> DEFINE f == [e \in left |-> e.id]
<1>3. \A e \in left : e \in [text : Texts, id : Ids] /\ Stored(term_map, e.id, e.text)
  BY <1>1 DEF DictionaryOK
<1>4. ASSUME NEW d \in left, NEW e \in left, d.id = e.id PROVE d = e
  <2>1. d.text = e.text
    BY <1>2, <1>3, <1>4 DEF TermIdsSound, IdsNameOneTerm, Ids
  <2>2. d = [text |-> d.text, id |-> d.id] /\ e = [text |-> e.text, id |-> e.id]
    BY <1>3
  <2> QED
    BY <1>4, <2>1, <2>2
<1>5. f \in Injection(left, Ids)
  <2>1. f \in [left -> Ids]
    BY <1>3
  <2>2. \A d, e \in left : f[d] = f[e] => d = e
    BY <1>4
  <2> HIDE DEF f
  <2> QED
    BY <2>1, <2>2 DEF Injection, IsInjective
<1>6. IsFiniteSet(Ids)
  BY <1>2, FS_Interval DEF Ids
<1> HIDE DEF f
<1> QED
  BY <1>5, <1>6, FS_Injection, FS_CardinalityType

\* A term that is written takes its entries with it.
LEMMA WriteTermShrinks ==
  ASSUME WriterInv, NEW text \in Texts, WriteTerm(text)
  PROVE  Cardinality(left') < Cardinality(left)
<1>1. /\ stage = "dictionary" /\ OldIds(text) # {} /\ left' = LeftAfter(OldIds(text))
  BY DEF WriteTerm
<1>2. IsFiniteSet(left) /\ Cardinality(left) \in Nat
  BY <1>1, LeftFinite
<1>3. PICK e \in left : e.text = text
  BY <1>1 DEF OldIds
<1>4. left' \in SUBSET (left \ {e})
  BY <1>1, <1>3 DEF LeftAfter, OldIds
<1>5. IsFiniteSet(left \ {e}) /\ Cardinality(left \ {e}) = Cardinality(left) - 1
  BY <1>2, FS_RemoveElement
<1>6. IsFiniteSet(left') /\ Cardinality(left') <= Cardinality(left \ {e})
  BY <1>4, <1>5, FS_Subset
<1>7. Cardinality(left') \in Nat
  BY <1>6, FS_CardinalityType
<1> QED
  BY <1>2, <1>5, <1>6, <1>7

\* As long as nothing is written, what counts is what the groups have to do.
LEMMA ShiftedLess ==
  ASSUME NEW a \in [1 .. 5 -> Nat], NEW b \in [1 .. 5 -> Nat], Less(a, b)
  PROVE  Less(<<a[1] + 5, a[2], a[3], a[4], a[5]>>, <<b[1] + 5, b[2], b[3], b[4], b[5]>>)
<1>1. PICK k \in 1 .. 5 : a[k] < b[k] /\ \A j \in 1 .. k - 1 : a[j] = b[j]
  BY DEF Less
<1>2. a[1] \in Nat /\ b[1] \in Nat
  OBVIOUS
<1>3. CASE k = 1
  BY <1>1, <1>2, <1>3, LessAt
<1>4. CASE k = 2
  BY <1>1, <1>4, LessAt
<1>5. CASE k = 3
  BY <1>1, <1>5, LessAt
<1>6. CASE k = 4
  BY <1>1, <1>6, LessAt
<1>7. CASE k = 5
  BY <1>1, <1>7, LessAt
<1> QED
  BY <1>3, <1>4, <1>5, <1>6, <1>7

LEMMA WriteNearer ==
  ASSUME WriterInv, CursorsOK, Write
  PROVE  Less(IndexToGo', IndexToGo)
<1>1. CASE \E ids \in SetToSeqs(DOMAIN groups) : AssignTemplateIds(ids)
  <2>1. /\ stage = "idle" /\ stage' = "index terms" /\ phase = "merged"
    BY <1>1 DEF AssignTemplateIds
  <2>2. IndexToGo = <<5, 0, 0, 0, 0>>
    <3>1. ToGo = <<0, 0, 0, 0, 0>>
      BY <2>1 DEF ToGo
    <3>2. /\ ToGo[1] + 5 = 5 /\ ToGo[2] = 0 /\ ToGo[3] = 0 /\ ToGo[4] = 0 /\ ToGo[5] = 0
      BY <3>1
    <3>3. IndexToGo = <<ToGo[1] + 5, ToGo[2], ToGo[3], ToGo[4], ToGo[5]>>
      BY <2>1 DEF IndexToGo
    <3> QED
      BY <3>2, <3>3
  <2>3. IndexToGo' = <<4, 0, 0, 0, 0>>
    BY <2>1 DEF IndexToGo
  <2> QED
    BY <2>2, <2>3, LessAt
<1>2. CASE TermIdIdx
  <2>1. stage = "index terms" /\ stage' = "dictionary"
    BY <1>2 DEF TermIdIdx
  <2>2. /\ IndexToGo = <<4, 0, 0, 0, 0>>
        /\ IndexToGo' = <<3, Cardinality(left'), 0, 0, 0>>
    BY <2>1 DEF IndexToGo
  <2> QED
    BY <2>2, LessAt
<1>3. ASSUME NEW text \in Texts, WriteTerm(text) PROVE Less(IndexToGo', IndexToGo)
  <2>1. stage = "dictionary" /\ stage' = "dictionary"
    BY <1>3 DEF WriteTerm
  <2>2. Cardinality(left') < Cardinality(left)
    BY <1>3, WriteTermShrinks
  <2> QED
    BY <2>1, <2>2, LessAt DEF IndexToGo
<1>4. CASE EndDictionary
  <2>1. stage = "dictionary" /\ stage' = "templates"
    BY <1>4 DEF EndDictionary
  <2> QED
    BY <2>1, LessAt DEF IndexToGo
<1>5. CASE WriteTemplates
  <2>1. stage = "templates" /\ stage' = "columns"
    BY <1>5 DEF WriteTemplates
  <2> QED
    BY <2>1, LessAt DEF IndexToGo
<1>6. CASE WriteColumn
  <2>1. stage = "columns" /\ stage' = "columns" /\ order' = order /\ written' = written + 1
    BY <1>6 DEF WriteColumn
  <2>2. written \in Nat /\ Len(order) \in Nat
    BY <2>1 DEF WriterInv, FilesOK, OrderOK
  <2>3. Len(order') - written' < Len(order) - written
    BY <2>1, <2>2
  <2> QED
    BY <2>1, <2>3, LessAt DEF IndexToGo
<1>7. CASE EndColumns
  <2>1. stage = "columns" /\ stage' = "done"
    BY <1>7 DEF EndColumns
  <2> QED
    BY <2>1, LessAt DEF IndexToGo
<1> QED
  BY <1>1, <1>2, <1>3, <1>4, <1>5, <1>6, <1>7 DEF Write

LEMMA IndexToGoNat ==
  ASSUME WriterInv, CursorsOK
  PROVE  IndexToGo \in [1 .. 5 -> Nat]
<1>0. \A a, b, c, d, e \in Nat : <<a, b, c, d, e>> \in [1 .. 5 -> Nat]
  OBVIOUS
<1>1. CASE stage = "idle"
  <2>1. ToGo \in [1 .. 5 -> Nat]
    BY ToGoNat DEF WriterInv, StoreInv
  <2>2. IndexToGo = <<ToGo[1] + 5, ToGo[2], ToGo[3], ToGo[4], ToGo[5]>>
    BY <1>1 DEF IndexToGo
  <2>3. /\ ToGo[1] + 5 \in Nat /\ ToGo[2] \in Nat /\ ToGo[3] \in Nat
        /\ ToGo[4] \in Nat /\ ToGo[5] \in Nat
    BY <2>1
  <2> QED
    BY <1>0, <2>2, <2>3
<1>2. CASE stage = "dictionary"
  BY <1>0, <1>2, LeftFinite DEF IndexToGo
<1>3. CASE stage = "columns"
  <2>1. Len(order) - written \in Nat
    BY <1>3 DEF WriterInv, FilesOK, OrderOK
  <2> QED
    BY <1>0, <1>3, <2>1 DEF IndexToGo
<1>4. CASE stage \in {"index terms", "templates", "done"}
  BY <1>0, <1>4 DEF IndexToGo
<1> QED
  BY <1>1, <1>2, <1>3, <1>4 DEF WriterInv

LEMMA ReorganiseNearer ==
  ASSUME WriterInv, NewIdsFresh, CursorsOK, Reorganise, (ToGo \in [1 .. 5 -> Nat])'
  PROVE  CursorsOK' /\ (vars' # vars => Less(IndexToGo', IndexToGo))
<1>1. PatternsInv /\ [Next]_vars /\ UNCHANGED writerVars
  BY DEF WriterInv, StoreInv, Reorganise, Next
<1>2. CursorsOK' /\ (vars' # vars => Nearer)
  BY <1>1, NearerStep
<1>3. PatternsInv'
  BY <1>1, FreshWhenMerged, PatternsStepInv
<1>4. ASSUME vars' # vars PROVE Less(IndexToGo', IndexToGo)
  <2>1. stage' = stage /\ Less(ToGo', ToGo)
    BY <1>1, <1>2, <1>4 DEF writerVars, Nearer
  <2>2. stage = "idle"
    <3>1. phase # "merged"
      <4>1. phase = "merged" => work = Idle
        BY <1>1 DEF PatternsInv
      <4> QED
        BY <4>1 DEF Reorganise, Ingest, EndOfInput, Split, Merge, SplitGroup, MoveTerm,
            SplitNextToken, SplitGroupDone, InsertSplitGroup, EndSplit, Classify, StartMerge,
            ConvertMember, ConvertNextToken, TakeFirst, AppendMember, InsertMerged, EndMerge,
            Splitting, Merging, Converting, Appending
    <3> QED
      BY <3>1 DEF WriterInv
  <2>3. ToGo \in [1 .. 5 -> Nat]
    BY <1>1, ToGoNat
  <2> QED
    BY <2>1, <2>2, <2>3, ShiftedLess DEF IndexToGo
<1> QED
  BY <1>2, <1>4

(***************************************************************************)
(* Every step of index() leaves less to do, from the first line to the     *)
(* last column file: each loop of the writer ends too, the one over the    *)
(* sorted terms because a term takes all its old ids with it, skipped or   *)
(* written.                                                                *)
(***************************************************************************)
THEOREM IndexNearsDone ==
  WriterSpec /\ []NewIdsFresh =>
    [](IndexToGo \in [1 .. 5 -> Nat]) /\ [][Less(IndexToGo', IndexToGo)]_allVars
<1>1. WriterInit => CursorsOK
  BY CursorsStart DEF WriterInit
<1>2. WriterInv /\ CursorsOK => ToGo \in [1 .. 5 -> Nat] /\ IndexToGo \in [1 .. 5 -> Nat]
  BY ToGoNat, IndexToGoNat DEF WriterInv, StoreInv
<1>3. WriterInv /\ NewIdsFresh /\ CursorsOK /\ [WriterNext]_allVars => CursorsOK'
  <2> SUFFICES ASSUME WriterInv, CursorsOK, [WriterNext]_allVars PROVE CursorsOK'
    OBVIOUS
  <2>1. PatternsInv /\ [Next]_vars
    BY WriterStepIsStep DEF WriterInv, StoreInv
  <2> QED
    BY <2>1, NearerStep
<1>4. WriterInv /\ NewIdsFresh /\ CursorsOK /\ (ToGo \in [1 .. 5 -> Nat])'
        /\ [WriterNext]_allVars => [Less(IndexToGo', IndexToGo)]_allVars
  <2> SUFFICES ASSUME WriterInv, NewIdsFresh, CursorsOK, (ToGo \in [1 .. 5 -> Nat])',
                      [WriterNext]_allVars
               PROVE  [Less(IndexToGo', IndexToGo)]_allVars
    OBVIOUS
  <2>1. CASE Reorganise
    BY <2>1, ReorganiseNearer DEF allVars, Reorganise
  <2>2. CASE Write
    BY <2>2, WriteNearer
  <2> QED
    BY <2>1, <2>2 DEF WriterNext, Done
<1> QED BY <1>1, <1>2, <1>3, <1>4, WriterInvariant, PTL DEF WriterSpec

-----------------------------------------------------------------------------
(* No lookup of the writer fails, and there is always a step.              *)

\* term_id_to_templates[term_id], old_to_new_id_map[old_id]: every cell of a
\* template and every entry that is left has an id that the tables have.
WriterLookupsSucceed ==
  stage # "idle" =>
    /\ \A k \in 1 .. Len(order) :
         /\ order[k] \in DOMAIN groups
         /\ \A n \in 1 .. NumVariables(Template(k)) : \A r \in 1 .. Template(k).num_docs :
              /\ IterColumns(Template(k))[n][r] \in 0 .. term_map.next_term_id - 1
              /\ stage # "index terms" =>
                   /\ IterColumns(Template(k))[n][r] \in DOMAIN term_templates
                   /\ IterColumns(Template(k))[n][r] \in DOMAIN old_to_new
    /\ stage # "index terms" =>
         \A e \in left : e.id \in DOMAIN term_templates /\ e.id \in DOMAIN old_to_new

(* The tables that are indexed by term ids have a place for every id there *)
(* is, whichever of the hash map, the buffer and the columns it is read in.*)
THEOREM WriterLookups == WriterSpec /\ []NewIdsFresh => []WriterLookupsSucceed
<1>1. WriterInv => WriterLookupsSucceed
  <2> SUFFICES ASSUME WriterInv, stage # "idle" PROVE WriterLookupsSucceed
    BY DEF WriterLookupsSucceed
  <2>1. OrderOK /\ phase = "merged" /\ (stage # "index terms" => DictionaryOK)
    BY DEF WriterInv
  <2>2. term_map.next_term_id \in Nat
    BY MergedTerms
  <2>3. stage # "index terms" =>
          /\ DOMAIN term_templates = Ids /\ Ids \subseteq DOMAIN old_to_new
          /\ \A e \in left : e.id \in Ids
    <3> SUFFICES ASSUME DictionaryOK
                 PROVE  /\ DOMAIN term_templates = Ids /\ Ids \subseteq DOMAIN old_to_new
                        /\ \A e \in left : e.id \in Ids
      BY <2>1
    <3>1. /\ term_templates = [id \in Ids |-> TemplatesWith(id)]
          /\ old_to_new = [id \in 0 .. term_map.next_term_id |-> old_to_new[id]]
          /\ \A e \in left : e \in [text : Texts, id : Ids]
      BY DEF DictionaryOK
    <3>2. DOMAIN old_to_new = 0 .. term_map.next_term_id
      BY <3>1
    <3> QED
      BY <2>2, <3>1, <3>2 DEF Ids
  <2>4. ASSUME NEW k \in 1 .. Len(order), NEW n \in 1 .. NumVariables(Template(k)),
               NEW r \in 1 .. Template(k).num_docs
        PROVE  IterColumns(Template(k))[n][r] \in Ids
    BY CellIsId
  <2> QED
    BY <2>1, <2>3, <2>4 DEF WriterLookupsSucceed, OrderOK, Ids
<1> QED
  BY <1>1, WriterInvariant, PTL

\* The guard of some action of the writer holds, or the groups are not merged.
WriterGoesOn ==
  /\ stage = "idle" => GoesOn
  /\ stage = "idle" /\ phase = "merged" =>                       \* AssignTemplateIds
       \E ids \in SetToSeqs(DOMAIN groups) :
         \A j, k \in DOMAIN ids : j < k => ids[j].num_tokens <= ids[k].num_tokens
  /\ stage = "dictionary" =>
       \/ \E text \in Texts : /\ OldIds(text) # {}               \* WriteTerm
                              /\ \A e \in left : Rank[text] <= Rank[e.text]
       \/ left = {}                                              \* EndDictionary
  /\ stage = "columns" => written < Len(order) \/ written = Len(order)
                                                                 \* WriteColumn, EndColumns

\* A finite set of groups can be put into the order of their buckets: a group
\* comes after those of fewer tokens and those of as many that it is numbered
\* after.
LEMMA BucketOrder ==
  ASSUME NEW S \in SUBSET GroupIds, IsFiniteSet(S)
  PROVE  \E ids \in SetToSeqs(S) :
           \A j, k \in DOMAIN ids : j < k => ids[j].num_tokens <= ids[k].num_tokens
<1> DEFINE N == Cardinality(S)
<1>1. PICK f \in SetToSeqs(S) : TRUE
  BY SomeOrder
<1>2. /\ N \in Nat /\ Len(f) = N
      /\ \A n \in 1 .. N : f[n] \in S
      /\ \A m, n \in 1 .. N : f[m] = f[n] => m = n
      /\ \A x \in S : \E n \in 1 .. N : f[n] = x
  BY SetToSeqsFacts
<1> HIDE DEF N
<1> DEFINE Before(a, b) == \/ f[a].num_tokens < f[b].num_tokens
                           \/ f[a].num_tokens = f[b].num_tokens /\ a <= b
           Upto(b) == {a \in 1 .. N : Before(a, b)}
           rank == [b \in 1 .. N |-> Cardinality(Upto(b))]
<1>3. \A n \in 1 .. N : f[n].num_tokens \in Nat /\ n \in Nat
  BY <1>2 DEF GroupIds
<1>4. IsFiniteSet(1 .. N) /\ Cardinality(1 .. N) = N
  BY <1>2, FS_Interval
<1>5. \A b \in 1 .. N : /\ Upto(b) \in SUBSET (1 .. N) /\ b \in Upto(b)
                        /\ IsFiniteSet(Upto(b)) /\ Cardinality(Upto(b)) \in Nat
                        /\ Cardinality(Upto(b)) <= N
  <2> TAKE b \in 1 .. N
  <2>1. Upto(b) \in SUBSET (1 .. N) /\ b \in Upto(b)
    BY <1>3
  <2> HIDE DEF Upto
  <2> QED
    BY <1>4, <2>1, FS_Subset, FS_CardinalityType
<1>6. ASSUME NEW a \in 1 .. N, NEW b \in 1 .. N, a # b, Before(a, b)
      PROVE  Cardinality(Upto(a)) < Cardinality(Upto(b))
  <2>1. ~Before(b, a)
    BY <1>3, <1>6
  <2>2. Upto(a) \subseteq Upto(b) /\ b \notin Upto(a)
    BY <1>3, <1>6, <2>1
  <2>3. Upto(a) # Upto(b) /\ IsFiniteSet(Upto(b)) /\ IsFiniteSet(Upto(a))
    BY <1>5, <2>2
  <2> HIDE DEF Upto
  <2>4. Cardinality(Upto(a)) <= Cardinality(Upto(b)) /\ Cardinality(Upto(a)) # Cardinality(Upto(b))
    BY <2>2, <2>3, FS_Subset
  <2> QED
    BY <1>5, <2>4
<1>7. \A a, b \in 1 .. N : Before(a, b) \/ Before(b, a)
  BY <1>3
<1>8. \A b \in 1 .. N : Cardinality(Upto(b)) \in 1 .. N
  <2> TAKE b \in 1 .. N
  <2>1. Upto(b) # {}
    BY <1>5
  <2> HIDE DEF Upto
  <2>2. Cardinality(Upto(b)) # 0
    BY <1>5, <2>1, FS_EmptySet
  <2> QED
    BY <1>2, <1>5, <2>2
<1> HIDE DEF Before, Upto
<1>9. /\ rank \in [1 .. N -> 1 .. N]
      /\ \A a, b \in 1 .. N : rank[a] = rank[b] => a = b
      /\ \A a, b \in 1 .. N : rank[a] < rank[b] => Before(a, b)
  <2>1. rank \in [1 .. N -> 1 .. N]
    BY <1>8
  <2>2. \A a, b \in 1 .. N : a # b /\ Before(a, b) => rank[a] < rank[b]
    BY <1>6
  <2>3. \A b \in 1 .. N : rank[b] \in Nat
    BY <1>5
  <2> HIDE DEF rank
  <2> QED
    BY <1>7, <2>1, <2>2, <2>3
<1> HIDE DEF rank
<1>10. \A n \in 1 .. N : \E b \in 1 .. N : rank[b] = n
  <2>1. rank \in Injection(1 .. N, 1 .. N)
    BY <1>9 DEF Injection, IsInjective
  <2>2. rank \in Surjection(1 .. N, 1 .. N)
    BY <1>4, <2>1, FS_Injection
  <2> QED
    BY <2>2 DEF Surjection
<1> DEFINE at  == [n \in 1 .. N |-> CHOOSE b \in 1 .. N : rank[b] = n]
           ids == [n \in 1 .. N |-> f[at[n]]]
<1>11. \A n \in 1 .. N : at[n] \in 1 .. N /\ rank[at[n]] = n
  BY <1>10
<1> HIDE DEF at
<1>12. ids \in [1 .. N -> S] /\ \A m, n \in 1 .. N : m # n => ids[m] # ids[n]
  BY <1>2, <1>11
<1>13. ids \in SetToSeqs(S)
  <2> HIDE DEF ids
  <2> QED
    BY <1>12 DEF SetToSeqs, N
<1>14. \A j, k \in 1 .. N : j < k => ids[j].num_tokens <= ids[k].num_tokens
  <2> SUFFICES ASSUME NEW j \in 1 .. N, NEW k \in 1 .. N, j < k
               PROVE  f[at[j]].num_tokens <= f[at[k]].num_tokens
    OBVIOUS
  <2>1. Before(at[j], at[k])
    BY <1>9, <1>11
  <2> QED
    BY <1>3, <1>11, <2>1 DEF Before
<1>15. DOMAIN ids = 1 .. N
  OBVIOUS
<1> HIDE DEF ids
<1> QED
  BY <1>13, <1>14, <1>15

(* Nor does the writer ever wait: with IndexNearsDone, index() returns if  *)
(* a step that can be taken is taken.                                      *)
THEOREM WriterAlwaysGoesOn == WriterSpec /\ []NewIdsFresh => []WriterGoesOn
<1>1. WriterInv /\ PatternsTypeInv => WriterGoesOn
  <2> SUFFICES ASSUME WriterInv, PatternsTypeInv PROVE WriterGoesOn
    OBVIOUS
  <2>1. stage = "idle" => GoesOn
    BY IngestHasStep, SplitHasStep, MergeHasStep DEF PatternsTypeInv, StoreInv, GoesOn
  <2>2. ASSUME phase = "merged"
        PROVE  \E ids \in SetToSeqs(DOMAIN groups) :
                 \A j, k \in DOMAIN ids : j < k => ids[j].num_tokens <= ids[k].num_tokens
    <3>1. DOMAIN groups \in SUBSET GroupIds /\ IsFiniteSet(DOMAIN groups)
      BY <2>2 DEF PatternsTypeInv, StoreInv, PatternsInv, StoreOK
    <3> QED
      BY <3>1, BucketOrder
  <2>3. ASSUME stage = "dictionary", left # {}
        PROVE  \E text \in Texts : OldIds(text) # {} /\ \A e \in left : Rank[text] <= Rank[e.text]
    <3>1. \A e \in left : e.text \in Texts /\ Rank[e.text] \in Nat
      BY <2>3, RankAssumption DEF WriterInv, DictionaryOK, RankAssumption
    <3> DEFINE ranks == {Rank[e.text] : e \in left}
    <3>2. PICK n \in ranks : \A m \in ranks : n <= m
      <4>1. ranks \in SUBSET Nat /\ ranks # {}
        BY <2>3, <3>1
      <4> HIDE DEF ranks
      <4> QED
        BY <4>1, LeastElement
    <3>3. PICK e \in left : Rank[e.text] = n
      OBVIOUS
    <3>4. e.id \in OldIds(e.text)
      BY DEF OldIds
    <3> QED
      BY <3>1, <3>2, <3>3, <3>4
  <2>4. stage = "columns" => written < Len(order) \/ written = Len(order)
    BY DEF WriterInv, FilesOK, OrderOK
  <2> QED
    BY <2>1, <2>2, <2>3, <2>4 DEF WriterGoesOn
<1>2. WriterInit => PatternsTypeInv
  BY TypesStart DEF WriterInit
<1>3. PatternsTypeInv /\ NewIdsFresh /\ [WriterNext]_allVars => PatternsTypeInv'
  BY TypesStay, WriterStepIsStep
<1> QED BY <1>1, <1>2, <1>3, WriterInvariant, PTL DEF WriterSpec

(* The tables of the writer have a place for every id below the counter:   *)
(* at most two for each token of the input, with the templates written too.*)
THEOREM WriterIdsBounded == WriterSpec /\ []NewIdsFresh => []TermIdsBounded
<1>1. WriterInit => IdsFromTokens
  BY IdsStart DEF WriterInit
<1>2. IdsFromTokens /\ WriterInv /\ [WriterNext]_allVars => IdsFromTokens'
  BY IdsStep, WriterStepIsStep DEF WriterInv
<1>3. IdsFromTokens /\ WriterInv => TermIdsBounded
  <2> SUFFICES ASSUME IdsFromTokens, WriterInv PROVE TermIdsBounded
    OBVIOUS
  <2>1. term_map \in TermMaps
    BY DEF WriterInv, StoreInv, PatternsInv, StoreOK, IngestInv, IngestTypeOK
  <2> QED
    BY <2>1, TwoIdsPerToken
<1> QED BY <1>1, <1>2, <1>3, WriterInvariant, PTL DEF WriterSpec

(* The groups that the writer starts from lie under ids of their own too,  *)
(* if the hashes keep the types of the run's groups and lines apart: what  *)
(* the theorems above assume of the ids comes from that.                   *)
THEOREM WriterIdsStayFresh == WriterSpec /\ []HashesApart => []NewIdsFresh
<1>1. WriterInit => FreshInv
  BY FreshInit DEF WriterInit
<1>2. PatternsInv /\ HashesApart /\ FreshInv /\ [WriterNext]_allVars => FreshInv'
  BY FreshStep, WriterStepIsStep
<1>3. FreshInv => PatternsInv
  BY DEF FreshInv, PatternsTypeInv, StoreInv
<1>4. HashesApart /\ FreshInv => NewIdsFresh
  BY ApartIsFresh
<1> QED
  BY <1>1, <1>2, <1>3, <1>4, PTL DEF WriterSpec
=============================================================================
