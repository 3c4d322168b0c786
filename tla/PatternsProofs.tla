--------------------------- MODULE PatternsProofs ---------------------------
(***************************************************************************)
(* Groups stay rectangular and readable while they are split and merged,   *)
(* merging is complete, and no document is lost, repeated or altered, for  *)
(* any input and thresholds.  First what each operation on a group does to *)
(* it, then where the groups are between any two steps, then which rows    *)
(* they have, then the steps of the bag of documents and the types.  Then  *)
(* the safety half of progress: every step comes nearer to the end, no     *)
(* lookup fails and there is always a step to take.  Last the two numbers  *)
(* that could run out or meet: term ids, and the ids of the groups, which  *)
(* stay fresh if the hashes are apart.  Until there the theorems take that *)
(* the ids are fresh as a hypothesis on the run.                           *)
(***************************************************************************)
EXTENDS Patterns, PreliminaryIndexProofs, WellFoundedInduction

-----------------------------------------------------------------------------
(* The rows that are retained.                                             *)

(* A set of natural numbers has a least element.                           *)
LEMMA LeastElement ==
  ASSUME NEW T \in SUBSET Nat, T # {}
  PROVE  \E x \in T : \A y \in T : x <= y
<1> DEFINE Less == {p \in Nat \X Nat : p[1] < p[2]}
<1>1. IsWellFoundedOn(OpToRel(<, Nat), Nat)
  BY NatLessThanWellFounded, Zenon
<1>2. OpToRel(<, Nat) = Less
  BY Zenon DEF OpToRel
<1>3. IsWellFoundedOn(Less, Nat)
  BY <1>1, <1>2
<1>4. PICK x \in T : \A y \in T : ~(<<y, x>> \in Less)
  <2> HIDE DEF Less
  <2> QED
    BY <1>3, WFMin
<1>5. \A y \in T : ~(y < x)
  BY <1>4
<1> QED
  BY <1>5

LEMMA FunctionIsSeq ==
  ASSUME NEW S, NEW n \in Nat, NEW f \in [1 .. n -> S]
  PROVE  f \in Seq(S) /\ Len(f) = n /\ DOMAIN f = 1 .. n
OBVIOUS

\* The row that comes n-th among those that are kept.
NthOf(keep, n) == CHOOSE r \in keep : Cardinality({s \in keep : s <= r}) = n

\* Every number up to the number of rows kept is the number of one of them.
LEMMA NthExists ==
  ASSUME NEW m \in Nat, NEW keep \in SUBSET (1 .. m)
  PROVE  /\ IsFiniteSet(keep) /\ Cardinality(keep) \in Nat
         /\ \A n \in 1 .. Cardinality(keep) :
              /\ NthOf(keep, n) \in keep
              /\ Cardinality({s \in keep : s <= NthOf(keep, n)}) = n
<1> DEFINE UpTo(x) == {s \in keep : s <= x}
<1>0. \A s \in keep : s \in Nat /\ s >= 1 /\ s <= m
  OBVIOUS
<1>1. IsFiniteSet(1 .. m)
  BY FS_Interval
<1>2. IsFiniteSet(keep) /\ Cardinality(keep) \in Nat
  BY <1>1, FS_Subset, FS_CardinalityType
<1>3. \A x \in Nat : IsFiniteSet(UpTo(x)) /\ Cardinality(UpTo(x)) \in Nat
  <2> TAKE x \in Nat
  <2>1. UpTo(x) \in SUBSET keep
    OBVIOUS
  <2> HIDE DEF UpTo
  <2> QED
    BY <1>2, <2>1, FS_Subset, FS_CardinalityType
<1>4. ASSUME NEW n \in 1 .. Cardinality(keep)
      PROVE  \E r \in keep : Cardinality(UpTo(r)) = n
  <2> DEFINE T == {x \in 0 .. m : Cardinality(UpTo(x)) >= n}
  <2>1. m \in T
    <3>1. UpTo(m) = keep
      BY <1>0
    <3> HIDE DEF UpTo
    <3> QED
      BY <1>2, <1>4, <3>1
  <2>2. PICK x \in T : \A y \in T : x <= y
    <3>1. T \in SUBSET Nat /\ T # {}
      <4>1. T \subseteq 0 .. m
        OBVIOUS
      <4>2. 0 .. m \subseteq Nat
        OBVIOUS
      <4> HIDE DEF T
      <4> QED
        BY <2>1, <4>1, <4>2
    <3> HIDE DEF T
    <3> QED
      BY <3>1, LeastElement
  <2>3. x \in 0 .. m /\ Cardinality(UpTo(x)) >= n /\ n >= 1
    BY <1>2, <1>4
  <2>4. x # 0
    <3>0. \A s \in keep : ~(s <= 0)
      BY <1>0
    <3>1. UpTo(0) = {}
      BY <3>0
    <3>2. Cardinality(UpTo(0)) = 0
      BY <3>1, FS_EmptySet
    <3> HIDE DEF UpTo
    <3> QED
      BY <2>3, <3>2
  <2>5. x - 1 \in Nat /\ ~(Cardinality(UpTo(x - 1)) >= n)
    <3>1. x - 1 \in 0 .. m /\ ~(x <= x - 1)
      BY <2>3, <2>4
    <3> HIDE DEF UpTo
    <3> QED
      BY <2>2, <3>1
  <2>6. UpTo(x) = UpTo(x - 1) \cup (IF x \in keep THEN {x} ELSE {})
    <3>1. x \in Nat /\ x - 1 \in Nat
      BY <2>3, <2>5
    <3>2. \A s \in keep : s <= x <=> s <= x - 1 \/ s = x
      BY <1>0, <3>1
    <3>3. x <= x
      BY <3>1
    <3> QED
      BY <3>2, <3>3
  <2>7. x \notin UpTo(x - 1)
    BY <2>3
  <2> HIDE DEF UpTo, T
  <2>8. x \in keep
    <3> SUFFICES ASSUME x \notin keep PROVE FALSE
      OBVIOUS
    <3>1. UpTo(x) = UpTo(x - 1)
      BY <2>6
    <3> QED
      BY <2>3, <2>5, <3>1
  <2>9. Cardinality(UpTo(x)) = Cardinality(UpTo(x - 1)) + 1
    BY <1>3, <2>5, <2>6, <2>7, <2>8, FS_AddElement
  <2>10. Cardinality(UpTo(x)) = n
    BY <1>3, <1>4, <2>3, <2>5, <2>9
  <2> QED
    BY <2>8, <2>10
<1>5. ASSUME NEW n \in 1 .. Cardinality(keep)
      PROVE  NthOf(keep, n) \in keep /\ Cardinality(UpTo(NthOf(keep, n))) = n
  BY <1>4 DEF NthOf
<1> QED
  BY <1>2, <1>5

\* remove_rows takes from every column, and from the origins, the same rows.
LEMMA RetainFacts ==
  ASSUME NEW S, NEW seq \in Seq(S), NEW keep \in SUBSET (1 .. Len(seq))
  PROVE  /\ Cardinality(keep) \in Nat
         /\ RetainRows(seq, keep) \in Seq(S)
         /\ Len(RetainRows(seq, keep)) = Cardinality(keep)
         /\ \A n \in 1 .. Cardinality(keep) :
              /\ NthOf(keep, n) \in keep
              /\ RetainRows(seq, keep)[n] = seq[NthOf(keep, n)]
<1> DEFINE kept == RetainRows(seq, keep)
<1>1. /\ Cardinality(keep) \in Nat
      /\ \A n \in 1 .. Cardinality(keep) : NthOf(keep, n) \in keep
  <2>1. Len(seq) \in Nat
    OBVIOUS
  <2> QED
    BY <2>1, NthExists
<1>2. kept = [n \in 1 .. Cardinality(keep) |-> seq[NthOf(keep, n)]]
  BY DEF RetainRows, NthOf
<1>3. \A n \in 1 .. Cardinality(keep) : seq[NthOf(keep, n)] \in S
  <2> TAKE n \in 1 .. Cardinality(keep)
  <2>1. NthOf(keep, n) \in 1 .. Len(seq)
    BY <1>1
  <2> QED
    BY <2>1, ElementOfSeq
<1>4. kept \in [1 .. Cardinality(keep) -> S]
  BY <1>2, <1>3
<1> HIDE DEF kept
<1>5. kept \in Seq(S) /\ Len(kept) = Cardinality(keep)
  BY <1>1, <1>4, FunctionIsSeq
<1> QED
  BY <1>1, <1>2, <1>5 DEF kept

-----------------------------------------------------------------------------
(* What the operations do to a group and the rows in it.                   *)

\* Row r of a group reads back as a line.
RowReads(group, tm, r, line) ==
  /\ line \in Seq(Texts) /\ Len(line) = Len(group.tokens)
  /\ \A i \in 1 .. Len(group.tokens) : CellRecovers(group, tm, i, r, line[i])

\* A group between two steps, its columns full, and the origin of its rows.
GroupOK(group, tm, ls, rows) ==
  /\ group \in Groups /\ ColumnsOwned(group)
  /\ \A c \in 1 .. Len(group.columns) : Len(group.columns[c]) = group.num_docs
  /\ rows \in Seq(Nat) /\ Len(rows) = group.num_docs
  /\ \A r \in 1 .. group.num_docs : RowReads(group, tm, r, ls[rows[r]])

\* Token i of one group reads in row s what it reads in another in row r.
SameToken(group, r, new, s, i) ==
  \/ /\ IsConstant(group.tokens[i]) /\ ~IsVariable(group.tokens[i])
     /\ IsConstant(new.tokens[i]) /\ new.tokens[i].text = group.tokens[i].text
  \/ /\ IsVariable(group.tokens[i]) /\ ~IsConstant(group.tokens[i])
     /\ IsVariable(new.tokens[i])
     /\ new.columns[new.tokens[i].column_index][s]
          = group.columns[group.tokens[i].column_index][r]

LEMMA SameRow ==
  ASSUME NEW group, NEW new, NEW tm, NEW r, NEW s, NEW line,
         Len(new.tokens) = Len(group.tokens), RowReads(group, tm, r, line),
         \A i \in 1 .. Len(group.tokens) : SameToken(group, r, new, s, i)
  PROVE  RowReads(new, tm, s, line)
<1>1. ASSUME NEW i \in 1 .. Len(group.tokens), NEW t, CellReads(group, tm, i, r, t)
      PROVE  CellReads(new, tm, i, s, t)
  BY <1>1 DEF SameToken, CellReads
<1>2. ASSUME NEW i \in 1 .. Len(group.tokens)
      PROVE  CellRecovers(new, tm, i, s, line[i])
  <2>1. CellRecovers(group, tm, i, r, line[i])
    BY DEF RowReads
  <2> QED
    BY <1>1, <2>1 DEF CellRecovers
<1> QED
  BY <1>2 DEF RowReads

\* The cell of a variable in a row is a term id.
LEMMA CellFacts ==
  ASSUME NEW group \in Groups, ColumnsOwned(group),
         \A c \in 1 .. Len(group.columns) : Len(group.columns[c]) = group.num_docs,
         NEW i \in 1 .. Len(group.tokens), IsVariable(group.tokens[i])
  PROVE  /\ group.tokens[i].column_index \in 1 .. Len(group.columns)
         /\ group.columns[group.tokens[i].column_index] \in Seq(Nat)
         /\ Len(group.columns[group.tokens[i].column_index]) = group.num_docs
         /\ \A r \in 1 .. group.num_docs :
              group.columns[group.tokens[i].column_index][r] \in Nat
<1>1. group.tokens[i].column_index \in 1 .. Len(group.columns)
  BY DEF ColumnsOwned
<1>2. /\ group.columns[group.tokens[i].column_index] \in Seq(Nat)
      /\ Len(group.columns[group.tokens[i].column_index]) = group.num_docs
  BY <1>1, GroupFields
<1> QED
  BY <1>1, <1>2, ElementOfSeq

\* The fields of a group without some of its rows.
LEMMA RemoveRowsFields ==
  ASSUME NEW group \in Groups,
         \A c \in 1 .. Len(group.columns) : Len(group.columns[c]) = group.num_docs,
         NEW keep \in SUBSET (1 .. group.num_docs)
  PROVE  LET new == RemoveRows(group, keep)
         IN  /\ new \in Groups
             /\ new.tokens = group.tokens
             /\ new.num_docs = Cardinality(keep)
             /\ Len(new.columns) = Len(group.columns)
             /\ \A c \in 1 .. Len(group.columns) :
                  /\ new.columns[c] = RetainRows(group.columns[c], keep)
                  /\ Len(new.columns[c]) = new.num_docs
<1> DEFINE new  == RemoveRows(group, keep)
           cols == [c \in DOMAIN group.columns |-> RetainRows(group.columns[c], keep)]
<1>1. /\ group.tokens \in Seq(TemplateTokens) /\ group.columns \in Seq(Seq(Nat))
      /\ Len(group.columns) \in Nat /\ group.num_docs \in Nat
      /\ DOMAIN group.columns = 1 .. Len(group.columns)
  BY GroupFields, LenProperties
<1>2. Cardinality(keep) \in Nat
  BY <1>1, NthExists
<1>3. ASSUME NEW c \in 1 .. Len(group.columns)
      PROVE  /\ RetainRows(group.columns[c], keep) \in Seq(Nat)
             /\ Len(RetainRows(group.columns[c], keep)) = Cardinality(keep)
  <2>1. group.columns[c] \in Seq(Nat) /\ Len(group.columns[c]) = group.num_docs
    BY <1>1, GroupFields
  <2> QED
    BY <2>1, RetainFacts
<1>4. cols \in [1 .. Len(group.columns) -> Seq(Nat)]
  BY <1>1, <1>3
<1>5. cols \in Seq(Seq(Nat)) /\ Len(cols) = Len(group.columns)
  <2> HIDE DEF cols
  <2> QED
    BY <1>1, <1>4, FunctionIsSeq
<1>6. new = [tokens |-> group.tokens, columns |-> cols,
             num_docs |-> Cardinality(keep)]
  <2>1. new = [group EXCEPT !.columns = cols, !.num_docs = Cardinality(keep)]
    BY DEF RemoveRows
  <2>2. group = [tokens |-> group.tokens, columns |-> group.columns,
                 num_docs |-> group.num_docs]
    BY DEF Groups
  <2> HIDE DEF new, cols
  <2> QED
    BY <2>1, <2>2
<1>7. new \in Groups
  <2> HIDE DEF new, cols
  <2> QED
    BY <1>1, <1>2, <1>5, <1>6 DEF Groups
<1>8. \A c \in 1 .. Len(group.columns) : cols[c] = RetainRows(group.columns[c], keep)
  BY <1>1
<1> HIDE DEF new, cols
<1>9. /\ new.tokens = group.tokens /\ new.columns = cols
      /\ new.num_docs = Cardinality(keep)
  BY <1>6
<1>10. \A c \in 1 .. Len(group.columns) : Len(cols[c]) = Cardinality(keep)
  BY <1>3, <1>8
<1>11. /\ new \in Groups /\ new.tokens = group.tokens
       /\ new.num_docs = Cardinality(keep) /\ Len(new.columns) = Len(group.columns)
       /\ \A c \in 1 .. Len(group.columns) :
            /\ new.columns[c] = RetainRows(group.columns[c], keep)
            /\ Len(new.columns[c]) = new.num_docs
  BY <1>5, <1>7, <1>8, <1>9, <1>10
<1> QED
  BY <1>11 DEF new

\* remove_rows leaves every row that stays as it was.
LEMMA RemoveRowsOK ==
  ASSUME NEW group, NEW tm, NEW ls, NEW rows, GroupOK(group, tm, ls, rows),
         NEW keep \in SUBSET (1 .. group.num_docs)
  PROVE  GroupOK(RemoveRows(group, keep), tm, ls, RetainRows(rows, keep))
<1> DEFINE new  == RemoveRows(group, keep)
           kept == RetainRows(rows, keep)
<1>1. /\ group \in Groups /\ ColumnsOwned(group)
      /\ \A c \in 1 .. Len(group.columns) : Len(group.columns[c]) = group.num_docs
      /\ rows \in Seq(Nat) /\ Len(rows) = group.num_docs
  BY DEF GroupOK
<1>2. /\ new \in Groups
      /\ new.tokens = group.tokens
      /\ new.num_docs = Cardinality(keep)
      /\ Len(new.columns) = Len(group.columns)
      /\ \A c \in 1 .. Len(group.columns) :
           /\ new.columns[c] = RetainRows(group.columns[c], keep)
           /\ Len(new.columns[c]) = new.num_docs
  BY <1>1, RemoveRowsFields
<1>3. /\ kept \in Seq(Nat) /\ Len(kept) = Cardinality(keep)
      /\ \A n \in 1 .. Cardinality(keep) :
           /\ NthOf(keep, n) \in keep
           /\ kept[n] = rows[NthOf(keep, n)]
  BY <1>1, RetainFacts
<1> HIDE DEF new, kept
<1>4. ColumnsOwned(new)
  BY <1>1, <1>2 DEF ColumnsOwned
<1>5. ASSUME NEW n \in 1 .. new.num_docs
      PROVE  RowReads(new, tm, n, ls[kept[n]])
  <2> DEFINE r == NthOf(keep, n)
  <2>1. /\ r \in 1 .. group.num_docs /\ kept[n] = rows[r]
        /\ RowReads(group, tm, r, ls[rows[r]])
    BY <1>2, <1>3 DEF GroupOK
  <2>2. ASSUME NEW i \in 1 .. Len(group.tokens)
        PROVE  SameToken(group, r, new, n, i)
    <3>1. IsConstant(group.tokens[i]) <=> ~IsVariable(group.tokens[i])
      BY <1>1, GroupFields, TokenKinds
    <3>2. CASE IsVariable(group.tokens[i])
      <4> DEFINE c == group.tokens[i].column_index
      <4>1. /\ c \in 1 .. Len(group.columns)
            /\ group.columns[c] \in Seq(Nat) /\ Len(group.columns[c]) = group.num_docs
        BY <1>1, <3>2, CellFacts
      <4> HIDE DEF c
      <4>2. keep \in SUBSET (1 .. Len(group.columns[c])) /\ n \in 1 .. Cardinality(keep)
        BY <1>2, <4>1
      <4>3. RetainRows(group.columns[c], keep)[n] = group.columns[c][r]
        BY <4>1, <4>2, RetainFacts
      <4> QED
        BY <1>2, <3>1, <3>2, <4>1, <4>3 DEF SameToken, c
    <3> QED
      BY <1>2, <3>1, <3>2 DEF SameToken
  <2> HIDE DEF r
  <2> QED
    BY <1>2, <2>1, <2>2, SameRow
<1>6. GroupOK(new, tm, ls, kept)
  BY <1>2, <1>3, <1>4, <1>5 DEF GroupOK
<1> QED
  BY <1>6 DEF new, kept

\* columns.remove.
LEMMA RemoveAtFacts ==
  ASSUME NEW S, NEW s \in Seq(S), NEW c \in 1 .. Len(s)
  PROVE  /\ RemoveAt(s, c) \in Seq(S)
         /\ Len(RemoveAt(s, c)) = Len(s) - 1
         /\ \A d \in 1 .. Len(s) - 1 :
              RemoveAt(s, c)[d] = IF d < c THEN s[d] ELSE s[d + 1]
<1> DEFINE left == SubSeq(s, 1, c - 1)
           right == SubSeq(s, c + 1, Len(s))
<1>1. Len(s) \in Nat /\ c \in Nat /\ c >= 1 /\ c <= Len(s)
  BY LenProperties
<1>2. /\ left \in Seq(S) /\ Len(left) = c - 1
      /\ \A i \in 1 .. c - 1 : left[i] = s[i]
  <2>1. 1 \in Int /\ c - 1 \in Int /\ \A i \in 1 .. c - 1 : s[i] \in S
    BY <1>1, ElementOfSeq
  <2>2. /\ SubSeq(s, 1, c - 1) \in Seq(S)
        /\ Len(SubSeq(s, 1, c - 1)) = IF 1 <= c - 1 THEN (c - 1) - 1 + 1 ELSE 0
        /\ \A i \in 1 .. (c - 1) - 1 + 1 : SubSeq(s, 1, c - 1)[i] = s[1 + i - 1]
    BY <2>1, SubSeqProperties
  <2> QED
    BY <1>1, <2>2
<1>3. /\ right \in Seq(S) /\ Len(right) = Len(s) - c
      /\ \A i \in 1 .. Len(s) - c : right[i] = s[c + i]
  <2>1. c + 1 \in Int /\ Len(s) \in Int /\ \A i \in c + 1 .. Len(s) : s[i] \in S
    BY <1>1, ElementOfSeq
  <2>2. /\ SubSeq(s, c + 1, Len(s)) \in Seq(S)
        /\ Len(SubSeq(s, c + 1, Len(s)))
             = IF c + 1 <= Len(s) THEN Len(s) - (c + 1) + 1 ELSE 0
        /\ \A i \in 1 .. Len(s) - (c + 1) + 1 :
             SubSeq(s, c + 1, Len(s))[i] = s[(c + 1) + i - 1]
    BY <2>1, SubSeqProperties
  <2> QED
    BY <1>1, <2>2
<1>4. RemoveAt(s, c) = left \o right
  BY DEF RemoveAt
<1> HIDE DEF left, right
<1>5. /\ left \o right \in Seq(S)
      /\ Len(left \o right) = Len(left) + Len(right)
      /\ \A d \in 1 .. Len(left) + Len(right) :
           (left \o right)[d] = IF d <= Len(left) THEN left[d]
                                                  ELSE right[d - Len(left)]
  BY <1>2, <1>3, ConcatProperties
<1>6. Len(left) + Len(right) = Len(s) - 1
  BY <1>1, <1>2, <1>3
<1>7. ASSUME NEW d \in 1 .. Len(s) - 1
      PROVE  (left \o right)[d] = IF d < c THEN s[d] ELSE s[d + 1]
  <2>1. (left \o right)[d] = IF d <= c - 1 THEN left[d] ELSE right[d - (c - 1)]
    BY <1>2, <1>5, <1>6
  <2>2. CASE d < c
    BY <1>1, <1>2, <2>1, <2>2
  <2>3. CASE ~(d < c)
    <3>1. d - (c - 1) \in 1 .. Len(s) - c /\ c + (d - (c - 1)) = d + 1 /\ ~(d <= c - 1)
      BY <1>1, <2>3
    <3> QED
      BY <1>3, <2>1, <2>3, <3>1
  <2> QED
    BY <2>2, <2>3
<1> QED
  BY <1>4, <1>5, <1>6, <1>7

\* The tokens of the new group: the token of column c is a constant now, the
\* columns behind it move up.
LEMMA FixTokenFacts ==
  ASSUME NEW token \in TemplateTokens, NEW c \in Nat \ {0}, NEW text \in Texts
  PROVE  LET new == FixToken(token, c, text)
         IN  /\ new \in TemplateTokens
             /\ IsConstant(token) => new = token
             /\ IsVariable(token) /\ token.column_index = c =>
                  IsConstant(new) /\ ~IsVariable(new) /\ new.text = text
             /\ IsVariable(token) /\ token.column_index # c =>
                  /\ IsVariable(new) /\ ~IsConstant(new)
                  /\ new.column_index = IF token.column_index > c
                                        THEN token.column_index - 1
                                        ELSE token.column_index
<1>1. /\ IsConstant(token) <=> ~IsVariable(token)
      /\ IsVariable(token) => token.column_index \in Nat \ {0} /\ token \in VariableTokens
      /\ token.token_type \in Types
  BY TokenKinds DEF TemplateTokens, ConstantTokens, VariableTokens
<1>2. CASE IsConstant(token)
  BY <1>1, <1>2 DEF FixToken
<1>3. CASE IsVariable(token) /\ token.column_index = c
  <2>1. FixToken(token, c, text) = NewConstant(token.token_type, text)
    BY <1>3 DEF FixToken
  <2> QED
    BY <1>1, <1>3, <2>1, NewTokens
<1>4. CASE IsVariable(token) /\ token.column_index > c
  <2> DEFINE new == [token EXCEPT !.column_index = token.column_index - 1]
  <2>1. FixToken(token, c, text) = new /\ token.column_index # c
    BY <1>1, <1>4 DEF FixToken
  <2>2. token.column_index - 1 \in Nat \ {0}
    BY <1>1, <1>4
  <2>3. /\ new \in VariableTokens /\ new.column_index = token.column_index - 1
        /\ new.kind = "Variable"
    BY <1>1, <1>4, <2>2 DEF VariableTokens
  <2> HIDE DEF new
  <2>4. new \in TemplateTokens /\ IsVariable(new) /\ ~IsConstant(new)
    BY <2>3 DEF TemplateTokens, IsVariable, IsConstant
  <2> QED
    BY <1>1, <1>4, <2>1, <2>3, <2>4
<1>5. CASE IsVariable(token) /\ token.column_index < c
  <2>1. FixToken(token, c, text) = token
    BY <1>1, <1>5 DEF FixToken
  <2> QED
    BY <1>1, <1>5, <2>1
<1>6. IsVariable(token) => token.column_index < c \/ token.column_index = c \/ token.column_index > c
  BY <1>1
<1> QED
  BY <1>1, <1>2, <1>3, <1>4, <1>5, <1>6

LEMMA FixColumnFields ==
  ASSUME NEW group \in Groups, NEW c \in 1 .. Len(group.columns), NEW text \in Texts
  PROVE  LET new == FixColumn(group, c, text)
         IN  /\ new \in Groups
             /\ new.num_docs = group.num_docs
             /\ Len(new.tokens) = Len(group.tokens)
             /\ \A i \in 1 .. Len(group.tokens) :
                  new.tokens[i] = FixToken(group.tokens[i], c, text)
             /\ Len(new.columns) = Len(group.columns) - 1
             /\ \A d \in 1 .. Len(group.columns) - 1 :
                  new.columns[d] = IF d < c THEN group.columns[d]
                                            ELSE group.columns[d + 1]
<1> DEFINE new  == FixColumn(group, c, text)
           toks == [i \in DOMAIN group.tokens |-> FixToken(group.tokens[i], c, text)]
           cols == RemoveAt(group.columns, c)
<1>1. /\ group.tokens \in Seq(TemplateTokens) /\ group.columns \in Seq(Seq(Nat))
      /\ Len(group.tokens) \in Nat /\ group.num_docs \in Nat
      /\ DOMAIN group.tokens = 1 .. Len(group.tokens)
      /\ c \in Nat \ {0}
  BY GroupFields, LenProperties
<1>2. ASSUME NEW i \in 1 .. Len(group.tokens)
      PROVE  FixToken(group.tokens[i], c, text) \in TemplateTokens
  <2>1. group.tokens[i] \in TemplateTokens
    BY GroupFields
  <2> QED
    BY <1>1, <2>1, FixTokenFacts
<1>3. toks \in [1 .. Len(group.tokens) -> TemplateTokens]
  BY <1>1, <1>2
<1>4. toks \in Seq(TemplateTokens) /\ Len(toks) = Len(group.tokens)
  <2> HIDE DEF toks
  <2> QED
    BY <1>1, <1>3, FunctionIsSeq
<1>5. /\ cols \in Seq(Seq(Nat)) /\ Len(cols) = Len(group.columns) - 1
      /\ \A d \in 1 .. Len(group.columns) - 1 :
           cols[d] = IF d < c THEN group.columns[d] ELSE group.columns[d + 1]
  BY <1>1, RemoveAtFacts
<1>6. \A i \in 1 .. Len(group.tokens) : toks[i] = FixToken(group.tokens[i], c, text)
  BY <1>1
<1>7. new = [tokens |-> toks, columns |-> cols, num_docs |-> group.num_docs]
  <2>1. new = [group EXCEPT !.tokens = toks, !.columns = cols]
    BY DEF FixColumn
  <2>2. group = [tokens |-> group.tokens, columns |-> group.columns,
                 num_docs |-> group.num_docs]
    BY DEF Groups
  <2> HIDE DEF new, toks, cols
  <2> QED
    BY <2>1, <2>2
<1> HIDE DEF new, toks, cols
<1>8. new \in Groups
  BY <1>1, <1>4, <1>5, <1>7 DEF Groups
<1>9. new.tokens = toks /\ new.columns = cols /\ new.num_docs = group.num_docs
  BY <1>7
<1>10. /\ new \in Groups /\ new.num_docs = group.num_docs
       /\ Len(new.tokens) = Len(group.tokens)
       /\ \A i \in 1 .. Len(group.tokens) :
            new.tokens[i] = FixToken(group.tokens[i], c, text)
       /\ Len(new.columns) = Len(group.columns) - 1
       /\ \A d \in 1 .. Len(group.columns) - 1 :
            new.columns[d] = IF d < c THEN group.columns[d] ELSE group.columns[d + 1]
  BY <1>4, <1>5, <1>6, <1>8, <1>9
<1> QED
  BY <1>10 DEF new

LEMMA SameCell ==
  ASSUME NEW group, NEW new, NEW tm, NEW i, NEW r, NEW s, NEW text,
         CellRecovers(group, tm, i, r, text), SameToken(group, r, new, s, i)
  PROVE  CellRecovers(new, tm, i, s, text)
<1>1. ASSUME NEW t, CellReads(group, tm, i, r, t)
      PROVE  CellReads(new, tm, i, s, t)
  BY <1>1 DEF SameToken, CellReads
<1> QED
  BY <1>1 DEF CellRecovers

\* Where a token of the new group comes from.
LEMMA FixedToken ==
  ASSUME NEW group \in Groups, ColumnsOwned(group),
         NEW c \in 1 .. Len(group.columns), NEW text \in Texts,
         NEW i \in 1 .. Len(group.tokens)
  PROVE  LET token == group.tokens[i]
             fixed == FixColumn(group, c, text).tokens[i]
         IN  /\ IsConstant(token) <=> ~IsVariable(token)
             /\ IsConstant(token) => fixed = token
             /\ IsVariable(token) => token.column_index \in 1 .. Len(group.columns)
             /\ IsVariable(token) /\ token.column_index = c =>
                  IsConstant(fixed) /\ ~IsVariable(fixed) /\ fixed.text = text
             /\ IsVariable(token) /\ token.column_index # c =>
                  /\ IsVariable(fixed) /\ ~IsConstant(fixed)
                  /\ fixed.column_index = IF token.column_index > c
                                          THEN token.column_index - 1
                                          ELSE token.column_index
<1>1. group.tokens[i] \in TemplateTokens /\ c \in Nat \ {0}
  BY GroupFields
<1>2. FixColumn(group, c, text).tokens[i] = FixToken(group.tokens[i], c, text)
  BY FixColumnFields
<1>3. IsVariable(group.tokens[i]) =>
        group.tokens[i].column_index \in 1 .. Len(group.columns)
  BY DEF ColumnsOwned
<1> QED
  BY <1>1, <1>2, <1>3, TokenKinds, FixTokenFacts

LEMMA FixColumnOwned ==
  ASSUME NEW group \in Groups, ColumnsOwned(group),
         NEW c \in 1 .. Len(group.columns), NEW text \in Texts
  PROVE  ColumnsOwned(FixColumn(group, c, text))
<1> DEFINE new == FixColumn(group, c, text)
           Shifted(k) == IF k > c THEN k - 1 ELSE k
<1>1. /\ Len(new.tokens) = Len(group.tokens)
      /\ Len(new.columns) = Len(group.columns) - 1
      /\ Len(group.columns) \in Nat /\ c \in Nat /\ c >= 1 /\ c <= Len(group.columns)
  BY FixColumnFields, GroupFields
<1>2. \A i \in 1 .. Len(group.tokens) :
        LET token == group.tokens[i]
        IN  /\ IsVariable(new.tokens[i]) <=>
                 IsVariable(token) /\ token.column_index # c
            /\ IsVariable(new.tokens[i]) =>
                 /\ token.column_index \in 1 .. Len(group.columns)
                 /\ new.tokens[i].column_index = Shifted(token.column_index)
  BY FixedToken
<1> HIDE DEF new
<1>3. ASSUME NEW i \in 1 .. Len(group.tokens), IsVariable(new.tokens[i])
      PROVE  new.tokens[i].column_index \in 1 .. Len(new.columns)
  <2> DEFINE k == group.tokens[i].column_index
  <2>1. /\ k \in 1 .. Len(group.columns) /\ k # c
        /\ new.tokens[i].column_index = Shifted(k)
    BY <1>2, <1>3
  <2> HIDE DEF k
  <2>2. Shifted(k) \in 1 .. Len(group.columns) - 1
    BY <1>1, <2>1
  <2> QED
    BY <1>1, <2>1, <2>2
<1>4. ASSUME NEW i \in 1 .. Len(group.tokens), NEW j \in 1 .. Len(group.tokens),
             IsVariable(new.tokens[i]), IsVariable(new.tokens[j]),
             new.tokens[i].column_index = new.tokens[j].column_index
      PROVE  i = j
  <2> DEFINE k == group.tokens[i].column_index
             l == group.tokens[j].column_index
  <2>0. /\ IsVariable(group.tokens[i]) /\ IsVariable(group.tokens[j])
        /\ k \in 1 .. Len(group.columns) /\ l \in 1 .. Len(group.columns)
        /\ k # c /\ l # c /\ Shifted(k) = Shifted(l)
    <3> HIDE DEF Shifted
    <3> QED
      BY <1>2, <1>4
  <2>1. /\ IsVariable(group.tokens[i]) /\ IsVariable(group.tokens[j])
        /\ group.tokens[i].column_index = group.tokens[j].column_index
    <3> HIDE DEF k, l
    <3>1. k = l
      BY <1>1, <2>0
    <3> QED
      BY <2>0, <3>1 DEF k, l
  <2> QED
    BY <2>1 DEF ColumnsOwned
<1>5. ASSUME NEW d \in 1 .. Len(new.columns)
      PROVE  \E i \in 1 .. Len(group.tokens) :
               IsVariable(new.tokens[i]) /\ new.tokens[i].column_index = d
  <2> DEFINE old == IF d < c THEN d ELSE d + 1
  <2>1. old \in 1 .. Len(group.columns) /\ old # c /\ Shifted(old) = d
    BY <1>1
  <2> HIDE DEF old
  <2>2. PICK i \in 1 .. Len(group.tokens) :
          IsVariable(group.tokens[i]) /\ group.tokens[i].column_index = old
    BY <2>1 DEF ColumnsOwned
  <2>3. IsVariable(new.tokens[i]) /\ new.tokens[i].column_index = d
    <3> HIDE DEF Shifted
    <3> QED
      BY <1>2, <2>1, <2>2
  <2> QED
    BY <2>3
<1>6. ColumnsOwned(new)
  BY <1>1, <1>3, <1>4, <1>5 DEF ColumnsOwned
<1> QED
  BY <1>6 DEF new

\* All rows hold id at column c, and text is what id names.
ColumnHolds(group, tm, c, id, text) ==
  /\ c \in 1 .. Len(group.columns)
  /\ \A r \in 1 .. group.num_docs : group.columns[c][r] = id
  /\ id \in 0 .. tm.next_term_id - 1 /\ text \in Texts /\ FindsTerm(tm, id, text)

\* A cell of the column that goes reads as the constant that takes its place.
CellFixed(group, tm, c, id, text, new, i, r, line) ==
  /\ IdsNameOneTerm(tm) /\ ColumnHolds(group, tm, c, id, text)
  /\ ~IsConstant(group.tokens[i]) /\ group.tokens[i].column_index = c
  /\ IsConstant(new.tokens[i]) /\ new.tokens[i].text = text
  /\ r \in 1 .. group.num_docs
  /\ line \in Texts /\ CellRecovers(group, tm, i, r, line)

LEMMA FixedCell ==
  ASSUME NEW group, NEW tm, NEW c, NEW id, NEW text, NEW new, NEW i, NEW r, NEW line,
         CellFixed(group, tm, c, id, text, new, i, r, line)
  PROVE  CellRecovers(new, tm, i, r, line)
<1>0. /\ IdsNameOneTerm(tm) /\ ColumnHolds(group, tm, c, id, text)
      /\ ~IsConstant(group.tokens[i]) /\ group.tokens[i].column_index = c
      /\ IsConstant(new.tokens[i]) /\ new.tokens[i].text = text
      /\ r \in 1 .. group.num_docs
      /\ line \in Texts /\ CellRecovers(group, tm, i, r, line)
  BY DEF CellFixed
<1>1. Stored(tm, id, text) /\ id \in 0 .. tm.next_term_id - 1 /\ text \in Texts
  BY <1>0 DEF ColumnHolds, FindsTerm, Stored
<1>2. \A t \in Texts : Stored(tm, id, t) => t = text
  BY <1>0, <1>1 DEF IdsNameOneTerm
<1>3. line \in Texts /\ Capped[line] \in Texts
  BY <1>0, CappedAssumption DEF CappedAssumption
<1>4. ASSUME NEW t \in Texts, CellReads(group, tm, i, r, t)
      PROVE  CellReads(new, tm, i, r, t)
  <2>1. group.columns[group.tokens[i].column_index][r] = id
    BY <1>0 DEF ColumnHolds
  <2>2. Stored(tm, id, t)
    BY <1>0, <1>4, <2>1 DEF CellReads
  <2> QED
    BY <1>0, <1>2, <2>2 DEF CellReads
<1> QED
  BY <1>0, <1>3, <1>4 DEF CellRecovers

\* move_term_id_to_new_group: the rows of the new group read as before.
LEMMA FixColumnOK ==
  ASSUME NEW group, NEW tm, NEW ls, NEW rows, GroupOK(group, tm, ls, rows),
         IdsNameOneTerm(tm), NEW c, NEW id, NEW text,
         ColumnHolds(group, tm, c, id, text)
  PROVE  GroupOK(FixColumn(group, c, text), tm, ls, rows)
<1> DEFINE new == FixColumn(group, c, text)
<1>1. /\ group \in Groups /\ ColumnsOwned(group)
      /\ \A d \in 1 .. Len(group.columns) : Len(group.columns[d]) = group.num_docs
      /\ rows \in Seq(Nat) /\ Len(rows) = group.num_docs
      /\ c \in 1 .. Len(group.columns) /\ text \in Texts
      /\ Len(group.columns) \in Nat
  BY GroupFields DEF GroupOK, ColumnHolds
<1>2. /\ new \in Groups
      /\ new.num_docs = group.num_docs
      /\ Len(new.tokens) = Len(group.tokens)
      /\ Len(new.columns) = Len(group.columns) - 1
      /\ \A d \in 1 .. Len(group.columns) - 1 :
           new.columns[d] = IF d < c THEN group.columns[d] ELSE group.columns[d + 1]
  BY <1>1, FixColumnFields
<1>3. ColumnsOwned(new)
  BY <1>1, FixColumnOwned
<1>4. \A i \in 1 .. Len(group.tokens) :
        LET token == group.tokens[i]
            fixed == new.tokens[i]
        IN  /\ IsConstant(token) <=> ~IsVariable(token)
            /\ IsConstant(token) => fixed = token
            /\ IsVariable(token) => token.column_index \in 1 .. Len(group.columns)
            /\ IsVariable(token) /\ token.column_index = c =>
                 IsConstant(fixed) /\ ~IsVariable(fixed) /\ fixed.text = text
            /\ IsVariable(token) /\ token.column_index # c =>
                 /\ IsVariable(fixed) /\ ~IsConstant(fixed)
                 /\ fixed.column_index = IF token.column_index > c
                                         THEN token.column_index - 1
                                         ELSE token.column_index
  BY <1>1, FixedToken
<1> HIDE DEF new
<1>5. \A d \in 1 .. Len(new.columns) : Len(new.columns[d]) = new.num_docs
  <2> TAKE d \in 1 .. Len(new.columns)
  <2>1. d \in 1 .. Len(group.columns) /\ d + 1 \in 1 .. Len(group.columns)
    BY <1>1, <1>2
  <2> QED
    BY <1>1, <1>2, <2>1
<1>6. ASSUME NEW r \in 1 .. new.num_docs
      PROVE  RowReads(new, tm, r, ls[rows[r]])
  <2>1. RowReads(group, tm, r, ls[rows[r]]) /\ r \in 1 .. group.num_docs
    BY <1>2 DEF GroupOK
  <2> DEFINE line == ls[rows[r]]
  <2>2. ASSUME NEW i \in 1 .. Len(group.tokens)
        PROVE  CellRecovers(new, tm, i, r, line[i])
    <3> DEFINE token == group.tokens[i]
    <3>1. line[i] \in Texts /\ CellRecovers(group, tm, i, r, line[i])
      <4>1. line \in Seq(Texts) /\ i \in 1 .. Len(line)
        BY <2>1 DEF RowReads
      <4>2. line[i] \in Texts
        <5> HIDE DEF line
        <5> QED
          BY <4>1, ElementOfSeq
      <4> QED
        BY <2>1, <4>2 DEF RowReads
    <3> HIDE DEF line
    <3>2. CASE IsConstant(token)
      <4>1. SameToken(group, r, new, r, i)
        BY <1>4, <3>2 DEF SameToken
      <4> QED
        BY <3>1, <4>1, SameCell
    <3>3. CASE IsVariable(token) /\ token.column_index = c
      <4>1. /\ ~IsConstant(token) /\ IsConstant(new.tokens[i])
            /\ new.tokens[i].text = text
        BY <1>4, <3>3
      <4> QED
        <5> DEFINE t == line[i]
        <5>1. t \in Texts /\ CellRecovers(group, tm, i, r, t) /\ r \in 1 .. group.num_docs
              /\ ~IsConstant(group.tokens[i]) /\ group.tokens[i].column_index = c
          BY <2>1, <3>1, <3>3, <4>1
        <5> HIDE DEF t
        <5>2. CellRecovers(new, tm, i, r, t)
          <6>1. CellFixed(group, tm, c, id, text, new, i, r, t)
            BY <4>1, <5>1 DEF CellFixed
          <6> QED
            BY <6>1, FixedCell
        <5> QED
          BY <5>2 DEF t
    <3>4. CASE IsVariable(token) /\ token.column_index # c
      <4> DEFINE k == token.column_index
      <4>1. /\ ~IsConstant(token) /\ k \in 1 .. Len(group.columns) /\ k # c
            /\ IsVariable(new.tokens[i])
            /\ new.tokens[i].column_index = IF k > c THEN k - 1 ELSE k
        BY <1>4, <3>4
      <4> HIDE DEF k
      <4>2. new.columns[new.tokens[i].column_index] = group.columns[k]
        <5>1. c \in Nat /\ k \in Nat /\ c <= Len(group.columns)
          BY <1>1, <4>1
        <5>2. CASE k > c
          <6>1. k - 1 \in 1 .. Len(group.columns) - 1 /\ ~(k - 1 < c) /\ (k - 1) + 1 = k
            BY <1>1, <4>1, <5>1, <5>2
          <6>2. new.columns[k - 1] = group.columns[(k - 1) + 1]
            BY <1>2, <6>1
          <6> QED
            BY <4>1, <5>2, <6>1, <6>2
        <5>3. CASE ~(k > c)
          <6>1. k \in 1 .. Len(group.columns) - 1 /\ k < c
            BY <1>1, <4>1, <5>1, <5>3
          <6> QED
            BY <1>2, <4>1, <5>3, <6>1
        <5> QED
          BY <5>2, <5>3
      <4>3. SameToken(group, r, new, r, i)
        BY <3>4, <4>1, <4>2 DEF SameToken, k
      <4> QED
        BY <3>1, <4>3, SameCell
    <3> QED
      BY <1>4, <3>2, <3>3, <3>4
  <2> QED
    BY <1>2, <2>1, <2>2 DEF RowReads
<1>7. GroupOK(new, tm, ls, rows)
  BY <1>1, <1>2, <1>3, <1>5, <1>6 DEF GroupOK
<1> QED
  BY <1>7 DEF new

\* A larger term map reads the rows of a group as before.
LEMMA RowsStayWhenTermsGrow ==
  ASSUME NEW group, NEW tm, NEW tm2, NEW ls, NEW rows, GroupOK(group, tm, ls, rows),
         Extends(tm2, tm)
  PROVE  GroupOK(group, tm2, ls, rows)
<1>1. /\ group \in Groups /\ ColumnsOwned(group)
      /\ \A c \in 1 .. Len(group.columns) : Len(group.columns[c]) = group.num_docs
  BY DEF GroupOK
<1>2. ASSUME NEW r \in 1 .. group.num_docs
      PROVE  RowReads(group, tm2, r, ls[rows[r]])
  <2> DEFINE line == ls[rows[r]]
  <2>1. RowReads(group, tm, r, line)
    BY DEF GroupOK
  <2>2. ASSUME NEW i \in 1 .. Len(group.tokens)
        PROVE  CellRecovers(group, tm2, i, r, line[i])
    <3>1. line \in Seq(Texts) /\ i \in 1 .. Len(line) /\ CellRecovers(group, tm, i, r, line[i])
      BY <2>1 DEF RowReads
    <3>2. line[i] \in Texts /\ Capped[line[i]] \in Texts
      <4> HIDE DEF line
      <4> QED
        BY <3>1, ElementOfSeq, CappedAssumption DEF CappedAssumption
    <3>3. IsVariable(group.tokens[i]) =>
            group.columns[group.tokens[i].column_index][r] \in Nat
      BY <1>1, CellFacts
    <3>4. ASSUME NEW t \in Texts, CellReads(group, tm, i, r, t)
          PROVE  CellReads(group, tm2, i, r, t)
      BY <3>3, <3>4 DEF CellReads, Extends
    <3> HIDE DEF line
    <3> QED
      BY <3>1, <3>2, <3>4 DEF CellRecovers
  <2> HIDE DEF line
  <2>3. RowReads(group, tm2, r, line)
    BY <2>1, <2>2 DEF RowReads
  <2> QED
    BY <2>3 DEF line
<1> QED
  BY <1>2 DEF GroupOK

\* convert_to_variable of a constant: one more column, of its text's id.
LEMMA ConvertFields ==
  ASSUME NEW group \in Groups, NEW tm \in TermMaps,
         NEW i \in 1 .. Len(group.tokens), ~IsVariable(group.tokens[i])
  PROVE  LET new == ConvertToVariable(group, tm, i)
             n   == Len(group.columns) + 1
             id  == TermIdOf(tm, group.tokens[i].text, FALSE)
         IN  /\ new \in Groups
             /\ new.num_docs = group.num_docs
             /\ Len(new.tokens) = Len(group.tokens)
             /\ \A j \in 1 .. Len(group.tokens) :
                  j # i => new.tokens[j] = group.tokens[j]
             /\ IsVariable(new.tokens[i]) /\ ~IsConstant(new.tokens[i])
             /\ new.tokens[i].column_index = n
             /\ Len(new.columns) = n
             /\ \A c \in 1 .. Len(group.columns) : new.columns[c] = group.columns[c]
             /\ Len(new.columns[n]) = group.num_docs
             /\ \A r \in 1 .. group.num_docs : new.columns[n][r] = id
<1> DEFINE id     == TermIdOf(tm, group.tokens[i].text, FALSE)
           n      == Len(group.columns) + 1
           column == [r \in 1 .. group.num_docs |-> id]
           token  == NewVariable(group.tokens[i].token_type, n)
           new    == ConvertToVariable(group, tm, i)
<1>1. /\ group.tokens[i] \in TemplateTokens /\ IsConstant(group.tokens[i])
      /\ group.tokens[i].text \in Texts /\ group.tokens[i].token_type \in Types
      /\ Len(group.columns) \in Nat /\ group.num_docs \in Nat
  BY GroupFields, TokenKinds DEF TemplateTokens, ConstantTokens, VariableTokens
<1>2. id \in Nat /\ n \in Nat \ {0}
  <2>1. id \in Nat
    BY <1>1, MutateOrCreateType
  <2>2. n \in Nat \ {0}
    BY <1>1
  <2> QED BY <2>1, <2>2
<1>3. /\ token \in TemplateTokens /\ IsVariable(token) /\ ~IsConstant(token)
      /\ token.column_index = n
  <2> HIDE DEF n
  <2> QED
    BY <1>1, <1>2, NewTokens
<1>4. /\ column \in Seq(Nat) /\ Len(column) = group.num_docs
      /\ \A r \in 1 .. group.num_docs : column[r] = id
  <2> HIDE DEF id
  <2> QED BY <1>1, <1>2
<1>5. new = [tokens   |-> [group.tokens EXCEPT ![i] = token],
             columns  |-> Append(group.columns, column),
             num_docs |-> group.num_docs]
  <2>1. new = [group EXCEPT !.columns   = Append(group.columns, column),
                            !.tokens[i] = token]
    BY DEF ConvertToVariable
  <2>2. group = [tokens   |-> group.tokens,
                 columns  |-> group.columns,
                 num_docs |-> group.num_docs]
    BY DEF Groups
  <2> HIDE DEF new, column, token
  <2> QED BY <2>1, <2>2
<1> HIDE DEF new, column, token
<1>6. /\ new.tokens = [group.tokens EXCEPT ![i] = token]
      /\ new.columns = Append(group.columns, column)
      /\ new.num_docs = group.num_docs
  BY <1>5
<1>7. /\ new.tokens \in Seq(TemplateTokens)
      /\ Len(new.tokens) = Len(group.tokens)
      /\ \A j \in 1 .. Len(group.tokens) : j # i => new.tokens[j] = group.tokens[j]
      /\ new.tokens[i] = token
  BY <1>3, <1>6, GroupFields, ExceptSeq
<1>8. /\ new.columns \in Seq(Seq(Nat))
      /\ Len(new.columns) = n
      /\ \A c \in 1 .. Len(group.columns) : new.columns[c] = group.columns[c]
      /\ new.columns[n] = column
  BY <1>4, <1>6, GroupFields, AppendProperties
<1>9. new \in Groups
  BY <1>5, <1>6, <1>7, <1>8, GroupFields DEF Groups
<1> QED BY <1>3, <1>4, <1>6, <1>7, <1>8, <1>9 DEF new

LEMMA ConvertOwned ==
  ASSUME NEW group \in Groups, NEW tm \in TermMaps, ColumnsOwned(group),
         NEW i \in 1 .. Len(group.tokens), ~IsVariable(group.tokens[i])
  PROVE  ColumnsOwned(ConvertToVariable(group, tm, i))
<1> DEFINE new == ConvertToVariable(group, tm, i)
           n   == Len(group.columns) + 1
<1>1. /\ Len(new.tokens) = Len(group.tokens)
      /\ \A j \in 1 .. Len(group.tokens) :
           j # i => new.tokens[j] = group.tokens[j]
      /\ IsVariable(new.tokens[i]) /\ new.tokens[i].column_index = n
      /\ Len(new.columns) = n
  BY ConvertFields, ZenonT(30)
<1>2. Len(group.tokens) \in Nat /\ Len(group.columns) \in Nat
  BY GroupFields
<1> HIDE DEF new
<1>3. \A j \in 1 .. Len(group.tokens) :
        IsVariable(group.tokens[j]) =>
          j # i /\ group.tokens[j].column_index \in 1 .. Len(group.columns)
  BY DEF ColumnsOwned
<1>4. ASSUME NEW j \in 1 .. Len(new.tokens), IsVariable(new.tokens[j])
      PROVE  new.tokens[j].column_index \in 1 .. Len(new.columns)
  <2>1. CASE j = i
    BY <1>1, <1>2, <2>1
  <2>2. CASE j # i
    <3>1. new.tokens[j].column_index \in 1 .. Len(group.columns)
      BY <1>1, <1>3, <1>4, <2>2
    <3>2. 1 .. Len(group.columns) \subseteq 1 .. Len(new.columns)
      BY <1>1, <1>2
    <3> QED
      BY <3>1, <3>2
  <2> QED
    BY <2>1, <2>2
<1>5. ASSUME NEW j \in 1 .. Len(new.tokens), NEW k \in 1 .. Len(new.tokens),
             IsVariable(new.tokens[j]), IsVariable(new.tokens[k]),
             new.tokens[j].column_index = new.tokens[k].column_index
      PROVE  j = k
  <2>1. CASE j # i /\ k # i
    BY <1>1, <1>5, <2>1 DEF ColumnsOwned
  <2>2. CASE j # i /\ k = i
    BY <1>1, <1>2, <1>3, <1>5, <2>2
  <2>3. CASE j = i /\ k # i
    BY <1>1, <1>2, <1>3, <1>5, <2>3
  <2> QED BY <2>1, <2>2, <2>3
<1>6. ASSUME NEW c \in 1 .. Len(new.columns)
      PROVE  \E j \in 1 .. Len(new.tokens) :
               IsVariable(new.tokens[j]) /\ new.tokens[j].column_index = c
  <2>1. CASE c = n
    BY <1>1, <2>1
  <2>2. CASE c # n
    <3>1. c \in 1 .. Len(group.columns)
      BY <1>1, <1>2, <2>2
    <3>2. PICK j \in 1 .. Len(group.tokens) :
            IsVariable(group.tokens[j]) /\ group.tokens[j].column_index = c
      BY <3>1 DEF ColumnsOwned
    <3> QED BY <1>1, <1>3, <3>2
  <2> QED BY <2>1, <2>2
<1> QED BY <1>4, <1>5, <1>6 DEF ColumnsOwned, new

\* convert_to_variable: every row reads as before, through the new term map.
LEMMA ConvertOK ==
  ASSUME NEW group, NEW tm \in TermMaps, NEW ls, NEW rows, GroupOK(group, tm, ls, rows),
         NEW i \in 1 .. Len(group.tokens)
  PROVE  GroupOK(ConvertToVariable(group, tm, i), TermMapAfterConvert(group, tm, i),
                 ls, rows)
<1> DEFINE new == ConvertToVariable(group, tm, i)
           tm2 == TermMapAfterConvert(group, tm, i)
<1>1. CASE IsVariable(group.tokens[i])
  BY <1>1 DEF ConvertToVariable, TermMapAfterConvert
<1>2. CASE ~IsVariable(group.tokens[i])
  <2> DEFINE text == group.tokens[i].text
             id   == TermIdOf(tm, text, FALSE)
             n    == Len(group.columns) + 1
  <2>1. group \in Groups /\ ColumnsOwned(group)
    BY DEF GroupOK
  <2>2. /\ text \in Texts /\ IsConstant(group.tokens[i])
        /\ Len(group.columns) \in Nat
        /\ \A j \in 1 .. Len(group.tokens) : group.tokens[j] \in TemplateTokens
    BY <1>2, <2>1, GroupFields, TokenKinds
  <2>3. /\ tm2 = MutateOrCreate(tm, text, FALSE)
        /\ Stored(tm2, id, Capped[text]) /\ Extends(tm2, tm)
    BY <1>2, <2>2, TermIdNamesKey, MutateOrCreateExtends DEF TermMapAfterConvert
  <2>4. /\ new \in Groups
        /\ new.num_docs = group.num_docs
        /\ Len(new.tokens) = Len(group.tokens)
        /\ \A j \in 1 .. Len(group.tokens) :
             j # i => new.tokens[j] = group.tokens[j]
        /\ IsVariable(new.tokens[i]) /\ ~IsConstant(new.tokens[i])
        /\ new.tokens[i].column_index = n
        /\ Len(new.columns) = n
        /\ \A c \in 1 .. Len(group.columns) : new.columns[c] = group.columns[c]
        /\ Len(new.columns[n]) = group.num_docs
        /\ \A r \in 1 .. group.num_docs : new.columns[n][r] = id
    BY <1>2, <2>1, ConvertFields, ZenonT(30)
  <2>5. ColumnsOwned(new)
    BY <1>2, <2>1, ConvertOwned
  <2>6. GroupOK(group, tm2, ls, rows)
    BY <2>3, RowsStayWhenTermsGrow
  <2>7. n = Len(group.columns) + 1
    OBVIOUS
  <2> HIDE DEF new, tm2, id, n
  <2>8. \A c \in 1 .. Len(new.columns) : Len(new.columns[c]) = new.num_docs
    <3> TAKE c \in 1 .. Len(new.columns)
    <3>1. c = n \/ c \in 1 .. Len(group.columns)
      BY <2>2, <2>4, <2>7
    <3> QED
      BY <2>4, <3>1 DEF GroupOK
  <2>9. ASSUME NEW r \in 1 .. new.num_docs
        PROVE  RowReads(new, tm2, r, ls[rows[r]])
    <3> DEFINE line == ls[rows[r]]
    <3>1. RowReads(group, tm2, r, line) /\ r \in 1 .. group.num_docs
      BY <2>4, <2>6 DEF GroupOK
    <3> HIDE DEF line
    <3>2. ASSUME NEW j \in 1 .. Len(group.tokens)
          PROVE  CellRecovers(new, tm2, j, r, line[j])
      <4>1. CellRecovers(group, tm2, j, r, line[j])
        BY <3>1 DEF RowReads
      <4>2. CASE j # i
        <5>1. SameToken(group, r, new, r, j)
          <6>1. IsConstant(group.tokens[j]) <=> ~IsVariable(group.tokens[j])
            BY <2>2, TokenKinds
          <6>2. IsVariable(group.tokens[j]) =>
                  group.tokens[j].column_index \in 1 .. Len(group.columns)
            BY <2>1 DEF ColumnsOwned
          <6> QED
            BY <2>4, <4>2, <6>1, <6>2 DEF SameToken
        <5> QED
          BY <4>1, <5>1, SameCell
      <4>3. CASE j = i
        <5>1. ~IsVariable(group.tokens[j]) /\ text = group.tokens[j].text
          BY <1>2, <4>3
        <5>2. text = line[j] \/ text = Capped[line[j]]
          BY <4>1, <5>1 DEF CellRecovers, CellReads
        <5>3. Capped[text] = Capped[line[j]]
          <6>1. line \in Seq(Texts) /\ j \in 1 .. Len(line)
            BY <3>1 DEF RowReads
          <6>2. line[j] \in Texts
            BY <6>1, ElementOfSeq
          <6> QED
            BY <5>2, <6>2, CappedAssumption DEF CappedAssumption
        <5>4. CellReads(new, tm2, j, r, Capped[line[j]])
          <6>1. new.columns[new.tokens[j].column_index][r] = id
            BY <2>4, <3>1, <4>3
          <6> QED
            BY <2>3, <2>4, <4>3, <5>3, <6>1 DEF CellReads
        <5> QED
          BY <5>4 DEF CellRecovers
      <4> QED
        BY <4>2, <4>3
    <3>3. RowReads(new, tm2, r, line)
      BY <2>4, <3>1, <3>2 DEF RowReads
    <3> QED
      BY <3>3 DEF line
  <2>10. GroupOK(new, tm2, ls, rows)
    BY <2>4, <2>5, <2>6, <2>8, <2>9 DEF GroupOK
  <2> QED
    BY <2>10 DEF new, tm2
<1> QED
  BY <1>1, <1>2

IsConcat(seq, left, right) ==
  /\ Len(seq) = Len(left) + Len(right)
  /\ \A r \in 1 .. Len(left) : seq[r] = left[r]
  /\ \A r \in 1 .. Len(right) : seq[Len(left) + r] = right[r]

LEMMA ConcatParts ==
  ASSUME NEW S, NEW left \in Seq(S), NEW right \in Seq(S), NEW seq, seq = left \o right
  PROVE  seq \in Seq(S) /\ IsConcat(seq, left, right)
<1>1. Len(left) \in Nat /\ Len(right) \in Nat
  BY LenProperties
<1>2. /\ left \o right \in Seq(S)
      /\ Len(left \o right) = Len(left) + Len(right)
      /\ \A d \in 1 .. Len(left) + Len(right) :
           (left \o right)[d] = IF d <= Len(left) THEN left[d]
                                                  ELSE right[d - Len(left)]
  BY ConcatProperties
<1>3. ASSUME NEW r \in 1 .. Len(left)
      PROVE  (left \o right)[r] = left[r]
  BY <1>1, <1>2
<1>4. ASSUME NEW r \in 1 .. Len(right)
      PROVE  (left \o right)[Len(left) + r] = right[r]
  <2>1. /\ Len(left) + r \in 1 .. Len(left) + Len(right)
        /\ ~(Len(left) + r <= Len(left)) /\ (Len(left) + r) - Len(left) = r
    BY <1>1
  <2> QED
    BY <1>2, <2>1
<1> QED
  BY <1>2, <1>3, <1>4 DEF IsConcat

\* Groups that DocGroup::append can join: variables at the same positions,
\* the same constants at the others.
Appendable(group, other) ==
  /\ group \in Groups /\ other \in Groups
  /\ ColumnsOwned(group) /\ ColumnsOwned(other)
  /\ Len(group.tokens) = Len(other.tokens)
  /\ \A i \in 1 .. Len(group.tokens) :
       /\ IsVariable(group.tokens[i]) <=> IsVariable(other.tokens[i])
       /\ IsConstant(group.tokens[i]) => other.tokens[i].text = group.tokens[i].text

\* Column c of the joined group: that of the first group's token i and the
\* other's column for that token.
JoinedColumn(group, other, i) ==
  group.columns[group.tokens[i].column_index]
    \o other.columns[other.tokens[i].column_index]

LEMMA AppendFields ==
  ASSUME NEW group, NEW other, Appendable(group, other)
  PROVE  LET new == AppendGroup(group, other)
         IN  /\ new \in Groups
             /\ new.tokens = group.tokens
             /\ new.num_docs = group.num_docs + other.num_docs
             /\ Len(new.columns) = Len(group.columns)
             /\ \A i \in 1 .. Len(group.tokens) : IsVariable(group.tokens[i]) =>
                  new.columns[group.tokens[i].column_index] = JoinedColumn(group, other, i)
<1> DEFINE new == AppendGroup(group, other)
           Paired(i, c) == /\ IsVariable(group.tokens[i])
                           /\ IsVariable(other.tokens[i])
                           /\ group.tokens[i].column_index = c
           Positions    == 1 .. Len(group.tokens) \cap 1 .. Len(other.tokens)
           Joined(c)    == IF \E i \in Positions : Paired(i, c)
                           THEN LET i == CHOOSE i \in Positions : Paired(i, c)
                                IN  group.columns[c]
                                      \o other.columns[other.tokens[i].column_index]
                           ELSE group.columns[c]
           cols == [c \in DOMAIN group.columns |-> Joined(c)]
<1>1. /\ group \in Groups /\ other \in Groups
      /\ ColumnsOwned(group) /\ ColumnsOwned(other)
      /\ Len(group.tokens) = Len(other.tokens)
      /\ \A i \in 1 .. Len(group.tokens) :
           IsVariable(group.tokens[i]) <=> IsVariable(other.tokens[i])
  BY DEF Appendable
<1>2. /\ group.tokens \in Seq(TemplateTokens) /\ group.columns \in Seq(Seq(Nat))
      /\ Len(group.columns) \in Nat /\ Len(group.tokens) \in Nat
      /\ group.num_docs \in Nat /\ other.num_docs \in Nat
      /\ DOMAIN group.columns = 1 .. Len(group.columns)
  BY <1>1, GroupFields, LenProperties
<1>3. Positions = 1 .. Len(group.tokens)
  BY <1>1
<1> HIDE DEF Positions
<1>4. ASSUME NEW i \in 1 .. Len(group.tokens), IsVariable(group.tokens[i])
      PROVE  /\ group.tokens[i].column_index \in 1 .. Len(group.columns)
             /\ Joined(group.tokens[i].column_index) = JoinedColumn(group, other, i)
             /\ Joined(group.tokens[i].column_index) \in Seq(Nat)
  <2> DEFINE c == group.tokens[i].column_index
  <2>1. c \in 1 .. Len(group.columns) /\ group.columns[c] \in Seq(Nat)
    BY <1>1, <1>4, GroupFields DEF ColumnsOwned
  <2>2. other.tokens[i].column_index \in 1 .. Len(other.columns)
    BY <1>1, <1>4 DEF ColumnsOwned
  <2>3. other.columns[other.tokens[i].column_index] \in Seq(Nat)
    BY <1>1, <2>2, GroupFields
  <2>4. Paired(i, c)
    BY <1>1, <1>4
  <2>5. \A j \in Positions : Paired(j, c) => j = i
    BY <1>1, <1>3, <1>4 DEF ColumnsOwned
  <2> HIDE DEF Paired
  <2>6. i \in Positions /\ (CHOOSE j \in Positions : Paired(j, c)) = i
    BY <1>3, <2>4, <2>5
  <2>7. Joined(c) = group.columns[c] \o other.columns[other.tokens[i].column_index]
    <3> HIDE DEF c
    <3> QED
      BY <2>4, <2>6
  <2>8. JoinedColumn(group, other, i) \in Seq(Nat)
    <3> HIDE DEF c
    <3>1. group.columns[c] \o other.columns[other.tokens[i].column_index] \in Seq(Nat)
      BY <2>1, <2>3, ConcatProperties
    <3> QED
      BY <3>1 DEF JoinedColumn, c
  <2> HIDE DEF Joined
  <2> QED
    BY <2>1, <2>7, <2>8 DEF JoinedColumn
<1>5. \A c \in 1 .. Len(group.columns) : Joined(c) \in Seq(Nat)
  <2> TAKE c \in 1 .. Len(group.columns)
  <2>1. PICK i \in 1 .. Len(group.tokens) :
          IsVariable(group.tokens[i]) /\ group.tokens[i].column_index = c
    BY <1>1 DEF ColumnsOwned
  <2> HIDE DEF Joined
  <2> QED
    BY <1>4, <2>1
<1> HIDE DEF Joined
<1>6. cols \in [1 .. Len(group.columns) -> Seq(Nat)]
  BY <1>2, <1>5
<1>7. \A c \in 1 .. Len(group.columns) : cols[c] = Joined(c)
  BY <1>2
<1>8. cols \in Seq(Seq(Nat)) /\ Len(cols) = Len(group.columns)
  <2> HIDE DEF cols
  <2> QED
    BY <1>2, <1>6, FunctionIsSeq
<1>9. new = [tokens |-> group.tokens, columns |-> cols,
             num_docs |-> group.num_docs + other.num_docs]
  <2>1. new = [group EXCEPT !.num_docs = group.num_docs + other.num_docs,
                            !.columns = cols]
    BY DEF AppendGroup, Joined, Paired, Positions
  <2>2. group = [tokens |-> group.tokens, columns |-> group.columns,
                 num_docs |-> group.num_docs]
    BY <1>1 DEF Groups
  <2> HIDE DEF new, cols
  <2> QED
    BY <2>1, <2>2
<1> HIDE DEF new, cols
<1>10. group.num_docs + other.num_docs \in Nat
  BY <1>2
<1>11. new \in Groups
  BY <1>2, <1>8, <1>9, <1>10 DEF Groups
<1>12. /\ new.tokens = group.tokens /\ new.columns = cols
       /\ new.num_docs = group.num_docs + other.num_docs
  BY <1>9
<1>13. \A i \in 1 .. Len(group.tokens) : IsVariable(group.tokens[i]) =>
         new.columns[group.tokens[i].column_index] = JoinedColumn(group, other, i)
  BY <1>4, <1>7, <1>12
<1> QED
  BY <1>8, <1>11, <1>12, <1>13 DEF new

\* DocGroup::append: the rows of both groups read as before.
LEMMA AppendOK ==
  ASSUME NEW group, NEW other, NEW tm, NEW ls, NEW rows, NEW more,
         GroupOK(group, tm, ls, rows), GroupOK(other, tm, ls, more),
         Appendable(group, other)
  PROVE  GroupOK(AppendGroup(group, other), tm, ls, rows \o more)
<1> DEFINE new == AppendGroup(group, other)
           all == rows \o more
<1>1. /\ group \in Groups /\ other \in Groups
      /\ ColumnsOwned(group) /\ ColumnsOwned(other)
      /\ Len(group.tokens) = Len(other.tokens)
      /\ \A i \in 1 .. Len(group.tokens) :
           /\ IsVariable(group.tokens[i]) <=> IsVariable(other.tokens[i])
           /\ IsConstant(group.tokens[i]) => other.tokens[i].text = group.tokens[i].text
  BY DEF Appendable
<1>2. /\ group.num_docs \in Nat /\ other.num_docs \in Nat
      /\ rows \in Seq(Nat) /\ Len(rows) = group.num_docs
      /\ more \in Seq(Nat) /\ Len(more) = other.num_docs
  BY GroupFields DEF GroupOK
<1>3. /\ new \in Groups
      /\ new.tokens = group.tokens
      /\ new.num_docs = group.num_docs + other.num_docs
      /\ Len(new.columns) = Len(group.columns)
      /\ \A i \in 1 .. Len(group.tokens) : IsVariable(group.tokens[i]) =>
           new.columns[group.tokens[i].column_index] = JoinedColumn(group, other, i)
  BY AppendFields, ZenonT(30)
<1>4. /\ all \in Seq(Nat) /\ Len(all) = new.num_docs
      /\ \A r \in 1 .. group.num_docs : all[r] = rows[r]
      /\ \A r \in 1 .. other.num_docs : all[group.num_docs + r] = more[r]
  <2>1. new.num_docs = group.num_docs + other.num_docs
    BY <1>3
  <2>2. all \in Seq(Nat) /\ IsConcat(all, rows, more)
    BY <1>2, ConcatParts
  <2> HIDE DEF new, all
  <2> QED
    BY <1>2, <2>1, <2>2 DEF IsConcat
<1>13. /\ new.num_docs = group.num_docs + other.num_docs
       /\ group.num_docs \in Nat /\ other.num_docs \in Nat
  BY <1>2, <1>3
<1> HIDE DEF new, all
<1>5. ColumnsOwned(new)
  BY <1>1, <1>3 DEF ColumnsOwned
<1>6. ASSUME NEW i \in 1 .. Len(group.tokens), IsVariable(group.tokens[i])
      PROVE  LET left   == group.columns[group.tokens[i].column_index]
                 right  == other.columns[other.tokens[i].column_index]
                 joined == new.columns[new.tokens[i].column_index]
             IN  /\ Len(joined) = new.num_docs
                 /\ \A r \in 1 .. group.num_docs : joined[r] = left[r]
                 /\ \A r \in 1 .. other.num_docs :
                      joined[group.num_docs + r] = right[r]
  <2> DEFINE left   == group.columns[group.tokens[i].column_index]
             right  == other.columns[other.tokens[i].column_index]
             joined == new.columns[new.tokens[i].column_index]
  <2>1. left \in Seq(Nat) /\ Len(left) = group.num_docs
    BY <1>1, <1>6, CellFacts DEF GroupOK
  <2>2. right \in Seq(Nat) /\ Len(right) = other.num_docs
    <3>1. i \in 1 .. Len(other.tokens) /\ IsVariable(other.tokens[i])
      BY <1>1, <1>6
    <3> QED
      BY <1>1, <3>1, CellFacts DEF GroupOK
  <2>3. joined = left \o right
    BY <1>3, <1>6 DEF JoinedColumn
  <2> HIDE DEF left, right, joined
  <2>4. /\ Len(joined) = new.num_docs
        /\ \A r \in 1 .. group.num_docs : joined[r] = left[r]
        /\ \A r \in 1 .. other.num_docs : joined[group.num_docs + r] = right[r]
    <3>1. IsConcat(joined, left, right)
      BY <2>1, <2>2, <2>3, ConcatParts
    <3> QED
      BY <1>13, <2>1, <2>2, <3>1 DEF IsConcat
  <2> QED
    BY <2>4 DEF left, right, joined
<1>7. \A c \in 1 .. Len(new.columns) : Len(new.columns[c]) = new.num_docs
  <2> TAKE c \in 1 .. Len(new.columns)
  <2>1. PICK i \in 1 .. Len(group.tokens) :
          IsVariable(group.tokens[i]) /\ group.tokens[i].column_index = c
    BY <1>3, <1>5 DEF ColumnsOwned
  <2> QED
    BY <1>3, <1>6, <2>1
<1>8. \A i \in 1 .. Len(group.tokens) :
        /\ IsConstant(group.tokens[i]) <=> ~IsVariable(group.tokens[i])
        /\ IsConstant(other.tokens[i]) <=> ~IsVariable(other.tokens[i])
  BY <1>1, GroupFields, TokenKinds
<1>9. ASSUME NEW r \in 1 .. group.num_docs
      PROVE  RowReads(new, tm, r, ls[all[r]])
  <2>1. RowReads(group, tm, r, ls[all[r]])
    BY <1>4 DEF GroupOK
  <2>2. \A i \in 1 .. Len(group.tokens) : SameToken(group, r, new, r, i)
    BY <1>3, <1>6, <1>8 DEF SameToken
  <2> QED
    BY <1>3, <2>1, <2>2, SameRow
<1>10. ASSUME NEW r \in 1 .. other.num_docs
       PROVE  RowReads(new, tm, group.num_docs + r, ls[all[group.num_docs + r]])
  <2>1. RowReads(other, tm, r, ls[all[group.num_docs + r]])
    BY <1>4 DEF GroupOK
  <2>2. \A i \in 1 .. Len(other.tokens) :
          SameToken(other, r, new, group.num_docs + r, i)
    BY <1>1, <1>3, <1>6, <1>8 DEF SameToken
  <2> QED
    BY <1>1, <1>3, <2>1, <2>2, SameRow
<1>11. ASSUME NEW r \in 1 .. new.num_docs
       PROVE  RowReads(new, tm, r, ls[all[r]])
  <2>1. CASE r <= group.num_docs
    <3>1. r \in 1 .. group.num_docs
      BY <1>13, <2>1
    <3> QED
      BY <1>9, <3>1
  <2>2. CASE ~(r <= group.num_docs)
    <3> DEFINE s == r - group.num_docs
    <3>1. s \in 1 .. other.num_docs /\ group.num_docs + s = r
      BY <1>13, <2>2
    <3> HIDE DEF s
    <3>2. RowReads(new, tm, group.num_docs + s, ls[all[group.num_docs + s]])
      BY <1>10, <3>1
    <3> QED
      BY <3>1, <3>2
  <2> QED
    BY <2>1, <2>2
<1>12. GroupOK(new, tm, ls, all)
  BY <1>3, <1>4, <1>5, <1>7, <1>11 DEF GroupOK
<1> QED
  BY <1>12 DEF new, all

-----------------------------------------------------------------------------
(* The key of a group while its class is merged.                           *)

LEMMA KeyFacts ==
  ASSUME NEW group \in Groups
  PROVE  /\ Len(MergeKey(group)) = Len(group.tokens)
         /\ Len(group.tokens) \in Nat
         /\ \A i \in 1 .. Len(group.tokens) :
              MergeKey(group)[i] = MergeableToken(group.tokens[i], group.num_docs)
<1>1. Len(group.tokens) \in Nat
  BY GroupFields
<1> QED
  BY <1>1 DEF MergeKey

\* Groups of as many tokens have the same key if each token says the same.
LEMMA SameKey ==
  ASSUME NEW group \in Groups, NEW other \in Groups,
         Len(group.tokens) = Len(other.tokens),
         \A i \in 1 .. Len(group.tokens) :
           MergeableToken(group.tokens[i], group.num_docs)
             = MergeableToken(other.tokens[i], other.num_docs)
  PROVE  MergeKey(group) = MergeKey(other)
BY DEF MergeKey

LEMMA KeyOfToken ==
  ASSUME NEW token, NEW num_docs
  PROVE  LET key == MergeableToken(token, num_docs)
         IN  /\ key.kind = "Variable" <=> ~(IsConstant(token) /\ num_docs >= MergeMinDocs)
             /\ key.kind = "Variable" => key = [kind |-> "Variable"]
             /\ key.kind # "Variable" => key = [kind |-> "Constant", text |-> token.text]
             /\ key.kind # "Variable" => key.text = token.text
<1>1. CASE IsConstant(token) /\ num_docs >= MergeMinDocs
  BY <1>1 DEF MergeableToken
<1>2. CASE ~(IsConstant(token) /\ num_docs >= MergeMinDocs)
  BY <1>2 DEF MergeableToken
<1> QED
  BY <1>1, <1>2

\* The tokens left of upto that a class's key wants variable are variable.
Converted(group, key, upto) ==
  \A i \in 1 .. Len(group.tokens) :
    i < upto /\ key[i].kind = "Variable" => IsVariable(group.tokens[i])

\* A token that is converted was no constant of the key.
LEMMA ConvertKeepsKey ==
  ASSUME NEW group \in Groups, NEW tm \in TermMaps,
         NEW i \in 1 .. Len(group.tokens), MergeKey(group)[i].kind = "Variable"
  PROVE  LET new == ConvertToVariable(group, tm, i)
         IN  /\ MergeKey(new) = MergeKey(group)
             /\ \A upto \in Nat : Converted(group, MergeKey(group), upto) =>
                                   Converted(new, MergeKey(group), upto)
             /\ Converted(group, MergeKey(group), i) =>
                  Converted(new, MergeKey(group), i + 1)
<1> DEFINE new == ConvertToVariable(group, tm, i)
<1>1. /\ Len(group.tokens) \in Nat
      /\ \A j \in 1 .. Len(group.tokens) :
           MergeKey(group)[j] = MergeableToken(group.tokens[j], group.num_docs)
  BY KeyFacts
<1>2. CASE IsVariable(group.tokens[i])
  <2>1. new = group
    BY <1>2 DEF ConvertToVariable
  <2>2. Converted(group, MergeKey(group), i) => Converted(group, MergeKey(group), i + 1)
    BY <1>1, <1>2 DEF Converted
  <2> HIDE DEF new
  <2>3. /\ MergeKey(new) = MergeKey(group)
        /\ \A upto \in Nat : Converted(group, MergeKey(group), upto) =>
                              Converted(new, MergeKey(group), upto)
        /\ Converted(group, MergeKey(group), i) =>
             Converted(new, MergeKey(group), i + 1)
    BY <2>1, <2>2
  <2> QED
    BY <2>3 DEF new
<1>3. CASE ~IsVariable(group.tokens[i])
  <2>1. /\ new \in Groups
        /\ new.num_docs = group.num_docs
        /\ Len(new.tokens) = Len(group.tokens)
        /\ \A j \in 1 .. Len(group.tokens) :
             j # i => new.tokens[j] = group.tokens[j]
        /\ IsVariable(new.tokens[i]) /\ ~IsConstant(new.tokens[i])
    BY <1>3, ConvertFields, ZenonT(30)
  <2> HIDE DEF new
  <2>2. \A j \in 1 .. Len(group.tokens) :
          MergeableToken(new.tokens[j], new.num_docs)
            = MergeableToken(group.tokens[j], group.num_docs)
    <3> TAKE j \in 1 .. Len(group.tokens)
    <3>1. CASE j # i
      BY <2>1, <3>1
    <3>2. CASE j = i
      <4>1. MergeableToken(group.tokens[i], group.num_docs).kind = "Variable"
        BY <1>1
      <4>2. MergeableToken(group.tokens[i], group.num_docs) = [kind |-> "Variable"]
        BY <4>1, KeyOfToken
      <4>3. MergeableToken(new.tokens[i], new.num_docs) = [kind |-> "Variable"]
        BY <2>1 DEF MergeableToken
      <4> QED
        BY <3>2, <4>2, <4>3
    <3> QED
      BY <3>1, <3>2
  <2>3. MergeKey(new) = MergeKey(group)
    BY <2>1, <2>2, SameKey
  <2>4. \A upto \in Nat : Converted(group, MergeKey(group), upto) =>
                           Converted(new, MergeKey(group), upto)
    BY <2>1 DEF Converted
  <2>5. Converted(group, MergeKey(group), i) => Converted(new, MergeKey(group), i + 1)
    <3>1. \A j \in 1 .. Len(group.tokens) : j < i + 1 => j < i \/ j = i
      BY <1>1
    <3> QED
      BY <2>1, <3>1 DEF Converted
  <2> QED
    BY <2>3, <2>4, <2>5 DEF new
<1> QED
  BY <1>2, <1>3

\* What remains of the class's key when all its variables are converted.
LEMMA KeyOfConverted ==
  ASSUME NEW group \in Groups,
         Converted(group, MergeKey(group), Len(group.tokens) + 1),
         NEW i \in 1 .. Len(group.tokens)
  PROVE  /\ IsVariable(group.tokens[i]) <=> MergeKey(group)[i].kind = "Variable"
         /\ IsConstant(group.tokens[i]) =>
              /\ MergeKey(group)[i].text = group.tokens[i].text
              /\ group.num_docs >= MergeMinDocs
<1>1. /\ Len(group.tokens) \in Nat
      /\ MergeKey(group)[i] = MergeableToken(group.tokens[i], group.num_docs)
      /\ IsConstant(group.tokens[i]) <=> ~IsVariable(group.tokens[i])
  BY KeyFacts, GroupFields, TokenKinds
<1>2. MergeKey(group)[i].kind = "Variable" => IsVariable(group.tokens[i])
  <2>1. i < Len(group.tokens) + 1
    BY <1>1
  <2> QED
    BY <2>1 DEF Converted
<1> QED
  BY <1>1, <1>2, KeyOfToken

\* Converted groups of one class can be joined, and stay in it.
LEMMA AppendableByKey ==
  ASSUME NEW group \in Groups, NEW other \in Groups,
         ColumnsOwned(group), ColumnsOwned(other),
         MergeKey(group) = MergeKey(other),
         Converted(group, MergeKey(group), Len(group.tokens) + 1),
         Converted(other, MergeKey(other), Len(other.tokens) + 1)
  PROVE  Appendable(group, other)
<1>1. Len(group.tokens) = Len(other.tokens)
  BY KeyFacts
<1>2. ASSUME NEW i \in 1 .. Len(group.tokens)
      PROVE  /\ IsVariable(group.tokens[i]) <=> IsVariable(other.tokens[i])
             /\ IsConstant(group.tokens[i]) =>
                  other.tokens[i].text = group.tokens[i].text
  <2>1. i \in 1 .. Len(other.tokens)
    BY <1>1
  <2>2. /\ IsVariable(group.tokens[i]) <=> MergeKey(group)[i].kind = "Variable"
        /\ IsConstant(group.tokens[i]) =>
             MergeKey(group)[i].text = group.tokens[i].text
    BY KeyOfConverted
  <2>3. /\ IsVariable(other.tokens[i]) <=> MergeKey(other)[i].kind = "Variable"
        /\ IsConstant(other.tokens[i]) =>
             MergeKey(other)[i].text = other.tokens[i].text
    BY <2>1, KeyOfConverted
  <2>4. /\ IsConstant(group.tokens[i]) <=> ~IsVariable(group.tokens[i])
        /\ IsConstant(other.tokens[i]) <=> ~IsVariable(other.tokens[i])
    BY <2>1, GroupFields, TokenKinds
  <2> QED
    BY <2>2, <2>3, <2>4
<1> QED
  BY <1>1, <1>2 DEF Appendable

LEMMA AppendKeepsKey ==
  ASSUME NEW group \in Groups, NEW other \in Groups, Appendable(group, other),
         Converted(group, MergeKey(group), Len(group.tokens) + 1)
  PROVE  LET new == AppendGroup(group, other)
         IN  /\ MergeKey(new) = MergeKey(group)
             /\ Converted(new, MergeKey(group), Len(new.tokens) + 1)
<1> DEFINE new == AppendGroup(group, other)
<1>1. /\ new \in Groups
      /\ new.tokens = group.tokens
      /\ new.num_docs = group.num_docs + other.num_docs
  BY AppendFields
<1> HIDE DEF new
<1>2. \A i \in 1 .. Len(group.tokens) :
        MergeableToken(group.tokens[i], group.num_docs)
          = MergeableToken(new.tokens[i], new.num_docs)
  <2> TAKE i \in 1 .. Len(group.tokens)
  <2>1. CASE IsConstant(group.tokens[i])
    <3>1. group.num_docs >= MergeMinDocs
      BY <2>1, KeyOfConverted
    <3>2. new.num_docs >= MergeMinDocs
      BY <1>1, <3>1, GroupFields, PatternsAssumption DEF PatternsAssumption
    <3> QED
      BY <1>1, <2>1, <3>1, <3>2 DEF MergeableToken
  <2>2. CASE ~IsConstant(group.tokens[i])
    BY <1>1, <2>2 DEF MergeableToken
  <2> QED
    BY <2>1, <2>2
<1>3. MergeKey(new) = MergeKey(group)
  BY <1>1, <1>2, SameKey
<1>4. Converted(new, MergeKey(group), Len(new.tokens) + 1)
  BY <1>1 DEF Converted
<1> QED
  BY <1>3, <1>4 DEF new

-----------------------------------------------------------------------------
(* Where the groups are between two steps.                                 *)

\* Every group after the first pass, in the map or aside, reads back as the
\* lines its rows come from.
StoreOK ==
  /\ term_map \in TermMaps /\ TermIdsSound
  /\ groups \in [DOMAIN groups -> Groups]
  /\ origin \in [DOMAIN groups -> Seq(Nat)]
  /\ IsFiniteSet(DOMAIN groups)
  /\ \A g \in DOMAIN groups : GroupOK(groups[g], term_map, lines, origin[g])
  /\ aside \in Seq([group : Groups, rows : Seq(Nat)])
  /\ \A n \in 1 .. Len(aside) :
       GroupOK(aside[n].group, term_map, lines, aside[n].rows)

IsWork(w) ==
  /\ w = [ids |-> w.ids, key |-> w.key, token |-> w.token, member |-> w.member]
  /\ w.token \in Nat \ {0} /\ w.member \in Nat \ {0}

KeyOf(g) == MergeKey(groups[g])

\* The members of the class at work that are still in the map.
FirstLeft == IF aside = << >> THEN 1 ELSE work.member
Left == FirstLeft .. Len(work.ids)

\* A class that is not merged yet has exactly the groups with its key.
ClassOK(class) ==
  /\ class.ids = {g \in DOMAIN groups : KeyOf(g) = class.key}
  /\ class.ids # {}

\* The class at work: its groups are the members that are left, each once,
\* and those that the cursors have passed are converted.
MembersOK ==
  /\ Len(work.ids) \in Nat \ {0} /\ Len(work.key) \in Nat
  /\ \A m, n \in 1 .. Len(work.ids) : work.ids[m] = work.ids[n] => m = n
  /\ \A n \in Left : work.ids[n] \in DOMAIN groups /\ KeyOf(work.ids[n]) = work.key
  /\ \A g \in DOMAIN groups : KeyOf(g) = work.key => \E n \in Left : work.ids[n] = g
  /\ \A n \in Left : /\ Converted(groups[work.ids[n]], work.key, work.token)
                     /\ aside = << >> /\ n < work.member =>
                          Converted(groups[work.ids[n]], work.key, work.token + 1)

\* The group that the others of its class are appended to.
AsideOK ==
  aside # << >> =>
    /\ Len(aside) = 1 /\ work.token > Len(work.key)
    /\ MergeKey(aside[1].group) = work.key
    /\ Converted(aside[1].group, work.key, Len(work.key) + 1)

\* Groups with this key are still to be merged.
Pending(key) == (work # Idle /\ work.key = key) \/ \E class \in classes : class.key = key

MergeOK ==
  /\ \A class \in classes : ClassOK(class)
  /\ \A c, d \in classes : c.key = d.key => c = d
  /\ \A g, h \in DOMAIN groups : KeyOf(g) = KeyOf(h) => g = h \/ Pending(KeyOf(g))
  /\ work = Idle => aside = << >>
  /\ work # Idle => /\ MembersOK /\ AsideOK
                    /\ \A class \in classes : class.key # work.key

KeysDiffer == \A g, h \in DOMAIN groups : KeyOf(g) = KeyOf(h) => g = h

(***************************************************************************)
(* The inductive invariant of the whole run up to the merged groups.       *)
(***************************************************************************)
PatternsInv ==
  /\ phase \in {"ingest", "split", "classify", "merge", "merged"}
  /\ IsWork(work)
  /\ phase = "ingest" => /\ IngestInv /\ IsFiniteSet(DOMAIN groups)
                         /\ work = Idle /\ aside = << >>
  /\ phase # "ingest" => StoreOK
  /\ phase = "split" => /\ todo \subseteq DOMAIN groups
                        /\ work # Idle => work.ids[1] \in DOMAIN groups
  /\ phase = "classify" => work = Idle /\ aside = << >>
  /\ phase = "merge" => MergeOK
  /\ phase = "merged" => work = Idle /\ aside = << >> /\ KeysDiffer

\* No group is in the map under the id that a merged group is about to get:
\* insert_duplicate's salted fingerprints do not collide.
SaltedIdsFresh ==
  phase = "merge" /\ aside # << >> /\ work.member > Len(work.ids) =>
    DuplicateId(aside[1].group, salt[Len(aside[1].group.tokens)] + 1) \notin DOMAIN groups

LEMMA IdleIsWork == IsWork(Idle)
BY DEF IsWork, Idle

LEMMA PatternsInitInv == Init => PatternsInv
<1> SUFFICES ASSUME Init PROVE PatternsInv
  OBVIOUS
<1>1. /\ IngestInit /\ phase = "ingest" /\ work = Idle /\ aside = << >>
  BY DEF Init
<1>2. IngestInv
  BY <1>1, IngestInitInv
<1>3. DOMAIN groups = {}
  BY <1>1 DEF IngestInit
<1>4. IsFiniteSet(DOMAIN groups)
  BY <1>3, FS_EmptySet
<1>5. IsWork(work)
  BY <1>1, IdleIsWork
<1> QED
  BY <1>1, <1>2, <1>4, <1>5 DEF PatternsInv

\* The groups that hold the lines of the input stay finitely many.
LEMMA IngestKeepsFinite ==
  ASSUME IngestInv, IsFiniteSet(DOMAIN groups), IngestNext
  PROVE  IsFiniteSet(DOMAIN groups')
<1>1. ASSUME NEW line \in Lines, OpenGroup(line)
      PROVE  IsFiniteSet(DOMAIN groups')
  <2>1. DOMAIN groups' = DOMAIN groups \cup {GroupIdOf(line)}
    BY <1>1 DEF OpenGroup, Put
  <2> QED
    BY <2>1, FS_AddElement
<1>2. ASSUME NEW line \in Lines, BeginPush(line)
      PROVE  IsFiniteSet(DOMAIN groups')
  BY <1>2 DEF BeginPush
<1>3. CASE PushSameConstant \/ PushNewVariable \/ PushToColumn \/ EndPush
  <2>1. DOMAIN groups' = DOMAIN groups
    BY <1>3 DEF PushSameConstant, PushNewVariable, PushToColumn, EndPush
  <2> QED
    BY <2>1
<1> QED
  BY <1>1, <1>2, <1>3 DEF IngestNext

LEMMA IngestKeepsPatternsInv ==
  ASSUME PatternsInv, Ingest
  PROVE  PatternsInv'
<1>1. /\ phase = "ingest" /\ IngestNext
      /\ phase' = phase /\ work' = work /\ aside' = aside
  BY DEF Ingest, patternVars
<1>2. IngestInv /\ IsFiniteSet(DOMAIN groups) /\ IsWork(work) /\ work = Idle /\ aside = << >>
  BY <1>1 DEF PatternsInv
<1>3. IngestInv'
  BY <1>1, <1>2, IngestStepInv
<1>4. IsFiniteSet(DOMAIN groups')
  BY <1>1, <1>2, IngestKeepsFinite
<1> QED
  BY <1>1, <1>2, <1>3, <1>4 DEF PatternsInv, IsWork

\* Between two lines every group is whole.
LEMMA GroupsAfterIngest ==
  ASSUME IngestInv, pos = 0, NEW g \in DOMAIN groups
  PROVE  GroupOK(groups[g], term_map, lines, origin[g])
<1> DEFINE group == groups[g]
           rows  == origin[g]
<1>1. /\ group \in Groups /\ rows \in Seq(Nat) /\ lines \in Seq(Lines)
      /\ Len(rows) = group.num_docs
      /\ \A r \in 1 .. group.num_docs : rows[r] \in 1 .. Len(lines)
  BY DEF IngestInv, IngestTypeOK, GroupsMatchLines, NumPushed
<1>2. Rectangular(group, 0)
  BY DEF IngestInv, ColumnsRectangular, Cursor
<1>3. \A r \in 1 .. group.num_docs :
        /\ Len(lines[rows[r]]) = Len(group.tokens)
        /\ \A i \in 1 .. Len(group.tokens) :
             CellRecovers(group, term_map, i, r, lines[rows[r]][i])
  BY DEF IngestInv, RowsRecoverable
<1> HIDE DEF group, rows
<1>4. ASSUME NEW c \in 1 .. Len(group.columns)
      PROVE  Len(group.columns[c]) = group.num_docs
  <2>1. PICK i \in 1 .. Len(group.tokens) :
          IsVariable(group.tokens[i]) /\ group.tokens[i].column_index = c
    BY <1>2 DEF Rectangular, ColumnsOwned
  <2>2. Len(group.columns[c]) = group.num_docs + IF i < 0 THEN 1 ELSE 0
    BY <1>2, <2>1 DEF Rectangular
  <2>3. ~(i < 0) /\ group.num_docs \in Nat
    BY <1>1, GroupFields
  <2> QED
    BY <2>2, <2>3
<1>5. ASSUME NEW r \in 1 .. group.num_docs
      PROVE  RowReads(group, term_map, r, lines[rows[r]])
  <2>1. lines[rows[r]] \in Lines
    BY <1>1, ElementOfSeq
  <2>2. lines[rows[r]] \in Seq(Texts)
    BY <2>1, LineFacts
  <2> QED
    BY <1>3, <2>2 DEF RowReads
<1>6. GroupOK(group, term_map, lines, rows)
  BY <1>1, <1>2, <1>4, <1>5 DEF GroupOK, Rectangular
<1> QED
  BY <1>6 DEF group, rows

LEMMA EndOfInputKeepsInv ==
  ASSUME PatternsInv, NEW split \in BOOLEAN, EndOfInput(split)
  PROVE  PatternsInv'
<1>1. /\ phase = "ingest" /\ pos = 0
      /\ phase' \in {"split", "classify"}
      /\ todo' \subseteq DOMAIN groups
      /\ term_map' = term_map /\ groups' = groups /\ lines' = lines
      /\ origin' = origin /\ work' = work /\ aside' = aside
  BY DEF EndOfInput, ingestVars
<1>2. /\ IngestInv /\ IsFiniteSet(DOMAIN groups) /\ IsWork(work)
      /\ work = Idle /\ aside = << >>
  BY <1>1 DEF PatternsInv
<1>3. StoreOK
  <2>1. /\ term_map \in TermMaps /\ TermIdsSound
        /\ groups \in [DOMAIN groups -> Groups]
        /\ origin \in [DOMAIN groups -> Seq(Nat)]
    BY <1>2 DEF IngestInv, IngestTypeOK
  <2>2. \A g \in DOMAIN groups : GroupOK(groups[g], term_map, lines, origin[g])
    BY <1>1, <1>2, GroupsAfterIngest
  <2>3. aside \in Seq([group : Groups, rows : Seq(Nat)]) /\ Len(aside) = 0
    BY <1>2
  <2> QED
    BY <1>2, <2>1, <2>2, <2>3 DEF StoreOK
<1>4. StoreOK'
  BY <1>1, <1>3 DEF StoreOK, TermIdsSound
<1> QED
  BY <1>1, <1>2, <1>4 DEF PatternsInv, IsWork

LEMMA StoreStays ==
  ASSUME StoreOK, UNCHANGED <<term_map, groups, lines, origin, aside>>
  PROVE  StoreOK'
<1>1. /\ term_map' = term_map /\ groups' = groups /\ lines' = lines
      /\ origin' = origin /\ aside' = aside
  OBVIOUS
<1> QED
  BY <1>1 DEF StoreOK, TermIdsSound

\* Insertion into the map under an id, whatever the id.
LEMMA PutType ==
  ASSUME NEW S, NEW D, NEW f \in [D -> S], NEW id, NEW value \in S
  PROVE  Put(f, id, value) \in [D \cup {id} -> S]
BY DEF Put

\* insert_new_group of a group that is aside.
LEMMA InsertKeepsStore ==
  ASSUME StoreOK, InsertNewGroup
  PROVE  /\ StoreOK'
         /\ aside # << >> /\ Len(aside) \in Nat \ {0}
         /\ Len(aside') = Len(aside) - 1
         /\ LET id == DuplicateId(aside[1].group, salt[Len(aside[1].group.tokens)] + 1)
            IN  /\ DOMAIN groups' = DOMAIN groups \cup {id}
                /\ groups'[id] = aside[1].group
                /\ \A g \in DOMAIN groups : g # id => groups'[g] = groups[g]
<1> DEFINE new == aside[1]
           id  == DuplicateId(new.group, salt[Len(new.group.tokens)] + 1)
<1>1. /\ aside # << >> /\ aside \in Seq([group : Groups, rows : Seq(Nat)])
      /\ Head(aside) = new
  BY DEF StoreOK, InsertNewGroup
<1>2. /\ Len(aside) \in Nat \ {0} /\ new \in [group : Groups, rows : Seq(Nat)]
      /\ Tail(aside) \in Seq([group : Groups, rows : Seq(Nat)])
      /\ Len(Tail(aside)) = Len(aside) - 1
      /\ \A n \in 1 .. Len(aside) - 1 : Tail(aside)[n] = aside[n + 1]
  <2>1. /\ Head(aside) \in [group : Groups, rows : Seq(Nat)]
        /\ Tail(aside) \in Seq([group : Groups, rows : Seq(Nat)])
    BY <1>1, HeadTailProperties
  <2>2. /\ Len(Tail(aside)) = Len(aside) - 1
        /\ \A n \in 1 .. Len(Tail(aside)) : Tail(aside)[n] = aside[n + 1]
    BY <1>1, HeadTailProperties
  <2>3. Len(aside) \in Nat \ {0}
    BY <1>1, LenProperties, EmptySeq
  <2> HIDE DEF new
  <2> QED
    BY <1>1, <2>1, <2>2, <2>3
<1>3. /\ groups' = Put(groups, id, new.group)
      /\ origin' = Put(origin, id, new.rows)
      /\ aside' = Tail(aside)
      /\ term_map' = term_map /\ lines' = lines
  BY <1>1 DEF InsertNewGroup
<1>4. GroupOK(new.group, term_map, lines, new.rows)
  <2>1. 1 \in 1 .. Len(aside)
    BY <1>2
  <2> QED
    BY <2>1 DEF StoreOK
<1>5. new.group \in Groups /\ new.rows \in Seq(Nat)
  BY <1>2
<1>6. /\ groups \in [DOMAIN groups -> Groups] /\ origin \in [DOMAIN groups -> Seq(Nat)]
      /\ DOMAIN origin = DOMAIN groups
  BY DEF StoreOK
<1> HIDE DEF id, new
<1>7. /\ DOMAIN groups' = DOMAIN groups \cup {id}
      /\ groups'[id] = new.group
      /\ \A g \in DOMAIN groups : g # id => groups'[g] = groups[g]
      /\ origin'[id] = new.rows
      /\ \A g \in DOMAIN groups : g # id => origin'[g] = origin[g]
  <2>1. /\ DOMAIN groups' = DOMAIN groups \cup {id}
        /\ groups'[id] = new.group
        /\ \A g \in DOMAIN groups : g # id => groups'[g] = groups[g]
    BY <1>3 DEF Put
  <2>2. /\ origin'[id] = new.rows
        /\ \A g \in DOMAIN origin : g # id => origin'[g] = origin[g]
    BY <1>3 DEF Put
  <2> QED
    BY <1>6, <2>1, <2>2
<1>8. groups' \in [DOMAIN groups' -> Groups] /\ origin' \in [DOMAIN groups' -> Seq(Nat)]
  <2>1. Put(groups, id, new.group) \in [DOMAIN groups \cup {id} -> Groups]
    BY <1>5, <1>6, PutType
  <2>2. Put(origin, id, new.rows) \in [DOMAIN groups \cup {id} -> Seq(Nat)]
    BY <1>5, <1>6, PutType
  <2> QED
    BY <1>3, <1>7, <2>1, <2>2
<1>9. IsFiniteSet(DOMAIN groups')
  BY <1>7, FS_AddElement DEF StoreOK
<1>10. ASSUME NEW g \in DOMAIN groups'
       PROVE  GroupOK(groups'[g], term_map', lines', origin'[g])
  <2>1. CASE g = id
    BY <1>3, <1>4, <1>7, <2>1
  <2>2. CASE g # id
    <3>1. g \in DOMAIN groups
      BY <1>7, <2>2
    <3> QED
      BY <1>3, <1>7, <2>2, <3>1 DEF StoreOK
  <2> QED
    BY <2>1, <2>2
<1>11. ASSUME NEW n \in 1 .. Len(aside')
       PROVE  GroupOK(aside'[n].group, term_map', lines', aside'[n].rows)
  <2>1. n + 1 \in 1 .. Len(aside) /\ aside'[n] = aside[n + 1]
    BY <1>2, <1>3
  <2> QED
    BY <1>3, <2>1 DEF StoreOK
<1>12. StoreOK'
  BY <1>2, <1>3, <1>8, <1>9, <1>10, <1>11 DEF StoreOK, TermIdsSound
<1> QED
  BY <1>1, <1>2, <1>3, <1>7, <1>12 DEF id, new

-----------------------------------------------------------------------------
(* split_templates.                                                        *)

LEMMA RowsWithFacts ==
  ASSUME NEW group, NEW tm, NEW ls, NEW rows, GroupOK(group, tm, ls, rows),
         NEW c \in 1 .. Len(group.columns), NEW id \in 0 .. tm.next_term_id - 1,
         NEW text \in Texts, FindsTerm(tm, id, text)
  PROVE  LET moved == RowsWith(group.columns[c], id)
         IN  /\ moved \in SUBSET (1 .. group.num_docs)
             /\ ColumnHolds(RemoveRows(group, moved), tm, c, id, text)
<1> DEFINE moved == RowsWith(group.columns[c], id)
           new   == RemoveRows(group, moved)
<1>1. /\ group \in Groups /\ group.columns[c] \in Seq(Nat)
      /\ \A d \in 1 .. Len(group.columns) : Len(group.columns[d]) = group.num_docs
  BY GroupFields DEF GroupOK
<1>2. /\ moved \in SUBSET (1 .. group.num_docs)
      /\ \A r \in moved : group.columns[c][r] = id
  BY <1>1 DEF RowsWith
<1> HIDE DEF moved
<1>3. /\ new.num_docs = Cardinality(moved)
      /\ Len(new.columns) = Len(group.columns)
      /\ new.columns[c] = RetainRows(group.columns[c], moved)
  BY <1>1, <1>2, RemoveRowsFields
<1>4. \A n \in 1 .. Cardinality(moved) :
        /\ NthOf(moved, n) \in moved
        /\ RetainRows(group.columns[c], moved)[n] = group.columns[c][NthOf(moved, n)]
  <2>1. moved \in SUBSET (1 .. Len(group.columns[c]))
    BY <1>1, <1>2
  <2> QED
    BY <1>1, <2>1, RetainFacts
<1> HIDE DEF new
<1>5. ColumnHolds(new, tm, c, id, text)
  BY <1>2, <1>3, <1>4 DEF ColumnHolds
<1> QED
  BY <1>2, <1>5 DEF moved, new

\* move_term_id_to_new_group: both groups read as before.
LEMMA MoveTermKeepsStore ==
  ASSUME StoreOK, IsWork(work), SplitId \in DOMAIN groups,
         NEW id \in 0 .. term_map.next_term_id - 1, NEW text \in Texts,
         MoveTerm(id, text)
  PROVE  StoreOK' /\ DOMAIN groups' = DOMAIN groups
<1> DEFINE g     == SplitId
           group == groups[g]
           c     == SplitToken.column_index
           moved == RowsWith(group.columns[c], id)
           kept  == 1 .. group.num_docs \ moved
           out   == [group |-> FixColumn(RemoveRows(group, moved), c, text),
                     rows  |-> RetainRows(origin[g], moved)]
<1>1. /\ aside' = Append(aside, out)
      /\ groups' = [groups EXCEPT ![g] = RemoveRows(group, kept)]
      /\ origin' = [origin EXCEPT ![g] = RetainRows(origin[g], kept)]
      /\ term_map' = term_map /\ lines' = lines
      /\ work.token <= Len(group.tokens) /\ IsVariable(SplitToken)
      /\ FindsTerm(term_map, id, text)
  BY DEF MoveTerm, Frequent
<1>2. /\ term_map \in TermMaps /\ IdsNameOneTerm(term_map)
      /\ groups \in [DOMAIN groups -> Groups]
      /\ origin \in [DOMAIN groups -> Seq(Nat)]
      /\ IsFiniteSet(DOMAIN groups)
      /\ aside \in Seq([group : Groups, rows : Seq(Nat)])
      /\ g \in DOMAIN groups
      /\ GroupOK(group, term_map, lines, origin[g])
  BY DEF StoreOK, TermIdsSound
<1>3. c \in 1 .. Len(group.columns)
  <2>1. group \in Groups /\ ColumnsOwned(group)
    BY <1>2 DEF GroupOK
  <2>2. work.token \in 1 .. Len(group.tokens) /\ SplitToken = group.tokens[work.token]
    <3>1. SplitToken = group.tokens[work.token]
      BY DEF SplitToken
    <3>2. work.token \in Nat \ {0} /\ Len(group.tokens) \in Nat
      BY <2>1, GroupFields DEF IsWork
    <3>3. work.token <= Len(group.tokens)
      BY <1>1
    <3> HIDE DEF group
    <3>4. work.token \in 1 .. Len(group.tokens)
      BY <3>2, <3>3
    <3> QED
      BY <3>1, <3>4
  <2> QED
    BY <1>1, <2>1, <2>2 DEF ColumnsOwned
<1> HIDE DEF c, g, group
<1>4. /\ moved \in SUBSET (1 .. group.num_docs)
      /\ ColumnHolds(RemoveRows(group, moved), term_map, c, id, text)
  BY <1>1, <1>2, <1>3, RowsWithFacts
<1>5. kept \in SUBSET (1 .. group.num_docs)
  OBVIOUS
<1> HIDE DEF moved, kept
<1>6. GroupOK(RemoveRows(group, kept), term_map, lines, RetainRows(origin[g], kept))
  BY <1>2, <1>5, RemoveRowsOK
<1>7. GroupOK(RemoveRows(group, moved), term_map, lines, RetainRows(origin[g], moved))
  BY <1>2, <1>4, RemoveRowsOK
<1>8. GroupOK(out.group, term_map, lines, out.rows)
  <2>1. GroupOK(FixColumn(RemoveRows(group, moved), c, text), term_map, lines,
                RetainRows(origin[g], moved))
    BY <1>2, <1>4, <1>7, FixColumnOK
  <2> QED
    BY <2>1
<1>9. /\ RemoveRows(group, kept) \in Groups /\ RetainRows(origin[g], kept) \in Seq(Nat)
      /\ out \in [group : Groups, rows : Seq(Nat)]
  BY <1>6, <1>8 DEF GroupOK
<1> HIDE DEF out
<1>10. /\ DOMAIN groups' = DOMAIN groups
       /\ groups' \in [DOMAIN groups -> Groups] /\ origin' \in [DOMAIN groups -> Seq(Nat)]
       /\ groups'[g] = RemoveRows(group, kept) /\ origin'[g] = RetainRows(origin[g], kept)
       /\ \A h \in DOMAIN groups : h # g => groups'[h] = groups[h] /\ origin'[h] = origin[h]
  BY <1>1, <1>2, <1>9
<1>11. \A h \in DOMAIN groups' : GroupOK(groups'[h], term_map', lines', origin'[h])
  <2> TAKE h \in DOMAIN groups'
  <2>1. CASE h = g
    BY <1>1, <1>6, <1>10, <2>1
  <2>2. CASE h # g
    BY <1>1, <1>10, <2>2 DEF StoreOK
  <2> QED
    BY <2>1, <2>2
<1>12. /\ aside' \in Seq([group : Groups, rows : Seq(Nat)])
       /\ Len(aside) \in Nat /\ Len(aside') = Len(aside) + 1
       /\ \A n \in 1 .. Len(aside) : aside'[n] = aside[n]
       /\ aside'[Len(aside) + 1] = out
  BY <1>1, <1>2, <1>9, AppendProperties
<1>13. ASSUME NEW n \in 1 .. Len(aside')
       PROVE  GroupOK(aside'[n].group, term_map', lines', aside'[n].rows)
  <2>1. CASE n \in 1 .. Len(aside)
    BY <1>1, <1>12, <2>1 DEF StoreOK
  <2>2. CASE n = Len(aside) + 1
    BY <1>1, <1>8, <1>12, <2>2
  <2> QED
    BY <1>12, <2>1, <2>2
<1>14. StoreOK'
  BY <1>1, <1>2, <1>10, <1>11, <1>12, <1>13 DEF StoreOK, TermIdsSound
<1> QED
  BY <1>10, <1>14

LEMMA SplitGroupKeepsInv ==
  ASSUME PatternsInv, NEW g \in todo, SplitGroup(g)
  PROVE  PatternsInv'
<1>1. /\ phase = "split" /\ phase' = phase /\ todo' = todo \ {g} /\ aside' = aside
      /\ term_map' = term_map /\ groups' = groups /\ lines' = lines /\ origin' = origin
      /\ work' = [Idle EXCEPT !.ids = <<g>>]
  BY DEF SplitGroup, ingestVars
<1>2. StoreOK /\ todo \subseteq DOMAIN groups
  BY <1>1 DEF PatternsInv
<1>3. StoreOK'
  BY <1>1, <1>2, StoreStays
<1>4. /\ IsWork(work)'
      /\ work'.ids[1] \in DOMAIN groups'
  BY <1>1, <1>2 DEF IsWork, Idle
<1> QED
  BY <1>1, <1>2, <1>3, <1>4 DEF PatternsInv

LEMMA MoveTermKeepsInv ==
  ASSUME PatternsInv, NEW id \in 0 .. term_map.next_term_id - 1, NEW text \in Texts,
         MoveTerm(id, text)
  PROVE  PatternsInv'
<1>1. /\ phase = "split" /\ work # Idle /\ phase' = phase /\ todo' = todo /\ work' = work
  BY DEF MoveTerm, Splitting
<1>2. /\ StoreOK /\ IsWork(work) /\ todo \subseteq DOMAIN groups
      /\ SplitId \in DOMAIN groups
  BY <1>1 DEF PatternsInv, SplitId
<1>3. StoreOK' /\ DOMAIN groups' = DOMAIN groups
  BY <1>2, MoveTermKeepsStore
<1> QED
  BY <1>1, <1>2, <1>3 DEF PatternsInv, IsWork, SplitId

LEMMA SplitNextTokenKeepsInv ==
  ASSUME PatternsInv, SplitNextToken
  PROVE  PatternsInv'
<1>1. /\ phase = "split" /\ work # Idle /\ phase' = phase /\ todo' = todo /\ aside' = aside
      /\ term_map' = term_map /\ groups' = groups /\ lines' = lines /\ origin' = origin
      /\ work' = [work EXCEPT !.token = work.token + 1]
  BY DEF SplitNextToken, Splitting, ingestVars
<1>2. /\ StoreOK /\ IsWork(work) /\ todo \subseteq DOMAIN groups
      /\ work.ids[1] \in DOMAIN groups
  BY <1>1 DEF PatternsInv
<1>3. StoreOK'
  BY <1>1, <1>2, StoreStays
<1>4. IsWork(work)' /\ work'.ids = work.ids
  BY <1>1, <1>2 DEF IsWork
<1> QED
  BY <1>1, <1>2, <1>3, <1>4 DEF PatternsInv

LEMMA SplitGroupDoneKeepsInv ==
  ASSUME PatternsInv, SplitGroupDone
  PROVE  PatternsInv'
<1>1. /\ phase = "split" /\ phase' = phase /\ todo' = todo /\ aside' = aside
      /\ term_map' = term_map /\ groups' = groups /\ lines' = lines /\ origin' = origin
      /\ work' = Idle
  BY DEF SplitGroupDone, Splitting, ingestVars
<1>2. StoreOK /\ todo \subseteq DOMAIN groups
  BY <1>1 DEF PatternsInv
<1>3. StoreOK' /\ IsWork(work')
  BY <1>1, <1>2, StoreStays, IdleIsWork
<1> QED
  BY <1>1, <1>2, <1>3 DEF PatternsInv, IsWork, Idle

\* All groups have been split by then: an id that is taken again would lose
\* a group, but not break one.
LEMMA InsertSplitGroupKeepsInv ==
  ASSUME PatternsInv, InsertSplitGroup
  PROVE  PatternsInv'
<1>1. /\ phase = "split" /\ phase' = phase /\ todo' = todo /\ work' = work
      /\ work = Idle /\ todo = {} /\ InsertNewGroup
  BY DEF InsertSplitGroup
<1>2. StoreOK /\ IsWork(work)
  BY <1>1 DEF PatternsInv
<1>3. StoreOK'
  BY <1>1, <1>2, InsertKeepsStore
<1> QED
  BY <1>1, <1>2, <1>3 DEF PatternsInv, IsWork, Idle

LEMMA EndSplitKeepsInv ==
  ASSUME PatternsInv, EndSplit
  PROVE  PatternsInv'
<1>1. /\ phase = "split" /\ phase' = "classify" /\ work' = work /\ aside' = aside
      /\ work = Idle /\ aside = << >>
      /\ term_map' = term_map /\ groups' = groups /\ lines' = lines /\ origin' = origin
  BY DEF EndSplit, ingestVars
<1>2. StoreOK /\ IsWork(work)
  BY <1>1 DEF PatternsInv
<1>3. StoreOK'
  BY <1>1, <1>2, StoreStays
<1> QED
  BY <1>1, <1>2, <1>3 DEF PatternsInv, IsWork, Idle

-----------------------------------------------------------------------------
(* merge_templates.                                                        *)

\* The classes that Classify leaves out have one group.
LEMMA ClassifyKeepsInv ==
  ASSUME PatternsInv, Classify
  PROVE  PatternsInv'
<1> DEFINE Members(g) == {h \in DOMAIN groups : KeyOf(h) = KeyOf(g)}
           Class(g)   == [key |-> KeyOf(g), ids |-> Members(g)]
<1>1. /\ phase = "classify" /\ phase' = "merge" /\ work' = work /\ aside' = aside
      /\ term_map' = term_map /\ groups' = groups /\ lines' = lines /\ origin' = origin
      /\ classes' = {class \in {Class(g) : g \in DOMAIN groups} : WorthMerging(class)}
  BY DEF Classify, ingestVars, KeyOf
<1>2. StoreOK /\ IsWork(work) /\ work = Idle /\ aside = << >> /\ IsFiniteSet(DOMAIN groups)
  BY <1>1 DEF PatternsInv, StoreOK
<1>3. StoreOK'
  BY <1>1, <1>2, StoreStays
<1> HIDE DEF Class
<1>4. ASSUME NEW class \in classes'
      PROVE  \E g \in DOMAIN groups : class = Class(g)
  BY <1>1
<1>5. ASSUME NEW g \in DOMAIN groups, WorthMerging(Class(g))
      PROVE  Class(g) \in classes'
  BY <1>1, <1>5
<1>6. \A g : Class(g).key = KeyOf(g) /\ Class(g).ids = Members(g)
  BY DEF Class
<1>7. ASSUME NEW class \in classes'
      PROVE  ClassOK(class)'
  <2>1. PICK g \in DOMAIN groups : class = Class(g)
    BY <1>4
  <2>2. class.key = KeyOf(g) /\ class.ids = Members(g)
    BY <1>6, <2>1
  <2>3. g \in Members(g)
    OBVIOUS
  <2> QED
    BY <1>1, <2>2, <2>3 DEF ClassOK, KeyOf
<1>8. ASSUME NEW c \in classes', NEW d \in classes', c.key = d.key
      PROVE  c = d
  <2>1. PICK g \in DOMAIN groups : c = Class(g)
    BY <1>4
  <2>2. PICK h \in DOMAIN groups : d = Class(h)
    BY <1>4
  <2>3. KeyOf(g) = KeyOf(h)
    BY <1>6, <1>8, <2>1, <2>2
  <2> QED
    BY <2>1, <2>2, <2>3 DEF Class
<1>9. ASSUME NEW g \in DOMAIN groups, NEW h \in DOMAIN groups, KeyOf(g) = KeyOf(h), g # h
      PROVE  \E class \in classes' : class.key = KeyOf(g)
  <2>1. g \in Members(g) /\ h \in Members(g) /\ Members(g) \in SUBSET DOMAIN groups
    BY <1>9
  <2> HIDE DEF Members
  <2>2. IsFiniteSet(Members(g)) /\ Cardinality(Members(g)) \in Nat
    BY <1>2, <2>1, FS_Subset, FS_CardinalityType
  <2>3. Cardinality(Members(g)) # 0 /\ Cardinality(Members(g)) # 1
    BY <1>9, <2>1, <2>2, FS_EmptySet, FS_Singleton
  <2>4. Class(g).ids = Members(g) /\ Class(g).key = KeyOf(g)
    BY DEF Class
  <2>5. WorthMerging(Class(g))
    BY <2>2, <2>3, <2>4 DEF WorthMerging
  <2> QED
    BY <1>5, <2>4, <2>5
<1>10. MergeOK'
  <2>1. ASSUME NEW g \in DOMAIN groups', NEW h \in DOMAIN groups', KeyOf(g)' = KeyOf(h)', g # h
        PROVE  Pending(KeyOf(g))'
    <3>1. \E class \in classes' : class.key = KeyOf(g)
      BY <1>1, <1>9, <2>1 DEF KeyOf
    <3> QED
      BY <1>1, <3>1 DEF Pending, KeyOf
  <2> QED
    BY <1>1, <1>2, <1>7, <1>8, <2>1 DEF MergeOK, Idle
<1> QED
  BY <1>1, <1>2, <1>3, <1>10 DEF PatternsInv, IsWork

\* A sequence of a finite set's elements has each of them once.
LEMMA SetToSeqsFacts ==
  ASSUME NEW S, IsFiniteSet(S), NEW ids \in SetToSeqs(S)
  PROVE  /\ Len(ids) = Cardinality(S) /\ Len(ids) \in Nat
         /\ \A n \in 1 .. Len(ids) : ids[n] \in S
         /\ \A m, n \in 1 .. Len(ids) : ids[m] = ids[n] => m = n
         /\ \A x \in S : \E n \in 1 .. Len(ids) : ids[n] = x
<1> DEFINE D == 1 .. Cardinality(S)
<1>1. Cardinality(S) \in Nat
  BY FS_CardinalityType
<1>2. ids \in [D -> S] /\ \A m, n \in D : m # n => ids[m] # ids[n]
  BY DEF SetToSeqs
<1>3. Len(ids) = Cardinality(S)
  BY <1>1, <1>2
<1>4. IsFiniteSet(D) /\ Cardinality(D) = Cardinality(S)
  <2>1. Cardinality(D) = IF 1 > Cardinality(S) THEN 0 ELSE Cardinality(S) - 1 + 1
    BY <1>1, FS_Interval
  <2> QED
    BY <1>1, <2>1, FS_Interval
<1>5. ids \in Injection(D, S)
  BY <1>2 DEF Injection, IsInjective
<1>6. ids \in Surjection(D, S)
  <2> HIDE DEF D
  <2> QED
    BY <1>4, <1>5, FS_Injection
<1>7. \A x \in S : \E n \in D : ids[n] = x
  BY <1>6 DEF Surjection
<1> QED
  BY <1>1, <1>2, <1>3, <1>7

LEMMA BusyFacts ==
  ASSUME IsWork(work), NEW w, w.ids = work.ids, Len(work.ids) \in Nat \ {0}
  PROVE  w # Idle
<1>1. Len(Idle.ids) = 0
  BY DEF Idle
<1> QED
  BY <1>1

LEMMA StartMergeKeepsInv ==
  ASSUME PatternsInv, NEW class \in classes, NEW ids \in SetToSeqs(class.ids),
         StartMerge(class, ids)
  PROVE  PatternsInv'
<1>1. /\ phase = "merge" /\ phase' = phase /\ work = Idle /\ aside' = aside
      /\ term_map' = term_map /\ groups' = groups /\ lines' = lines /\ origin' = origin
      /\ work' = [Idle EXCEPT !.ids = ids, !.key = class.key]
      /\ classes' = classes \ {class}
  BY DEF StartMerge, ingestVars
<1>2. StoreOK /\ MergeOK /\ aside = << >>
  BY <1>1 DEF PatternsInv, MergeOK
<1>3. StoreOK'
  BY <1>1, <1>2, StoreStays
<1>4. /\ IsWork(work)' /\ work'.ids = ids /\ work'.key = class.key
      /\ work'.token = 1 /\ work'.member = 1
  <2>1. work' = [ids |-> ids, key |-> class.key, token |-> 1, member |-> 1]
    BY <1>1 DEF Idle
  <2> QED
    BY <2>1 DEF IsWork
<1>5. /\ class.ids = {g \in DOMAIN groups : KeyOf(g) = class.key}
      /\ class.ids # {}
  BY <1>2 DEF MergeOK, ClassOK
<1>6. IsFiniteSet(class.ids) /\ Cardinality(class.ids) # 0
  <2>1. class.ids \in SUBSET DOMAIN groups /\ IsFiniteSet(DOMAIN groups)
    BY <1>2, <1>5 DEF StoreOK
  <2>2. IsFiniteSet(class.ids)
    BY <2>1, FS_Subset
  <2> QED
    BY <1>5, <2>2, FS_EmptySet
<1>7. /\ Len(ids) \in Nat \ {0}
      /\ \A n \in 1 .. Len(ids) : ids[n] \in class.ids
      /\ \A m, n \in 1 .. Len(ids) : ids[m] = ids[n] => m = n
      /\ \A x \in class.ids : \E n \in 1 .. Len(ids) : ids[n] = x
  BY <1>6, SetToSeqsFacts
<1>8. work' # Idle
  <2>1. Len(Idle.ids) = 0
    BY DEF Idle
  <2> QED
    BY <1>4, <1>7, <2>1
<1>9. Left' = 1 .. Len(ids)
  BY <1>1, <1>2, <1>4 DEF Left, FirstLeft
<1>10. Len(class.key) \in Nat
  <2>1. ids[1] \in DOMAIN groups /\ KeyOf(ids[1]) = class.key
    BY <1>5, <1>7
  <2>2. groups[ids[1]] \in Groups
    BY <1>2, <2>1 DEF StoreOK
  <2> QED
    BY <2>1, <2>2, KeyFacts DEF KeyOf
<1>11. MembersOK'
  <2>1. ASSUME NEW n \in 1 .. Len(ids)
        PROVE  /\ ids[n] \in DOMAIN groups' /\ KeyOf(ids[n])' = class.key
               /\ Converted(groups'[ids[n]], class.key, 1)
    <3>1. ids[n] \in DOMAIN groups /\ KeyOf(ids[n]) = class.key
      BY <1>5, <1>7
    <3> QED
      BY <1>1, <3>1 DEF KeyOf, Converted
  <2>2. ASSUME NEW g \in DOMAIN groups', KeyOf(g)' = class.key
        PROVE  \E n \in 1 .. Len(ids) : ids[n] = g
    BY <1>1, <1>5, <1>7, <2>2 DEF KeyOf
  <2>3. \A n \in 1 .. Len(ids) : ~(n < 1)
    OBVIOUS
  <2>4. /\ work'.ids = ids /\ work'.key = class.key
        /\ work'.token = 1 /\ work'.member = 1
    BY <1>4
  <2>5. \A n \in Left' :
          /\ work'.ids[n] \in DOMAIN groups'
          /\ MergeKey(groups'[work'.ids[n]]) = work'.key
          /\ Converted(groups'[work'.ids[n]], work'.key, work'.token)
          /\ ~(n < work'.member)
    BY <1>9, <2>1, <2>3, <2>4 DEF KeyOf
  <2>6. \A g \in DOMAIN groups' : KeyOf(g)' = work'.key => \E n \in Left' : work'.ids[n] = g
    BY <1>9, <2>2, <2>4
  <2>7. /\ Len(work'.ids) \in Nat \ {0} /\ Len(work'.key) \in Nat
        /\ \A m, n \in 1 .. Len(work'.ids) : work'.ids[m] = work'.ids[n] => m = n
    BY <1>7, <1>10, <2>4
  <2> QED
    BY <2>5, <2>6, <2>7 DEF MembersOK, KeyOf
<1>12. ASSUME NEW c \in classes'
       PROVE  ClassOK(c)' /\ c.key # class.key
  BY <1>1, <1>2 DEF MergeOK, ClassOK, KeyOf
<1>13. ASSUME NEW g \in DOMAIN groups', NEW h \in DOMAIN groups', KeyOf(g)' = KeyOf(h)', g # h
       PROVE  Pending(KeyOf(g))'
  <2>1. PICK c \in classes : c.key = KeyOf(g)
    BY <1>1, <1>2, <1>13 DEF MergeOK, Pending, KeyOf
  <2>2. CASE c = class
    BY <1>1, <1>4, <1>8, <2>1, <2>2 DEF Pending, KeyOf
  <2>3. CASE c # class
    BY <1>1, <2>1, <2>3 DEF Pending, KeyOf
  <2> QED
    BY <2>2, <2>3
<1>14. \A c, d \in classes' : c.key = d.key => c = d
  BY <1>1, <1>2 DEF MergeOK
<1>15. MergeOK'
  BY <1>1, <1>2, <1>4, <1>8, <1>11, <1>12, <1>13, <1>14 DEF MergeOK, AsideOK
<1> QED
  BY <1>1, <1>3, <1>4, <1>15 DEF PatternsInv

\* What the class at work looks like to a step of its loops.
LEMMA MemberFacts ==
  ASSUME StoreOK, MembersOK, NEW n \in Left
  PROVE  LET g == work.ids[n]
         IN  /\ g \in DOMAIN groups /\ groups[g] \in Groups
             /\ GroupOK(groups[g], term_map, lines, origin[g])
             /\ MergeKey(groups[g]) = work.key
             /\ Len(groups[g].tokens) = Len(work.key)
             /\ Converted(groups[g], work.key, work.token)
<1>1. /\ work.ids[n] \in DOMAIN groups /\ KeyOf(work.ids[n]) = work.key
      /\ Converted(groups[work.ids[n]], work.key, work.token)
  BY DEF MembersOK
<1>2. /\ groups[work.ids[n]] \in Groups
      /\ GroupOK(groups[work.ids[n]], term_map, lines, origin[work.ids[n]])
  BY <1>1 DEF StoreOK
<1>3. Len(MergeKey(groups[work.ids[n]])) = Len(groups[work.ids[n]].tokens)
  BY <1>2, KeyFacts
<1> QED
  BY <1>1, <1>2, <1>3 DEF KeyOf

LEMMA ConvertNextTokenKeepsInv ==
  ASSUME PatternsInv, ConvertNextToken
  PROVE  PatternsInv'
<1>1. /\ phase = "merge" /\ phase' = phase /\ work # Idle /\ aside' = aside
      /\ term_map' = term_map /\ groups' = groups /\ lines' = lines /\ origin' = origin
      /\ classes' = classes
      /\ work' = [work EXCEPT !.token = work.token + 1, !.member = 1]
      /\ work.token <= Len(work.key)
      /\ work.key[work.token].kind = "Constant" \/ work.member > Len(work.ids)
  BY DEF ConvertNextToken, Converting, Merging, ingestVars
<1>2. StoreOK /\ MergeOK /\ IsWork(work) /\ MembersOK /\ AsideOK
  BY <1>1 DEF PatternsInv, MergeOK
<1>3. StoreOK'
  BY <1>1, <1>2, StoreStays
<1>4. /\ IsWork(work)' /\ work'.ids = work.ids /\ work'.key = work.key
      /\ work'.token = work.token + 1 /\ work'.member = 1
  <2>1. work' = [ids |-> work.ids, key |-> work.key, token |-> work.token + 1,
                 member |-> 1]
    <3>1. work = [ids |-> work.ids, key |-> work.key, token |-> work.token,
                  member |-> work.member]
      BY <1>2 DEF IsWork
    <3> QED
      BY <1>1, <3>1
  <2>2. work.token \in Nat \ {0}
    BY <1>2 DEF IsWork
  <2> QED
    BY <2>1, <2>2 DEF IsWork
<1>5. /\ Len(work.ids) \in Nat \ {0} /\ Len(work.key) \in Nat
      /\ work.token \in Nat \ {0} /\ work.member \in Nat \ {0}
  BY <1>2 DEF MembersOK, IsWork
<1>6. work' # Idle
  BY <1>2, <1>4, <1>5, BusyFacts
<1>7. aside = << >>
  BY <1>1, <1>2, <1>5 DEF AsideOK
<1>8. Left = 1 .. Len(work.ids) /\ Left' = 1 .. Len(work.ids)
  BY <1>1, <1>4, <1>7 DEF Left, FirstLeft
<1>9. ASSUME NEW n \in 1 .. Len(work.ids)
      PROVE  Converted(groups[work.ids[n]], work.key, work.token + 1)
  <2> DEFINE group == groups[work.ids[n]]
  <2>1. /\ Converted(group, work.key, work.token)
        /\ n < work.member => Converted(group, work.key, work.token + 1)
    BY <1>2, <1>7, <1>8 DEF MembersOK
  <2>2. CASE work.member > Len(work.ids)
    <3>1. n < work.member
      BY <1>5, <2>2
    <3> QED
      BY <2>1, <3>1
  <2>3. CASE work.key[work.token].kind = "Constant"
    <3>1. \A i \in 1 .. Len(group.tokens) :
            i < work.token + 1 => i < work.token \/ i = work.token
      BY <1>5
    <3> QED
      BY <2>1, <2>3, <3>1 DEF Converted
  <2> QED
    BY <1>1, <2>2, <2>3
<1>10. MembersOK'
  BY <1>1, <1>2, <1>4, <1>5, <1>8, <1>9 DEF MembersOK, KeyOf
<1>11. MergeOK'
  BY <1>1, <1>2, <1>4, <1>6, <1>7, <1>10 DEF MergeOK, AsideOK, ClassOK, Pending, KeyOf
<1> QED
  BY <1>1, <1>3, <1>4, <1>11 DEF PatternsInv

\* convert_to_variable of one member: the term map grows, no key changes.
LEMMA ConvertMemberGroups ==
  ASSUME StoreOK, MembersOK, AsideOK, IsWork(work), ConvertMember
  PROVE  /\ StoreOK' /\ aside = << >> /\ Left = 1 .. Len(work.ids)
         /\ work.member \in Left
         /\ DOMAIN groups' = DOMAIN groups
         /\ \A h \in DOMAIN groups : KeyOf(h)' = KeyOf(h)
         /\ \A h \in DOMAIN groups : h # work.ids[work.member] => groups'[h] = groups[h]
         /\ \A upto \in {work.token, work.token + 1} :
              LET g == work.ids[work.member]
              IN  Converted(groups[g], work.key, work.token) =>
                    Converted(groups'[g], work.key, upto)
<1> DEFINE g     == work.ids[work.member]
           i     == work.token
           group == groups[g]
           new   == ConvertToVariable(group, term_map, i)
<1>1. /\ groups' = [groups EXCEPT ![g] = new]
      /\ term_map' = TermMapAfterConvert(group, term_map, i)
      /\ lines' = lines /\ origin' = origin /\ aside' = aside
      /\ i <= Len(work.key) /\ work.key[i].kind = "Variable"
      /\ work.member <= Len(work.ids)
  BY DEF ConvertMember, Converting
<1>2. /\ Len(work.ids) \in Nat \ {0} /\ Len(work.key) \in Nat
      /\ i \in Nat \ {0} /\ work.member \in Nat \ {0}
  BY DEF MembersOK, IsWork
<1>3. aside = << >>
  BY <1>1, <1>2 DEF AsideOK
<1>4. Left = 1 .. Len(work.ids) /\ work.member \in Left
  BY <1>1, <1>2, <1>3 DEF Left, FirstLeft
<1>5. /\ g \in DOMAIN groups /\ group \in Groups
      /\ GroupOK(group, term_map, lines, origin[g])
      /\ MergeKey(group) = work.key
      /\ Len(group.tokens) = Len(work.key)
  BY <1>4, MemberFacts
<1>6. i \in 1 .. Len(group.tokens) /\ term_map \in TermMaps
  BY <1>1, <1>2, <1>5 DEF StoreOK
<1>7. /\ groups \in [DOMAIN groups -> Groups] /\ origin \in [DOMAIN groups -> Seq(Nat)]
      /\ IsFiniteSet(DOMAIN groups) /\ IdsNameOneTerm(term_map)
      /\ aside \in Seq([group : Groups, rows : Seq(Nat)])
  BY DEF StoreOK, TermIdsSound
<1> HIDE DEF g, i, group
<1>8. /\ GroupOK(new, term_map', lines, origin[g])
  BY <1>1, <1>5, <1>6, ConvertOK
<1>9. /\ term_map' \in TermMaps /\ Extends(term_map', term_map)
      /\ IdsNameOneTerm(term_map')
  <2>1. CASE IsVariable(group.tokens[i])
    BY <1>1, <1>6, <1>7, <2>1 DEF TermMapAfterConvert, Extends
  <2>2. CASE ~IsVariable(group.tokens[i])
    <3>1. group.tokens[i].text \in Texts
      BY <1>5, <1>6, <2>2, GroupFields, TokenKinds
    <3>2. term_map' = MutateOrCreate(term_map, group.tokens[i].text, FALSE)
      BY <1>1, <2>2 DEF TermMapAfterConvert
    <3> QED
      BY <1>6, <1>7, <3>1, <3>2, MutateOrCreateType, MutateOrCreateExtends, IdsStayUnique
  <2> QED
    BY <2>1, <2>2
<1>10. /\ MergeKey(new) = MergeKey(group)
       /\ \A upto \in Nat : Converted(group, MergeKey(group), upto) =>
                             Converted(new, MergeKey(group), upto)
       /\ Converted(group, MergeKey(group), i) =>
            Converted(new, MergeKey(group), i + 1)
  BY <1>1, <1>5, <1>6, ConvertKeepsKey
<1> HIDE DEF new
<1>11. /\ DOMAIN groups' = DOMAIN groups /\ groups'[g] = new
       /\ \A h \in DOMAIN groups : h # g => groups'[h] = groups[h]
  BY <1>1, <1>5, <1>7
<1>12. \A h \in DOMAIN groups' : GroupOK(groups'[h], term_map', lines', origin'[h])
  <2> TAKE h \in DOMAIN groups'
  <2>1. CASE h = g
    BY <1>1, <1>8, <1>11, <2>1
  <2>2. CASE h # g
    <3>1. h \in DOMAIN groups /\ GroupOK(groups[h], term_map, lines, origin[h])
      BY <1>11 DEF StoreOK
    <3>2. GroupOK(groups[h], term_map', lines, origin[h])
      BY <1>9, <3>1, RowsStayWhenTermsGrow
    <3> QED
      BY <1>1, <1>11, <2>2, <3>1, <3>2
  <2> QED
    BY <2>1, <2>2
<1>13. groups' \in [DOMAIN groups -> Groups]
  <2>1. new \in Groups
    BY <1>8 DEF GroupOK
  <2> QED
    BY <1>1, <1>7, <2>1
<1>14. StoreOK'
  <2>1. Len(aside') = 0
    BY <1>1, <1>3
  <2> QED
    BY <1>1, <1>7, <1>9, <1>11, <1>12, <1>13, <2>1 DEF StoreOK, TermIdsSound
<1>15. \A h \in DOMAIN groups : KeyOf(h)' = KeyOf(h)
  BY <1>10, <1>11 DEF KeyOf, group
<1>16. \A upto \in {i, i + 1} : Converted(group, work.key, i) =>
                                  Converted(groups'[g], work.key, upto)
  BY <1>2, <1>5, <1>10, <1>11 DEF i
<1> QED
  BY <1>3, <1>4, <1>11, <1>14, <1>15, <1>16 DEF g, i, group

LEMMA ConvertMemberKeepsInv ==
  ASSUME PatternsInv, ConvertMember
  PROVE  PatternsInv'
<1> DEFINE g == work.ids[work.member]
<1>1. /\ phase = "merge" /\ phase' = phase /\ work # Idle /\ aside' = aside
      /\ classes' = classes
      /\ work' = [work EXCEPT !.member = work.member + 1]
  BY DEF ConvertMember, Converting, Merging
<1>2. StoreOK /\ MergeOK /\ IsWork(work) /\ MembersOK /\ AsideOK
  BY <1>1 DEF PatternsInv, MergeOK
<1>3. /\ StoreOK' /\ aside = << >> /\ Left = 1 .. Len(work.ids)
      /\ work.member \in Left
      /\ DOMAIN groups' = DOMAIN groups
      /\ \A h \in DOMAIN groups : KeyOf(h)' = KeyOf(h)
      /\ \A h \in DOMAIN groups : h # g => groups'[h] = groups[h]
      /\ \A upto \in {work.token, work.token + 1} :
           Converted(groups[g], work.key, work.token) =>
             Converted(groups'[g], work.key, upto)
  BY <1>2, ConvertMemberGroups
<1>4. /\ IsWork(work)' /\ work'.ids = work.ids /\ work'.key = work.key
      /\ work'.token = work.token /\ work'.member = work.member + 1
  <2>1. work' = [ids |-> work.ids, key |-> work.key, token |-> work.token,
                 member |-> work.member + 1]
    <3>1. work = [ids |-> work.ids, key |-> work.key, token |-> work.token,
                  member |-> work.member]
      BY <1>2 DEF IsWork
    <3> QED
      BY <1>1, <3>1
  <2>2. work.token \in Nat \ {0} /\ work.member \in Nat \ {0}
    BY <1>2 DEF IsWork
  <2> QED
    BY <2>1, <2>2 DEF IsWork
<1>5. /\ Len(work.ids) \in Nat \ {0} /\ Len(work.key) \in Nat
      /\ \A m, n \in 1 .. Len(work.ids) : work.ids[m] = work.ids[n] => m = n
      /\ work.token \in Nat \ {0} /\ work.member \in Nat \ {0}
  BY <1>2 DEF MembersOK, IsWork
<1>6. work' # Idle
  BY <1>2, <1>4, <1>5, BusyFacts
<1>7. Left' = 1 .. Len(work.ids)
  BY <1>1, <1>3, <1>4 DEF Left, FirstLeft
<1>8. ASSUME NEW n \in 1 .. Len(work.ids)
      PROVE  /\ work.ids[n] \in DOMAIN groups'
             /\ MergeKey(groups'[work.ids[n]]) = work.key
             /\ Converted(groups'[work.ids[n]], work.key, work.token)
             /\ n < work.member + 1 =>
                  Converted(groups'[work.ids[n]], work.key, work.token + 1)
  <2>1. /\ work.ids[n] \in DOMAIN groups /\ KeyOf(work.ids[n]) = work.key
        /\ Converted(groups[work.ids[n]], work.key, work.token)
        /\ n < work.member => Converted(groups[work.ids[n]], work.key, work.token + 1)
    BY <1>2, <1>3 DEF MembersOK
  <2>2. MergeKey(groups'[work.ids[n]]) = work.key
    BY <1>3, <2>1 DEF KeyOf
  <2>3. CASE n = work.member
    BY <1>3, <2>1, <2>2, <2>3
  <2>4. CASE n # work.member
    <3>1. work.ids[n] # g
      BY <1>3, <1>5, <2>4
    <3>2. n < work.member + 1 => n < work.member
      BY <1>5, <2>4
    <3> HIDE DEF g
    <3> QED
      BY <1>3, <2>1, <2>2, <3>1, <3>2
  <2> QED
    BY <2>3, <2>4
<1>9. \A h \in DOMAIN groups' : KeyOf(h)' = work.key => \E n \in Left' : work.ids[n] = h
  BY <1>2, <1>3, <1>7 DEF MembersOK
<1> HIDE DEF g
<1>10. MembersOK'
  BY <1>4, <1>5, <1>7, <1>8, <1>9 DEF MembersOK, KeyOf
<1>11. \A class \in classes' : ClassOK(class)' /\ class.key # work.key
  BY <1>1, <1>2, <1>3 DEF MergeOK, ClassOK
<1>12. \A h, k \in DOMAIN groups' : KeyOf(h)' = KeyOf(k)' => h = k \/ Pending(KeyOf(h))'
  <2> SUFFICES ASSUME NEW h \in DOMAIN groups', NEW k \in DOMAIN groups',
                      KeyOf(h)' = KeyOf(k)', h # k
               PROVE  Pending(KeyOf(h))'
    OBVIOUS
  <2>1. Pending(KeyOf(h)) /\ KeyOf(h)' = KeyOf(h)
    BY <1>2, <1>3 DEF MergeOK
  <2> QED
    BY <1>1, <1>4, <1>6, <2>1 DEF Pending
<1>13. MergeOK'
  BY <1>1, <1>2, <1>3, <1>4, <1>6, <1>10, <1>11, <1>12 DEF MergeOK, AsideOK
<1> QED
  BY <1>1, <1>3, <1>4, <1>13 DEF PatternsInv

LEMMA EndMergeKeepsInv ==
  ASSUME PatternsInv, EndMerge
  PROVE  PatternsInv'
<1>1. /\ phase = "merge" /\ phase' = "merged" /\ work = Idle /\ classes = {}
      /\ work' = work /\ aside' = aside
      /\ term_map' = term_map /\ groups' = groups /\ lines' = lines /\ origin' = origin
  BY DEF EndMerge, ingestVars
<1>2. StoreOK /\ MergeOK /\ IsWork(work) /\ aside = << >>
  BY <1>1 DEF PatternsInv, MergeOK
<1>3. StoreOK'
  BY <1>1, <1>2, StoreStays
<1>4. KeysDiffer
  BY <1>1, <1>2 DEF KeysDiffer, MergeOK, Pending
<1> QED
  BY <1>1, <1>2, <1>3, <1>4 DEF PatternsInv, KeysDiffer, KeyOf, IsWork, Idle

\* A group is taken out of the map.
LeaveMap(g) ==
  /\ groups' = [h \in DOMAIN groups \ {g} |-> groups[h]]
  /\ origin' = [h \in DOMAIN groups \ {g} |-> origin[h]]
  /\ term_map' = term_map /\ lines' = lines

\* The group that is aside after the step reads back as its lines.
AsideReads ==
  /\ aside \in Seq([group : Groups, rows : Seq(Nat)]) /\ Len(aside) = 1
  /\ GroupOK(aside[1].group, term_map, lines, aside[1].rows)

LEMMA LeaveKeepsStore ==
  ASSUME StoreOK, NEW g, LeaveMap(g), AsideReads'
  PROVE  /\ StoreOK'
         /\ DOMAIN groups' = DOMAIN groups \ {g}
         /\ \A h \in DOMAIN groups' : groups'[h] = groups[h]
<1>1. /\ groups' = [h \in DOMAIN groups \ {g} |-> groups[h]]
      /\ origin' = [h \in DOMAIN groups \ {g} |-> origin[h]]
      /\ term_map' = term_map /\ lines' = lines
  BY DEF LeaveMap
<1>2. /\ DOMAIN groups' = DOMAIN groups \ {g}
      /\ \A h \in DOMAIN groups' : groups'[h] = groups[h] /\ origin'[h] = origin[h]
  BY <1>1
<1>3. /\ groups \in [DOMAIN groups -> Groups] /\ origin \in [DOMAIN groups -> Seq(Nat)]
      /\ IsFiniteSet(DOMAIN groups)
  BY DEF StoreOK
<1>4. groups' \in [DOMAIN groups' -> Groups] /\ origin' \in [DOMAIN groups' -> Seq(Nat)]
  BY <1>1, <1>2, <1>3
<1>5. IsFiniteSet(DOMAIN groups')
  BY <1>2, <1>3, FS_RemoveElement
<1>6. \A h \in DOMAIN groups' : GroupOK(groups'[h], term_map', lines', origin'[h])
  BY <1>1, <1>2 DEF StoreOK
<1>7. /\ aside' \in Seq([group : Groups, rows : Seq(Nat)])
      /\ \A n \in 1 .. Len(aside') :
           GroupOK(aside'[n].group, term_map', lines', aside'[n].rows)
  <2>1. \A n \in 1 .. 1 : n = 1
    OBVIOUS
  <2> QED
    BY <2>1 DEF AsideReads
<1>8. StoreOK'
  BY <1>1, <1>4, <1>5, <1>6, <1>7 DEF StoreOK, TermIdsSound
<1> QED
  BY <1>2, <1>8

\* The member that leaves is the first one that is left.
LEMMA LeaveKeepsMerge ==
  ASSUME StoreOK, MergeOK, IsWork(work), work # Idle, FirstLeft \in Left,
         LeaveMap(work.ids[FirstLeft]), AsideReads', classes' = classes,
         work' = [work EXCEPT !.member = FirstLeft + 1], AsideOK'
  PROVE  StoreOK' /\ IsWork(work)' /\ MergeOK'
<1> DEFINE g == work.ids[FirstLeft]
<1>1. /\ StoreOK'
      /\ DOMAIN groups' = DOMAIN groups \ {g}
      /\ \A h \in DOMAIN groups' : groups'[h] = groups[h]
  BY LeaveKeepsStore
<1>2. /\ MembersOK /\ \A class \in classes : class.key # work.key /\ ClassOK(class)
  BY DEF MergeOK
<1>3. /\ Len(work.ids) \in Nat \ {0} /\ Len(work.key) \in Nat
      /\ \A m, n \in 1 .. Len(work.ids) : work.ids[m] = work.ids[n] => m = n
      /\ work.token \in Nat \ {0} /\ work.member \in Nat \ {0}
  BY <1>2 DEF MembersOK, IsWork
<1>4. FirstLeft \in Nat \ {0} /\ FirstLeft <= Len(work.ids)
  BY <1>3 DEF FirstLeft, Left
<1>5. /\ IsWork(work)' /\ work'.ids = work.ids /\ work'.key = work.key
      /\ work'.token = work.token /\ work'.member = FirstLeft + 1
  <2>1. work' = [ids |-> work.ids, key |-> work.key, token |-> work.token,
                 member |-> FirstLeft + 1]
    <3>1. work = [ids |-> work.ids, key |-> work.key, token |-> work.token,
                  member |-> work.member]
      BY DEF IsWork
    <3> QED
      BY <3>1
  <2> HIDE DEF FirstLeft
  <2> QED
    BY <1>3, <1>4, <2>1 DEF IsWork
<1>6. work' # Idle
  BY <1>3, <1>5, BusyFacts
<1>7. aside' # << >>
  <2>1. Len(aside') = 1 /\ Len(<< >>) = 0
    BY DEF AsideReads
  <2> QED
    BY <2>1
<1>16. Left = FirstLeft .. Len(work.ids)
  BY DEF Left
<1>8. Left' = FirstLeft + 1 .. Len(work.ids)
  BY <1>5, <1>7 DEF Left, FirstLeft
<1>9. g \in DOMAIN groups /\ KeyOf(g) = work.key
  BY <1>2 DEF MembersOK
<1> HIDE DEF FirstLeft
<1>10. ASSUME NEW n \in Left'
       PROVE  /\ work.ids[n] \in DOMAIN groups'
              /\ MergeKey(groups'[work.ids[n]]) = work.key
              /\ Converted(groups'[work.ids[n]], work.key, work.token)
  <2>1. n \in Left /\ n # FirstLeft /\ n \in 1 .. Len(work.ids)
        /\ FirstLeft \in 1 .. Len(work.ids)
    BY <1>3, <1>4, <1>8, <1>16
  <2>2. work.ids[n] # g
    BY <1>3, <2>1
  <2>3. /\ work.ids[n] \in DOMAIN groups /\ KeyOf(work.ids[n]) = work.key
        /\ Converted(groups[work.ids[n]], work.key, work.token)
    BY <1>2, <2>1 DEF MembersOK
  <2> HIDE DEF g
  <2> QED
    BY <1>1, <2>2, <2>3 DEF KeyOf
<1>11. ASSUME NEW h \in DOMAIN groups', MergeKey(groups'[h]) = work.key
       PROVE  \E n \in Left' : work.ids[n] = h
  <2>1. h \in DOMAIN groups /\ h # g /\ KeyOf(h) = work.key
    BY <1>1, <1>11 DEF KeyOf
  <2>2. PICK n \in Left : work.ids[n] = h
    BY <1>2, <2>1 DEF MembersOK
  <2>3. n # FirstLeft
    BY <2>1, <2>2
  <2>4. n \in Left'
    BY <1>3, <1>4, <1>8, <1>16, <2>3
  <2> QED
    BY <2>2, <2>4
<1>12. MembersOK'
  BY <1>3, <1>5, <1>7, <1>10, <1>11 DEF MembersOK, KeyOf
<1> HIDE DEF g
<1>13. ASSUME NEW class \in classes
       PROVE  ClassOK(class)' /\ class.key # work'.key
  <2>1. /\ class.ids = {h \in DOMAIN groups : KeyOf(h) = class.key}
        /\ class.ids # {} /\ class.key # work.key
    BY <1>2 DEF ClassOK
  <2>2. \A h : h \in DOMAIN groups /\ KeyOf(h) = class.key
               <=> h \in DOMAIN groups' /\ MergeKey(groups'[h]) = class.key
    BY <1>1, <1>9, <2>1 DEF KeyOf
  <2>3. class.ids = {h \in DOMAIN groups' : MergeKey(groups'[h]) = class.key}
    BY <2>1, <2>2
  <2> QED
    BY <1>5, <2>1, <2>3 DEF ClassOK, KeyOf
<1>14. ASSUME NEW h \in DOMAIN groups', NEW k \in DOMAIN groups', KeyOf(h)' = KeyOf(k)', h # k
       PROVE  Pending(KeyOf(h))'
  <2>1. h \in DOMAIN groups /\ k \in DOMAIN groups /\ KeyOf(h) = KeyOf(k)
    BY <1>1, <1>14 DEF KeyOf
  <2>2. Pending(KeyOf(h)) /\ KeyOf(h)' = KeyOf(h)
    BY <1>1, <1>14, <2>1 DEF MergeOK, KeyOf
  <2> QED
    BY <1>5, <1>6, <2>2 DEF Pending
<1>15. MergeOK'
  BY <1>6, <1>12, <1>13, <1>14 DEF MergeOK
<1> QED
  BY <1>1, <1>5, <1>15

LEMMA TakeFirstKeepsInv ==
  ASSUME PatternsInv, TakeFirst
  PROVE  PatternsInv'
<1> DEFINE g == work.ids[1]
<1>1. /\ phase = "merge" /\ phase' = phase /\ work # Idle
      /\ work.token > Len(work.key) /\ aside = << >>
      /\ aside' = <<[group |-> groups[g], rows |-> origin[g]]>>
      /\ work' = [work EXCEPT !.member = 2] /\ classes' = classes
      /\ LeaveMap(g)
  BY DEF TakeFirst, Appending, Merging, LeaveMap
<1>2. StoreOK /\ MergeOK /\ IsWork(work) /\ MembersOK /\ AsideOK
  BY <1>1 DEF PatternsInv, MergeOK
<1>3. FirstLeft = 1 /\ FirstLeft + 1 = 2 /\ FirstLeft \in Left
  BY <1>1, <1>2 DEF FirstLeft, Left, MembersOK
<1>4. /\ GroupOK(groups[g], term_map, lines, origin[g]) /\ groups[g] \in Groups
      /\ MergeKey(groups[g]) = work.key /\ Converted(groups[g], work.key, work.token)
      /\ Len(groups[g].tokens) = Len(work.key)
  BY <1>2, <1>3, MemberFacts
<1>5. origin[g] \in Seq(Nat)
  BY <1>4 DEF GroupOK
<1>6. AsideReads'
  <2>1. /\ aside' \in Seq([group : Groups, rows : Seq(Nat)]) /\ Len(aside') = 1
        /\ aside'[1].group = groups[g] /\ aside'[1].rows = origin[g]
    BY <1>1, <1>4, <1>5
  <2> QED
    BY <1>1, <1>4, <2>1 DEF AsideReads, LeaveMap
<1>7. AsideOK'
  <2>1. Len(aside') = 1 /\ aside'[1].group = groups[g]
    BY <1>1
  <2>2. work'.key = work.key /\ work'.token = work.token
    BY <1>1, <1>2 DEF IsWork
  <2>3. Converted(groups[g], work.key, Len(work.key) + 1)
    <3>1. \A i \in 1 .. Len(groups[g].tokens) : i < work.token
      BY <1>1, <1>2, <1>4 DEF MembersOK, IsWork
    <3> QED
      BY <1>4, <3>1 DEF Converted
  <2> QED
    BY <1>1, <1>4, <2>1, <2>2, <2>3 DEF AsideOK
<1>8. StoreOK' /\ IsWork(work)' /\ MergeOK'
  BY <1>1, <1>2, <1>3, <1>6, <1>7, LeaveKeepsMerge
<1> QED
  BY <1>1, <1>8 DEF PatternsInv

LEMMA AppendMemberKeepsInv ==
  ASSUME PatternsInv, AppendMember
  PROVE  PatternsInv'
<1> DEFINE g     == work.ids[work.member]
           group == aside[1].group
           rows  == aside[1].rows
           new   == AppendGroup(group, groups[g])
           all   == rows \o origin[g]
<1>1. /\ phase = "merge" /\ phase' = phase /\ work # Idle
      /\ work.token > Len(work.key) /\ aside # << >> /\ work.member <= Len(work.ids)
      /\ aside' = <<[group |-> new, rows |-> all]>>
      /\ work' = [work EXCEPT !.member = work.member + 1] /\ classes' = classes
      /\ LeaveMap(g)
  BY DEF AppendMember, Appending, Merging, LeaveMap
<1>2. StoreOK /\ MergeOK /\ IsWork(work) /\ MembersOK /\ AsideOK
  BY <1>1 DEF PatternsInv, MergeOK
<1>3. FirstLeft = work.member /\ FirstLeft \in Left
  <2>1. FirstLeft = work.member
    BY <1>1 DEF FirstLeft
  <2>2. work.member \in Nat /\ Len(work.ids) \in Nat
    BY <1>2 DEF MembersOK, IsWork
  <2> QED
    BY <1>1, <2>1, <2>2 DEF Left
<1>4. /\ GroupOK(groups[g], term_map, lines, origin[g]) /\ groups[g] \in Groups
      /\ MergeKey(groups[g]) = work.key /\ Converted(groups[g], work.key, work.token)
      /\ Len(groups[g].tokens) = Len(work.key)
  BY <1>2, <1>3, MemberFacts
<1>5. /\ Len(aside) = 1 /\ MergeKey(group) = work.key
      /\ Converted(group, work.key, Len(work.key) + 1)
  BY <1>1, <1>2 DEF AsideOK
<1>6. GroupOK(group, term_map, lines, rows)
  <2>1. 1 \in 1 .. Len(aside)
    BY <1>5
  <2> QED
    BY <1>2, <2>1 DEF StoreOK
<1>7. group \in Groups /\ ColumnsOwned(group) /\ ColumnsOwned(groups[g])
  BY <1>4, <1>6 DEF GroupOK
<1>8. Len(group.tokens) = Len(work.key)
  BY <1>5, <1>7, KeyFacts
<1>9. Converted(groups[g], work.key, Len(work.key) + 1)
  <2>1. \A i \in 1 .. Len(groups[g].tokens) : i < work.token
    BY <1>1, <1>2, <1>4 DEF MembersOK, IsWork
  <2> QED
    BY <1>4, <2>1 DEF Converted
<1> HIDE DEF group, rows, g
<1>10. Appendable(group, groups[g])
  BY <1>4, <1>5, <1>7, <1>8, <1>9, AppendableByKey
<1>11. GroupOK(new, term_map, lines, all)
  BY <1>4, <1>6, <1>10, AppendOK
<1>12. /\ MergeKey(new) = work.key
       /\ Converted(new, work.key, Len(new.tokens) + 1)
  BY <1>4, <1>5, <1>7, <1>8, <1>10, AppendKeepsKey
<1>13. new \in Groups /\ all \in Seq(Nat)
  BY <1>11 DEF GroupOK
<1> HIDE DEF new, all
<1>14. Len(new.tokens) = Len(work.key)
  BY <1>12, <1>13, KeyFacts
<1>15. AsideReads'
  <2>1. /\ aside' \in Seq([group : Groups, rows : Seq(Nat)]) /\ Len(aside') = 1
        /\ aside'[1].group = new /\ aside'[1].rows = all
    BY <1>1, <1>13
  <2> QED
    BY <1>1, <1>11, <2>1 DEF AsideReads, LeaveMap
<1>16. AsideOK'
  <2>1. Len(aside') = 1 /\ aside'[1].group = new
    BY <1>1
  <2>2. work'.key = work.key /\ work'.token = work.token
    BY <1>1, <1>2 DEF IsWork
  <2> QED
    BY <1>1, <1>12, <1>14, <2>1, <2>2 DEF AsideOK
<1>17. StoreOK' /\ IsWork(work)' /\ MergeOK'
  BY <1>1, <1>2, <1>3, <1>15, <1>16, LeaveKeepsMerge DEF g
<1> QED
  BY <1>1, <1>17 DEF PatternsInv

\* The merged group is the only one with its key when it is back.
LEMMA InsertMergedKeepsInv ==
  ASSUME PatternsInv, SaltedIdsFresh, InsertMerged
  PROVE  PatternsInv'
<1> DEFINE id == DuplicateId(aside[1].group, salt[Len(aside[1].group.tokens)] + 1)
<1>1. /\ phase = "merge" /\ phase' = phase /\ work # Idle
      /\ work.member > Len(work.ids) /\ InsertNewGroup
      /\ work' = Idle /\ classes' = classes
  BY DEF InsertMerged, Appending, Merging
<1>2. StoreOK /\ MergeOK /\ IsWork(work) /\ MembersOK /\ AsideOK
  BY <1>1 DEF PatternsInv, MergeOK
<1>3. /\ StoreOK' /\ aside # << >>
      /\ Len(aside') = Len(aside) - 1
      /\ DOMAIN groups' = DOMAIN groups \cup {id}
      /\ groups'[id] = aside[1].group
      /\ \A g \in DOMAIN groups : g # id => groups'[g] = groups[g]
  BY <1>1, <1>2, InsertKeepsStore
<1>4. id \notin DOMAIN groups
  BY <1>1, <1>3 DEF SaltedIdsFresh
<1>5. Len(aside) = 1 /\ MergeKey(aside[1].group) = work.key
  BY <1>2, <1>3 DEF AsideOK
<1> HIDE DEF id
<1>6. aside' = << >>
  <2>1. aside' \in Seq([group : Groups, rows : Seq(Nat)]) /\ Len(aside') = 0
    BY <1>3, <1>5 DEF StoreOK
  <2> QED
    BY <2>1, EmptySeq
<1>7. \A g \in DOMAIN groups : MergeKey(groups'[g]) = KeyOf(g)
  BY <1>3, <1>4 DEF KeyOf
<1>8. MergeKey(groups'[id]) = work.key
  BY <1>3, <1>5
<1>9. \A g \in DOMAIN groups : KeyOf(g) # work.key
  <2>1. Left = {}
    <3>1. FirstLeft = work.member /\ work.member \in Nat /\ Len(work.ids) \in Nat
      BY <1>2, <1>3 DEF FirstLeft, MembersOK, IsWork
    <3> QED
      BY <1>1, <3>1 DEF Left
  <2> QED
    BY <1>2, <2>1 DEF MembersOK
<1>10. ASSUME NEW class \in classes'
       PROVE  ClassOK(class)'
  <2>1. /\ class.ids = {h \in DOMAIN groups : KeyOf(h) = class.key}
        /\ class.ids # {} /\ class.key # work.key
    BY <1>1, <1>2 DEF MergeOK, ClassOK
  <2>2. \A h : h \in DOMAIN groups /\ KeyOf(h) = class.key
               <=> h \in DOMAIN groups' /\ MergeKey(groups'[h]) = class.key
    BY <1>3, <1>7, <1>8, <2>1
  <2>3. class.ids = {h \in DOMAIN groups' : MergeKey(groups'[h]) = class.key}
    BY <2>1, <2>2
  <2> QED
    BY <2>1, <2>3 DEF ClassOK, KeyOf
<1>11. ASSUME NEW h \in DOMAIN groups', NEW k \in DOMAIN groups', KeyOf(h)' = KeyOf(k)', h # k
       PROVE  Pending(KeyOf(h))'
  <2>1. h \in DOMAIN groups /\ k \in DOMAIN groups
    BY <1>3, <1>7, <1>8, <1>9, <1>11 DEF KeyOf
  <2>2. KeyOf(h) = KeyOf(k) /\ KeyOf(h)' = KeyOf(h)
    BY <1>7, <1>11, <2>1 DEF KeyOf
  <2>3. PICK class \in classes : class.key = KeyOf(h)
    BY <1>2, <1>9, <1>11, <2>1, <2>2 DEF MergeOK, Pending
  <2> QED
    BY <1>1, <2>2, <2>3 DEF Pending
<1>12. \A c, d \in classes' : c.key = d.key => c = d
  BY <1>1, <1>2 DEF MergeOK
<1>13. MergeOK'
  BY <1>1, <1>6, <1>10, <1>11, <1>12 DEF MergeOK
<1>14. IsWork(work)'
  BY <1>1, IdleIsWork DEF IsWork
<1> QED
  BY <1>1, <1>3, <1>13, <1>14 DEF PatternsInv

-----------------------------------------------------------------------------

LEMMA PatternsStepInv ==
  PatternsInv /\ SaltedIdsFresh /\ [Next]_vars => PatternsInv'
<1> SUFFICES ASSUME PatternsInv, SaltedIdsFresh, [Next]_vars PROVE PatternsInv'
  OBVIOUS
<1>1. CASE Ingest
  BY <1>1, IngestKeepsPatternsInv
<1>2. CASE \E split \in BOOLEAN : EndOfInput(split)
  BY <1>2, EndOfInputKeepsInv
<1>3. CASE \E g \in todo : SplitGroup(g)
  BY <1>3, SplitGroupKeepsInv
<1>4. CASE \E id \in 0 .. term_map.next_term_id - 1, text \in Texts : MoveTerm(id, text)
  BY <1>4, MoveTermKeepsInv
<1>5. CASE SplitNextToken
  BY <1>5, SplitNextTokenKeepsInv
<1>6. CASE SplitGroupDone
  BY <1>6, SplitGroupDoneKeepsInv
<1>7. CASE InsertSplitGroup
  BY <1>7, InsertSplitGroupKeepsInv
<1>8. CASE EndSplit
  BY <1>8, EndSplitKeepsInv
<1>9. CASE Classify
  BY <1>9, ClassifyKeepsInv
<1>10. CASE \E class \in classes : \E ids \in SetToSeqs(class.ids) : StartMerge(class, ids)
  BY <1>10, StartMergeKeepsInv
<1>11. CASE ConvertMember
  BY <1>11, ConvertMemberKeepsInv
<1>12. CASE ConvertNextToken
  BY <1>12, ConvertNextTokenKeepsInv
<1>13. CASE TakeFirst
  BY <1>13, TakeFirstKeepsInv
<1>14. CASE AppendMember
  BY <1>14, AppendMemberKeepsInv
<1>15. CASE InsertMerged
  BY <1>15, InsertMergedKeepsInv
<1>16. CASE EndMerge
  BY <1>16, EndMergeKeepsInv
<1>17. CASE Merged \/ UNCHANGED vars
  <2>1. UNCHANGED vars
    BY <1>17 DEF Merged
  <2>2. /\ term_map' = term_map /\ groups' = groups /\ lines' = lines
        /\ origin' = origin /\ pos' = pos /\ phase' = phase /\ todo' = todo
        /\ work' = work /\ aside' = aside /\ salt' = salt /\ classes' = classes
    BY <2>1 DEF vars, ingestVars, patternVars
  <2>3. IngestInv => IngestInv'
    <3>1. [IngestNext]_ingestVars
      BY <2>2 DEF ingestVars
    <3> QED
      BY <3>1, IngestStepInv
  <2>4. StoreOK => StoreOK'
    BY <2>2, StoreStays
  <2>5. MergeOK => MergeOK'
    BY <2>2 DEF MergeOK, MembersOK, AsideOK, ClassOK, Pending, Left, FirstLeft, KeyOf
  <2>6. KeysDiffer => KeysDiffer'
    BY <2>2 DEF KeysDiffer, KeyOf
  <2> QED
    BY <2>2, <2>3, <2>4, <2>5, <2>6 DEF PatternsInv, IsWork
<1> QED
  BY <1>1, <1>2, <1>3, <1>4, <1>5, <1>6, <1>7, <1>8, <1>9, <1>10, <1>11, <1>12,
     <1>13, <1>14, <1>15, <1>16, <1>17 DEF Next, Split, Merge

(***************************************************************************)
(* The invariant holds for every input, hash and threshold, if the salted  *)
(* ids of merged groups are fresh: a group that is replaced under its id   *)
(* while its class waits for the merge would be missing from it.           *)
(***************************************************************************)
THEOREM PatternsInvariant == Spec /\ []SaltedIdsFresh => []PatternsInv
<1>1. Init => PatternsInv
  BY PatternsInitInv
<1>2. PatternsInv /\ SaltedIdsFresh /\ [Next]_vars => PatternsInv'
  BY PatternsStepInv
<1> QED BY <1>1, <1>2, PTL DEF Spec

\* Every row of every group, in the map or aside, reads back as its line.
HeldReadable ==
  phase # "ingest" =>
    \A h \in Holders : \A r \in 1 .. Held(h).num_docs :
      RowReads(Held(h), term_map, r, lines[HeldRows(h)[r]])

LEMMA HeldOK ==
  ASSUME PatternsInv, phase # "ingest", NEW h \in Holders
  PROVE  GroupOK(Held(h), term_map, lines, HeldRows(h))
<1>1. StoreOK
  BY DEF PatternsInv
<1>2. CASE \E g \in DOMAIN groups : h = <<"map", g>>
  <2>1. PICK g \in DOMAIN groups : h = <<"map", g>>
    BY <1>2
  <2>2. Held(h) = groups[g] /\ HeldRows(h) = origin[g]
    BY <2>1 DEF Held, HeldRows
  <2> QED
    BY <1>1, <2>2 DEF StoreOK
<1>3. CASE \E n \in DOMAIN aside : h = <<"aside", n>>
  <2>1. PICK n \in DOMAIN aside : h = <<"aside", n>>
    BY <1>3
  <2>2. Held(h) = aside[n].group /\ HeldRows(h) = aside[n].rows
    BY <2>1 DEF Held, HeldRows
  <2>3. n \in 1 .. Len(aside)
    BY <1>1, <2>1, LenProperties DEF StoreOK
  <2> QED
    BY <1>1, <2>2, <2>3 DEF StoreOK
<1> QED
  BY <1>2, <1>3 DEF Holders

(* Split, converted and joined groups keep one row per document in every   *)
(* column and one column per variable: the column file can be cut back.    *)
THEOREM HeldStayRectangular == Spec /\ []SaltedIdsFresh => []HeldRectangular
<1>1. PatternsInv => HeldRectangular
  <2> SUFFICES ASSUME PatternsInv, phase # "ingest", NEW h \in Holders
               PROVE  /\ ColumnsOwned(Held(h))
                      /\ Len(HeldRows(h)) = Held(h).num_docs
                      /\ \A c \in 1 .. Len(Held(h).columns) :
                           Len(Held(h).columns[c]) = Held(h).num_docs
    BY DEF HeldRectangular
  <2>1. GroupOK(Held(h), term_map, lines, HeldRows(h))
    BY HeldOK
  <2> QED
    BY <2>1 DEF GroupOK
<1> QED BY <1>1, PatternsInvariant, PTL

(* remove_rows, move_term_id_to_new_group, convert_to_variable and append  *)
(* leave every row reading as the line it came from, up to the cap.        *)
THEOREM HeldStayReadable == Spec /\ []SaltedIdsFresh => []HeldReadable
<1>1. PatternsInv => HeldReadable
  <2> SUFFICES ASSUME PatternsInv, phase # "ingest", NEW h \in Holders,
                      NEW r \in 1 .. Held(h).num_docs
               PROVE  RowReads(Held(h), term_map, r, lines[HeldRows(h)[r]])
    BY DEF HeldReadable
  <2>1. GroupOK(Held(h), term_map, lines, HeldRows(h))
    BY HeldOK
  <2> QED
    BY <2>1 DEF GroupOK
<1> QED BY <1>1, PatternsInvariant, PTL

(* One pass over the classes is enough: no two merged groups are left with *)
(* the same key, although conversions and joins go on changing groups.     *)
THEOREM MergeStaysComplete == Spec /\ []SaltedIdsFresh => []MergeComplete
<1>1. PatternsInv => MergeComplete
  BY DEF PatternsInv, KeysDiffer, KeyOf, MergeComplete
<1> QED BY <1>1, PatternsInvariant, PTL

-----------------------------------------------------------------------------
(* Every line in one row.                                                  *)

\* The lines that the rows of a group come from, and that none does twice.
LinesIn(rows) == {rows[r] : r \in 1 .. Len(rows)}
EachOnce(rows) == \A r, s \in 1 .. Len(rows) : rows[r] = rows[s] => r = s

\* The rows of all groups are the first lines of the input, each in one row.
Once(f, upto) ==
  /\ \A h \in DOMAIN f : EachOnce(f[h])
  /\ \A h, k \in DOMAIN f : h # k => LinesIn(f[h]) \cap LinesIn(f[k]) = {}
  /\ UNION {LinesIn(f[h]) : h \in DOMAIN f} = 1 .. upto

RowsByHolder == [h \in Holders |-> HeldRows(h)]

\* The numbers kept are numbered through.
LEMMA NthOnto ==
  ASSUME NEW m \in Nat, NEW keep \in SUBSET (1 .. m)
  PROVE  /\ Cardinality(keep) \in Nat
         /\ \A n \in 1 .. Cardinality(keep) : NthOf(keep, n) \in keep
         /\ \A a, b \in 1 .. Cardinality(keep) : NthOf(keep, a) = NthOf(keep, b) => a = b
         /\ \A x \in keep : \E n \in 1 .. Cardinality(keep) : NthOf(keep, n) = x
<1> DEFINE N == Cardinality(keep)
           f == [n \in 1 .. N |-> NthOf(keep, n)]
<1>1. /\ IsFiniteSet(keep) /\ N \in Nat
      /\ \A n \in 1 .. N : /\ NthOf(keep, n) \in keep
                           /\ Cardinality({s \in keep : s <= NthOf(keep, n)}) = n
  BY NthExists
<1>2. \A a, b \in 1 .. N : NthOf(keep, a) = NthOf(keep, b) => a = b
  BY <1>1
<1>3. f \in Injection(1 .. N, keep)
  BY <1>1, <1>2 DEF Injection, IsInjective
<1>4. Cardinality(1 .. N) = N
  BY <1>1, FS_Interval
<1>5. f \in Surjection(1 .. N, keep)
  <2> HIDE DEF f
  <2> QED
    BY <1>1, <1>3, <1>4, FS_Injection
<1>6. \A x \in keep : \E n \in 1 .. N : f[n] = x
  BY <1>5 DEF Surjection
<1> QED
  BY <1>1, <1>2, <1>6

\* remove_rows: what is retained are the lines of the rows kept.
LEMMA RetainLines ==
  ASSUME NEW S, NEW rows \in Seq(S), EachOnce(rows), NEW keep \in SUBSET (1 .. Len(rows))
  PROVE  /\ EachOnce(RetainRows(rows, keep))
         /\ LinesIn(RetainRows(rows, keep)) = {rows[r] : r \in keep}
<1> DEFINE new == RetainRows(rows, keep)
<1>1. /\ Cardinality(keep) \in Nat
      /\ \A n \in 1 .. Cardinality(keep) : NthOf(keep, n) \in keep
      /\ \A a, b \in 1 .. Cardinality(keep) : NthOf(keep, a) = NthOf(keep, b) => a = b
      /\ \A x \in keep : \E n \in 1 .. Cardinality(keep) : NthOf(keep, n) = x
  <2>1. Len(rows) \in Nat
    OBVIOUS
  <2> QED
    BY <2>1, NthOnto
<1>2. /\ Len(new) = Cardinality(keep)
      /\ \A n \in 1 .. Cardinality(keep) : new[n] = rows[NthOf(keep, n)]
  BY RetainFacts
<1> HIDE DEF new
<1>3. EachOnce(new)
  <2> SUFFICES ASSUME NEW a \in 1 .. Cardinality(keep), NEW b \in 1 .. Cardinality(keep),
                      new[a] = new[b]
               PROVE  a = b
    BY <1>2 DEF EachOnce
  <2>1. NthOf(keep, a) \in 1 .. Len(rows) /\ NthOf(keep, b) \in 1 .. Len(rows)
    BY <1>1
  <2>2. NthOf(keep, a) = NthOf(keep, b)
    BY <1>2, <2>1 DEF EachOnce
  <2> QED
    BY <1>1, <2>2
<1>4. LinesIn(new) = {rows[r] : r \in keep}
  <2>1. ASSUME NEW n \in 1 .. Cardinality(keep)
        PROVE  new[n] \in {rows[r] : r \in keep}
    BY <1>1, <1>2
  <2>2. ASSUME NEW r \in keep
        PROVE  \E n \in 1 .. Cardinality(keep) : new[n] = rows[r]
    BY <1>1, <1>2
  <2> QED
    BY <1>2, <2>1, <2>2 DEF LinesIn
<1> QED
  BY <1>3, <1>4 DEF new

\* append: the lines of both.
LEMMA ConcatLines ==
  ASSUME NEW S, NEW left \in Seq(S), NEW right \in Seq(S), EachOnce(left), EachOnce(right),
         LinesIn(left) \cap LinesIn(right) = {}
  PROVE  /\ EachOnce(left \o right)
         /\ LinesIn(left \o right) = LinesIn(left) \cup LinesIn(right)
<1> DEFINE all == left \o right
           m   == Len(left)
           n   == Len(right)
<1>1. m \in Nat /\ n \in Nat
  BY LenProperties
<1>2. /\ Len(all) = m + n
      /\ \A r \in 1 .. m : all[r] = left[r]
      /\ \A r \in 1 .. n : all[m + r] = right[r]
  BY ConcatParts DEF IsConcat
<1> HIDE DEF all, m, n
<1>3. \A r \in 1 .. m + n : r \in 1 .. m \/ \E s \in 1 .. n : r = m + s
  <2> SUFFICES ASSUME NEW r \in 1 .. m + n, r \notin 1 .. m
               PROVE  \E s \in 1 .. n : r = m + s
    OBVIOUS
  <2>1. r - m \in 1 .. n /\ r = m + (r - m)
    BY <1>1
  <2> QED
    BY <2>1
<1>4. /\ \A r \in 1 .. m : left[r] \in LinesIn(left)
      /\ \A r \in 1 .. n : right[r] \in LinesIn(right)
  BY DEF LinesIn, m, n
<1>5. EachOnce(all)
  <2> SUFFICES ASSUME NEW a \in 1 .. m + n, NEW b \in 1 .. m + n, all[a] = all[b]
               PROVE  a = b
    BY <1>2 DEF EachOnce
  <2>1. CASE a \in 1 .. m /\ b \in 1 .. m
    BY <1>2, <2>1 DEF EachOnce, m
  <2>2. CASE a \notin 1 .. m /\ b \notin 1 .. m
    <3>1. PICK s \in 1 .. n, t \in 1 .. n : a = m + s /\ b = m + t
      BY <1>3, <2>2
    <3>2. right[s] = right[t]
      BY <1>2, <3>1
    <3>3. s = t
      BY <3>2 DEF EachOnce, n
    <3> QED
      BY <3>1, <3>3
  <2>3. CASE a \in 1 .. m /\ b \notin 1 .. m
    <3>1. PICK t \in 1 .. n : b = m + t
      BY <1>3, <2>3
    <3> QED
      BY <1>2, <1>4, <2>3, <3>1
  <2>4. CASE a \notin 1 .. m /\ b \in 1 .. m
    <3>1. PICK s \in 1 .. n : a = m + s
      BY <1>3, <2>4
    <3> QED
      BY <1>2, <1>4, <2>4, <3>1
  <2> QED
    BY <2>1, <2>2, <2>3, <2>4
<1>6. LinesIn(all) = LinesIn(left) \cup LinesIn(right)
  <2>1. ASSUME NEW r \in 1 .. m + n
        PROVE  all[r] \in LinesIn(left) \cup LinesIn(right)
    BY <1>2, <1>3, <1>4
  <2>2. ASSUME NEW r \in 1 .. m
        PROVE  \E s \in 1 .. m + n : all[s] = left[r]
    <3>1. r \in 1 .. m + n
      BY <1>1
    <3> QED
      BY <1>2, <3>1
  <2>3. ASSUME NEW r \in 1 .. n
        PROVE  \E s \in 1 .. m + n : all[s] = right[r]
    <3>1. m + r \in 1 .. m + n
      BY <1>1
    <3> QED
      BY <1>2, <3>1
  <2>4. LinesIn(all) = {all[r] : r \in 1 .. m + n}
    BY <1>2 DEF LinesIn
  <2>5. LinesIn(left) = {left[r] : r \in 1 .. m} /\ LinesIn(right) = {right[r] : r \in 1 .. n}
    BY DEF LinesIn, m, n
  <2> QED
    BY <2>1, <2>2, <2>3, <2>4, <2>5
<1> QED
  BY <1>5, <1>6 DEF all

\* Groups get other names.
LEMMA RenameOnce ==
  ASSUME NEW f, NEW g, NEW upto, Once(f, upto),
         NEW to \in [DOMAIN g -> DOMAIN f],
         \A h, k \in DOMAIN g : to[h] = to[k] => h = k,
         \A k \in DOMAIN f : \E h \in DOMAIN g : to[h] = k,
         \A h \in DOMAIN g : g[h] = f[to[h]]
  PROVE  Once(g, upto)
<1>1. \A h \in DOMAIN g : EachOnce(g[h])
  BY DEF Once
<1>2. \A h, k \in DOMAIN g : h # k => LinesIn(g[h]) \cap LinesIn(g[k]) = {}
  BY DEF Once
<1>3. UNION {LinesIn(g[h]) : h \in DOMAIN g} = UNION {LinesIn(f[h]) : h \in DOMAIN f}
  <2>1. ASSUME NEW x, NEW h \in DOMAIN g, x \in LinesIn(g[h])
        PROVE  to[h] \in DOMAIN f /\ x \in LinesIn(f[to[h]])
    BY <2>1
  <2>2. ASSUME NEW x, NEW k \in DOMAIN f, x \in LinesIn(f[k])
        PROVE  \E h \in DOMAIN g : x \in LinesIn(g[h])
    BY <2>2
  <2> QED
    BY <2>1, <2>2
<1> QED
  BY <1>1, <1>2, <1>3 DEF Once

\* The rows of one group are shared out between it and a new one.
LEMMA SplitOnce ==
  ASSUME NEW f, NEW g, NEW upto, Once(f, upto), NEW old \in DOMAIN f, NEW new,
         new \notin DOMAIN f, DOMAIN g = DOMAIN f \cup {new},
         \A h \in DOMAIN f : h # old => g[h] = f[h],
         EachOnce(g[old]), EachOnce(g[new]), LinesIn(g[old]) \cap LinesIn(g[new]) = {},
         LinesIn(g[old]) \cup LinesIn(g[new]) = LinesIn(f[old])
  PROVE  Once(g, upto)
<1>1. \A h \in DOMAIN g : EachOnce(g[h])
  BY DEF Once
<1>2. \A h \in DOMAIN f : h # old => LinesIn(f[h]) \cap LinesIn(f[old]) = {}
  BY DEF Once
<1>3. ASSUME NEW h \in DOMAIN g, NEW k \in DOMAIN g, h # k
      PROVE  LinesIn(g[h]) \cap LinesIn(g[k]) = {}
  <2>1. CASE h \in {old, new} /\ k \in {old, new}
    BY <1>3, <2>1
  <2>2. CASE h \in {old, new} /\ k \notin {old, new}
    BY <1>2, <2>2
  <2>3. CASE h \notin {old, new} /\ k \in {old, new}
    BY <1>2, <2>3
  <2>4. CASE h \notin {old, new} /\ k \notin {old, new}
    BY <1>3, <2>4 DEF Once
  <2> QED
    BY <2>1, <2>2, <2>3, <2>4
<1>4. UNION {LinesIn(g[h]) : h \in DOMAIN g} = UNION {LinesIn(f[h]) : h \in DOMAIN f}
  <2>1. ASSUME NEW x, NEW h \in DOMAIN g, x \in LinesIn(g[h])
        PROVE  \E k \in DOMAIN f : x \in LinesIn(f[k])
    BY <2>1
  <2>2. ASSUME NEW x, NEW k \in DOMAIN f, x \in LinesIn(f[k])
        PROVE  \E h \in DOMAIN g : x \in LinesIn(g[h])
    BY <2>2
  <2> QED
    BY <2>1, <2>2
<1> QED
  BY <1>1, <1>3, <1>4 DEF Once

\* The rows of one group join those of another.
LEMMA JoinOnce ==
  ASSUME NEW f, NEW g, NEW upto, Once(f, upto), NEW into \in DOMAIN f, NEW gone \in DOMAIN f,
         into # gone, DOMAIN g = DOMAIN f \ {gone},
         \A h \in DOMAIN g : h # into => g[h] = f[h],
         EachOnce(g[into]), LinesIn(g[into]) = LinesIn(f[into]) \cup LinesIn(f[gone])
  PROVE  Once(g, upto)
<1>1. \A h \in DOMAIN g : EachOnce(g[h])
  BY DEF Once
<1>2. \A h, k \in DOMAIN f : h # k => LinesIn(f[h]) \cap LinesIn(f[k]) = {}
  BY DEF Once
<1>3. ASSUME NEW h \in DOMAIN g, NEW k \in DOMAIN g, h # k
      PROVE  LinesIn(g[h]) \cap LinesIn(g[k]) = {}
  <2>1. CASE h = into
    BY <1>2, <1>3, <2>1
  <2>2. CASE k = into
    BY <1>2, <1>3, <2>2
  <2>3. CASE h # into /\ k # into
    BY <1>2, <1>3, <2>3
  <2> QED
    BY <2>1, <2>2, <2>3
<1>4. UNION {LinesIn(g[h]) : h \in DOMAIN g} = UNION {LinesIn(f[h]) : h \in DOMAIN f}
  <2>1. ASSUME NEW x, NEW h \in DOMAIN g, x \in LinesIn(g[h])
        PROVE  \E k \in DOMAIN f : x \in LinesIn(f[k])
    BY <2>1
  <2>2. ASSUME NEW x, NEW k \in DOMAIN f, x \in LinesIn(f[k])
        PROVE  \E h \in DOMAIN g : x \in LinesIn(g[h])
    BY <2>2
  <2> QED
    BY <2>1, <2>2
<1> QED
  BY <1>1, <1>3, <1>4 DEF Once

-----------------------------------------------------------------------------
(* The steps of split_templates and merge_templates move rows.             *)

RowsOnceInv == phase # "ingest" => pos = 0 /\ Once(RowsByHolder, Len(lines))

LEMMA HolderFacts ==
  /\ DOMAIN RowsByHolder = Holders
  /\ \A g \in DOMAIN groups : <<"map", g>> \in Holders /\ RowsByHolder[<<"map", g>>] = origin[g]
  /\ \A n \in DOMAIN aside :
       <<"aside", n>> \in Holders /\ RowsByHolder[<<"aside", n>>] = aside[n].rows
  /\ \A h \in Holders : \/ \E g \in DOMAIN groups : h = <<"map", g>>
                        \/ \E n \in DOMAIN aside : h = <<"aside", n>>
BY DEF RowsByHolder, Holders, HeldRows

LEMMA HolderFactsAfter ==
  /\ DOMAIN RowsByHolder' = Holders'
  /\ \A g \in DOMAIN groups' : <<"map", g>> \in Holders' /\ RowsByHolder'[<<"map", g>>] = origin'[g]
  /\ \A n \in DOMAIN aside' :
       <<"aside", n>> \in Holders' /\ RowsByHolder'[<<"aside", n>>] = aside'[n].rows
  /\ \A h \in Holders' : \/ \E g \in DOMAIN groups' : h = <<"map", g>>
                         \/ \E n \in DOMAIN aside' : h = <<"aside", n>>
BY DEF RowsByHolder, Holders, HeldRows

\* Most steps leave the rows alone.
LEMMA RowsStayPut ==
  ASSUME RowsOnceInv, phase # "ingest", DOMAIN groups' = DOMAIN groups,
         UNCHANGED <<origin, aside, lines, pos>>
  PROVE  RowsOnceInv'
<1>1. Holders' = Holders /\ \A h : HeldRows(h)' = HeldRows(h)
  BY DEF Holders, HeldRows
<1>2. RowsByHolder' = RowsByHolder
  BY <1>1 DEF RowsByHolder
<1>3. Once(RowsByHolder', Len(lines'))
  BY <1>2 DEF RowsOnceInv
<1> QED
  BY <1>3 DEF RowsOnceInv

\* The first pass leaves every line in one row.
LEMMA IngestRows ==
  ASSUME IngestInv, aside = << >>
  PROVE  Once(RowsByHolder, NumPushed)
<1>1. /\ origin \in [DOMAIN groups -> Seq(Nat)]
      /\ \A g \in DOMAIN groups :
           /\ Len(origin[g]) = groups[g].num_docs
           /\ \A r \in 1 .. groups[g].num_docs : origin[g][r] \in 1 .. NumPushed
      /\ \A n \in 1 .. NumPushed : InOneRow(n)
  BY DEF IngestInv, IngestTypeOK, GroupsMatchLines, EveryLineInOneRow
<1>2. /\ DOMAIN RowsByHolder = Holders
      /\ \A g \in DOMAIN groups :
           <<"map", g>> \in Holders /\ RowsByHolder[<<"map", g>>] = origin[g]
      /\ \A h \in Holders : \E g \in DOMAIN groups : h = <<"map", g>>
  BY HolderFacts
<1>3. ASSUME NEW g \in DOMAIN groups, NEW k \in DOMAIN groups,
             NEW r \in 1 .. Len(origin[g]), NEW s \in 1 .. Len(origin[k]),
             origin[g][r] = origin[k][s]
      PROVE  g = k /\ r = s
  <2>1. r \in 1 .. groups[g].num_docs /\ s \in 1 .. groups[k].num_docs
    BY <1>1
  <2>2. origin[g][r] \in 1 .. NumPushed
    BY <1>1, <2>1
  <2>3. InOneRow(origin[g][r])
    BY <1>1, <2>2
  <2> QED
    BY <1>3, <2>1, <2>3 DEF InOneRow
<1>4. \A h \in Holders : EachOnce(RowsByHolder[h])
  BY <1>2, <1>3 DEF EachOnce
<1>5. ASSUME NEW h \in Holders, NEW k \in Holders, h # k
      PROVE  LinesIn(RowsByHolder[h]) \cap LinesIn(RowsByHolder[k]) = {}
  <2>1. PICK g \in DOMAIN groups, j \in DOMAIN groups : h = <<"map", g>> /\ k = <<"map", j>>
    BY <1>2
  <2>2. g # j
    BY <1>5, <2>1
  <2>3. LinesIn(origin[g]) \cap LinesIn(origin[j]) = {}
    BY <1>3, <2>2 DEF LinesIn
  <2> QED
    BY <1>2, <2>1, <2>3
<1>6. UNION {LinesIn(RowsByHolder[h]) : h \in Holders} = 1 .. NumPushed
  <2>1. ASSUME NEW h \in Holders, NEW n \in LinesIn(RowsByHolder[h])
        PROVE  n \in 1 .. NumPushed
    <3>1. PICK g \in DOMAIN groups : h = <<"map", g>>
      BY <1>2
    <3>2. PICK r \in 1 .. Len(origin[g]) : n = origin[g][r]
      BY <1>2, <3>1 DEF LinesIn
    <3> QED
      BY <1>1, <3>2
  <2>2. ASSUME NEW n \in 1 .. NumPushed
        PROVE  \E h \in Holders : n \in LinesIn(RowsByHolder[h])
    <3>1. PICK g \in DOMAIN groups : \E r \in 1 .. groups[g].num_docs : origin[g][r] = n
      BY <1>1 DEF InOneRow
    <3>2. n \in LinesIn(origin[g])
      BY <1>1, <3>1 DEF LinesIn
    <3> QED
      BY <1>2, <3>2
  <2> QED
    BY <2>1, <2>2
<1> QED
  BY <1>2, <1>4, <1>5, <1>6 DEF Once

LEMMA EndOfInputRows ==
  ASSUME PatternsInv, NEW split \in BOOLEAN, EndOfInput(split)
  PROVE  RowsOnceInv'
<1>1. /\ phase = "ingest" /\ pos = 0 /\ groups' = groups /\ origin' = origin
      /\ aside' = aside /\ lines' = lines /\ pos' = pos
  BY DEF EndOfInput, ingestVars
<1>2. IngestInv /\ aside = << >>
  BY <1>1 DEF PatternsInv
<1>3. Once(RowsByHolder, NumPushed) /\ NumPushed = Len(lines)
  BY <1>1, <1>2, IngestRows DEF NumPushed
<1>4. Holders' = Holders /\ \A h : HeldRows(h)' = HeldRows(h)
  BY <1>1 DEF Holders, HeldRows
<1>5. RowsByHolder' = RowsByHolder
  BY <1>4 DEF RowsByHolder
<1>6. Once(RowsByHolder', Len(lines'))
  BY <1>1, <1>3, <1>5
<1> QED
  BY <1>1, <1>6 DEF RowsOnceInv

\* The rows with a frequent term move to a group of their own.
LEMMA MoveTermRows ==
  ASSUME PatternsInv, RowsOnceInv,
         NEW id \in 0 .. term_map.next_term_id - 1, NEW text \in Texts, MoveTerm(id, text)
  PROVE  RowsOnceInv'
<1> DEFINE g     == SplitId
           group == groups[g]
           c     == SplitToken.column_index
           moved == RowsWith(group.columns[c], id)
           kept  == 1 .. group.num_docs \ moved
           rows  == origin[g]
           out   == [group |-> FixColumn(RemoveRows(group, moved), c, text),
                     rows  |-> RetainRows(rows, moved)]
           old   == <<"map", g>>
           new   == <<"aside", Len(aside) + 1>>
<1>1. /\ phase = "split" /\ work # Idle /\ phase' = phase
      /\ aside' = Append(aside, out)
      /\ groups' = [groups EXCEPT ![g] = RemoveRows(group, kept)]
      /\ origin' = [origin EXCEPT ![g] = RetainRows(rows, kept)]
      /\ lines' = lines /\ pos' = pos
      /\ work.token <= Len(group.tokens) /\ IsVariable(SplitToken)
  BY DEF MoveTerm, Splitting, Frequent
<1>2. /\ StoreOK /\ IsWork(work) /\ g \in DOMAIN groups
      /\ pos = 0 /\ Once(RowsByHolder, Len(lines))
  BY <1>1 DEF PatternsInv, SplitId, RowsOnceInv
<1>3. /\ GroupOK(group, term_map, lines, rows)
      /\ groups \in [DOMAIN groups -> Groups] /\ origin \in [DOMAIN groups -> Seq(Nat)]
      /\ aside \in Seq([group : Groups, rows : Seq(Nat)])
      /\ StoreOK' /\ DOMAIN groups' = DOMAIN groups
  BY <1>2, MoveTermKeepsStore DEF StoreOK
<1>4. rows \in Seq(Nat) /\ Len(rows) = group.num_docs
  BY <1>3 DEF GroupOK
<1>5. moved \in SUBSET (1 .. Len(rows))
  <2>1. group \in Groups /\ ColumnsOwned(group)
        /\ \A d \in 1 .. Len(group.columns) : Len(group.columns[d]) = group.num_docs
    BY <1>3 DEF GroupOK
  <2>2. SplitToken = group.tokens[work.token]
    BY DEF SplitToken
  <2>3. work.token \in Nat \ {0} /\ Len(group.tokens) \in Nat
    BY <1>2, <2>1, GroupFields DEF IsWork
  <2> HIDE DEF group
  <2>4. work.token \in 1 .. Len(group.tokens)
    BY <1>1, <2>3
  <2>5. c \in 1 .. Len(group.columns)
    BY <1>1, <2>1, <2>2, <2>4 DEF ColumnsOwned
  <2>6. Len(group.columns[c]) = Len(rows)
    BY <1>4, <2>1, <2>5
  <2> QED
    BY <2>6 DEF RowsWith
<1>6. kept \in SUBSET (1 .. Len(rows)) /\ moved \cup kept = 1 .. Len(rows) /\ moved \cap kept = {}
  BY <1>4, <1>5
<1> HIDE DEF moved, kept, c, group
<1>7. /\ old \in Holders /\ RowsByHolder[old] = rows /\ EachOnce(rows)
      /\ DOMAIN RowsByHolder = Holders
  BY <1>2, HolderFacts DEF Once
<1>8. /\ EachOnce(RetainRows(rows, moved)) /\ EachOnce(RetainRows(rows, kept))
      /\ LinesIn(RetainRows(rows, moved)) = {rows[r] : r \in moved}
      /\ LinesIn(RetainRows(rows, kept)) = {rows[r] : r \in kept}
  BY <1>4, <1>5, <1>6, <1>7, RetainLines
<1>9. {rows[r] : r \in moved} \cap {rows[r] : r \in kept} = {}
  <2> SUFFICES ASSUME NEW r \in moved, NEW s \in kept, rows[r] = rows[s] PROVE FALSE
    OBVIOUS
  <2>1. r = s
    BY <1>6, <1>7 DEF EachOnce
  <2> QED
    BY <1>6, <2>1
<1>10. {rows[r] : r \in moved} \cup {rows[r] : r \in kept} = LinesIn(rows)
  BY <1>6 DEF LinesIn
<1>11. /\ Len(aside) \in Nat /\ DOMAIN aside = 1 .. Len(aside)
       /\ DOMAIN aside' = 1 .. Len(aside) + 1
       /\ \A n \in 1 .. Len(aside) : aside'[n] = aside[n]
       /\ aside'[Len(aside) + 1].rows = RetainRows(rows, moved)
  <2>1. aside' \in Seq([group : Groups, rows : Seq(Nat)])
    BY <1>3 DEF StoreOK
  <2>2. out.rows = RetainRows(rows, moved)
    OBVIOUS
  <2> HIDE DEF out
  <2>3. /\ Len(aside) \in Nat /\ Len(aside') = Len(aside) + 1
        /\ \A n \in 1 .. Len(aside) : aside'[n] = aside[n]
        /\ aside'[Len(aside) + 1] = out
    BY <1>1, <1>3
  <2> QED
    BY <1>3, <2>1, <2>2, <2>3, LenProperties
<1>12. /\ origin'[g] = RetainRows(rows, kept)
       /\ \A h \in DOMAIN groups : h # g => origin'[h] = origin[h]
  BY <1>1, <1>2, <1>3
<1>13. Holders' = Holders \cup {new} /\ new \notin Holders
  <2>1. DOMAIN aside' = DOMAIN aside \cup {Len(aside) + 1} /\ Len(aside) + 1 \notin DOMAIN aside
    BY <1>11
  <2> QED
    BY <1>3, <2>1 DEF Holders
<1>14. /\ RowsByHolder'[old] = RetainRows(rows, kept)
       /\ RowsByHolder'[new] = RetainRows(rows, moved)
       /\ DOMAIN RowsByHolder' = Holders'
  <2>1. Len(aside) + 1 \in DOMAIN aside'
    BY <1>11
  <2> QED
    BY <1>2, <1>3, <1>11, <1>12, <2>1, HolderFactsAfter
<1>15. ASSUME NEW h \in Holders, h # old
       PROVE  RowsByHolder'[h] = RowsByHolder[h]
  <2>1. CASE \E k \in DOMAIN groups : h = <<"map", k>>
    BY <1>3, <1>12, <1>15, <2>1, HolderFacts, HolderFactsAfter, SMTT(30)
  <2>2. CASE \E n \in DOMAIN aside : h = <<"aside", n>>
    <3>1. PICK n \in DOMAIN aside : h = <<"aside", n>>
      BY <2>2
    <3>2. n \in DOMAIN aside' /\ aside'[n] = aside[n]
      BY <1>11
    <3> QED
      BY <3>1, <3>2, HolderFacts, HolderFactsAfter
  <2> QED
    BY <2>1, <2>2, HolderFacts
<1> HIDE DEF old, new, rows
<1>16. Once(RowsByHolder', Len(lines))
  BY <1>2, <1>7, <1>8, <1>9, <1>10, <1>13, <1>14, <1>15, SplitOnce
<1>17. Once(RowsByHolder', Len(lines'))
  BY <1>1, <1>16
<1> QED
  BY <1>1, <1>2, <1>17 DEF RowsOnceInv

\* A group that was aside goes into the map under an id of its own.
LEMMA InsertRows ==
  ASSUME StoreOK, pos = 0, Once(RowsByHolder, Len(lines)), InsertNewGroup,
         DuplicateId(Head(aside).group, salt[Len(Head(aside).group.tokens)] + 1)
           \notin DOMAIN groups
  PROVE  pos' = 0 /\ Once(RowsByHolder', Len(lines'))
<1> DEFINE new == Head(aside)
           id  == DuplicateId(new.group, salt[Len(new.group.tokens)] + 1)
           to(h) == CASE h = <<"map", id>> -> <<"aside", 1>>
                      [] h[1] = "map" /\ h # <<"map", id>> -> h
                      [] h[1] # "map" -> <<"aside", h[2] + 1>>
           ren == [h \in Holders' |-> to(h)]
<1>1. /\ aside # << >> /\ aside \in Seq([group : Groups, rows : Seq(Nat)])
      /\ groups' = Put(groups, id, new.group)
      /\ origin' = Put(origin, id, new.rows)
      /\ aside' = Tail(aside)
      /\ lines' = lines /\ pos' = pos
  BY DEF StoreOK, InsertNewGroup
<1>2. /\ Len(aside) \in Nat \ {0} /\ new = aside[1]
      /\ DOMAIN aside = 1 .. Len(aside)
      /\ DOMAIN aside' = 1 .. Len(aside) - 1
      /\ \A n \in 1 .. Len(aside) - 1 : aside'[n] = aside[n + 1]
  <2>1. /\ Tail(aside) \in Seq([group : Groups, rows : Seq(Nat)])
        /\ Len(Tail(aside)) = Len(aside) - 1
        /\ \A n \in 1 .. Len(Tail(aside)) : Tail(aside)[n] = aside[n + 1]
    BY <1>1, HeadTailProperties
  <2>2. Len(aside) \in Nat \ {0} /\ DOMAIN aside = 1 .. Len(aside)
    BY <1>1, LenProperties, EmptySeq
  <2>3. new = aside[1]
    BY <1>1
  <2>4. DOMAIN Tail(aside) = 1 .. Len(aside) - 1
    BY <2>1, LenProperties
  <2> HIDE DEF new
  <2> QED
    BY <1>1, <2>1, <2>2, <2>3, <2>4
<1>3. DOMAIN origin = DOMAIN groups /\ id \notin DOMAIN groups
  BY DEF StoreOK
<1> HIDE DEF new, id
<1>4. /\ DOMAIN groups' = DOMAIN groups \cup {id}
      /\ origin'[id] = aside[1].rows
      /\ \A g \in DOMAIN groups : g # id /\ origin'[g] = origin[g]
  BY <1>1, <1>2, <1>3 DEF Put
<1>5. Once(RowsByHolder, Len(lines)) /\ DOMAIN RowsByHolder = Holders /\ DOMAIN RowsByHolder' = Holders'
  BY HolderFacts, HolderFactsAfter
<1>6. /\ \A g \in DOMAIN groups : to(<<"map", g>>) = <<"map", g>>
      /\ to(<<"map", id>>) = <<"aside", 1>>
      /\ \A n \in DOMAIN aside' : to(<<"aside", n>>) = <<"aside", n + 1>>
  BY <1>3
<1> HIDE DEF to
<1>7. \A n \in DOMAIN aside' : n + 1 \in DOMAIN aside /\ aside'[n] = aside[n + 1]
  BY <1>2
<1>8. 1 \in DOMAIN aside
  BY <1>2
<1>9. ASSUME NEW h \in Holders'
      PROVE  to(h) \in Holders /\ RowsByHolder'[h] = RowsByHolder[to(h)]
  <2>1. CASE \E g \in DOMAIN groups : h = <<"map", g>>
    BY <1>4, <1>6, <2>1, HolderFacts, HolderFactsAfter
  <2>2. CASE h = <<"map", id>>
    BY <1>4, <1>6, <1>8, <2>2, HolderFacts, HolderFactsAfter
  <2>3. CASE \E n \in DOMAIN aside' : h = <<"aside", n>>
    BY <1>6, <1>7, <2>3, HolderFacts, HolderFactsAfter
  <2> QED
    BY <1>4, <2>1, <2>2, <2>3, HolderFactsAfter
<1>10. ASSUME NEW h \in Holders', NEW k \in Holders', to(h) = to(k)
       PROVE  h = k
  <2>1. \A j \in Holders' : \/ \E g \in DOMAIN groups : j = <<"map", g>> /\ to(j) = <<"map", g>>
                            \/ j = <<"map", id>> /\ to(j) = <<"aside", 1>>
                            \/ \E n \in DOMAIN aside' : j = <<"aside", n>> /\ to(j) = <<"aside", n + 1>>
    BY <1>4, <1>6, HolderFactsAfter
  <2>2. \A n \in DOMAIN aside' : n \in Nat \ {0}
    BY <1>2
  <2> QED
    BY <1>10, <2>1, <2>2
<1>11. ASSUME NEW k \in Holders
       PROVE  \E h \in Holders' : to(h) = k
  <2>1. CASE \E g \in DOMAIN groups : k = <<"map", g>>
    BY <1>4, <1>6, <2>1, HolderFactsAfter
  <2>2. CASE k = <<"aside", 1>>
    BY <1>4, <1>6, <2>2, HolderFactsAfter
  <2>3. CASE \E n \in DOMAIN aside : k = <<"aside", n>> /\ n # 1
    <3>1. PICK n \in DOMAIN aside : k = <<"aside", n>> /\ n # 1
      BY <2>3
    <3>2. n - 1 \in DOMAIN aside' /\ (n - 1) + 1 = n
      BY <1>2, <3>1
    <3> QED
      BY <1>6, <3>1, <3>2, HolderFactsAfter
  <2> QED
    BY <2>1, <2>2, <2>3, HolderFacts
<1>12. /\ ren \in [Holders' -> Holders] /\ \A h \in Holders' : ren[h] = to(h)
  BY <1>9
<1> HIDE DEF ren
<1>13. Once(RowsByHolder', Len(lines))
  <2>1. \A h, k \in Holders' : ren[h] = ren[k] => h = k
    BY <1>10, <1>12
  <2>2. \A k \in Holders : \E h \in Holders' : ren[h] = k
    BY <1>11, <1>12
  <2>3. \A h \in Holders' : RowsByHolder'[h] = RowsByHolder[ren[h]]
    BY <1>9, <1>12
  <2> QED
    BY <1>5, <1>12, <2>1, <2>2, <2>3, RenameOnce
<1> QED
  BY <1>1, <1>13

LEMMA TakeFirstRows ==
  ASSUME PatternsInv, RowsOnceInv, TakeFirst
  PROVE  RowsOnceInv'
<1> DEFINE g   == work.ids[1]
           old == <<"map", g>>
           new == <<"aside", 1>>
           ren == [h \in Holders' |-> IF h = new THEN old ELSE h]
<1>1. /\ phase = "merge" /\ phase' = phase /\ work # Idle /\ aside = << >>
      /\ aside' = <<[group |-> groups[g], rows |-> origin[g]]>>
      /\ groups' = [h \in DOMAIN groups \ {g} |-> groups[h]]
      /\ origin' = [h \in DOMAIN groups \ {g} |-> origin[h]]
      /\ lines' = lines /\ pos' = pos
  BY DEF TakeFirst, Appending, Merging
<1>2. pos = 0 /\ Once(RowsByHolder, Len(lines))
  BY <1>1 DEF RowsOnceInv
<1>3. g \in DOMAIN groups
  <2>1. MembersOK
    BY <1>1 DEF PatternsInv, MergeOK
  <2>2. 1 \in Left
    BY <1>1, <2>1 DEF MembersOK, Left, FirstLeft
  <2> QED
    BY <2>1, <2>2 DEF MembersOK
<1> HIDE DEF g
<1>4. DOMAIN groups' = DOMAIN groups \ {g} /\ DOMAIN aside' = {1} /\ aside'[1].rows = origin[g]
      /\ \A h \in DOMAIN groups' : origin'[h] = origin[h]
  BY <1>1
<1>5. Holders = {<<"map", h>> : h \in DOMAIN groups}
  BY <1>1 DEF Holders
<1>6. Holders' = (Holders \ {old}) \cup {new} /\ old \in Holders /\ new \notin Holders
  <2>1. Holders' = {<<"map", h>> : h \in DOMAIN groups \ {g}} \cup {new}
    BY <1>4 DEF Holders
  <2> QED
    BY <1>3, <1>5, <2>1
<1>7. DOMAIN RowsByHolder = Holders /\ DOMAIN RowsByHolder' = Holders'
  BY HolderFacts, HolderFactsAfter
<1>8. \A h \in Holders' : RowsByHolder'[h] = RowsByHolder[ren[h]]
  <2> TAKE h \in Holders'
  <2>1. CASE h = new
    BY <1>3, <1>4, <2>1, HolderFacts, HolderFactsAfter
  <2>2. CASE h # new
    <3>1. PICK k \in DOMAIN groups' : h = <<"map", k>>
      BY <1>4, <2>2, HolderFactsAfter
    <3>2. ren[h] = h
      BY <2>2
    <3> HIDE DEF ren, new
    <3> QED
      BY <1>4, <3>1, <3>2, HolderFacts, HolderFactsAfter
  <2> QED
    BY <2>1, <2>2
<1> HIDE DEF old, new
<1>9. /\ ren \in [Holders' -> Holders]
      /\ \A h, k \in Holders' : ren[h] = ren[k] => h = k
      /\ \A k \in Holders : \E h \in Holders' : ren[h] = k
  BY <1>6
<1> HIDE DEF ren
<1>10. Once(RowsByHolder', Len(lines))
  BY <1>2, <1>7, <1>8, <1>9, RenameOnce
<1> QED
  BY <1>1, <1>2, <1>10 DEF RowsOnceInv

LEMMA AppendMemberRows ==
  ASSUME PatternsInv, RowsOnceInv, AppendMember
  PROVE  RowsOnceInv'
<1> DEFINE g    == work.ids[work.member]
           gone == <<"map", g>>
           into == <<"aside", 1>>
           all  == aside[1].rows \o origin[g]
<1>1. /\ phase = "merge" /\ phase' = phase /\ work # Idle /\ aside # << >>
      /\ work.member <= Len(work.ids)
      /\ aside' = <<[group |-> AppendGroup(aside[1].group, groups[g]), rows  |-> all]>>
      /\ groups' = [h \in DOMAIN groups \ {g} |-> groups[h]]
      /\ origin' = [h \in DOMAIN groups \ {g} |-> origin[h]]
      /\ lines' = lines /\ pos' = pos
  BY DEF AppendMember, Appending, Merging
<1>2. pos = 0 /\ Once(RowsByHolder, Len(lines))
  BY <1>1 DEF RowsOnceInv
<1>3. StoreOK /\ MembersOK /\ AsideOK /\ IsWork(work)
  BY <1>1 DEF PatternsInv, MergeOK
<1>4. g \in DOMAIN groups /\ Len(aside) = 1
  <2>1. work.member \in Left
    BY <1>1, <1>3 DEF MembersOK, Left, FirstLeft, IsWork
  <2> QED
    BY <1>1, <1>3, <2>1 DEF MembersOK, AsideOK
<1>5. /\ aside[1].rows \in Seq(Nat) /\ origin[g] \in Seq(Nat) /\ DOMAIN aside = {1}
  <2>1. aside \in Seq([group : Groups, rows : Seq(Nat)])
    BY <1>3 DEF StoreOK
  <2>2. DOMAIN aside = 1 .. 1
    BY <1>4, <2>1, LenProperties
  <2>3. aside[1] \in [group : Groups, rows : Seq(Nat)]
    <3>1. 1 \in 1 .. Len(aside)
      BY <1>4
    <3> QED
      BY <2>1, <3>1, ElementOfSeq
  <2> QED
    BY <1>3, <1>4, <2>2, <2>3 DEF StoreOK
<1> HIDE DEF g, all
<1>6. /\ DOMAIN groups' = DOMAIN groups \ {g} /\ DOMAIN aside' = {1} /\ aside'[1].rows = all
      /\ \A h \in DOMAIN groups' : origin'[h] = origin[h]
  BY <1>1
<1>7. /\ DOMAIN RowsByHolder = Holders /\ DOMAIN RowsByHolder' = Holders'
      /\ gone \in Holders /\ into \in Holders /\ gone # into
      /\ RowsByHolder[gone] = origin[g] /\ RowsByHolder[into] = aside[1].rows
      /\ RowsByHolder'[into] = all
  BY <1>4, <1>5, <1>6, HolderFacts, HolderFactsAfter
<1>8. Holders' = Holders \ {gone}
  <2>1. Holders = {<<"map", h>> : h \in DOMAIN groups} \cup {into}
    BY <1>5 DEF Holders
  <2>2. Holders' = {<<"map", h>> : h \in DOMAIN groups \ {g}} \cup {into}
    BY <1>6 DEF Holders
  <2> QED
    BY <1>4, <2>1, <2>2
<1>9. \A h \in Holders' : h # into => RowsByHolder'[h] = RowsByHolder[h]
  <2> SUFFICES ASSUME NEW h \in Holders', h # into PROVE RowsByHolder'[h] = RowsByHolder[h]
    OBVIOUS
  <2>1. PICK k \in DOMAIN groups' : h = <<"map", k>>
    BY <1>6, HolderFactsAfter
  <2> QED
    BY <1>6, <2>1, HolderFacts, HolderFactsAfter
<1> HIDE DEF gone, into
<1>10. EachOnce(all) /\ LinesIn(all) = LinesIn(aside[1].rows) \cup LinesIn(origin[g])
  <2>1. /\ EachOnce(aside[1].rows) /\ EachOnce(origin[g])
        /\ LinesIn(aside[1].rows) \cap LinesIn(origin[g]) = {}
    BY <1>2, <1>7 DEF Once
  <2> QED
    BY <1>5, <2>1, ConcatLines DEF all
<1>11. Once(RowsByHolder', Len(lines))
  BY <1>2, <1>7, <1>8, <1>9, <1>10, JoinOnce
<1> QED
  BY <1>1, <1>2, <1>11 DEF RowsOnceInv


LEMMA InsertKeepsRows ==
  ASSUME PatternsInv, RowsOnceInv, NewIdsFresh, InsertSplitGroup \/ InsertMerged
  PROVE  RowsOnceInv'
<1>1. /\ InsertNewGroup /\ phase' = phase /\ phase # "ingest" /\ aside # << >> /\ Inserting
  BY DEF InsertSplitGroup, InsertMerged, InsertNewGroup, Inserting, Appending, Merging
<1>2. StoreOK /\ pos = 0 /\ Once(RowsByHolder, Len(lines))
  BY <1>1 DEF PatternsInv, RowsOnceInv
<1>3. DuplicateId(Head(aside).group, salt[Len(Head(aside).group.tokens)] + 1) \notin DOMAIN groups
  BY <1>1 DEF NewIdsFresh
<1>4. pos' = 0 /\ Once(RowsByHolder', Len(lines'))
  BY <1>1, <1>2, <1>3, InsertRows
<1> QED
  BY <1>1, <1>4 DEF RowsOnceInv

LEMMA FreshWhenMerged ==
  ASSUME PatternsInv, NewIdsFresh
  PROVE  SaltedIdsFresh
<1> SUFFICES ASSUME phase = "merge", aside # << >>, work.member > Len(work.ids)
             PROVE  DuplicateId(aside[1].group, salt[Len(aside[1].group.tokens)] + 1)
                      \notin DOMAIN groups
  BY DEF SaltedIdsFresh
<1>1. StoreOK /\ MergeOK
  BY DEF PatternsInv
<1>2. work # Idle /\ work.token > Len(work.key)
  BY <1>1 DEF MergeOK, AsideOK
<1>3. Head(aside) = aside[1]
  BY <1>1 DEF StoreOK
<1> QED
  BY <1>2, <1>3 DEF NewIdsFresh, Inserting, Appending, Merging

LEMMA RowsStep ==
  PatternsInv /\ RowsOnceInv /\ NewIdsFresh /\ [Next]_vars => RowsOnceInv'
<1> SUFFICES ASSUME PatternsInv, RowsOnceInv, NewIdsFresh, [Next]_vars PROVE RowsOnceInv'
  OBVIOUS
<1>1. CASE Ingest
  BY <1>1 DEF Ingest, patternVars, RowsOnceInv
<1>2. CASE \E split \in BOOLEAN : EndOfInput(split)
  BY <1>2, EndOfInputRows
<1>3. CASE \E id \in 0 .. term_map.next_term_id - 1, text \in Texts : MoveTerm(id, text)
  BY <1>3, MoveTermRows
<1>4. CASE \/ \E g \in todo : SplitGroup(g)
           \/ SplitNextToken \/ SplitGroupDone \/ EndSplit \/ Classify
           \/ \E class \in classes : \E ids \in SetToSeqs(class.ids) : StartMerge(class, ids)
           \/ ConvertNextToken \/ EndMerge
  <2>1. /\ UNCHANGED <<groups, origin, aside, lines, pos>> /\ phase # "ingest"
    BY <1>4 DEF SplitGroup, SplitNextToken, SplitGroupDone, Splitting, EndSplit, Classify,
                StartMerge, ConvertNextToken, Converting, Merging, EndMerge, ingestVars
  <2> QED
    BY <2>1, RowsStayPut
<1>5. CASE ConvertMember
  <2>1. /\ UNCHANGED <<origin, aside, lines, pos>> /\ phase # "ingest"
        /\ DOMAIN groups' = DOMAIN groups
    BY <1>5 DEF ConvertMember, Converting, Merging
  <2> QED
    BY <2>1, RowsStayPut
<1>6. CASE TakeFirst
  BY <1>6, TakeFirstRows
<1>7. CASE AppendMember
  BY <1>7, AppendMemberRows
<1>8. CASE InsertSplitGroup \/ InsertMerged
  BY <1>8, InsertKeepsRows
<1>9. CASE Merged \/ UNCHANGED vars
  <2>1. UNCHANGED <<groups, origin, aside, lines, pos, phase>>
    BY <1>9 DEF Merged, vars, ingestVars, patternVars
  <2>2. CASE phase = "ingest"
    BY <2>1, <2>2 DEF RowsOnceInv
  <2>3. CASE phase # "ingest"
    BY <2>1, <2>3, RowsStayPut
  <2> QED
    BY <2>2, <2>3
<1> QED
  BY <1>1, <1>2, <1>3, <1>4, <1>5, <1>6, <1>7, <1>8, <1>9 DEF Next, Split, Merge

StoreInv == PatternsInv /\ RowsOnceInv /\ lines \in Seq(Lines)

LEMMA LinesStep ==
  ASSUME PatternsInv, lines \in Seq(Lines), [Next]_vars
  PROVE  lines' \in Seq(Lines)
<1>1. CASE Ingest
  <2>1. IngestInv'
    BY <1>1, IngestStepInv DEF Ingest, PatternsInv
  <2> QED
    BY <2>1 DEF IngestInv, IngestTypeOK
<1>2. CASE ~Ingest
  <2>1. lines' = lines
    BY <1>2 DEF Next, Split, Merge, EndOfInput, SplitGroup, MoveTerm, SplitNextToken,
                SplitGroupDone, InsertSplitGroup, EndSplit, InsertNewGroup, Classify,
                StartMerge, ConvertMember, ConvertNextToken, TakeFirst, AppendMember,
                InsertMerged, EndMerge, Merged, vars, ingestVars
  <2> QED
    BY <2>1
<1> QED
  BY <1>1, <1>2

(***************************************************************************)
(* Every line is a row of one group, in the map or aside, if no group goes *)
(* into the map under an id in use.                                        *)
(***************************************************************************)
THEOREM StoreInvariant == Spec /\ []NewIdsFresh => []StoreInv
<1>1. Init => StoreInv
  <2>1. ASSUME Init PROVE lines \in Seq(Lines)
    BY <2>1 DEF Init, IngestInit
  <2> QED
    BY <2>1, PatternsInitInv DEF StoreInv, RowsOnceInv, Init
<1>2. StoreInv /\ NewIdsFresh /\ [Next]_vars => StoreInv'
  BY FreshWhenMerged, PatternsStepInv, RowsStep, LinesStep DEF StoreInv
<1> QED BY <1>1, <1>2, PTL DEF Spec

-----------------------------------------------------------------------------
(* What can be read back are the lines.                                    *)

\* A cell that recovers a text reads, cut to the cap, as that text.
LEMMA CellTextIs ==
  ASSUME term_map \in TermMaps, TermIdsSound,
         NEW group \in Groups, NEW i \in 1 .. Len(group.tokens), NEW r, NEW text \in Texts,
         IsVariable(group.tokens[i]) =>
           group.columns[group.tokens[i].column_index][r] \in Nat,
         CellRecovers(group, term_map, i, r, text)
  PROVE  CellText(group, i, r) = Capped[text]
<1> DEFINE token == group.tokens[i]
           cell  == group.columns[token.column_index][r]
<1>1. /\ token \in TemplateTokens
      /\ Capped[text] \in Texts /\ Capped[Capped[text]] = Capped[text]
  BY GroupFields, CappedAssumption DEF CappedAssumption
<1>2. PICK t \in Texts : /\ CellReads(group, term_map, i, r, t)
                         /\ Capped[t] = Capped[text]
  BY <1>1 DEF CellRecovers
<1>3. CASE IsConstant(token)
  <2>1. ~IsVariable(token)
    BY <1>3 DEF IsConstant, IsVariable
  <2> QED
    BY <1>2, <1>3, <2>1 DEF CellReads, CellText
<1>4. CASE ~IsConstant(token)
  <2>1. Stored(term_map, cell, t) /\ cell \in Nat
    BY <1>2, <1>4 DEF CellReads
  <2> HIDE DEF cell
  <2>2. cell < term_map.next_term_id /\ term_map.next_term_id \in Nat
    BY <2>1 DEF TermIdsSound, IdsNameOneTerm, IdsBelowCounter, Stored, InMap, InBuffer, TermMaps
  <2>3. cell \in 0 .. term_map.next_term_id - 1
    BY <2>1, <2>2
  <2>4. PICK u \in Texts : \A s \in Texts : Stored(term_map, cell, s) => s = u
    BY <2>3 DEF TermIdsSound, IdsNameOneTerm
  <2>5. (CHOOSE s \in Texts : Stored(term_map, cell, s)) = t
    BY <2>1, <2>4
  <2> QED
    BY <1>2, <1>4, <2>5 DEF CellText, cell
<1> QED
  BY <1>3, <1>4

LEMMA DocTextIs ==
  ASSUME term_map \in TermMaps, TermIdsSound, NEW group \in Groups, ColumnsOwned(group),
         NEW r \in Nat \ {0}, NEW line, RowReads(group, term_map, r, line),
         \A c \in 1 .. Len(group.columns) : r <= Len(group.columns[c])
  PROVE  DocText(group, r) = CapLine(line)
<1>1. line \in Seq(Texts) /\ Len(line) = Len(group.tokens) /\ Len(line) \in Nat
  BY GroupFields DEF RowReads
<1>2. ASSUME NEW i \in 1 .. Len(group.tokens)
      PROVE  CellText(group, i, r) = Capped[line[i]]
  <2>1. line[i] \in Texts /\ CellRecovers(group, term_map, i, r, line[i])
    BY <1>1 DEF RowReads
  <2>2. IsVariable(group.tokens[i]) =>
          group.columns[group.tokens[i].column_index][r] \in Nat
    <3> SUFFICES ASSUME IsVariable(group.tokens[i])
                 PROVE  group.columns[group.tokens[i].column_index][r] \in Nat
      OBVIOUS
    <3>1. group.tokens[i].column_index \in 1 .. Len(group.columns)
      BY DEF ColumnsOwned
    <3> DEFINE column == group.columns[group.tokens[i].column_index]
    <3>2. column \in Seq(Nat) /\ r \in 1 .. Len(column)
      BY <3>1, GroupFields
    <3> HIDE DEF column
    <3>3. column[r] \in Nat
      BY <3>2
    <3> QED
      BY <3>3 DEF column
  <2> QED
    BY <2>1, <2>2, CellTextIs
<1> QED
  BY <1>1, <1>2 DEF DocText, CapLine

\* Every row of every group reads as its line, during a push as well.
LEMMA HeldText ==
  ASSUME StoreInv, NEW h \in Holders
  PROVE  /\ Held(h).num_docs = Len(HeldRows(h))
         /\ \A r \in 1 .. Held(h).num_docs :
              DocText(Held(h), r) = CapLine(lines[HeldRows(h)[r]])
<1>1. CASE phase # "ingest"
  <2>1. GroupOK(Held(h), term_map, lines, HeldRows(h))
    BY <1>1, HeldOK DEF StoreInv
  <2>2. term_map \in TermMaps /\ TermIdsSound
    BY <1>1 DEF StoreInv, PatternsInv, StoreOK
  <2>3. /\ Held(h) \in Groups /\ ColumnsOwned(Held(h))
        /\ \A c \in 1 .. Len(Held(h).columns) : Len(Held(h).columns[c]) = Held(h).num_docs
        /\ Len(HeldRows(h)) = Held(h).num_docs
        /\ \A r \in 1 .. Held(h).num_docs :
             RowReads(Held(h), term_map, r, lines[HeldRows(h)[r]])
    BY <2>1 DEF GroupOK
  <2>4. ASSUME NEW r \in 1 .. Held(h).num_docs
        PROVE  DocText(Held(h), r) = CapLine(lines[HeldRows(h)[r]])
    <3>1. r \in Nat \ {0} /\ r <= Held(h).num_docs
      BY <2>3, GroupFields
    <3>2. \A c \in 1 .. Len(Held(h).columns) : r <= Len(Held(h).columns[c])
      BY <2>3, <3>1
    <3> QED
      BY <2>2, <2>3, <3>1, <3>2, DocTextIs
  <2> QED
    BY <2>3, <2>4
<1>2. CASE phase = "ingest"
  <2>1. IngestInv /\ aside = << >>
    BY <1>2 DEF StoreInv, PatternsInv
  <2>2. PICK g \in DOMAIN groups : h = <<"map", g>>
    BY <2>1, HolderFacts
  <2>3. Held(h) = groups[g] /\ HeldRows(h) = origin[g]
    BY <2>2 DEF Held, HeldRows
  <2> DEFINE group == groups[g]
  <2>4. /\ term_map \in TermMaps /\ TermIdsSound
        /\ group \in Groups /\ lines \in Seq(Lines) /\ pos \in Nat
        /\ Len(origin[g]) = group.num_docs
        /\ \A r \in 1 .. group.num_docs : origin[g][r] \in 1 .. NumPushed
        /\ Rectangular(group, Cursor(g))
        /\ \A r \in 1 .. group.num_docs :
             /\ Len(lines[origin[g][r]]) = Len(group.tokens)
             /\ \A i \in 1 .. Len(group.tokens) :
                  CellRecovers(group, term_map, i, r, lines[origin[g][r]][i])
    BY <2>1 DEF IngestInv, IngestTypeOK, GroupsMatchLines, ColumnsRectangular, RowsRecoverable
  <2> HIDE DEF group
  <2>5. ColumnsOwned(group)
    BY <2>4 DEF Rectangular
  <2>6. \A c \in 1 .. Len(group.columns) : group.num_docs <= Len(group.columns[c])
    <3> TAKE c \in 1 .. Len(group.columns)
    <3>1. PICK i \in 1 .. Len(group.tokens) :
            IsVariable(group.tokens[i]) /\ group.tokens[i].column_index = c
      BY <2>5 DEF ColumnsOwned
    <3>2. Len(group.columns[c]) = group.num_docs + IF i < Cursor(g) THEN 1 ELSE 0
      BY <2>4, <3>1 DEF Rectangular
    <3>3. group.num_docs \in Nat
      BY <2>4, GroupFields
    <3> QED
      BY <3>2, <3>3
  <2>7. ASSUME NEW r \in 1 .. group.num_docs
        PROVE  DocText(group, r) = CapLine(lines[origin[g][r]])
    <3>1. r \in Nat \ {0} /\ r <= group.num_docs /\ group.num_docs \in Nat
      BY <2>4, GroupFields
    <3>2. \A c \in 1 .. Len(group.columns) : r <= Len(group.columns[c])
      <4> TAKE c \in 1 .. Len(group.columns)
      <4>1. Len(group.columns[c]) \in Nat /\ group.num_docs <= Len(group.columns[c])
        BY <2>4, <2>6, GroupFields, LenProperties
      <4> QED
        BY <3>1, <4>1
    <3>3. origin[g][r] \in 1 .. Len(lines)
      <4>1. Len(lines) \in Nat
        BY <2>4
      <4> QED
        BY <2>4, <4>1 DEF NumPushed
    <3>4. lines[origin[g][r]] \in Seq(Texts)
      <4>1. lines[origin[g][r]] \in Lines
        BY <2>4, <3>3, ElementOfSeq
      <4> QED
        BY <4>1, LineFacts
    <3>5. RowReads(group, term_map, r, lines[origin[g][r]])
      BY <2>4, <3>4 DEF RowReads
    <3> QED
      BY <2>4, <2>5, <3>1, <3>2, <3>5, DocTextIs
  <2> QED
    BY <2>3, <2>4, <2>7 DEF group
<1> QED
  BY <1>1, <1>2

LEMMA AllRowsOnce ==
  ASSUME StoreInv
  PROVE  Once(RowsByHolder, NumPushed) /\ lines \in Seq(Lines) /\ NumPushed \in Nat
<1>1. lines \in Seq(Lines) /\ Len(lines) \in Nat
  BY DEF StoreInv
<1>2. CASE phase # "ingest"
  <2>1. pos = 0 /\ Once(RowsByHolder, Len(lines))
    BY <1>2 DEF StoreInv, RowsOnceInv
  <2>2. NumPushed = Len(lines)
    BY <2>1 DEF NumPushed
  <2> QED
    BY <1>1, <2>1, <2>2
<1>3. CASE phase = "ingest"
  <2>1. IngestInv /\ aside = << >>
    BY <1>3 DEF StoreInv, PatternsInv
  <2>2. pos > 0 => Len(lines) > 0
    BY <2>1 DEF IngestInv, PushInRange
  <2>3. NumPushed \in Nat
    BY <1>1, <2>2 DEF NumPushed
  <2> QED
    BY <1>1, <2>1, <2>3, IngestRows
<1> QED
  BY <1>2, <1>3

\* The lines, up to the cap, as a bag.
BagOfLines(ls, upto) ==
  [doc \in {CapLine(ls[n]) : n \in 1 .. upto} |->
     Cardinality({n \in 1 .. upto : CapLine(ls[n]) = doc})]

LEMMA SameCount ==
  ASSUME NEW S, NEW T, IsFiniteSet(T), NEW f \in [S -> T],
         \A a, b \in S : f[a] = f[b] => a = b, \A t \in T : \E s \in S : f[s] = t
  PROVE  IsFiniteSet(S) /\ Cardinality(S) = Cardinality(T)
<1>1. f \in Injection(S, T) /\ f \in Surjection(S, T)
  BY DEF Injection, IsInjective, Surjection
<1> QED
  BY <1>1, FS_Injection

LEMMA ReadableIs ==
  ASSUME StoreInv
  PROVE  Readable = BagOfLines(lines, NumPushed)
<1> DEFINE N    == NumPushed
           rows == UNION {{<<h, r>> : r \in 1 .. Held(h).num_docs} : h \in Holders}
           text == [row \in rows |-> DocText(Held(row[1]), row[2])]
           from == [row \in rows |-> HeldRows(row[1])[row[2]]]
           Rows(doc) == {row \in rows : text[row] = doc}
           Said(doc) == {n \in 1 .. N : CapLine(lines[n]) = doc}
<1>1. Once(RowsByHolder, N) /\ N \in Nat
  BY AllRowsOnce
<1>2. \A h \in Holders : RowsByHolder[h] = HeldRows(h) /\ DOMAIN RowsByHolder = Holders
  BY DEF RowsByHolder
<1>3. ASSUME NEW row \in rows
      PROVE  /\ row = <<row[1], row[2]>> /\ row[1] \in Holders
             /\ row[2] \in 1 .. Len(HeldRows(row[1]))
             /\ text[row] = CapLine(lines[from[row]])
             /\ from[row] \in 1 .. N
  <2>0. PICK h \in Holders : \E r \in 1 .. Held(h).num_docs : row = <<h, r>>
    OBVIOUS
  <2>1. PICK r \in 1 .. Held(h).num_docs : row = <<h, r>>
    BY <2>0
  <2>2. /\ Held(h).num_docs = Len(HeldRows(h))
        /\ DocText(Held(h), r) = CapLine(lines[HeldRows(h)[r]])
    BY HeldText
  <2>3. HeldRows(h)[r] \in LinesIn(RowsByHolder[h])
    BY <1>2, <2>2 DEF LinesIn
  <2>4. HeldRows(h)[r] \in 1 .. N
    BY <1>1, <1>2, <2>3 DEF Once
  <2> QED
    BY <2>1, <2>2, <2>4
<1>4. ASSUME NEW a \in rows, NEW b \in rows, from[a] = from[b]
      PROVE  a = b
  <2>1. /\ a[1] \in Holders /\ a[2] \in 1 .. Len(HeldRows(a[1])) /\ a = <<a[1], a[2]>>
        /\ b[1] \in Holders /\ b[2] \in 1 .. Len(HeldRows(b[1])) /\ b = <<b[1], b[2]>>
    BY <1>3
  <2>2. HeldRows(a[1])[a[2]] = HeldRows(b[1])[b[2]]
    BY <1>4
  <2> HIDE DEF rows
  <2>3. a[1] = b[1]
    <3>1. /\ HeldRows(a[1])[a[2]] \in LinesIn(RowsByHolder[a[1]])
          /\ HeldRows(b[1])[b[2]] \in LinesIn(RowsByHolder[b[1]])
      BY <1>2, <2>1 DEF LinesIn
    <3> QED
      BY <1>1, <1>2, <2>1, <2>2, <3>1 DEF Once
  <2>4. EachOnce(HeldRows(a[1]))
    BY <1>1, <1>2, <2>1 DEF Once
  <2>5. a[2] = b[2]
    BY <2>1, <2>2, <2>3, <2>4 DEF EachOnce
  <2> QED
    BY <2>1, <2>3, <2>5
<1>5. ASSUME NEW n \in 1 .. N
      PROVE  \E row \in rows : from[row] = n
  <2>0. n \in UNION {LinesIn(RowsByHolder[h]) : h \in DOMAIN RowsByHolder}
    BY <1>1 DEF Once
  <2>1. PICK h \in Holders : n \in LinesIn(HeldRows(h))
    <3>1. DOMAIN RowsByHolder = Holders
      BY DEF RowsByHolder
    <3>2. PICK h \in Holders : n \in LinesIn(RowsByHolder[h])
      BY <2>0, <3>1
    <3> QED
      BY <1>2, <3>2
  <2>2. PICK r \in 1 .. Len(HeldRows(h)) : HeldRows(h)[r] = n
    BY <2>1 DEF LinesIn
  <2>3. <<h, r>> \in rows
    BY <2>2, HeldText
  <2> QED
    BY <2>2, <2>3
<1>6. Readable = [doc \in {text[row] : row \in rows} |-> Cardinality(Rows(doc))]
  BY DEF Readable
<1> HIDE DEF rows, text
<1>7. {text[row] : row \in rows} = {CapLine(lines[n]) : n \in 1 .. N}
  BY <1>3, <1>5
<1>8. ASSUME NEW doc
      PROVE  Cardinality(Rows(doc)) = Cardinality(Said(doc))
  <2> DEFINE f == [row \in Rows(doc) |-> from[row]]
  <2>1. f \in [Rows(doc) -> Said(doc)]
    BY <1>3
  <2>2. \A a, b \in Rows(doc) : f[a] = f[b] => a = b
    BY <1>4
  <2>3. \A n \in Said(doc) : \E row \in Rows(doc) : f[row] = n
    <3> TAKE n \in Said(doc)
    <3>1. PICK row \in rows : from[row] = n
      BY <1>5
    <3>2. row \in Rows(doc)
      BY <1>3, <3>1
    <3> QED
      BY <3>1, <3>2
  <2>4. IsFiniteSet(Said(doc))
    <3>1. IsFiniteSet(1 .. N) /\ Said(doc) \in SUBSET (1 .. N)
      BY <1>1, FS_Interval
    <3> QED
      BY <3>1, FS_Subset
  <2> HIDE DEF f, Rows, Said
  <2> QED
    BY <2>1, <2>2, <2>3, <2>4, SameCount
<1>9. BagOfLines(lines, N) = [doc \in {CapLine(lines[n]) : n \in 1 .. N} |-> Cardinality(Said(doc))]
  BY DEF BagOfLines
<1> HIDE DEF Rows, Said, N
<1> QED
  BY <1>6, <1>7, <1>8, <1>9 DEF N

-----------------------------------------------------------------------------
(* The indexer implements the bag of documents.                            *)

LEMMA BagGrows ==
  ASSUME NEW ls, NEW ks, NEW N \in Nat, \A n \in 1 .. N : ks[n] = ls[n]
  PROVE  BagOfLines(ks, N + 1) =
           BagOfLines(ls, N) (+) SetToBag({CapLine(ks[N + 1])})
<1> DEFINE new == CapLine(ks[N + 1])
           Before(doc) == {n \in 1 .. N : CapLine(ls[n]) = doc}
           After(doc)  == {n \in 1 .. N + 1 : CapLine(ks[n]) = doc}
           docs1 == {CapLine(ls[n]) : n \in 1 .. N}
           docs2 == {CapLine(ks[n]) : n \in 1 .. N + 1}
<1>1. 1 .. N + 1 = (1 .. N) \cup {N + 1} /\ N + 1 \notin 1 .. N
  OBVIOUS
<1>2. \A n \in 1 .. N : CapLine(ks[n]) = CapLine(ls[n])
  OBVIOUS
<1>3. docs2 = docs1 \cup {new}
  BY <1>1, <1>2
<1>4. ASSUME NEW doc
      PROVE  /\ IsFiniteSet(Before(doc)) /\ Cardinality(Before(doc)) \in Nat
             /\ N + 1 \notin Before(doc)
             /\ (doc \notin docs1 => Before(doc) = {})
             /\ (doc = new => After(doc) = Before(doc) \cup {N + 1})
             /\ (doc # new => After(doc) = Before(doc))
  <2>1. IsFiniteSet(1 .. N) /\ Before(doc) \in SUBSET (1 .. N)
    BY FS_Interval
  <2>2. IsFiniteSet(Before(doc)) /\ Cardinality(Before(doc)) \in Nat
    BY <2>1, FS_Subset, FS_CardinalityType
  <2>3. N + 1 \notin Before(doc)
    OBVIOUS
  <2>4. doc \notin docs1 => Before(doc) = {}
    OBVIOUS
  <2>5. doc = new => After(doc) = Before(doc) \cup {N + 1}
    BY <1>1, <1>2
  <2>6. doc # new => After(doc) = Before(doc)
    BY <1>1, <1>2
  <2> QED
    BY <2>2, <2>3, <2>4, <2>5, <2>6
<1>5. ASSUME NEW doc
      PROVE  Cardinality(After(doc)) =
               (IF doc \in docs1 THEN Cardinality(Before(doc)) ELSE 0)
               + (IF doc \in {new} THEN 1 ELSE 0)
  <2> HIDE DEF After, Before, docs1, new
  <2>1. doc \notin docs1 => Cardinality(Before(doc)) = 0
    BY <1>4, FS_EmptySet
  <2>2. CASE doc = new
    <3>1. Cardinality(Before(doc) \cup {N + 1}) = Cardinality(Before(doc)) + 1
      BY <1>4, FS_AddElement
    <3> QED
      BY <1>4, <2>1, <2>2, <3>1
  <2>3. CASE doc # new
    BY <1>4, <2>1, <2>3
  <2> QED
    BY <2>2, <2>3
<1>6. /\ BagOfLines(ks, N + 1) = [doc \in docs2 |-> Cardinality(After(doc))]
      /\ BagOfLines(ls, N) = [doc \in docs1 |-> Cardinality(Before(doc))]
  BY DEF BagOfLines
<1> HIDE DEF After, Before, docs1, docs2, new
<1>7. BagOfLines(ls, N) (+) SetToBag({new}) =
        [doc \in docs1 \cup {new} |->
           (IF doc \in docs1 THEN Cardinality(Before(doc)) ELSE 0)
           + (IF doc \in {new} THEN 1 ELSE 0)]
  BY <1>6 DEF (+), SetToBag
<1> QED
  BY <1>3, <1>5, <1>6, <1>7 DEF new

LEMMA SameBag ==
  ASSUME NEW ls, NEW ks, NEW N, \A n \in 1 .. N : ks[n] = ls[n]
  PROVE  BagOfLines(ks, N) = BagOfLines(ls, N)
<1>1. \A n \in 1 .. N : CapLine(ks[n]) = CapLine(ls[n])
  OBVIOUS
<1>2. {CapLine(ks[n]) : n \in 1 .. N} = {CapLine(ls[n]) : n \in 1 .. N}
  BY <1>1
<1>3. \A doc : {n \in 1 .. N : CapLine(ks[n]) = doc} = {n \in 1 .. N : CapLine(ls[n]) = doc}
  BY <1>1
<1> QED
  BY <1>2, <1>3 DEF BagOfLines

\* A step of the first pass adds the line that has become a row, or no line
\* has; the others leave the lines, and the first pass does not come back.
LEMMA LinesGrow ==
  ASSUME StoreInv, [Next]_vars
  PROVE  \/ /\ NumPushed' = NumPushed + 1 /\ NumPushed' <= Len(lines')
            /\ \A n \in 1 .. NumPushed : lines'[n] = lines[n]
            /\ phase = "ingest" /\ phase' = phase
         \/ /\ NumPushed' = NumPushed
            /\ \A n \in 1 .. NumPushed : lines'[n] = lines[n]
            /\ phase' = "ingest" => phase = "ingest"
<1>1. lines \in Seq(Lines) /\ Len(lines) \in Nat
  BY DEF StoreInv
<1>0. Ingest => phase = "ingest" /\ phase' = phase
  BY DEF Ingest, patternVars
<1>2. CASE Ingest
  <2>1. IngestInv
    BY <1>2 DEF Ingest, StoreInv, PatternsInv
  <2>2. pos \in Nat /\ (pos > 0 => Len(lines) > 0)
    BY <2>1 DEF IngestInv, IngestTypeOK, PushInRange
  <2>3. ASSUME NEW line \in Lines, OpenGroup(line)
        PROVE  /\ NumPushed' = NumPushed + 1 /\ NumPushed' <= Len(lines')
               /\ \A n \in 1 .. NumPushed : lines'[n] = lines[n]
    <3>1. pos = 0 /\ pos' = 0 /\ lines' = Append(lines, line)
      BY <2>3 DEF OpenGroup
    <3> QED
      BY <1>1, <3>1, AppendProperties DEF NumPushed
  <2>4. ASSUME NEW line \in Lines, BeginPush(line)
        PROVE  /\ NumPushed' = NumPushed
               /\ \A n \in 1 .. NumPushed : lines'[n] = lines[n]
    <3>1. pos = 0 /\ pos' = 1 /\ lines' = Append(lines, line)
      BY <2>4 DEF BeginPush
    <3> QED
      BY <1>1, <3>1, AppendProperties DEF NumPushed
  <2>5. CASE EndPush
    <3>1. pos > 0 /\ pos' = 0 /\ lines' = lines
      BY <2>5 DEF EndPush
    <3> QED
      BY <1>0, <1>1, <1>2, <3>1 DEF NumPushed
  <2>6. CASE PushSameConstant \/ PushNewVariable \/ PushToColumn
    <3>1. pos > 0 /\ pos' = pos + 1 /\ lines' = lines
      BY <2>6 DEF PushSameConstant, PushNewVariable, PushToColumn, AtToken
    <3> QED
      BY <1>0, <1>1, <1>2, <2>2, <3>1 DEF NumPushed
  <2> QED
    BY <1>0, <1>2, <2>3, <2>4, <2>5, <2>6 DEF Ingest, IngestNext
<1>3. CASE ~Ingest
  <2>1. lines' = lines /\ pos' = pos
    BY <1>3 DEF Next, Split, Merge, EndOfInput, SplitGroup, MoveTerm, SplitNextToken,
                SplitGroupDone, InsertSplitGroup, EndSplit, InsertNewGroup, Classify,
                StartMerge, ConvertMember, ConvertNextToken, TakeFirst, AppendMember,
                InsertMerged, EndMerge, Merged, vars, ingestVars
  <2>2. phase' = "ingest" => phase = "ingest"
    <3>1. Split => phase' # "ingest"
      <4>1. \A id, text : MoveTerm(id, text) => phase' = "split"
        BY DEF MoveTerm, Splitting
      <4>2. \A g : SplitGroup(g) => phase' = "split"
        BY DEF SplitGroup
      <4>3. SplitNextToken \/ SplitGroupDone \/ InsertSplitGroup => phase' = "split"
        BY DEF SplitNextToken, SplitGroupDone, InsertSplitGroup, Splitting
      <4>4. EndSplit => phase' = "classify"
        BY DEF EndSplit
      <4> QED
        BY <4>1, <4>2, <4>3, <4>4 DEF Split
    <3>2. Merge => phase' # "ingest"
      <4>1. \A class, ids : StartMerge(class, ids) => phase' = "merge"
        BY DEF StartMerge
      <4>2. Classify \/ ConvertMember \/ ConvertNextToken => phase' = "merge"
        BY DEF Classify, ConvertMember, ConvertNextToken, Converting, Merging
      <4>3. TakeFirst \/ AppendMember \/ InsertMerged => phase' = "merge"
        BY DEF TakeFirst, AppendMember, InsertMerged, Appending, Merging
      <4>4. EndMerge => phase' = "merged"
        BY DEF EndMerge
      <4> QED
        BY <4>1, <4>2, <4>3, <4>4 DEF Merge
    <3>3. Merged \/ UNCHANGED vars => phase' = phase
      BY DEF Merged, vars, patternVars
    <3> QED
      BY <1>3, <3>1, <3>2, <3>3 DEF Next, EndOfInput
  <2> QED
    BY <2>1, <2>2 DEF NumPushed
<1> QED
  BY <1>2, <1>3

\* What can be read back are the lines that have become rows.
ReadsAsLines == Readable = BagOfLines(lines, NumPushed)

\* The documents handed over, when no line has become a row and when one has.
LEMMA LoggedStays ==
  ASSUME NumPushed' = NumPushed, \A n \in 1 .. NumPushed : lines'[n] = lines[n]
  PROVE  Logged' = Logged
<1>1. \A n \in 1 .. NumPushed : CapLine(lines'[n]) = CapLine(lines[n])
  OBVIOUS
<1>2. /\ Logged = [n \in 1 .. NumPushed |-> CapLine(lines[n])]
      /\ Logged' = [n \in 1 .. NumPushed' |-> CapLine(lines'[n])]
  BY DEF Logged, CapLine
<1> QED
  BY <1>1, <1>2

LEMMA LoggedGrows ==
  ASSUME NumPushed \in Nat, NumPushed' = NumPushed + 1,
         \A n \in 1 .. NumPushed : lines'[n] = lines[n]
  PROVE  Logged' = Append(Logged, CapLine(lines'[NumPushed + 1]))
<1> DEFINE new == CapLine(lines'[NumPushed + 1])
<1>1. \A n \in 1 .. NumPushed : CapLine(lines'[n]) = CapLine(lines[n])
  OBVIOUS
<1>2. /\ Logged = [n \in 1 .. NumPushed |-> CapLine(lines[n])]
      /\ Logged' = [n \in 1 .. NumPushed + 1 |-> CapLine(lines'[n])]
  BY DEF Logged, CapLine
<1>3. /\ DOMAIN Logged = 1 .. NumPushed
      /\ \A n \in 1 .. NumPushed : Logged[n] = CapLine(lines[n])
  BY <1>2
<1> DEFINE said(n) == CapLine(lines[n])
<1>4. Len(Logged) = NumPushed
  <2> HIDE DEF said
  <2>1. Len([n \in 1 .. NumPushed |-> said(n)]) = NumPushed
    OBVIOUS
  <2> QED
    BY <1>2, <2>1 DEF said
<1> HIDE DEF said
<1>5. Append(Logged, new) =
        [n \in 1 .. NumPushed + 1 |-> IF n = NumPushed + 1 THEN new ELSE Logged[n]]
  BY <1>4 DEF Append
<1> HIDE DEF new
<1>6. \A n \in 1 .. NumPushed + 1 :
        CapLine(lines'[n]) = IF n = NumPushed + 1 THEN new ELSE Logged[n]
  <2> TAKE n \in 1 .. NumPushed + 1
  <2>1. CASE n = NumPushed + 1
    BY <2>1 DEF new
  <2>2. CASE n # NumPushed + 1
    <3>1. n \in 1 .. NumPushed
      BY <2>2
    <3> QED
      BY <1>1, <1>3, <2>2, <3>1
  <2> QED
    BY <2>1, <2>2
<1> QED
  BY <1>2, <1>5, <1>6 DEF new

LEMMA StoreStep ==
  ASSUME StoreInv, [Next]_vars, StoreInv', ReadsAsLines, ReadsAsLines'
  PROVE  Store!Next \/ UNCHANGED <<Logged, Readable, InputOpen>>
<1>1. NumPushed \in Nat /\ lines' \in Seq(Lines)
  BY AllRowsOnce DEF StoreInv
<1>4. /\ Readable = BagOfLines(lines, NumPushed)
      /\ Readable' = BagOfLines(lines', NumPushed')
  BY DEF ReadsAsLines
<1>2. CASE /\ NumPushed' = NumPushed + 1 /\ NumPushed' <= Len(lines')
           /\ \A n \in 1 .. NumPushed : lines'[n] = lines[n]
           /\ phase = "ingest" /\ phase' = phase
  <2> DEFINE doc == CapLine(lines'[NumPushed + 1])
  <2>1. Readable' = Readable (+) SetToBag({doc})
    BY <1>1, <1>2, <1>4, BagGrows
  <2>2. lines'[NumPushed + 1] \in Lines
    <3>1. NumPushed + 1 \in 1 .. Len(lines')
      BY <1>1, <1>2
    <3> QED
      BY <1>1, <3>1, ElementOfSeq
  <2>3. doc \in {CapLine(line) : line \in Lines}
    BY <2>2
  <2>4. Logged' = Append(Logged, doc)
    BY <1>1, <1>2, LoggedGrows
  <2>5. InputOpen /\ InputOpen' = InputOpen
    BY <1>2 DEF InputOpen
  <2> HIDE DEF doc
  <2>6. Store!Add(doc)
    BY <2>1, <2>4, <2>5 DEF Store!Add, Store!(+), (+), Store!SetToBag, SetToBag
  <2> QED
    BY <2>3, <2>6 DEF Store!Next
<1>3. CASE /\ NumPushed' = NumPushed
           /\ \A n \in 1 .. NumPushed : lines'[n] = lines[n]
           /\ phase' = "ingest" => phase = "ingest"
  <2>1. Readable' = Readable
    BY <1>3, <1>4, SameBag
  <2>2. Logged' = Logged
    BY <1>3, LoggedStays
  <2>3. CASE phase = "ingest" /\ phase' # "ingest"
    <3>1. InputOpen /\ InputOpen' = FALSE
      BY <2>3 DEF InputOpen
    <3> QED
      BY <2>1, <2>2, <3>1 DEF Store!Next, Store!Close
  <2>4. CASE ~(phase = "ingest" /\ phase' # "ingest")
    <3>1. InputOpen' = InputOpen
      BY <1>3, <2>4 DEF InputOpen
    <3> QED
      BY <2>1, <2>2, <3>1
  <2> QED
    BY <2>3, <2>4
<1> QED
  BY <1>2, <1>3, LinesGrow

LEMMA StoreStarts == Init => Store!Init
<1> SUFFICES ASSUME Init PROVE Store!Init
  OBVIOUS
<1>1. DOMAIN groups = {} /\ DOMAIN aside = {}
  BY DEF Init, IngestInit
<1>2. Holders = {}
  BY <1>1 DEF Holders
<1>3. Readable = [doc \in {} |-> 1]
  BY <1>2 DEF Readable
<1>4. Readable = Store!EmptyBag
  BY <1>3 DEF Store!EmptyBag, Store!SetToBag
<1>5. Logged = << >>
  <2>1. NumPushed = 0
    BY DEF Init, IngestInit, NumPushed
  <2> QED
    BY <2>1 DEF Logged
<1>6. InputOpen = TRUE
  BY DEF Init, InputOpen
<1> QED
  BY <1>4, <1>5, <1>6 DEF Store!Init

(***************************************************************************)
(* Whatever the lines, the fingerprints and the thresholds, and in every   *)
(* order in which the groups are split and merged: the bag of documents    *)
(* that can be read back grows by the line that has just been pushed, each *)
(* time one has, and from the end of the input on it is the same bag, if   *)
(* no group goes into the map under an id in use.                          *)
(***************************************************************************)
THEOREM IndexerIsLogStore == Spec /\ []NewIdsFresh => ImplementsLogStore
<1>1. Init => Store!Init
  BY StoreStarts
<1>2. StoreInv => ReadsAsLines
  BY ReadableIs DEF ReadsAsLines
<1>3. StoreInv /\ [Next]_vars /\ ReadsAsLines /\ StoreInv' /\ ReadsAsLines'
        => [Store!Next]_(Store!storeVars)
  BY StoreStep DEF Store!storeVars
<1> QED
  BY <1>1, <1>2, <1>3, StoreInvariant, PTL DEF Spec, ImplementsLogStore, Store!Spec

-----------------------------------------------------------------------------
(* The types of the variables.                                             *)

\* Every group has as many tokens as some line.
TokensOK ==
  /\ \A g \in DOMAIN groups : Len(groups[g].tokens) \in Buckets
  /\ \A n \in 1 .. Len(aside) : Len(aside[n].group.tokens) \in Buckets

PatternsTypeInv ==
  /\ StoreInv /\ TokensOK /\ pos \in Nat
  /\ DOMAIN groups \subseteq GroupIds
  /\ salt \in [Buckets -> Nat]
  /\ work.ids \in Seq(GroupIds)
  /\ phase # "split" => todo = {}
  /\ phase # "merge" => classes = {}

LEMMA BucketsAreNat == Buckets \subseteq Nat
<1> SUFFICES ASSUME NEW line \in Lines PROVE Len(line) \in Nat
  BY DEF Buckets
<1> QED
  BY LineFacts

\* The id that insert_duplicate makes for a group.
LEMMA DuplicateIdType ==
  ASSUME NEW group \in Groups, Len(group.tokens) \in Buckets, NEW next_salt \in Nat
  PROVE  DuplicateId(group, next_salt) \in GroupIds
<1> DEFINE types == TokenTypes(group)
<1>1. /\ group.tokens \in Seq(TemplateTokens) /\ Len(group.tokens) \in Nat
      /\ \A i \in 1 .. Len(group.tokens) : group.tokens[i] \in TemplateTokens
  BY GroupFields
<1>2. DOMAIN group.tokens = 1 .. Len(group.tokens)
  BY <1>1, LenProperties
<1>3. \A token \in TemplateTokens : token.token_type \in Types
  BY DEF TemplateTokens, ConstantTokens, VariableTokens
<1>4. types \in [1 .. Len(group.tokens) -> Types]
  BY <1>1, <1>2, <1>3 DEF TokenTypes
<1>5. PICK line \in Lines : Len(line) = Len(group.tokens)
  BY DEF Buckets
<1> HIDE DEF types
<1>6. FingerprintTypes(types) \in Nat
  BY <1>4, <1>5, PatternsAssumption DEF PatternsAssumption
<1>7. next_salt + FingerprintTypes(types) \in Nat
  BY <1>6
<1> QED
  BY <1>1, <1>7 DEF DuplicateId, GroupIds, types

\* The first pass opens groups for lines, and for nothing else.
LEMMA IngestTypes ==
  ASSUME PatternsTypeInv, Ingest, PatternsInv'
  PROVE  TokensOK' /\ pos' \in Nat /\ DOMAIN groups' \subseteq GroupIds
<1>1. /\ phase = "ingest" /\ IngestNext /\ UNCHANGED patternVars /\ IngestInv /\ aside = << >>
  BY DEF Ingest, PatternsTypeInv, StoreInv, PatternsInv
<1>2. phase' = "ingest" /\ aside' = << >> /\ IngestInv'
  BY <1>1 DEF patternVars, PatternsInv
<1>3. pos' \in Nat /\ DOMAIN groups' \subseteq GroupIds
  BY <1>2 DEF IngestInv, IngestTypeOK
<1>4. \A g \in DOMAIN groups : g.num_tokens \in Buckets
  BY <1>1 DEF PatternsTypeInv, TokensOK, IngestInv, GroupsMatchLines
<1>5. \A g \in DOMAIN groups' : g \in DOMAIN groups \/ \E line \in Lines : g = GroupIdOf(line)
  BY <1>1 DEF IngestNext, OpenGroup, BeginPush, PushSameConstant, PushNewVariable,
              PushToColumn, EndPush, Put
<1>6. ASSUME NEW g \in DOMAIN groups' PROVE Len(groups'[g].tokens) \in Buckets
  <2>1. g.num_tokens \in Buckets
    BY <1>4, <1>5 DEF GroupIdOf, Buckets
  <2> QED
    BY <1>2, <2>1 DEF IngestInv, GroupsMatchLines
<1>7. Len(aside') = 0
  BY <1>2
<1> QED
  BY <1>3, <1>6, <1>7 DEF TokensOK

LEMMA FixColumnTokens ==
  ASSUME NEW group, "tokens" \in DOMAIN group, NEW c, NEW text
  PROVE  FixColumn(group, c, text).tokens
           = [i \in DOMAIN group.tokens |-> FixToken(group.tokens[i], c, text)]
BY DEF FixColumn

\* A group leaves for a while with its tokens.
LEMMA MoveTermTypes ==
  ASSUME PatternsTypeInv, NEW id \in 0 .. term_map.next_term_id - 1, NEW text \in Texts,
         MoveTerm(id, text)
  PROVE  TokensOK' /\ DOMAIN groups' = DOMAIN groups
<1> DEFINE g     == SplitId
           group == groups[g]
           c     == SplitToken.column_index
           moved == RowsWith(group.columns[c], id)
           kept  == 1 .. group.num_docs \ moved
           new   == FixColumn(RemoveRows(group, moved), c, text)
           out   == [group |-> new, rows |-> RetainRows(origin[g], moved)]
<1>1. /\ phase = "split" /\ work # Idle
      /\ aside' = Append(aside, out)
      /\ groups' = [groups EXCEPT ![g] = RemoveRows(group, kept)]
  BY DEF MoveTerm, Splitting
<1>2. /\ StoreOK /\ g \in DOMAIN groups /\ TokensOK
  BY <1>1 DEF PatternsTypeInv, StoreInv, PatternsInv, SplitId
<1>3. /\ group \in Groups /\ aside \in Seq([group : Groups, rows : Seq(Nat)])
  BY <1>2 DEF StoreOK
<1>4. /\ RemoveRows(group, kept).tokens = group.tokens
      /\ RemoveRows(group, moved).tokens = group.tokens
  <2>1. \A keep : RemoveRows(group, keep).tokens = group.tokens
    BY <1>3 DEF RemoveRows, Groups
  <2> QED
    BY <2>1
<1>5. Len(new.tokens) = Len(group.tokens)
  <2>1. DOMAIN group.tokens = 1 .. Len(group.tokens) /\ Len(group.tokens) \in Nat
    BY <1>3, GroupFields, LenProperties
  <2>2. "tokens" \in DOMAIN RemoveRows(group, moved)
    BY <1>3 DEF RemoveRows, Groups
  <2>3. new.tokens = [i \in 1 .. Len(group.tokens) |-> FixToken(group.tokens[i], c, text)]
    <3>1. new.tokens = [i \in DOMAIN RemoveRows(group, moved).tokens |->
                          FixToken(RemoveRows(group, moved).tokens[i], c, text)]
      BY <2>2, FixColumnTokens
    <3> HIDE DEF new
    <3> QED
      BY <1>4, <2>1, <3>1
  <2> HIDE DEF new, group
  <2> QED
    BY <2>1, <2>3
<1> HIDE DEF new, moved, kept, c, group
<1>6. DOMAIN groups' = DOMAIN groups
  BY <1>1
<1>7. \A h \in DOMAIN groups : Len(groups'[h].tokens) \in Buckets
  BY <1>1, <1>2, <1>4 DEF TokensOK, group
<1>8. ASSUME NEW n \in 1 .. Len(aside') PROVE Len(aside'[n].group.tokens) \in Buckets
  <2>1. out.group = new /\ Len(new.tokens) \in Buckets
    BY <1>2, <1>5 DEF TokensOK, group
  <2> HIDE DEF out
  <2>2. /\ Len(aside') = Len(aside) + 1 /\ Len(aside) \in Nat
        /\ \A m \in 1 .. Len(aside) : aside'[m] = aside[m]
        /\ aside'[Len(aside) + 1] = out
    BY <1>1, <1>3
  <2>3. CASE n \in 1 .. Len(aside)
    BY <1>2, <2>2, <2>3 DEF TokensOK
  <2>4. CASE n = Len(aside) + 1
    BY <2>1, <2>2, <2>4
  <2> QED
    BY <2>2, <2>3, <2>4
<1> QED
  BY <1>6, <1>7, <1>8 DEF TokensOK

\* A group goes into the map under an id of the right type.
LEMMA InsertTypes ==
  ASSUME PatternsTypeInv, InsertNewGroup, phase # "ingest"
  PROVE  TokensOK' /\ DOMAIN groups' \subseteq GroupIds /\ salt' \in [Buckets -> Nat]
<1> DEFINE new    == aside[1].group
           bucket == Len(new.tokens)
           id     == DuplicateId(new, salt[bucket] + 1)
<1>1. StoreOK /\ TokensOK
  BY DEF PatternsTypeInv, StoreInv, PatternsInv
<1>2. /\ aside \in Seq([group : Groups, rows : Seq(Nat)]) /\ aside # << >>
      /\ Len(aside) \in Nat \ {0}
      /\ DOMAIN groups' = DOMAIN groups \cup {id}
      /\ groups'[id] = new
      /\ \A g \in DOMAIN groups : g # id => groups'[g] = groups[g]
  BY <1>1, InsertKeepsStore DEF StoreOK
<1>3. Head(aside) = aside[1] /\ aside' = Tail(aside)
  BY <1>2 DEF InsertNewGroup
<1>4. 1 \in 1 .. Len(aside)
  BY <1>2
<1>5. new \in Groups /\ bucket \in Buckets
  <2>1. aside[1] \in [group : Groups, rows : Seq(Nat)]
    BY <1>2, <1>4, ElementOfSeq
  <2> QED
    BY <1>1, <1>4, <2>1 DEF TokensOK
<1>6. salt[bucket] \in Nat
  BY <1>5 DEF PatternsTypeInv
<1>7. id \in GroupIds
  <2>1. salt[bucket] + 1 \in Nat
    BY <1>6
  <2> HIDE DEF new
  <2> QED
    BY <1>5, <2>1, DuplicateIdType
<1>8. salt' \in [Buckets -> Nat]
  <2>1. salt' = [salt EXCEPT ![bucket] = @ + 1]
    BY <1>3 DEF InsertNewGroup
  <2> HIDE DEF new, bucket
  <2> QED
    BY <1>5, <1>6, <2>1 DEF PatternsTypeInv
<1> HIDE DEF id
<1>9. DOMAIN groups' \subseteq GroupIds
  BY <1>2, <1>7 DEF PatternsTypeInv
<1>10. \A g \in DOMAIN groups' : Len(groups'[g].tokens) \in Buckets
  BY <1>1, <1>2, <1>5 DEF TokensOK
<1>11. ASSUME NEW n \in 1 .. Len(aside') PROVE Len(aside'[n].group.tokens) \in Buckets
  <2>1. /\ Len(Tail(aside)) = Len(aside) - 1
        /\ \A m \in 1 .. Len(Tail(aside)) : Tail(aside)[m] = aside[m + 1]
    BY <1>2, HeadTailProperties
  <2>2. n + 1 \in 1 .. Len(aside) /\ aside'[n] = aside[n + 1]
    BY <1>2, <1>3, <2>1
  <2> QED
    BY <1>1, <2>2 DEF TokensOK
<1> QED
  BY <1>8, <1>9, <1>10, <1>11 DEF TokensOK

\* The group at a cursor of the merge, and what convert_to_variable makes of it.
LEMMA ConvertTypes ==
  ASSUME PatternsTypeInv, ConvertMember, PatternsInv'
  PROVE  TokensOK' /\ DOMAIN groups' = DOMAIN groups
<1> DEFINE g   == work.ids[work.member]
           i   == work.token
           new == ConvertToVariable(groups[g], term_map, i)
<1>1. /\ phase = "merge" /\ phase' = "merge" /\ work # Idle
      /\ groups' = [groups EXCEPT ![g] = new] /\ aside' = aside
  BY DEF ConvertMember, Converting, Merging
<1>2. StoreOK /\ StoreOK' /\ TokensOK /\ DOMAIN groups' = DOMAIN groups
  BY <1>1 DEF PatternsTypeInv, StoreInv, PatternsInv
<1>3. ASSUME NEW h \in DOMAIN groups PROVE Len(groups'[h].tokens) = Len(groups[h].tokens)
  <2>1. groups[h] \in Groups /\ groups'[h] \in Groups
    BY <1>2 DEF StoreOK
  <2>2. /\ Len(groups[h].tokens) \in Nat /\ Len(groups'[h].tokens) \in Nat
        /\ DOMAIN groups[h].tokens = 1 .. Len(groups[h].tokens)
        /\ DOMAIN groups'[h].tokens = 1 .. Len(groups'[h].tokens)
    BY <2>1, GroupFields, LenProperties
  <2>3. DOMAIN groups'[h].tokens = DOMAIN groups[h].tokens
    <3>1. DOMAIN new.tokens = DOMAIN groups[g].tokens \/ h # g
      BY <2>1 DEF ConvertToVariable, Groups
    <3> QED
      BY <1>1, <3>1
  <2> QED
    BY <2>2, <2>3
<1> QED
  BY <1>1, <1>2, <1>3 DEF TokensOK

\* A group is taken out of the map, alone or onto the group that is aside.
LEMMA TakeTypes ==
  ASSUME PatternsTypeInv, TakeFirst \/ AppendMember
  PROVE  TokensOK' /\ DOMAIN groups' \subseteq DOMAIN groups
<1>1. phase = "merge" /\ work # Idle
  BY DEF TakeFirst, AppendMember, Appending, Merging
<1>2. StoreOK /\ MembersOK /\ AsideOK /\ TokensOK /\ IsWork(work)
  BY <1>1 DEF PatternsTypeInv, StoreInv, PatternsInv, MergeOK
<1>3. /\ DOMAIN groups' \subseteq DOMAIN groups
      /\ \A g \in DOMAIN groups' : groups'[g] = groups[g]
      /\ Len(aside') = 1
  BY DEF TakeFirst, AppendMember
<1>4. Len(aside'[1].group.tokens) \in Buckets
  <2>1. CASE TakeFirst
    <3>1. aside = << >> /\ aside'[1].group = groups[work.ids[1]]
      BY <2>1 DEF TakeFirst
    <3>2. work.ids[1] \in DOMAIN groups
      <4>1. 1 \in Left
        BY <1>2, <3>1 DEF MembersOK, Left, FirstLeft
      <4> QED
        BY <1>2, <4>1 DEF MembersOK
    <3> QED
      BY <1>2, <3>1, <3>2 DEF TokensOK
  <2>2. CASE AppendMember
    <3> DEFINE first == aside[1].group
               other == groups[work.ids[work.member]]
    <3>1. aside # << >> /\ aside'[1].group = AppendGroup(first, other)
      BY <2>2 DEF AppendMember
    <3>2. 1 \in 1 .. Len(aside) /\ aside \in Seq([group : Groups, rows : Seq(Nat)])
      BY <1>2, <3>1 DEF StoreOK, AsideOK
    <3>3. first \in Groups /\ Len(first.tokens) \in Buckets
      <4>1. aside[1] \in [group : Groups, rows : Seq(Nat)]
        BY <3>2, ElementOfSeq
      <4> QED
        BY <1>2, <3>2, <4>1 DEF TokensOK
    <3> HIDE DEF first, other
    <3>4. AppendGroup(first, other).tokens = first.tokens
      BY <3>3 DEF AppendGroup, Groups
    <3> QED
      BY <3>1, <3>3, <3>4
  <2> QED
    BY <2>1, <2>2
<1> QED
  BY <1>2, <1>3, <1>4 DEF TokensOK

\* A loop that takes its next group or class, or goes to its next token.
LEMMA WorkTypes ==
  ASSUME PatternsTypeInv,
         \/ \E g \in todo : SplitGroup(g)
         \/ \E class \in classes : \E ids \in SetToSeqs(class.ids) : StartMerge(class, ids)
  PROVE  work'.ids \in Seq(GroupIds)
<1>1. CASE \E g \in todo : SplitGroup(g)
  <2>1. PICK g \in todo : SplitGroup(g)
    BY <1>1
  <2>2. g \in GroupIds
    BY <2>1 DEF PatternsTypeInv, StoreInv, PatternsInv, SplitGroup
  <2>3. work'.ids = <<g>>
    BY <2>1 DEF SplitGroup, Idle
  <2> QED
    BY <2>2, <2>3
<1>2. CASE \E class \in classes : \E ids \in SetToSeqs(class.ids) : StartMerge(class, ids)
  <2>0. PICK class \in classes : \E ids \in SetToSeqs(class.ids) : StartMerge(class, ids)
    BY <1>2
  <2>1. PICK ids \in SetToSeqs(class.ids) : StartMerge(class, ids)
    BY <2>0
  <2>2. work'.ids = ids /\ phase = "merge"
    BY <2>1 DEF StartMerge, Idle
  <2>3. class.ids \subseteq DOMAIN groups /\ IsFiniteSet(DOMAIN groups)
    BY <2>2 DEF PatternsTypeInv, StoreInv, PatternsInv, MergeOK, ClassOK, StoreOK
  <2>4. IsFiniteSet(class.ids) /\ class.ids \subseteq GroupIds
    BY <2>3, FS_Subset DEF PatternsTypeInv
  <2>5. Cardinality(class.ids) \in Nat
    BY <2>4, FS_CardinalityType
  <2>6. ids \in [1 .. Cardinality(class.ids) -> class.ids]
    BY DEF SetToSeqs
  <2>7. ids \in [1 .. Cardinality(class.ids) -> GroupIds]
    BY <2>4, <2>6
  <2> HIDE DEF GroupIds
  <2>8. ids \in Seq(GroupIds)
    BY <2>5, <2>7
  <2> QED
    BY <2>2, <2>8
<1> QED
  BY <1>1, <1>2

LEMMA TypesStep ==
  PatternsTypeInv /\ StoreInv' /\ [Next]_vars => PatternsTypeInv'
<1> SUFFICES ASSUME PatternsTypeInv, StoreInv', [Next]_vars PROVE PatternsTypeInv'
  OBVIOUS
<1>0. PatternsInv /\ PatternsInv'
  BY DEF PatternsTypeInv, StoreInv
<1>1. CASE Ingest
  <2>1. UNCHANGED patternVars
    BY <1>1 DEF Ingest
  <2> QED
    BY <1>0, <1>1, <2>1, IngestTypes DEF PatternsTypeInv, patternVars
<1>2. CASE \E split \in BOOLEAN : EndOfInput(split)
  <2>1. /\ UNCHANGED <<ingestVars, work, aside, salt, classes>>
        /\ phase = "ingest"
        /\ \/ phase' = "split"
           \/ phase' = "classify" /\ todo' = {}
    BY <1>2 DEF EndOfInput
  <2> QED
    BY <2>1 DEF PatternsTypeInv, TokensOK, ingestVars
<1>3. CASE \E id \in 0 .. term_map.next_term_id - 1, text \in Texts : MoveTerm(id, text)
  <2>1. UNCHANGED <<pos, phase, todo, work, salt, classes>>
    BY <1>3 DEF MoveTerm
  <2> QED
    BY <1>3, <2>1, MoveTermTypes DEF PatternsTypeInv
<1>4. CASE SplitNextToken \/ ConvertNextToken
  <2>1. UNCHANGED <<ingestVars, phase, todo, aside, salt, classes>>
    BY <1>4 DEF SplitNextToken, ConvertNextToken
  <2>2. work = [ids |-> work.ids, key |-> work.key, token |-> work.token, member |-> work.member]
    BY <1>0 DEF PatternsInv, IsWork
  <2>3. CASE SplitNextToken
    BY <2>1, <2>2, <2>3 DEF SplitNextToken, PatternsTypeInv, TokensOK, ingestVars
  <2>4. CASE ConvertNextToken
    <3>1. work' = [work EXCEPT !.token = @ + 1, !.member = 1]
      BY <2>4 DEF ConvertNextToken
    <3>2. work'.ids = work.ids
      BY <2>2, <3>1
    <3> QED
      BY <2>1, <3>2 DEF PatternsTypeInv, TokensOK, ingestVars
  <2> QED
    BY <1>4, <2>3, <2>4
<1>5. CASE SplitGroupDone \/ EndSplit \/ EndMerge \/ Classify
  <2>1. /\ UNCHANGED <<ingestVars, todo, aside, salt>>
        /\ work' = work \/ work' = Idle
        /\ \/ phase' = phase /\ classes' = classes
           \/ phase = "split" /\ phase' = "classify" /\ todo = {} /\ classes' = classes
           \/ phase = "merge" /\ phase' = "merged" /\ classes = {} /\ classes' = classes
           \/ phase = "classify" /\ phase' = "merge"
    BY <1>5 DEF SplitGroupDone, EndSplit, EndMerge, Classify
  <2>2. Idle.ids \in Seq(GroupIds)
    BY DEF Idle
  <2> QED
    BY <2>1, <2>2 DEF PatternsTypeInv, TokensOK, ingestVars
<1>6. CASE \/ \E g \in todo : SplitGroup(g)
           \/ \E class \in classes : \E ids \in SetToSeqs(class.ids) : StartMerge(class, ids)
  <2>1. /\ UNCHANGED <<ingestVars, phase, aside, salt>>
        /\ todo' \subseteq todo /\ classes' \subseteq classes
    BY <1>6 DEF SplitGroup, StartMerge
  <2> QED
    BY <1>6, <2>1, WorkTypes DEF PatternsTypeInv, TokensOK, ingestVars
<1>7. CASE InsertSplitGroup \/ InsertMerged
  <2>1. /\ InsertNewGroup /\ phase # "ingest" /\ UNCHANGED <<phase, todo, classes>>
        /\ work' = work \/ work' = Idle
    BY <1>7 DEF InsertSplitGroup, InsertMerged, Appending, Merging
  <2>2. pos' = pos
    BY <2>1 DEF InsertNewGroup
  <2>3. Idle.ids \in Seq(GroupIds)
    BY DEF Idle
  <2> QED
    BY <2>1, <2>2, <2>3, InsertTypes DEF PatternsTypeInv
<1>8. CASE ConvertMember \/ TakeFirst \/ AppendMember
  <2>1. UNCHANGED <<pos, phase, todo, salt, classes>> /\ work'.ids = work.ids
    <3>1. \A member : [work EXCEPT !.member = member].ids = work.ids
      BY <1>0 DEF PatternsInv, IsWork
    <3> QED
      BY <1>8, <3>1 DEF ConvertMember, TakeFirst, AppendMember
  <2>2. TokensOK' /\ DOMAIN groups' \subseteq DOMAIN groups
    BY <1>0, <1>8, ConvertTypes, TakeTypes
  <2> QED
    BY <2>1, <2>2 DEF PatternsTypeInv
<1>9. CASE Merged \/ UNCHANGED vars
  BY <1>9 DEF Merged, vars, ingestVars, patternVars, PatternsTypeInv, TokensOK
<1> QED
  BY <1>1, <1>2, <1>3, <1>4, <1>5, <1>6, <1>7, <1>8, <1>9 DEF Next, Split, Merge

LEMMA TypesStart == Init => PatternsTypeInv
<1> SUFFICES ASSUME Init PROVE PatternsTypeInv
  OBVIOUS
<1>1. /\ lines = << >> /\ DOMAIN groups = {} /\ pos = 0 /\ aside = << >>
      /\ work = Idle /\ todo = {} /\ classes = {} /\ phase = "ingest"
      /\ salt = [n \in Buckets |-> 0]
  BY DEF Init, IngestInit
<1>2. StoreInv
  BY <1>1, PatternsInitInv DEF StoreInv, RowsOnceInv
<1>3. TokensOK /\ work.ids \in Seq(GroupIds)
  BY <1>1 DEF TokensOK, Idle
<1> QED
  BY <1>1, <1>2, <1>3 DEF PatternsTypeInv

LEMMA TypesStay ==
  PatternsTypeInv /\ NewIdsFresh /\ [Next]_vars => PatternsTypeInv'
<1>1. StoreInv /\ NewIdsFresh /\ [Next]_vars => StoreInv'
  BY FreshWhenMerged, PatternsStepInv, RowsStep, LinesStep DEF StoreInv
<1> QED
  BY <1>1, TypesStep DEF PatternsTypeInv

(* Every variable keeps its type: the ids of groups, whatever the salts,   *)
(* the cursors, the groups aside, and the members of a class that waits    *)
(* are still in the map.                                                   *)
THEOREM PatternsTypeCorrect == Spec /\ []NewIdsFresh => []PatternsTypeOK
<1>1. Init => PatternsTypeInv
  BY TypesStart
<1>2. PatternsTypeInv /\ NewIdsFresh /\ [Next]_vars => PatternsTypeInv'
  BY TypesStay
<1>3. PatternsTypeInv => PatternsTypeOK
  <2> SUFFICES ASSUME PatternsTypeInv PROVE PatternsTypeOK
    OBVIOUS
  <2>1. PatternsInv /\ lines \in Seq(Lines)
    BY DEF PatternsTypeInv, StoreInv
  <2>2. IngestTypeOK
    BY <2>1 DEF PatternsTypeInv, PatternsInv, StoreOK, IngestInv, IngestTypeOK
  <2>3. /\ phase \in {"ingest", "split", "classify", "merge", "merged"}
        /\ work.token \in Nat \ {0} /\ work.member \in Nat \ {0}
        /\ todo \subseteq DOMAIN groups
    BY <2>1 DEF PatternsTypeInv, PatternsInv, IsWork
  <2>4. \A class \in classes : class.ids \subseteq DOMAIN groups
    BY <2>1 DEF PatternsTypeInv, PatternsInv, MergeOK, ClassOK
  <2>5. aside \in Seq([group : Groups, rows : Seq(Nat)])
    <3>1. << >> \in Seq([group : Groups, rows : Seq(Nat)])
      OBVIOUS
    <3> QED
      BY <2>1, <3>1 DEF PatternsInv, StoreOK
  <2>6. \A n \in DOMAIN aside : aside[n].group \in Groups /\ aside[n].rows \in Seq(Nat)
    <3>1. DOMAIN aside = 1 .. Len(aside)
      BY <2>5, LenProperties
    <3>2. \A n \in 1 .. Len(aside) : aside[n] \in [group : Groups, rows : Seq(Nat)]
      BY <2>5, ElementOfSeq
    <3> QED
      BY <3>1, <3>2
  <2> QED
    BY <2>2, <2>3, <2>4, <2>6 DEF PatternsTypeInv, PatternsTypeOK
<1> QED BY <1>1, <1>2, <1>3, PTL DEF Spec

-----------------------------------------------------------------------------
(* Every step comes nearer to the end.                                     *)

\* The ids that the token at the cursor of the split still has to move.
FrequentIds == {id \in 0 .. term_map.next_term_id - 1 : Frequent(id)}

TokensToSplit == Len(groups[SplitId].tokens) + 2 - work.token

TermsToMove ==
  IF work.token <= Len(groups[SplitId].tokens) THEN Cardinality(FrequentIds) ELSE 0

\* What is left to do: phases; lines, groups or classes; tokens, and one step
\* more at their end; terms to move or members; groups to put into the map.
ToGo ==
  CASE phase = "ingest" ->
         <<4, MaxLines - Len(lines), IF pos > 0 THEN Len(Current) + 2 - pos ELSE 0, 0, 0>>
    [] phase = "split" /\ work # Idle ->
         <<3, Cardinality(todo), TokensToSplit, TermsToMove, Len(aside)>>
    [] phase = "split" /\ work = Idle ->
         <<3, Cardinality(todo), 0, 0, Len(aside)>>
    [] phase = "classify" -> <<2, 0, 0, 0, 0>>
    [] phase = "merge" /\ work # Idle ->
         <<1, Cardinality(classes), Len(work.key) + 2 - work.token,
           Len(work.ids) + 1 - work.member, 0>>
    [] phase = "merge" /\ work = Idle -> <<1, Cardinality(classes), 0, 0, 0>>
    [] phase = "merged" -> <<0, 0, 0, 0, 0>>

\* The lexicographic order.
Less(a, b) == \E k \in 1 .. 5 : a[k] < b[k] /\ \A j \in 1 .. k - 1 : a[j] = b[j]

Nearer == Less(ToGo', ToGo)

\* Where the cursors of the loops may stand.
CursorsOK ==
  /\ phase = "ingest" => Len(lines) <= MaxLines
  /\ phase = "split" /\ work # Idle => work.token <= Len(groups[SplitId].tokens) + 1
  /\ phase = "merge" => IsFiniteSet(classes)
  /\ phase = "merge" /\ work # Idle =>
       /\ work.token <= Len(work.key) + 1
       /\ work.member <= Len(work.ids) + 1
       /\ work.token > Len(work.key) /\ aside = << >> => work.member = 1

LEMMA LessAt ==
  ASSUME NEW a1, NEW a2, NEW a3, NEW a4, NEW a5,
         NEW b1, NEW b2, NEW b3, NEW b4, NEW b5,
         \/ a1 < b1
         \/ a1 = b1 /\ a2 < b2
         \/ a1 = b1 /\ a2 = b2 /\ a3 < b3
         \/ a1 = b1 /\ a2 = b2 /\ a3 = b3 /\ a4 < b4
         \/ a1 = b1 /\ a2 = b2 /\ a3 = b3 /\ a4 = b4 /\ a5 < b5
  PROVE  Less(<<a1, a2, a3, a4, a5>>, <<b1, b2, b3, b4, b5>>)
<1> DEFINE a == <<a1, a2, a3, a4, a5>>
           b == <<b1, b2, b3, b4, b5>>
<1>1. /\ a[1] = a1 /\ a[2] = a2 /\ a[3] = a3 /\ a[4] = a4 /\ a[5] = a5
      /\ b[1] = b1 /\ b[2] = b2 /\ b[3] = b3 /\ b[4] = b4 /\ b[5] = b5
  OBVIOUS
<1>2. /\ 1 .. 1 - 1 = {} /\ 1 .. 2 - 1 = {1} /\ 1 .. 3 - 1 = {1, 2}
      /\ 1 .. 4 - 1 = {1, 2, 3} /\ 1 .. 5 - 1 = {1, 2, 3, 4}
      /\ 1 .. 5 = {1, 2, 3, 4, 5}
  OBVIOUS
<1> HIDE DEF a, b
<1>3. \E k \in {1, 2, 3, 4, 5} : a[k] < b[k] /\ \A j \in 1 .. k - 1 : a[j] = b[j]
  <2>1. CASE a1 < b1
    BY <1>1, <1>2, <2>1
  <2>2. CASE a1 = b1 /\ a2 < b2
    BY <1>1, <1>2, <2>2
  <2>3. CASE a1 = b1 /\ a2 = b2 /\ a3 < b3
    BY <1>1, <1>2, <2>3
  <2>4. CASE a1 = b1 /\ a2 = b2 /\ a3 = b3 /\ a4 < b4
    BY <1>1, <1>2, <2>4
  <2>5. CASE a1 = b1 /\ a2 = b2 /\ a3 = b3 /\ a4 = b4 /\ a5 < b5
    BY <1>1, <1>2, <2>5
  <2> QED
    BY <2>1, <2>2, <2>3, <2>4, <2>5
<1> QED
  BY <1>2, <1>3 DEF Less, a, b

LEMMA LeastAt ==
  ASSUME NEW T \in SUBSET [1 .. 5 -> Nat], T # {}, NEW k \in 1 .. 5
  PROVE  \E x \in T : \A y \in T : x[k] <= y[k]
<1> DEFINE At == {x[k] : x \in T}
<1>1. At \in SUBSET Nat /\ At # {}
  OBVIOUS
<1>2. PICK n \in At : \A m \in At : n <= m
  <2> HIDE DEF At
  <2> QED
    BY <1>1, LeastElement
<1> QED
  BY <1>2

(* The order is well-founded: what is left to do cannot decrease for ever. *)
THEOREM LessIsWellFounded ==
  ASSUME NEW T \in SUBSET [1 .. 5 -> Nat], T # {}
  PROVE  \E x \in T : \A y \in T : ~Less(y, x)
<1>0. 1 \in 1 .. 5 /\ 2 \in 1 .. 5 /\ 3 \in 1 .. 5 /\ 4 \in 1 .. 5 /\ 5 \in 1 .. 5
  OBVIOUS
<1>1. PICK a \in T : \A y \in T : a[1] <= y[1]
  BY <1>0, LeastAt
<1> DEFINE T1 == {x \in T : x[1] = a[1]}
<1>2. PICK b \in T1 : \A y \in T1 : b[2] <= y[2]
  <2>1. T1 \in SUBSET [1 .. 5 -> Nat] /\ T1 # {}
    OBVIOUS
  <2> HIDE DEF T1
  <2> QED
    BY <1>0, <2>1, LeastAt
<1> DEFINE T2 == {x \in T1 : x[2] = b[2]}
<1>3. PICK c \in T2 : \A y \in T2 : c[3] <= y[3]
  <2>1. T2 \in SUBSET [1 .. 5 -> Nat] /\ T2 # {}
    OBVIOUS
  <2> HIDE DEF T2
  <2> QED
    BY <1>0, <2>1, LeastAt
<1> DEFINE T3 == {x \in T2 : x[3] = c[3]}
<1>4. PICK d \in T3 : \A y \in T3 : d[4] <= y[4]
  <2>1. T3 \in SUBSET [1 .. 5 -> Nat] /\ T3 # {}
    OBVIOUS
  <2> HIDE DEF T3
  <2> QED
    BY <1>0, <2>1, LeastAt
<1> DEFINE T4 == {x \in T3 : x[4] = d[4]}
<1>5. PICK e \in T4 : \A y \in T4 : e[5] <= y[5]
  <2>1. T4 \in SUBSET [1 .. 5 -> Nat] /\ T4 # {}
    OBVIOUS
  <2> HIDE DEF T4
  <2> QED
    BY <1>0, <2>1, LeastAt
<1>6. /\ e \in T /\ e[1] = a[1] /\ e[2] = b[2] /\ e[3] = c[3] /\ e[4] = d[4]
      /\ e \in [1 .. 5 -> Nat]
  OBVIOUS
<1>7. ASSUME NEW y \in T, Less(y, e) PROVE FALSE
  <2>1. PICK k \in 1 .. 5 : y[k] < e[k] /\ \A j \in 1 .. k - 1 : y[j] = e[j]
    BY <1>7 DEF Less
  <2>2. y[k] \in Nat /\ e[k] \in Nat
    BY <1>6
  <2>3. e[k] <= y[k]
    <3>1. CASE k = 1
      BY <1>1, <1>6, <3>1
    <3>2. CASE k = 2
      <4>1. y[1] = e[1]
        BY <2>1, <3>2
      <4> QED
        BY <1>2, <1>6, <3>2, <4>1
    <3>3. CASE k = 3
      <4>1. y[1] = e[1] /\ y[2] = e[2]
        BY <2>1, <3>3
      <4> QED
        BY <1>3, <1>6, <3>3, <4>1
    <3>4. CASE k = 4
      <4>1. y[1] = e[1] /\ y[2] = e[2] /\ y[3] = e[3]
        BY <2>1, <3>4
      <4> QED
        BY <1>4, <1>6, <3>4, <4>1
    <3>5. CASE k = 5
      <4>1. y[1] = e[1] /\ y[2] = e[2] /\ y[3] = e[3] /\ y[4] = e[4]
        BY <2>1, <3>5
      <4> QED
        BY <1>5, <1>6, <3>5, <4>1
    <3> QED
      BY <3>1, <3>2, <3>3, <3>4, <3>5
  <2> QED
    BY <2>1, <2>2, <2>3
<1> QED
  BY <1>6, <1>7

\* remove_rows does not make a term more frequent in a column.
LEMMA RetainedRows ==
  ASSUME NEW column \in Seq(Nat), NEW keep \in SUBSET (1 .. Len(column)), NEW id
  PROVE  LET kept == RetainRows(column, keep)
         IN  /\ Cardinality(RowsWith(column, id)) \in Nat
             /\ Cardinality(RowsWith(kept, id)) \in Nat
             /\ Cardinality(RowsWith(kept, id)) <= Cardinality(RowsWith(column, id))
             /\ (\A r \in keep : column[r] # id) => Cardinality(RowsWith(kept, id)) = 0
<1> DEFINE kept == RetainRows(column, keep)
           new  == RowsWith(kept, id)
           old  == RowsWith(column, id)
           f    == [n \in new |-> NthOf(keep, n)]
<1>1. /\ Cardinality(keep) \in Nat /\ Len(kept) = Cardinality(keep)
      /\ \A n \in 1 .. Cardinality(keep) :
           /\ NthOf(keep, n) \in keep
           /\ kept[n] = column[NthOf(keep, n)]
  BY RetainFacts
<1>2. \A a, b \in 1 .. Cardinality(keep) : NthOf(keep, a) = NthOf(keep, b) => a = b
  <2>1. Len(column) \in Nat
    OBVIOUS
  <2> QED
    BY <2>1, NthOnto
<1> HIDE DEF kept
<1>3. \A n \in new : /\ n \in 1 .. Cardinality(keep) /\ NthOf(keep, n) \in keep
                     /\ column[NthOf(keep, n)] = id
  BY <1>1 DEF RowsWith
<1>4. \A n \in new : NthOf(keep, n) \in old
  BY <1>3 DEF RowsWith
<1>5. f \in Injection(new, old)
  <2> HIDE DEF new, old
  <2>1. f \in [new -> old]
    BY <1>4
  <2>2. \A a, b \in new : f[a] = f[b] => a = b
    BY <1>2, <1>3
  <2> HIDE DEF f
  <2> QED
    BY <2>1, <2>2 DEF Injection, IsInjective
<1>6. IsFiniteSet(old) /\ Cardinality(old) \in Nat
  <2>1. old \in SUBSET (1 .. Len(column)) /\ IsFiniteSet(1 .. Len(column))
    BY FS_Interval DEF RowsWith
  <2> QED
    BY <2>1, FS_Subset, FS_CardinalityType
<1>7. IsFiniteSet(new) /\ Cardinality(new) \in Nat
  <2>1. new \in SUBSET (1 .. Cardinality(keep)) /\ IsFiniteSet(1 .. Cardinality(keep))
    BY <1>1, FS_Interval DEF RowsWith
  <2> QED
    BY <2>1, FS_Subset, FS_CardinalityType
<1>8. Cardinality(new) <= Cardinality(old)
  <2> HIDE DEF new, old, f
  <2> QED
    BY <1>5, <1>6, <1>7, FS_Injection
<1>9. ASSUME \A r \in keep : column[r] # id PROVE Cardinality(new) = 0
  <2>1. new = {}
    BY <1>3, <1>9
  <2> QED
    BY <2>1, FS_EmptySet
<1> HIDE DEF new, old
<1> QED
  BY <1>6, <1>7, <1>8, <1>9 DEF kept, new, old

\* A step of the first pass takes in a line or a token of it.
LEMMA IngestNearer ==
  ASSUME PatternsInv, CursorsOK, Ingest
  PROVE  CursorsOK' /\ Nearer
<1>1. /\ phase = "ingest" /\ phase' = "ingest" /\ IngestNext /\ IngestInv
  BY DEF Ingest, patternVars, PatternsInv
<1>2. /\ lines \in Seq(Lines) /\ Len(lines) \in Nat /\ MaxLines \in Nat /\ pos \in Nat
      /\ Len(lines) <= MaxLines
      /\ pos > 0 => /\ Len(lines) > 0 /\ pos <= Len(Current) + 1
                    /\ Len(Current) \in Nat
                    /\ Len(CurrentGroup.tokens) = Len(Current)
  <2>1. /\ lines \in Seq(Lines) /\ pos \in Nat /\ PushInRange /\ GroupsMatchLines
    BY <1>1 DEF IngestInv, IngestTypeOK
  <2>2. ASSUME pos > 0
        PROVE  Len(Current) \in Nat /\ Len(CurrentGroup.tokens) = Len(Current)
    <3>1. Len(lines) > 0 /\ CurrentId \in DOMAIN groups
      BY <2>1, <2>2 DEF PushInRange
    <3>2. Current \in Lines
      BY <2>1, <3>1, ElementOfSeq DEF Current
    <3>3. Len(groups[CurrentId].tokens) = CurrentId.num_tokens
      BY <2>1, <3>1 DEF GroupsMatchLines
    <3> QED
      BY <3>2, <3>3, LineFacts DEF CurrentGroup, CurrentId, GroupIdOf
  <2> QED
    BY <1>1, <2>1, <2>2, LinesAssumption DEF PushInRange, CursorsOK, LinesAssumption
<1>3. ASSUME NEW line \in Lines, OpenGroup(line) \/ BeginPush(line)
      PROVE  CursorsOK' /\ Nearer
  <2>1. /\ lines' = Append(lines, line) /\ Len(lines) < MaxLines
    BY <1>3 DEF OpenGroup, BeginPush
  <2>2. Len(lines') = Len(lines) + 1
    BY <1>2, <2>1
  <2>3. CursorsOK'
    BY <1>1, <1>2, <2>1, <2>2 DEF CursorsOK
  <2> QED
    BY <1>1, <1>2, <2>1, <2>2, <2>3, LessAt DEF Nearer, ToGo
<1>4. CASE PushSameConstant \/ PushNewVariable \/ PushToColumn
  <2>1. /\ lines' = lines /\ pos > 0 /\ pos' = pos + 1 /\ pos <= Len(CurrentGroup.tokens)
    BY <1>4 DEF PushSameConstant, PushNewVariable, PushToColumn, AtToken
  <2>2. CursorsOK'
    BY <1>1, <1>2, <2>1 DEF CursorsOK
  <2> QED
    BY <1>1, <1>2, <2>1, <2>2, LessAt, SMTT(30) DEF Nearer, ToGo, Current
<1>5. CASE EndPush
  <2>1. /\ lines' = lines /\ pos > 0 /\ pos' = 0
    BY <1>5 DEF EndPush
  <2>2. CursorsOK'
    BY <1>1, <1>2, <2>1 DEF CursorsOK
  <2> QED
    BY <1>1, <1>2, <2>1, <2>2, LessAt, SMTT(30) DEF Nearer, ToGo, Current
<1> QED
  BY <1>1, <1>3, <1>4, <1>5 DEF IngestNext

\* What the split of a group sees at its cursor.
LEMMA SplitFacts ==
  ASSUME PatternsInv, CursorsOK, phase = "split", work # Idle
  PROVE  /\ StoreOK /\ SplitId \in DOMAIN groups /\ groups[SplitId] \in Groups
         /\ work.token \in Nat \ {0} /\ Len(groups[SplitId].tokens) \in Nat
         /\ work.token <= Len(groups[SplitId].tokens) + 1
         /\ \A c \in 1 .. Len(groups[SplitId].columns) :
              Len(groups[SplitId].columns[c]) = groups[SplitId].num_docs
         /\ work.token <= Len(groups[SplitId].tokens) /\ IsVariable(SplitToken) =>
              /\ SplitToken.column_index \in 1 .. Len(groups[SplitId].columns)
              /\ groups[SplitId].columns[SplitToken.column_index] \in Seq(Nat)
              /\ Len(groups[SplitId].columns[SplitToken.column_index])
                   = groups[SplitId].num_docs
<1>1. /\ StoreOK /\ IsWork(work) /\ SplitId \in DOMAIN groups
      /\ work.token <= Len(groups[SplitId].tokens) + 1
  BY DEF PatternsInv, CursorsOK, SplitId
<1>2. GroupOK(groups[SplitId], term_map, lines, origin[SplitId])
  BY <1>1 DEF StoreOK
<1>3. /\ groups[SplitId] \in Groups /\ Len(groups[SplitId].tokens) \in Nat
      /\ work.token \in Nat \ {0}
  BY <1>1, <1>2, GroupFields DEF GroupOK, IsWork
<1>4. ASSUME work.token <= Len(groups[SplitId].tokens), IsVariable(SplitToken)
      PROVE  /\ SplitToken.column_index \in 1 .. Len(groups[SplitId].columns)
             /\ groups[SplitId].columns[SplitToken.column_index] \in Seq(Nat)
             /\ Len(groups[SplitId].columns[SplitToken.column_index])
                  = groups[SplitId].num_docs
  <2>1. work.token \in 1 .. Len(groups[SplitId].tokens)
    BY <1>3, <1>4
  <2>2. IsVariable(groups[SplitId].tokens[work.token])
    BY <1>4 DEF SplitToken
  <2> QED
    BY <1>2, <2>1, <2>2, CellFacts DEF GroupOK, SplitToken
<1> QED
  BY <1>1, <1>2, <1>3, <1>4 DEF GroupOK

\* The frequent ids are finitely many.
LEMMA FrequentFinite ==
  ASSUME term_map \in TermMaps
  PROVE  IsFiniteSet(FrequentIds) /\ Cardinality(FrequentIds) \in Nat
<1>1. term_map.next_term_id \in Nat
  BY DEF TermMaps
<1>2. IsFiniteSet(0 .. term_map.next_term_id - 1)
  BY <1>1, FS_Interval
<1>3. FrequentIds \in SUBSET (0 .. term_map.next_term_id - 1)
  BY DEF FrequentIds
<1> QED
  BY <1>2, <1>3, FS_Subset, FS_CardinalityType

\* move_term_id_to_new_group: the term is not frequent any more in what is
\* left of the group, and no other has become it.
LEMMA MoveTermFrequents ==
  ASSUME PatternsInv, CursorsOK, NEW id \in 0 .. term_map.next_term_id - 1,
         NEW text \in Texts, MoveTerm(id, text)
  PROVE  /\ groups'[SplitId].tokens = groups[SplitId].tokens
         /\ FrequentIds' \subseteq FrequentIds \ {id}
<1> DEFINE group  == groups[SplitId]
           c      == SplitToken.column_index
           column == group.columns[c]
           kept   == 1 .. group.num_docs \ RowsWith(column, id)
<1>1. /\ phase = "split" /\ work # Idle /\ Frequent(id)
      /\ work.token <= Len(group.tokens)
      /\ groups' = [groups EXCEPT ![SplitId] = RemoveRows(group, kept)]
      /\ term_map' = term_map /\ work' = work
  BY DEF MoveTerm, Splitting
<1>2. /\ SplitId \in DOMAIN groups /\ group \in Groups
      /\ \A d \in 1 .. Len(group.columns) : Len(group.columns[d]) = group.num_docs
      /\ c \in 1 .. Len(group.columns) /\ column \in Seq(Nat)
      /\ Len(column) = group.num_docs
      /\ groups \in [DOMAIN groups -> Groups] /\ SplitThreshold \in Nat
  BY <1>1, SplitFacts, PatternsAssumption DEF Frequent, StoreOK, PatternsAssumption
<1>3. SplitId' = SplitId /\ groups'[SplitId] = RemoveRows(group, kept)
  BY <1>1, <1>2 DEF SplitId
<1>4. kept \in SUBSET (1 .. group.num_docs)
  OBVIOUS
<1>5. \A r \in kept : column[r] # id
  BY <1>2 DEF RowsWith
<1> HIDE DEF kept, c, group
<1>6. /\ groups'[SplitId].tokens = group.tokens
      /\ groups'[SplitId].columns[c] = RetainRows(column, kept)
  BY <1>2, <1>3, <1>4, RemoveRowsFields
<1>7. SplitToken' = SplitToken
  BY <1>1, <1>3, <1>6 DEF SplitToken, group
<1>8. groups[SplitId].columns[SplitToken.column_index] = column
  BY DEF group, c
<1>9. groups'[SplitId'].columns[SplitToken'.column_index] = RetainRows(column, kept)
  BY <1>3, <1>6, <1>7 DEF c
<1>10. ASSUME NEW j \in FrequentIds' PROVE j \in FrequentIds /\ j # id
  <2>1. /\ j \in 0 .. term_map.next_term_id - 1 /\ IsVariable(SplitToken)
        /\ Cardinality(RowsWith(RetainRows(column, kept), j)) > SplitThreshold
    BY <1>1, <1>7, <1>9 DEF FrequentIds, Frequent
  <2>2. /\ Cardinality(RowsWith(column, j)) \in Nat
        /\ Cardinality(RowsWith(RetainRows(column, kept), j)) \in Nat
        /\ Cardinality(RowsWith(RetainRows(column, kept), j))
             <= Cardinality(RowsWith(column, j))
        /\ (\A r \in kept : column[r] # j) =>
             Cardinality(RowsWith(RetainRows(column, kept), j)) = 0
    <3> HIDE DEF column
    <3> QED
      BY <1>2, <1>4, RetainedRows
  <2>3. Cardinality(RowsWith(column, j)) > SplitThreshold
    BY <1>2, <2>1, <2>2
  <2>4. j # id
    BY <1>2, <1>5, <2>1, <2>2
  <2> QED
    BY <1>8, <2>1, <2>3, <2>4 DEF FrequentIds, Frequent
<1> QED
  BY <1>6, <1>10 DEF group

\* A step of split_templates finishes a group, a token or a term of it, or
\* takes in one of the new groups.
LEMMA SplitNearer ==
  ASSUME PatternsInv, CursorsOK, Split
  PROVE  CursorsOK' /\ Nearer
<1>1. /\ phase = "split" /\ StoreOK /\ IsWork(work) /\ todo \subseteq DOMAIN groups
  BY DEF Split, SplitGroup, MoveTerm, SplitNextToken, SplitGroupDone, Splitting,
         InsertSplitGroup, EndSplit, PatternsInv
<1>2. /\ IsFiniteSet(todo) /\ Cardinality(todo) \in Nat
      /\ aside \in Seq([group : Groups, rows : Seq(Nat)]) /\ Len(aside) \in Nat
      /\ term_map \in TermMaps /\ Cardinality(FrequentIds) \in Nat
      /\ work.token \in Nat \ {0}
  BY <1>1, FS_Subset, FS_CardinalityType, FrequentFinite DEF StoreOK, IsWork
<1>3. ASSUME NEW g \in todo, SplitGroup(g)
      PROVE  CursorsOK' /\ Nearer
  <2>1. /\ phase' = "split" /\ work = Idle /\ todo' = todo \ {g}
        /\ work' = [Idle EXCEPT !.ids = <<g>>] /\ groups' = groups
    BY <1>1, <1>3 DEF SplitGroup, ingestVars
  <2>2. Cardinality(todo') < Cardinality(todo)
    <3>1. Cardinality(todo') = Cardinality(todo) - 1
      BY <1>2, <2>1, FS_RemoveElement
    <3> QED
      BY <1>2, <3>1
  <2>3. work'.ids[1] = g /\ work'.token = 1 /\ work' # Idle
    BY <2>1 DEF Idle
  <2>4. Len(groups[g].tokens) \in Nat
    BY <1>1, GroupFields DEF StoreOK
  <2>5. CursorsOK'
    BY <2>1, <2>3, <2>4 DEF CursorsOK, SplitId
  <2> HIDE DEF Idle
  <2> QED
    BY <1>1, <2>1, <2>2, <2>3, <2>5, LessAt DEF Nearer, ToGo
<1>4. ASSUME NEW id \in 0 .. term_map.next_term_id - 1, NEW text \in Texts,
             MoveTerm(id, text)
      PROVE  CursorsOK' /\ Nearer
  <2>1. /\ phase' = "split" /\ work # Idle /\ todo' = todo /\ work' = work
        /\ work.token <= Len(groups[SplitId].tokens) /\ Frequent(id)
        /\ term_map' = term_map
    BY <1>1, <1>4 DEF MoveTerm, Splitting
  <2>2. /\ groups'[SplitId].tokens = groups[SplitId].tokens
        /\ FrequentIds' \subseteq FrequentIds \ {id}
    BY <1>4, MoveTermFrequents
  <2>3. Cardinality(FrequentIds') < Cardinality(FrequentIds)
    <3>1. IsFiniteSet(FrequentIds) /\ id \in FrequentIds
      BY <1>2, <2>1, FrequentFinite DEF FrequentIds
    <3>2. /\ IsFiniteSet(FrequentIds \ {id})
          /\ Cardinality(FrequentIds \ {id}) = Cardinality(FrequentIds) - 1
      BY <3>1, FS_RemoveElement
    <3>3. /\ Cardinality(FrequentIds') <= Cardinality(FrequentIds \ {id})
          /\ IsFiniteSet(FrequentIds')
      BY <2>2, <3>2, FS_Subset
    <3>4. Cardinality(FrequentIds') \in Nat
      BY <3>3, FS_CardinalityType
    <3> QED
      BY <1>2, <3>2, <3>3, <3>4
  <2>4. SplitId' = SplitId
    BY <2>1 DEF SplitId
  <2>5. CursorsOK' /\ TokensToSplit' = TokensToSplit
    BY <1>1, <2>1, <2>2, <2>4 DEF CursorsOK, TokensToSplit
  <2>6. TermsToMove' < TermsToMove
    BY <2>1, <2>2, <2>3, <2>4 DEF TermsToMove
  <2> QED
    BY <1>1, <2>1, <2>5, <2>6, LessAt DEF Nearer, ToGo
<1>5. CASE SplitNextToken
  <2>1. /\ phase' = "split" /\ work # Idle /\ todo' = todo /\ groups' = groups
        /\ work' = [work EXCEPT !.token = work.token + 1]
        /\ work.token <= Len(groups[SplitId].tokens)
    BY <1>1, <1>5 DEF SplitNextToken, Splitting, ingestVars
  <2>2. work'.token = work.token + 1 /\ work'.ids = work.ids
    BY <1>1, <2>1 DEF IsWork
  <2>3. work' # Idle
    BY <1>2, <2>2 DEF Idle
  <2>4. Len(groups[SplitId].tokens) \in Nat
    BY <1>1, <2>1, SplitFacts
  <2>5. CursorsOK' /\ TokensToSplit' < TokensToSplit
    <3>1. SplitId' = SplitId
      BY <2>2 DEF SplitId
    <3>2. groups'[SplitId'].tokens = groups[SplitId].tokens
      BY <2>1, <3>1
    <3>3. work.token + 1 <= Len(groups[SplitId].tokens) + 1
      BY <1>2, <2>1, <2>4
    <3>4. CursorsOK'
      BY <2>1, <2>2, <3>2, <3>3 DEF CursorsOK
    <3>5. TokensToSplit' = Len(groups[SplitId].tokens) + 2 - (work.token + 1)
      BY <2>2, <3>2 DEF TokensToSplit
    <3> QED
      BY <1>2, <2>4, <3>4, <3>5, SMTT(30) DEF TokensToSplit
  <2> QED
    BY <1>1, <2>1, <2>3, <2>5, LessAt DEF Nearer, ToGo
<1>6. CASE SplitGroupDone
  <2>1. /\ phase' = "split" /\ work # Idle /\ todo' = todo /\ work' = Idle
        /\ work.token > Len(groups[SplitId].tokens)
    BY <1>1, <1>6 DEF SplitGroupDone, Splitting
  <2>2. CursorsOK'
    BY <2>1 DEF CursorsOK
  <2>3. 0 < TokensToSplit
    BY <1>1, <2>1, SplitFacts DEF TokensToSplit
  <2> QED
    BY <1>1, <2>1, <2>2, <2>3, LessAt DEF Nearer, ToGo
<1>7. CASE InsertSplitGroup
  <2>1. /\ phase' = "split" /\ work = Idle /\ todo' = todo /\ work' = Idle
        /\ aside # << >> /\ aside' = Tail(aside)
    BY <1>1, <1>7 DEF InsertSplitGroup, InsertNewGroup
  <2>2. Len(aside') < Len(aside)
    BY <1>2, <2>1
  <2>3. CursorsOK'
    BY <2>1 DEF CursorsOK
  <2> QED
    BY <1>1, <2>1, <2>2, <2>3, LessAt DEF Nearer, ToGo
<1>8. CASE EndSplit
  <2>1. phase' = "classify" /\ work = Idle
    BY <1>8 DEF EndSplit
  <2>2. CursorsOK'
    BY <2>1 DEF CursorsOK
  <2> QED
    BY <1>1, <2>1, <2>2, LessAt DEF Nearer, ToGo
<1> QED
  BY <1>3, <1>4, <1>5, <1>6, <1>7, <1>8 DEF Split

\* Every class of the merge is one of finitely many.
LEMMA ClassesFinite ==
  ASSUME IsFiniteSet(DOMAIN groups), Classify
  PROVE  IsFiniteSet(classes')
<1> DEFINE Class(g) == [key |-> MergeKey(groups[g]),
                        ids |-> {h \in DOMAIN groups :
                                   MergeKey(groups[h]) = MergeKey(groups[g])}]
           f == [g \in DOMAIN groups |-> Class(g)]
<1>1. classes' \in SUBSET {Class(g) : g \in DOMAIN groups}
  BY DEF Classify
<1> HIDE DEF Class
<1>2. f \in Surjection(DOMAIN groups, {Class(g) : g \in DOMAIN groups})
  BY DEF Surjection
<1>3. IsFiniteSet({Class(g) : g \in DOMAIN groups})
  <2> HIDE DEF f
  <2> QED
    BY <1>2, FS_Surjection
<1> QED
  BY <1>1, <1>3, FS_Subset

\* A step of merge_templates finishes a class, a token or a member of it.
LEMMA MergeNearer ==
  ASSUME PatternsInv, CursorsOK, Merge
  PROVE  CursorsOK' /\ Nearer
<1>1. CASE Classify
  <2>1. /\ phase = "classify" /\ phase' = "merge" /\ work' = work /\ work = Idle
        /\ IsFiniteSet(DOMAIN groups)
    BY <1>1 DEF Classify, PatternsInv, StoreOK
  <2>2. CursorsOK'
    BY <1>1, <2>1, ClassesFinite DEF CursorsOK
  <2> QED
    BY <2>1, <2>2, LessAt DEF Nearer, ToGo
<1>2. ASSUME phase = "merge"
      PROVE  /\ StoreOK /\ IsWork(work) /\ MergeOK /\ IsFiniteSet(classes)
             /\ Cardinality(classes) \in Nat
             /\ work # Idle =>
                  /\ MembersOK /\ AsideOK
                  /\ Len(work.ids) \in Nat \ {0} /\ Len(work.key) \in Nat
                  /\ work.token \in Nat \ {0} /\ work.member \in Nat \ {0}
                  /\ work.token <= Len(work.key) + 1
                  /\ work.member <= Len(work.ids) + 1
  BY <1>2, FS_CardinalityType DEF PatternsInv, MergeOK, MembersOK, IsWork, CursorsOK
<1>3. ASSUME NEW class \in classes, NEW ids \in SetToSeqs(class.ids), StartMerge(class, ids)
      PROVE  CursorsOK' /\ Nearer
  <2>1. /\ phase = "merge" /\ phase' = "merge" /\ work = Idle
        /\ work' = [Idle EXCEPT !.ids = ids, !.key = class.key]
        /\ classes' = classes \ {class} /\ groups' = groups
    BY <1>3 DEF StartMerge, ingestVars
  <2>2. /\ IsFiniteSet(classes') /\ Cardinality(classes') < Cardinality(classes)
    <3>1. IsFiniteSet(classes') /\ Cardinality(classes') = Cardinality(classes) - 1
      BY <1>2, <2>1, FS_RemoveElement
    <3> QED
      BY <1>2, <2>1, <3>1
  <2>3. /\ work'.ids = ids /\ work'.key = class.key
        /\ work'.token = 1 /\ work'.member = 1
    BY <2>1 DEF Idle
  <2>4. PatternsInv'
    BY <1>3, StartMergeKeepsInv
  <2>5. work' # Idle => Len(work'.key) \in Nat /\ Len(work'.ids) \in Nat
    BY <2>1, <2>4 DEF PatternsInv, MergeOK, MembersOK
  <2>6. CursorsOK'
    BY <2>1, <2>2, <2>3, <2>5 DEF CursorsOK
  <2> HIDE DEF Idle
  <2> QED
    BY <2>1, <2>2, <2>6, LessAt DEF Nearer, ToGo
<1>4. CASE ConvertMember \/ ConvertNextToken \/ TakeFirst \/ AppendMember
  <2>1. /\ phase = "merge" /\ phase' = "merge" /\ work # Idle /\ classes' = classes
    BY <1>4 DEF ConvertMember, ConvertNextToken, Converting, TakeFirst, AppendMember,
                Appending, Merging
  <2>2. \A token, member :
          LET w == [work EXCEPT !.token = token, !.member = member]
          IN  /\ w.ids = work.ids /\ w.key = work.key
              /\ w.token = token /\ w.member = member
    BY <1>2, <2>1 DEF IsWork
  <2>3. work = [work EXCEPT !.token = work.token]
    BY <1>2, <2>1 DEF IsWork
  <2>4. \A member :
          LET w == [work EXCEPT !.member = member]
          IN  /\ w.ids = work.ids /\ w.key = work.key
              /\ w.token = work.token /\ w.member = member
    BY <1>2, <2>1 DEF IsWork
  <2>5. \/ /\ work'.token = work.token /\ work'.member = work.member + 1
           /\ work.member <= Len(work.ids)
           /\ work.token <= Len(work.key) \/ aside' # << >>
        \/ work'.token = work.token + 1 /\ work'.member = 1 /\ work.token <= Len(work.key)
    <3>1. CASE ConvertMember
      BY <2>4, <3>1 DEF ConvertMember, Converting
    <3>2. CASE ConvertNextToken
      BY <2>2, <3>2 DEF ConvertNextToken, Converting
    <3>3. CASE TakeFirst
      <4>1. work.token > Len(work.key) /\ aside = << >> /\ aside' # << >>
        BY <3>3 DEF TakeFirst, Appending
      <4>2. work.member = 1
        BY <2>1, <4>1 DEF CursorsOK
      <4> QED
        BY <1>2, <2>1, <2>4, <3>3, <4>1, <4>2 DEF TakeFirst
    <3>4. CASE AppendMember
      BY <2>4, <3>4 DEF AppendMember
    <3> QED
      BY <1>4, <3>1, <3>2, <3>3, <3>4
  <2>6. work'.ids = work.ids /\ work'.key = work.key
    <3>1. CASE ConvertMember \/ TakeFirst \/ AppendMember
      BY <2>4, <3>1 DEF ConvertMember, TakeFirst, AppendMember
    <3>2. CASE ConvertNextToken
      BY <2>2, <3>2 DEF ConvertNextToken
    <3> QED
      BY <1>4, <3>1, <3>2
  <2>7. work' # Idle
    BY <1>2, <2>1, <2>6, BusyFacts
  <2>8. CursorsOK'
    BY <1>2, <2>1, <2>5, <2>6 DEF CursorsOK
  <2>9. ToGo = <<1, Cardinality(classes), Len(work.key) + 2 - work.token,
                 Len(work.ids) + 1 - work.member, 0>>
    BY <2>1 DEF ToGo
  <2>10. ToGo' = <<1, Cardinality(classes), Len(work.key) + 2 - work'.token,
                   Len(work.ids) + 1 - work'.member, 0>>
    BY <2>1, <2>6, <2>7 DEF ToGo
  <2>11. \/ Len(work.key) + 2 - work'.token < Len(work.key) + 2 - work.token
         \/ /\ Len(work.key) + 2 - work'.token = Len(work.key) + 2 - work.token
            /\ Len(work.ids) + 1 - work'.member < Len(work.ids) + 1 - work.member
    <3>1. \A a, b \in Nat : /\ a + 2 - (b + 1) < a + 2 - b
                            /\ a + 1 - (b + 1) < a + 1 - b
      OBVIOUS
    <3>2. CASE work'.token = work.token /\ work'.member = work.member + 1
      BY <1>2, <2>1, <3>1, <3>2
    <3>3. CASE work'.token = work.token + 1
      BY <1>2, <2>1, <3>1, <3>3
    <3> QED
      BY <2>5, <3>2, <3>3
  <2> QED
    BY <2>8, <2>9, <2>10, <2>11, LessAt DEF Nearer
<1>5. CASE InsertMerged
  <2>1. /\ phase = "merge" /\ phase' = "merge" /\ work # Idle /\ work' = Idle
        /\ classes' = classes
    BY <1>5 DEF InsertMerged, Appending, Merging
  <2>2. CursorsOK'
    BY <1>2, <2>1 DEF CursorsOK
  <2>3. 0 < Len(work.key) + 2 - work.token
    BY <1>2, <2>1
  <2> QED
    BY <2>1, <2>2, <2>3, LessAt DEF Nearer, ToGo
<1>6. CASE EndMerge
  <2>1. /\ phase = "merge" /\ phase' = "merged" /\ work = Idle
    BY <1>6 DEF EndMerge
  <2>2. CursorsOK'
    BY <2>1 DEF CursorsOK
  <2> QED
    BY <2>1, <2>2, LessAt DEF Nearer, ToGo
<1> QED
  BY <1>1, <1>3, <1>4, <1>5, <1>6 DEF Merge

LEMMA EndOfInputNearer ==
  ASSUME PatternsInv, CursorsOK, NEW split \in BOOLEAN, EndOfInput(split)
  PROVE  CursorsOK' /\ Nearer
<1>1. /\ phase = "ingest" /\ phase' \in {"split", "classify"}
      /\ work = Idle /\ work' = Idle
      /\ todo' \subseteq DOMAIN groups /\ aside' = aside
  BY DEF EndOfInput, PatternsInv
<1>2. CursorsOK'
  BY <1>1 DEF CursorsOK
<1> QED
  BY <1>1, <1>2, LessAt DEF Nearer, ToGo

LEMMA CursorsStart == Init => CursorsOK
<1> SUFFICES ASSUME Init PROVE CursorsOK
  OBVIOUS
<1>1. phase = "ingest" /\ lines = << >>
  BY DEF Init, IngestInit
<1>2. Len(lines) <= MaxLines
  BY <1>1, LinesAssumption DEF LinesAssumption
<1> QED
  BY <1>1, <1>2 DEF CursorsOK

LEMMA NearerStep ==
  PatternsInv /\ CursorsOK /\ [Next]_vars => CursorsOK' /\ (vars' # vars => Nearer)
<1> SUFFICES ASSUME PatternsInv, CursorsOK, [Next]_vars
             PROVE  CursorsOK' /\ (vars' # vars => Nearer)
  OBVIOUS
<1>1. CASE \E split \in BOOLEAN : EndOfInput(split)
  BY <1>1, EndOfInputNearer
<1>2. CASE Merged \/ UNCHANGED vars
  <2>1. UNCHANGED vars
    BY <1>2 DEF Merged
  <2> QED
    BY <2>1 DEF CursorsOK, SplitId, vars, ingestVars, patternVars
<1> QED
  BY <1>1, <1>2, IngestNearer, SplitNearer, MergeNearer DEF Next

\* What is left to do is counted in natural numbers.
LEMMA ToGoNat ==
  ASSUME PatternsInv, CursorsOK
  PROVE  ToGo \in [1 .. 5 -> Nat]
<1>0. \A a, b, c, d, e \in Nat : <<a, b, c, d, e>> \in [1 .. 5 -> Nat]
  OBVIOUS
<1>1. CASE phase = "ingest"
  <2>1. /\ lines \in Seq(Lines) /\ pos \in Nat /\ PushInRange /\ MaxLines \in Nat
        /\ Len(lines) <= MaxLines
    BY <1>1, LinesAssumption DEF PatternsInv, IngestInv, IngestTypeOK, CursorsOK, LinesAssumption
  <2>2. pos > 0 => Len(Current) \in Nat
    <3> SUFFICES ASSUME pos > 0 PROVE Len(Current) \in Nat
      OBVIOUS
    <3>1. Current \in Lines
      BY <2>1, ElementOfSeq DEF Current, PushInRange
    <3> QED
      BY <3>1, LineFacts
  <2>3. /\ MaxLines - Len(lines) \in Nat
        /\ (IF pos > 0 THEN Len(Current) + 2 - pos ELSE 0) \in Nat
    BY <2>1, <2>2 DEF PushInRange
  <2>4. ToGo = <<4, MaxLines - Len(lines), IF pos > 0 THEN Len(Current) + 2 - pos ELSE 0, 0, 0>>
    BY <1>1 DEF ToGo
  <2> QED
    BY <1>0, <2>3, <2>4
<1>2. CASE phase = "split"
  <2>1. /\ StoreOK /\ IsFiniteSet(DOMAIN groups) /\ todo \subseteq DOMAIN groups
    BY <1>2 DEF PatternsInv, StoreOK
  <2>2. /\ Cardinality(todo) \in Nat /\ Len(aside) \in Nat /\ Cardinality(FrequentIds) \in Nat
    BY <2>1, FS_Subset, FS_CardinalityType, FrequentFinite DEF StoreOK
  <2>3. work # Idle => TokensToSplit \in Nat /\ TermsToMove \in Nat
    BY <1>2, <2>2, SplitFacts, SMTT(30) DEF TokensToSplit, TermsToMove
  <2> HIDE DEF Idle, TokensToSplit, TermsToMove
  <2>4. CASE work = Idle
    <3>1. ToGo = <<3, Cardinality(todo), 0, 0, Len(aside)>>
      BY <1>2, <2>4 DEF ToGo
    <3> QED
      BY <1>0, <2>2, <3>1
  <2>5. CASE work # Idle
    <3>1. ToGo = <<3, Cardinality(todo), TokensToSplit, TermsToMove, Len(aside)>>
      BY <1>2, <2>5 DEF ToGo
    <3> QED
      BY <1>0, <2>2, <2>3, <2>5, <3>1
  <2> QED
    BY <2>4, <2>5
<1>3. CASE phase = "classify"
  BY <1>0, <1>3 DEF ToGo
<1>4. CASE phase = "merge"
  <2>1. Cardinality(classes) \in Nat
    BY <1>4, FS_CardinalityType DEF CursorsOK
  <2>2. CASE work = Idle
    <3>1. ToGo = <<1, Cardinality(classes), 0, 0, 0>>
      BY <1>4, <2>2 DEF ToGo
    <3> QED
      BY <1>0, <2>1, <3>1
  <2>3. CASE work # Idle
    <3>1. /\ Len(work.key) + 2 - work.token \in Nat
          /\ Len(work.ids) + 1 - work.member \in Nat
      BY <1>4, <2>3 DEF PatternsInv, MergeOK, MembersOK, IsWork, CursorsOK
    <3>2. ToGo = <<1, Cardinality(classes), Len(work.key) + 2 - work.token,
                   Len(work.ids) + 1 - work.member, 0>>
      BY <1>4, <2>3 DEF ToGo
    <3> QED
      BY <1>0, <2>1, <3>1, <3>2
  <2> QED
    BY <2>2, <2>3
<1>5. CASE phase = "merged"
  BY <1>0, <1>5 DEF ToGo
<1> QED
  BY <1>1, <1>2, <1>3, <1>4, <1>5 DEF PatternsInv

(***************************************************************************)
(* Every step of the first pass, of split_templates and of merge_templates *)
(* leaves less to do, in a well-founded order, whatever the input, the     *)
(* hashes and the thresholds: no loop of them runs for ever.  A term that  *)
(* is moved to a group of its own is not frequent any more where it came   *)
(* from, and makes no other term frequent there.                           *)
(***************************************************************************)
THEOREM IndexNearsEnd ==
  Spec /\ []SaltedIdsFresh => [](ToGo \in [1 .. 5 -> Nat]) /\ [][Nearer]_vars
<1>1. Init => CursorsOK
  BY CursorsStart
<1>2. PatternsInv /\ CursorsOK /\ [Next]_vars => CursorsOK' /\ [Nearer]_vars
  BY NearerStep
<1>3. PatternsInv /\ CursorsOK => ToGo \in [1 .. 5 -> Nat]
  BY ToGoNat
<1> QED BY <1>1, <1>2, <1>3, PatternsInvariant, PTL DEF Spec

-----------------------------------------------------------------------------
(* No lookup fails, and there is always a step.                            *)

\* push: the group that was found for the line is there until the line ends,
\* and the cursor has a token of it.
PushFindsGroup ==
  phase = "ingest" /\ pos > 0 =>
    /\ CurrentId \in DOMAIN groups /\ Len(CurrentGroup.tokens) = Len(Current)
    /\ pos <= Len(Current) + 1

\* columns[column_index] and find_term_for_term_id: every cell of every group
\* is an id that has been handed out and that the scan finds a term for.
CellsFindTerms ==
  phase # "ingest" =>
    \A g \in DOMAIN groups :
      \A i \in 1 .. Len(groups[g].tokens) : IsVariable(groups[g].tokens[i]) =>
        /\ groups[g].tokens[i].column_index \in 1 .. Len(groups[g].columns)
        /\ \A r \in 1 .. groups[g].num_docs :
             LET id == groups[g].columns[groups[g].tokens[i].column_index][r]
             IN  /\ id \in 0 .. term_map.next_term_id - 1
                 /\ \E text \in Texts : FindsTerm(term_map, id, text)

\* values_mut: the group at work is in the map, and so are those to come.
SplitFindsGroups ==
  phase = "split" => /\ todo \subseteq DOMAIN groups
                     /\ work # Idle => SplitId \in DOMAIN groups

\* get_mut, get and remove with their unwraps: the groups of the classes to
\* come and the members to come of the class at work are in the map, one of
\* each number of tokens that the key has.
MergeFindsGroups ==
  phase = "merge" =>
    /\ \A class \in classes : class.ids \subseteq DOMAIN groups
    /\ work # Idle =>
         \A n \in Left : /\ work.ids[n] \in DOMAIN groups
                         /\ Len(groups[work.ids[n]].tokens) = Len(work.key)

\* append: the two groups have variables at the same places, or a column
\* would be left behind.
AppendFindsColumns ==
  Appending /\ aside # << >> /\ work.member <= Len(work.ids) =>
    LET group == aside[1].group
        other == groups[work.ids[work.member]]
    IN  /\ Len(group.tokens) = Len(other.tokens)
        /\ \A i \in 1 .. Len(group.tokens) :
             IsVariable(group.tokens[i]) <=> IsVariable(other.tokens[i])

LookupsSucceed ==
  /\ PushFindsGroup
  /\ CellsFindTerms
  /\ SplitFindsGroups
  /\ MergeFindsGroups
  /\ AppendFindsColumns

\* Every id that was handed out has a term that the scan finds.
LEMMA IdHasTerm ==
  ASSUME TermIdsSound, NEW id \in 0 .. term_map.next_term_id - 1
  PROVE  \E text \in Texts : FindsTerm(term_map, id, text)
<1>1. PICK t \in Texts : Stored(term_map, id, t)
  BY DEF TermIdsSound, IdsNameOneTerm
<1>2. CASE \E s \in Texts : InMap(term_map, id, s)
  BY <1>2 DEF FindsTerm
<1>3. CASE ~ \E s \in Texts : InMap(term_map, id, s)
  BY <1>1, <1>3 DEF FindsTerm, Stored
<1> QED
  BY <1>2, <1>3

\* A cell that reads as a text holds an id that was handed out.
LEMMA ReadableCell ==
  ASSUME term_map \in TermMaps, TermIdsSound, NEW rows,
         NEW group, GroupOK(group, term_map, lines, rows),
         NEW i \in 1 .. Len(group.tokens), IsVariable(group.tokens[i])
  PROVE  /\ group.tokens[i].column_index \in 1 .. Len(group.columns)
         /\ \A r \in 1 .. group.num_docs :
              group.columns[group.tokens[i].column_index][r]
                \in 0 .. term_map.next_term_id - 1
<1> DEFINE c == group.tokens[i].column_index
<1>1. /\ c \in 1 .. Len(group.columns)
      /\ \A r \in 1 .. group.num_docs : group.columns[c][r] \in Nat
  BY CellFacts DEF GroupOK
<1>2. ASSUME NEW r \in 1 .. group.num_docs
      PROVE  group.columns[c][r] \in 0 .. term_map.next_term_id - 1
  <2> DEFINE line == lines[rows[r]]
             id   == group.columns[c][r]
  <2>1. line[i] \in Texts /\ CellRecovers(group, term_map, i, r, line[i])
    BY DEF GroupOK, RowReads
  <2>2. Capped[line[i]] \in Texts
    BY <2>1, CappedAssumption DEF CappedAssumption
  <2>3. ~IsConstant(group.tokens[i])
    BY DEF IsVariable, IsConstant
  <2>4. PICK text \in Texts : Stored(term_map, id, text)
    BY <2>1, <2>2, <2>3 DEF CellRecovers, CellReads
  <2> HIDE DEF c
  <2>5. id \in Nat
    BY <1>1
  <2> HIDE DEF id
  <2>6. id < term_map.next_term_id /\ term_map.next_term_id \in Nat
    BY <2>4 DEF TermIdsSound, IdsNameOneTerm, IdsBelowCounter, Stored, InMap, InBuffer, TermMaps
  <2> QED
    BY <2>5, <2>6 DEF id, c
<1> QED
  BY <1>1, <1>2

LEMMA CellsFind ==
  ASSUME PatternsInv
  PROVE  CellsFindTerms
<1> SUFFICES ASSUME phase # "ingest", NEW g \in DOMAIN groups,
                    NEW i \in 1 .. Len(groups[g].tokens), IsVariable(groups[g].tokens[i])
             PROVE  /\ groups[g].tokens[i].column_index \in 1 .. Len(groups[g].columns)
                    /\ \A r \in 1 .. groups[g].num_docs :
                         LET id == groups[g].columns[groups[g].tokens[i].column_index][r]
                         IN  /\ id \in 0 .. term_map.next_term_id - 1
                             /\ \E text \in Texts : FindsTerm(term_map, id, text)
  BY DEF CellsFindTerms
<1>1. /\ term_map \in TermMaps /\ TermIdsSound
      /\ GroupOK(groups[g], term_map, lines, origin[g])
  BY DEF PatternsInv, StoreOK
<1> QED
  BY <1>1, ReadableCell, IdHasTerm

\* The first pass, with the group of its line.
LEMMA PushFinds ==
  ASSUME PatternsInv
  PROVE  PushFindsGroup
<1> SUFFICES ASSUME phase = "ingest", pos > 0
             PROVE  /\ CurrentId \in DOMAIN groups
                    /\ Len(CurrentGroup.tokens) = Len(Current)
                    /\ pos <= Len(Current) + 1
  BY DEF PushFindsGroup
<1>1. PushInRange /\ GroupsMatchLines
  BY DEF PatternsInv, IngestInv
<1> QED
  BY <1>1 DEF PushInRange, GroupsMatchLines, CurrentGroup, CurrentId, GroupIdOf

LEMMA MergeFinds ==
  ASSUME PatternsInv
  PROVE  MergeFindsGroups
<1> SUFFICES ASSUME phase = "merge" PROVE MergeFindsGroups
  BY DEF MergeFindsGroups
<1>1. StoreOK /\ MergeOK
  BY DEF PatternsInv
<1>2. \A class \in classes : class.ids \subseteq DOMAIN groups
  BY <1>1 DEF MergeOK, ClassOK
<1>3. ASSUME work # Idle, NEW n \in Left
      PROVE  /\ work.ids[n] \in DOMAIN groups
             /\ Len(groups[work.ids[n]].tokens) = Len(work.key)
  BY <1>1, <1>3, MemberFacts DEF MergeOK
<1> QED
  BY <1>2, <1>3 DEF MergeFindsGroups

LEMMA AppendFinds ==
  ASSUME PatternsInv
  PROVE  AppendFindsColumns
<1> DEFINE group == aside[1].group
           other == groups[work.ids[work.member]]
<1> SUFFICES ASSUME Appending, aside # << >>, work.member <= Len(work.ids)
             PROVE  /\ Len(group.tokens) = Len(other.tokens)
                    /\ \A i \in 1 .. Len(group.tokens) :
                         IsVariable(group.tokens[i]) <=> IsVariable(other.tokens[i])
  BY DEF AppendFindsColumns
<1>1. /\ StoreOK /\ IsWork(work) /\ MembersOK /\ AsideOK /\ work.token > Len(work.key)
  BY DEF Appending, Merging, PatternsInv, MergeOK
<1>2. work.member \in Left
  BY <1>1 DEF Left, FirstLeft, MembersOK, IsWork
<1>3. /\ GroupOK(other, term_map, lines, origin[work.ids[work.member]])
      /\ other \in Groups /\ MergeKey(other) = work.key
      /\ Converted(other, work.key, work.token) /\ Len(other.tokens) = Len(work.key)
  BY <1>1, <1>2, MemberFacts
<1>4. /\ GroupOK(group, term_map, lines, aside[1].rows) /\ MergeKey(group) = work.key
      /\ Converted(group, work.key, Len(work.key) + 1)
  <2>1. 1 \in 1 .. Len(aside)
    BY <1>1 DEF AsideOK
  <2> QED
    BY <1>1, <2>1 DEF AsideOK, StoreOK
<1> HIDE DEF group, other
<1>5. /\ group \in Groups /\ ColumnsOwned(group) /\ ColumnsOwned(other)
  BY <1>3, <1>4 DEF GroupOK
<1>6. Len(group.tokens) = Len(work.key)
  BY <1>4, <1>5, KeyFacts
<1>7. Converted(other, work.key, Len(work.key) + 1)
  <2>1. Len(work.key) + 1 <= work.token /\ work.token \in Nat /\ Len(work.key) \in Nat
    BY <1>1 DEF MembersOK, IsWork
  <2> QED
    BY <1>3, <2>1 DEF Converted
<1>8. Appendable(group, other)
  BY <1>3, <1>4, <1>5, <1>6, <1>7, AppendableByKey
<1> QED
  BY <1>8 DEF Appendable

(***************************************************************************)
(* No unwrap() of a group that another step removed or replaced, no index  *)
(* past a column list, no term id that find_term_for_term_id panics on,    *)
(* and no column that append passes over for want of a partner.            *)
(***************************************************************************)
THEOREM LookupsAlwaysSucceed == Spec /\ []SaltedIdsFresh => []LookupsSucceed
<1>1. PatternsInv => LookupsSucceed
  <2> SUFFICES ASSUME PatternsInv PROVE LookupsSucceed
    OBVIOUS
  <2>1. SplitFindsGroups
    BY DEF PatternsInv, SplitFindsGroups, SplitId
  <2> QED
    BY <2>1, PushFinds, CellsFind, MergeFinds, AppendFinds DEF LookupsSucceed
<1> QED BY <1>1, PatternsInvariant, PTL

\* The guard of some action holds: every action assigns all variables, so that
\* it can be taken if its guard holds.
IngestGoesOn ==
  \/ pos = 0                                                 \* EndOfInput
  \/ AtToken /\ IsConstant(CurrentGroup.tokens[pos])         \* PushSameConstant,
                                                             \* PushNewVariable
  \/ AtToken /\ IsVariable(CurrentGroup.tokens[pos])         \* PushToColumn
  \/ pos > 0 /\ pos > Len(CurrentGroup.tokens)               \* EndPush

SplitGoesOn ==
  \/ work = Idle /\ \E g \in todo : \A h \in todo : g.num_tokens <= h.num_tokens
                                                             \* SplitGroup
  \/ /\ work # Idle /\ work.token <= Len(groups[SplitId].tokens)
     /\ \E id \in 0 .. term_map.next_term_id - 1, text \in Texts :
          Frequent(id) /\ FindsTerm(term_map, id, text)      \* MoveTerm
  \/ /\ work # Idle /\ work.token <= Len(groups[SplitId].tokens)
     /\ \A id \in 0 .. term_map.next_term_id - 1 : ~Frequent(id)
                                                             \* SplitNextToken
  \/ work # Idle /\ work.token > Len(groups[SplitId].tokens) \* SplitGroupDone
  \/ work = Idle /\ todo = {}                                \* InsertSplitGroup,
                                                             \* EndSplit

MergeGoesOn ==
  \/ work = Idle /\ \E class \in classes : SetToSeqs(class.ids) # {} \* StartMerge
  \/ Converting /\ work.key[work.token].kind = "Variable"
                /\ work.member <= Len(work.ids)              \* ConvertMember
  \/ Converting /\ (\/ work.key[work.token].kind = "Constant"
                    \/ work.member > Len(work.ids))          \* ConvertNextToken
  \/ Appending /\ aside = << >>                              \* TakeFirst
  \/ Appending /\ aside # << >>                              \* AppendMember,
                                                             \* InsertMerged
  \/ work = Idle /\ classes = {}                             \* EndMerge

GoesOn ==
  /\ phase = "ingest" => IngestGoesOn
  /\ phase = "split" => SplitGoesOn
  /\ phase = "merge" => MergeGoesOn

\* The elements of a finite set come in some order.
LEMMA SomeOrder ==
  ASSUME NEW S, IsFiniteSet(S)
  PROVE  SetToSeqs(S) # {}
<1>1. PICK n \in Nat : ExistsBijection(1 .. n, S)
  BY FS_NatBijection
<1>2. PICK f \in Bijection(1 .. n, S) : TRUE
  BY <1>1 DEF ExistsBijection
<1>3. f \in [1 .. n -> S] /\ \A i, j \in 1 .. n : f[i] = f[j] => i = j
  BY <1>2 DEF Bijection, Injection, IsInjective
<1>4. Cardinality(S) = n
  BY <1>1, FS_CountingElements
<1>5. f \in SetToSeqs(S)
  BY <1>3, <1>4 DEF SetToSeqs
<1> QED
  BY <1>5

\* One of the groups left to split has the fewest tokens.
LEMMA FewestTokens ==
  ASSUME NEW S \in SUBSET GroupIds, S # {}
  PROVE  \E g \in S : \A h \in S : g.num_tokens <= h.num_tokens
<1> DEFINE sizes == {g.num_tokens : g \in S}
<1>1. sizes \in SUBSET Nat /\ sizes # {}
  BY DEF GroupIds
<1>2. PICK n \in sizes : \A m \in sizes : n <= m
  <2> HIDE DEF sizes
  <2> QED
    BY <1>1, LeastElement
<1> QED
  BY <1>2

LEMMA SplitHasStep ==
  ASSUME PatternsTypeInv, phase = "split"
  PROVE  SplitGoesOn
<1>1. /\ StoreOK /\ IsWork(work) /\ todo \in SUBSET GroupIds
      /\ work # Idle => SplitId \in DOMAIN groups
  BY DEF PatternsTypeInv, StoreInv, PatternsInv, SplitId
<1>2. CASE work = Idle
  BY <1>1, <1>2, FewestTokens DEF SplitGoesOn
<1>3. CASE work # Idle
  <2>1. Len(groups[SplitId].tokens) \in Nat /\ work.token \in Nat
    BY <1>1, <1>3, GroupFields DEF StoreOK, IsWork
  <2>2. CASE \A id \in 0 .. term_map.next_term_id - 1 : ~Frequent(id)
    BY <1>3, <2>1, <2>2 DEF SplitGoesOn
  <2>3. ASSUME NEW id \in 0 .. term_map.next_term_id - 1, Frequent(id)
        PROVE  SplitGoesOn
    <3>1. PICK text \in Texts : FindsTerm(term_map, id, text)
      BY <1>1, IdHasTerm DEF StoreOK
    <3> QED
      BY <1>3, <2>1, <2>3, <3>1 DEF SplitGoesOn
  <2> QED
    BY <2>2, <2>3
<1> QED
  BY <1>2, <1>3

LEMMA MergeHasStep ==
  ASSUME PatternsInv, phase = "merge"
  PROVE  MergeGoesOn
<1>1. StoreOK /\ MergeOK /\ IsWork(work)
  BY DEF PatternsInv
<1>2. CASE work = Idle
  <2>1. ASSUME NEW class \in classes PROVE SetToSeqs(class.ids) # {}
    <3>1. class.ids \in SUBSET DOMAIN groups /\ IsFiniteSet(DOMAIN groups)
      BY <1>1 DEF MergeOK, ClassOK, StoreOK
    <3> QED
      BY <3>1, FS_Subset, SomeOrder
  <2> QED
    BY <1>2, <2>1 DEF MergeGoesOn
<1>3. CASE work # Idle
  <2>1. /\ MembersOK /\ AsideOK /\ work.token \in Nat /\ Len(work.key) \in Nat
        /\ work.member \in Nat /\ Len(work.ids) \in Nat
    BY <1>1, <1>3 DEF MergeOK, MembersOK, IsWork
  <2>2. CASE work.token > Len(work.key)
    BY <1>3, <2>2 DEF MergeGoesOn, Appending, Merging
  <2>3. CASE work.token <= Len(work.key)
    <3>1. work.key[work.token].kind \in {"Constant", "Variable"}
      <4>1. aside = << >> /\ 1 \in Left
        BY <2>1, <2>3 DEF AsideOK, MembersOK, Left, FirstLeft
      <4>2. /\ groups[work.ids[1]] \in Groups
            /\ MergeKey(groups[work.ids[1]]) = work.key
            /\ Len(groups[work.ids[1]].tokens) = Len(work.key)
        BY <1>1, <2>1, <4>1, MemberFacts
      <4>3. work.token \in 1 .. Len(work.key)
        BY <1>1, <2>1, <2>3 DEF IsWork
      <4>4. work.key[work.token]
              = MergeableToken(groups[work.ids[1]].tokens[work.token],
                               groups[work.ids[1]].num_docs)
        BY <4>2, <4>3, KeyFacts
      <4> QED
        BY <4>4 DEF MergeableToken
    <3>2. Converting
      BY <1>3, <2>3 DEF Converting, Merging
    <3> QED
      BY <2>1, <3>1, <3>2 DEF MergeGoesOn
  <2> QED
    BY <2>1, <2>2, <2>3
<1> QED
  BY <1>2, <1>3

LEMMA IngestHasStep ==
  ASSUME PatternsInv, phase = "ingest"
  PROVE  IngestGoesOn
<1> SUFFICES ASSUME pos # 0 PROVE IngestGoesOn
  BY DEF IngestGoesOn
<1>1. IngestInv /\ pos \in Nat /\ pos > 0
  BY DEF PatternsInv, IngestInv, IngestTypeOK
<1>2. CurrentGroup \in Groups
  BY <1>1 DEF IngestInv, IngestTypeOK, PushInRange, CurrentGroup
<1>3. Len(CurrentGroup.tokens) \in Nat
  BY <1>2, GroupFields
<1>4. CASE pos <= Len(CurrentGroup.tokens)
  <2>1. CurrentGroup.tokens[pos] \in TemplateTokens
    BY <1>1, <1>2, <1>3, <1>4, GroupFields
  <2>2. IsConstant(CurrentGroup.tokens[pos]) \/ IsVariable(CurrentGroup.tokens[pos])
    BY <2>1, TokenKinds
  <2> QED
    BY <1>1, <1>4, <2>2 DEF IngestGoesOn, AtToken
<1>5. CASE pos > Len(CurrentGroup.tokens)
  BY <1>1, <1>5 DEF IngestGoesOn
<1> QED
  BY <1>1, <1>3, <1>4, <1>5

(***************************************************************************)
(* Until the groups are merged some step can be taken: the loops never     *)
(* wait for something that is not there.                                   *)
(***************************************************************************)
THEOREM IndexGoesOn == Spec /\ []NewIdsFresh => []GoesOn
<1>1. Init => PatternsTypeInv
  BY TypesStart
<1>2. PatternsTypeInv /\ NewIdsFresh /\ [Next]_vars => PatternsTypeInv'
  BY TypesStay
<1>3. PatternsTypeInv => GoesOn
  BY IngestHasStep, SplitHasStep, MergeHasStep DEF PatternsTypeInv, StoreInv, GoesOn
<1> QED BY <1>1, <1>2, <1>3, PTL DEF Spec

-----------------------------------------------------------------------------
(* The counter of the term map does not reach the end of a u32.            *)

\* The tokens of the lines, up to the cursor in the line that is being pushed.
TokensTaken ==
  UNION {{n} \X {i \in 1 .. Len(lines[n]) : n <= NumPushed \/ i < pos} : n \in 1 .. Len(lines)}

\* The texts they have as keys of the hash map.
TextsTaken == {Capped[lines[at[1]][at[2]]] : at \in TokensTaken}

TextsMapped(tm) == {t \in Texts : tm.map[t] # NoTerm}

\* One id for every key of the hash map and for every entry of the buffer.
IdsCounted(tm) ==
  /\ IsFiniteSet(TextsMapped(tm))
  /\ tm.next_term_id = Cardinality(TextsMapped(tm)) + Len(tm.unique_terms)

\* The terms of the map, all of them among these texts once they are capped.
KeysIn(tm, texts) ==
  /\ TextsMapped(tm) \subseteq texts
  /\ \A k \in 1 .. Len(tm.unique_terms) : Capped[tm.unique_terms[k].text] \in texts

\* The constants of a template.
ConstantsIn(group, texts) ==
  \A i \in 1 .. Len(group.tokens) :
    IsConstant(group.tokens[i]) => Capped[group.tokens[i].text] \in texts

(***************************************************************************)
(* Where the ids come from: one for every key of the hash map, which is    *)
(* the text of a token, and one for every entry of the buffer, which is a  *)
(* token of a line.  A constant, whichever groups it went through, is the  *)
(* text of a token too: no step of split_templates or merge_templates      *)
(* makes a text up.                                                        *)
(***************************************************************************)
IdsFromTokens ==
  /\ IsFiniteSet(TokensTaken)
  /\ IdsCounted(term_map)
  /\ KeysIn(term_map, TextsTaken)
  /\ Len(term_map.unique_terms) <= Cardinality(TokensTaken)
  /\ \A g \in DOMAIN groups : ConstantsIn(groups[g], TextsTaken)
  /\ \A n \in 1 .. Len(aside) : ConstantsIn(aside[n].group, TextsTaken)

\* At most two ids for each token of the input.
TermIdsBounded == term_map.next_term_id <= 2 * Cardinality(TokensTaken)

\* A call of mutate_or_create counts the id that it hands out.
LEMMA CreateCounts ==
  ASSUME NEW tm \in TermMaps, NEW key \in Texts, NEW is_id_like \in BOOLEAN,
         IdsCounted(tm)
  PROVE  LET tm2 == MutateOrCreate(tm, key, is_id_like)
         IN  /\ tm2 \in TermMaps
             /\ IdsCounted(tm2)
             /\ \A texts : KeysIn(tm, texts) /\ Capped[key] \in texts => KeysIn(tm2, texts)
             /\ is_id_like => Len(tm2.unique_terms) = Len(tm.unique_terms) + 1
             /\ ~is_id_like => tm2.unique_terms = tm.unique_terms
<1> DEFINE tm2 == MutateOrCreate(tm, key, is_id_like)
<1>1. /\ Capped[key] \in Texts /\ tm2 \in TermMaps
      /\ Len(tm.unique_terms) \in Nat /\ tm.next_term_id \in Nat
  <2>1. Capped[key] \in Texts
    BY CappedAssumption DEF CappedAssumption
  <2>2. Len(tm.unique_terms) \in Nat /\ tm.next_term_id \in Nat
    BY DEF TermMaps
  <2> QED
    BY <2>1, <2>2, MutateOrCreateType
<1>2. /\ IsFiniteSet(TextsMapped(tm)) /\ Cardinality(TextsMapped(tm)) \in Nat
      /\ tm.next_term_id = Cardinality(TextsMapped(tm)) + Len(tm.unique_terms)
  BY FS_CardinalityType DEF IdsCounted
<1>3. \/ is_id_like /\ CreatedInBuffer(tm, key, tm2)
      \/ ~is_id_like /\ CreatedInMap(tm, key, tm2)
      \/ ~is_id_like /\ tm2 = tm
  BY MutateOrCreateCases
<1> HIDE DEF tm2
<1>4. CASE is_id_like /\ CreatedInBuffer(tm, key, tm2)
  <2>1. /\ TextsMapped(tm2) = TextsMapped(tm)
        /\ tm2.next_term_id = tm.next_term_id + 1
    BY <1>4 DEF CreatedInBuffer, TextsMapped
  <2>2. Len(tm2.unique_terms) = Len(tm.unique_terms) + 1
    BY <1>4 DEF CreatedInBuffer, TermMaps
  <2>3. IdsCounted(tm2)
    BY <1>1, <1>2, <2>1, <2>2 DEF IdsCounted
  <2>4. \A k \in 1 .. Len(tm2.unique_terms) :
          \/ tm2.unique_terms[k].text = key
          \/ /\ k \in 1 .. Len(tm.unique_terms)
             /\ tm2.unique_terms[k] = tm.unique_terms[k]
    BY <1>4 DEF CreatedInBuffer, TermMaps
  <2>5. ASSUME NEW texts, KeysIn(tm, texts), Capped[key] \in texts
        PROVE  KeysIn(tm2, texts)
    BY <2>1, <2>4, <2>5 DEF KeysIn
  <2> QED
    BY <1>1, <1>4, <2>2, <2>3, <2>5 DEF tm2
<1>5. CASE ~is_id_like /\ CreatedInMap(tm, key, tm2)
  <2>1. /\ tm.map[Capped[key]] = NoTerm
        /\ tm2.map = [tm.map EXCEPT ![Capped[key]] = tm.next_term_id]
        /\ tm2.unique_terms = tm.unique_terms
        /\ tm2.next_term_id = tm.next_term_id + 1
    BY <1>5 DEF CreatedInMap
  <2>2. tm.map \in [Texts -> Nat \cup {NoTerm}] /\ tm.next_term_id # NoTerm
    BY <1>1 DEF TermMaps, NoTerm
  <2>3. TextsMapped(tm2) = TextsMapped(tm) \cup {Capped[key]}
    BY <1>1, <2>1, <2>2 DEF TextsMapped
  <2>4. Capped[key] \notin TextsMapped(tm)
    BY <2>1 DEF TextsMapped
  <2>5. /\ IsFiniteSet(TextsMapped(tm2))
        /\ Cardinality(TextsMapped(tm2)) = Cardinality(TextsMapped(tm)) + 1
    <3> DEFINE S == TextsMapped(tm)
               x == Capped[key]
    <3>1. IsFiniteSet(S) /\ x \notin S /\ TextsMapped(tm2) = S \cup {x}
      BY <1>2, <2>3, <2>4
    <3> HIDE DEF S, x
    <3>2. IsFiniteSet(S \cup {x}) /\ Cardinality(S \cup {x}) = Cardinality(S) + 1
      BY <3>1, FS_AddElement
    <3> QED
      BY <3>1, <3>2 DEF S
  <2>6. IdsCounted(tm2)
    BY <1>1, <1>2, <2>1, <2>5 DEF IdsCounted
  <2>7. ASSUME NEW texts, KeysIn(tm, texts), Capped[key] \in texts
        PROVE  KeysIn(tm2, texts)
    BY <2>1, <2>3, <2>7 DEF KeysIn
  <2> QED
    BY <1>1, <1>5, <2>1, <2>6, <2>7 DEF tm2
<1>6. CASE ~is_id_like /\ tm2 = tm
  BY <1>1, <1>6 DEF tm2
<1> QED
  BY <1>3, <1>4, <1>5, <1>6

LEMMA TakenAt ==
  /\ TokensTaken \subseteq Nat \X Nat
  /\ \A n, i : <<n, i>> \in TokensTaken <=>
       /\ n \in 1 .. Len(lines) /\ i \in 1 .. Len(lines[n])
       /\ n <= NumPushed \/ i < pos
BY DEF TokensTaken

LEMMA TakenAtAfter ==
  /\ TokensTaken' \subseteq Nat \X Nat
  /\ \A n, i : <<n, i>> \in TokensTaken' <=>
       /\ n \in 1 .. Len(lines') /\ i \in 1 .. Len(lines'[n])
       /\ n <= NumPushed' \/ i < pos'
BY DEF TokensTaken

\* A key of the hash map, or a constant, for every token that was taken.
LEMMA TakenText ==
  ASSUME NEW n, NEW i, <<n, i>> \in TokensTaken
  PROVE  Capped[lines[n][i]] \in TextsTaken
<1> DEFINE at == <<n, i>>
<1>1. Capped[lines[at[1]][at[2]]] \in TextsTaken
  BY DEF TextsTaken
<1> QED
  BY <1>1

LEMMA TakenTextAfter ==
  ASSUME NEW n, NEW i, <<n, i>> \in TokensTaken'
  PROVE  Capped[lines'[n][i]] \in TextsTaken'
<1> DEFINE at == <<n, i>>
<1>1. Capped[lines'[at[1]][at[2]]] \in TextsTaken'
  BY DEF TextsTaken
<1> QED
  BY <1>1

\* More tokens of lines that stay as they are have more texts.
LEMMA TextsGrow ==
  ASSUME TokensTaken \subseteq TokensTaken',
         \A n \in 1 .. Len(lines) : lines'[n] = lines[n]
  PROVE  TextsTaken \subseteq TextsTaken'
<1> SUFFICES ASSUME NEW at \in TokensTaken
             PROVE  Capped[lines[at[1]][at[2]]] \in TextsTaken'
  BY DEF TextsTaken
<1>1. PICK n \in Nat, i \in Nat : at = <<n, i>>
  BY TakenAt
<1>2. n \in 1 .. Len(lines) /\ <<n, i>> \in TokensTaken'
  BY <1>1, TakenAt
<1>3. lines'[n] = lines[n] /\ Capped[lines'[n][i]] \in TextsTaken'
  BY <1>2, TakenTextAfter
<1> QED
  BY <1>1, <1>3

\* No step of the first pass takes a token back.
LEMMA TakenGrows ==
  ASSUME IngestInv, IngestNext, IsFiniteSet(TokensTaken)
  PROVE  /\ TokensTaken \subseteq TokensTaken' /\ IsFiniteSet(TokensTaken')
         /\ TextsTaken \subseteq TextsTaken'
<1>1. /\ lines \in Seq(Lines) /\ Len(lines) \in Nat /\ pos \in Nat
      /\ \A n \in 1 .. Len(lines) : Len(lines[n]) \in Nat
  <2>1. lines \in Seq(Lines) /\ pos \in Nat
    BY DEF IngestInv, IngestTypeOK
  <2> QED
    BY <2>1, LineFacts, ElementOfSeq
<1>2. CASE \E line \in Lines : OpenGroup(line) \/ BeginPush(line)
  <2>1. PICK line \in Lines : OpenGroup(line) \/ BeginPush(line)
    BY <1>2
  <2>2. /\ lines' = Append(lines, line) /\ pos = 0
        /\ pos' = 0 \/ pos' = 1
    BY <2>1 DEF OpenGroup, BeginPush
  <2>3. /\ Len(lines') = Len(lines) + 1 /\ lines'[Len(lines) + 1] = line
        /\ \A n \in 1 .. Len(lines) : lines'[n] = lines[n]
    BY <1>1, <2>2, AppendProperties
  <2>4. /\ NumPushed = Len(lines)
        /\ NumPushed' = IF pos' = 0 THEN Len(lines) + 1 ELSE Len(lines)
    BY <1>1, <2>2, <2>3 DEF NumPushed
  <2>5. Len(line) \in Nat
    BY LineFacts
  <2> DEFINE new == {Len(lines) + 1} \X (1 .. Len(line))
  <2>6. TokensTaken \subseteq TokensTaken'
    <3> SUFFICES ASSUME NEW n \in Nat, NEW i \in Nat, <<n, i>> \in TokensTaken
                 PROVE  <<n, i>> \in TokensTaken'
      BY TakenAt
    <3> QED
      BY <1>1, <2>2, <2>3, <2>4, TakenAt, TakenAtAfter
  <2>7. TokensTaken' \subseteq TokensTaken \cup new
    <3> SUFFICES ASSUME NEW n \in Nat, NEW i \in Nat, <<n, i>> \in TokensTaken'
                 PROVE  <<n, i>> \in TokensTaken \cup new
      BY TakenAtAfter
    <3>1. n \in 1 .. Len(lines) \/ n = Len(lines) + 1
      BY <1>1, <2>3, TakenAtAfter
    <3>2. CASE n \in 1 .. Len(lines)
      BY <1>1, <2>2, <2>3, <2>4, <3>2, TakenAt, TakenAtAfter
    <3>3. CASE n = Len(lines) + 1
      BY <1>1, <2>3, <3>3, TakenAtAfter
    <3> QED
      BY <3>1, <3>2, <3>3
  <2>8. IsFiniteSet(new)
    <3>1. IsFiniteSet(1 .. Len(line)) /\ IsFiniteSet({Len(lines) + 1})
      <4>1. IsFiniteSet(1 .. Len(line))
        BY <2>5, FS_Interval
      <4> QED
        BY <4>1, FS_Singleton
    <3> QED
      BY <3>1, FS_Product
  <2>9. IsFiniteSet(TokensTaken')
    <3> HIDE DEF new
    <3>1. IsFiniteSet(TokensTaken \cup new)
      BY <2>8, FS_Union
    <3> QED
      BY <2>7, <3>1, FS_Subset
  <2> QED
    BY <2>3, <2>6, <2>9, TextsGrow
<1>3. CASE PushSameConstant \/ PushNewVariable \/ PushToColumn \/ EndPush
  <2>1. /\ lines' = lines /\ pos > 0
        /\ pos' = pos + 1 \/ (pos' = 0 /\ pos > Len(Current))
    <3>1. /\ lines' = lines /\ pos > 0
          /\ pos' = pos + 1 \/ (pos' = 0 /\ pos > Len(CurrentGroup.tokens))
      BY <1>3 DEF PushSameConstant, PushNewVariable, PushToColumn, EndPush, AtToken
    <3> QED
      BY <3>1, PushFacts
  <2>2. /\ Len(lines) \in Nat \ {0} /\ NumPushed = Len(lines) - 1
        /\ NumPushed' = IF pos' = 0 THEN Len(lines) ELSE Len(lines) - 1
        /\ Current = lines[Len(lines)] /\ pos' \in Nat
    BY <1>1, <2>1, PushFacts DEF NumPushed, Current
  <2>3. TokensTaken \subseteq TokensTaken'
    <3> SUFFICES ASSUME NEW n \in Nat, NEW i \in Nat, <<n, i>> \in TokensTaken
                 PROVE  <<n, i>> \in TokensTaken'
      BY TakenAt
    <3> QED
      BY <1>1, <2>1, <2>2, TakenAt, TakenAtAfter
  <2>4. TokensTaken' \subseteq TokensTaken \cup {<<Len(lines), pos>>}
    <3> SUFFICES ASSUME NEW n \in Nat, NEW i \in Nat, <<n, i>> \in TokensTaken'
                 PROVE  <<n, i>> \in TokensTaken \cup {<<Len(lines), pos>>}
      BY TakenAtAfter
    <3>1. /\ n \in 1 .. Len(lines) /\ i \in 1 .. Len(lines[n])
          /\ n <= NumPushed' \/ i < pos'
      BY <2>1, TakenAtAfter
    <3>2. CASE n < Len(lines)
      BY <2>2, <3>1, <3>2, TakenAt
    <3>3. CASE n = Len(lines)
      BY <1>1, <2>1, <2>2, <3>1, <3>3, TakenAt
    <3> QED
      BY <2>2, <3>1, <3>2, <3>3
  <2>5. IsFiniteSet(TokensTaken')
    <3>1. IsFiniteSet(TokensTaken \cup {<<Len(lines), pos>>})
      BY FS_AddElement
    <3> QED
      BY <2>4, <3>1, FS_Subset
  <2> QED
    BY <2>1, <2>3, <2>5, TextsGrow
<1> QED
  BY <1>2, <1>3 DEF IngestNext

\* A push takes the token at its cursor.
LEMMA PushTakesToken ==
  ASSUME IngestInv, AtToken, lines' = lines, pos' = pos + 1, IngestNext,
         IsFiniteSet(TokensTaken)
  PROVE  /\ Capped[CurrentText] \in TextsTaken'
         /\ Cardinality(TokensTaken) + 1 <= Cardinality(TokensTaken')
<1>1. /\ pos \in 1 .. Len(Current) /\ pos \in Nat /\ Len(lines) \in Nat \ {0}
      /\ NumPushed = Len(lines) - 1 /\ Current = lines[Len(lines)]
      /\ CurrentText = lines[Len(lines)][pos]
  BY PushFacts, TokenFacts DEF Current, CurrentText
<1> DEFINE at == <<Len(lines), pos>>
<1>2. at \notin TokensTaken /\ at \in TokensTaken'
  BY <1>1, TakenAt, TakenAtAfter
<1>3. Capped[CurrentText] \in TextsTaken'
  BY <1>1, <1>2, TakenTextAfter
<1> HIDE DEF at
<1>4. /\ IsFiniteSet(TokensTaken \cup {at})
      /\ Cardinality(TokensTaken \cup {at}) = Cardinality(TokensTaken) + 1
  BY <1>2, FS_AddElement
<1>5. TokensTaken \cup {at} \in SUBSET TokensTaken' /\ IsFiniteSet(TokensTaken')
  BY <1>2, TakenGrows
<1>6. Cardinality(TokensTaken \cup {at}) <= Cardinality(TokensTaken')
  BY <1>5, FS_Subset
<1> QED
  BY <1>3, <1>4, <1>6

LEMMA MoreKeys ==
  ASSUME NEW tm, NEW texts, NEW more, texts \subseteq more, KeysIn(tm, texts)
  PROVE  KeysIn(tm, more)
BY DEF KeysIn

\* A template that keeps its constants or makes variables of them.
LEMMA ConstantsStay ==
  ASSUME NEW group, NEW new, NEW texts, NEW more, texts \subseteq more,
         ConstantsIn(group, texts), Len(new.tokens) = Len(group.tokens),
         \A i \in 1 .. Len(group.tokens) :
           new.tokens[i] = group.tokens[i] \/ ~IsConstant(new.tokens[i])
  PROVE  ConstantsIn(new, more)
BY DEF ConstantsIn

\* A first pass's step with the term map and the templates as they were.
LEMMA IdsStayInIngest ==
  ASSUME IdsFromTokens, IngestInv, IngestNext, aside' = aside, term_map' = term_map,
         \A g \in DOMAIN groups' : ConstantsIn(groups'[g], TextsTaken')
  PROVE  IdsFromTokens'
<1>1. /\ TokensTaken \subseteq TokensTaken' /\ IsFiniteSet(TokensTaken')
      /\ TextsTaken \subseteq TextsTaken' /\ IsFiniteSet(TokensTaken)
  BY TakenGrows DEF IdsFromTokens
<1>2. Len(term_map.unique_terms) <= Cardinality(TokensTaken')
  <2>1. Cardinality(TokensTaken) <= Cardinality(TokensTaken')
    BY <1>1, FS_Subset
  <2>2. /\ Cardinality(TokensTaken) \in Nat /\ Cardinality(TokensTaken') \in Nat
        /\ Len(term_map.unique_terms) \in Nat
    BY <1>1, FS_CardinalityType DEF IngestInv, IngestTypeOK, TermMaps
  <2> QED
    BY <2>1, <2>2 DEF IdsFromTokens
<1>3. KeysIn(term_map, TextsTaken') /\ IdsCounted(term_map)
  BY <1>1, MoreKeys DEF IdsFromTokens
<1>4. \A n \in 1 .. Len(aside) : ConstantsIn(aside[n].group, TextsTaken')
  BY <1>1 DEF IdsFromTokens, ConstantsIn
<1> QED
  BY <1>1, <1>2, <1>3, <1>4 DEF IdsFromTokens

\* A line opens a group: its texts are the constants.
LEMMA OpenGroupIds ==
  ASSUME IdsFromTokens, IngestInv, aside' = aside, NEW line \in Lines, OpenGroup(line)
  PROVE  IdsFromTokens'
<1>1. /\ IngestNext /\ pos = 0 /\ pos' = 0 /\ term_map' = term_map
      /\ lines' = Append(lines, line)
      /\ groups' = Put(groups, GroupIdOf(line), NewGroup(line))
  BY DEF OpenGroup, IngestNext
<1>2. /\ lines \in Seq(Lines) /\ Len(lines) \in Nat /\ Len(line) \in Nat
  BY LineFacts DEF IngestInv, IngestTypeOK
<1>3. /\ Len(lines') = Len(lines) + 1 /\ lines'[Len(lines) + 1] = line
      /\ NumPushed' = Len(lines) + 1
  BY <1>1, <1>2, AppendProperties DEF NumPushed
<1>4. TextsTaken \subseteq TextsTaken'
  BY <1>1, TakenGrows DEF IdsFromTokens
<1>5. ConstantsIn(NewGroup(line), TextsTaken')
  <2>1. /\ NewGroup(line).tokens
             = [i \in 1 .. Len(line) |-> NewConstant(TypeOf[line[i]], line[i])]
        /\ Len(NewGroup(line).tokens) = Len(line)
    BY <1>2 DEF NewGroup
  <2>2. ASSUME NEW i \in 1 .. Len(line)
        PROVE  Capped[NewGroup(line).tokens[i].text] \in TextsTaken'
    <3>1. <<Len(lines) + 1, i>> \in TokensTaken'
      BY <1>2, <1>3, TakenAtAfter
    <3>2. NewGroup(line).tokens[i].text = line[i]
      BY <2>1 DEF NewConstant
    <3> QED
      BY <1>3, <3>1, <3>2, TakenTextAfter
  <2> QED
    BY <2>1, <2>2 DEF ConstantsIn
<1>6. \A g \in DOMAIN groups' : ConstantsIn(groups'[g], TextsTaken')
  <2>1. \A g \in DOMAIN groups : ConstantsIn(groups[g], TextsTaken')
    BY <1>4 DEF IdsFromTokens, ConstantsIn
  <2> QED
    BY <1>1, <1>5, <2>1 DEF Put
<1> QED
  BY <1>1, <1>6, IdsStayInIngest

\* The steps that create nothing.
LEMMA PassIds ==
  ASSUME IdsFromTokens, IngestInv, aside' = aside,
         (\E line \in Lines : BeginPush(line)) \/ PushSameConstant \/ EndPush
  PROVE  IdsFromTokens'
<1>1. IngestNext /\ term_map' = term_map
  BY DEF BeginPush, PushSameConstant, EndPush, IngestNext
<1>2. TextsTaken \subseteq TextsTaken'
  BY <1>1, TakenGrows DEF IdsFromTokens
<1>3. \A g \in DOMAIN groups : g \in DOMAIN groups' /\ groups'[g].tokens = groups[g].tokens
  <2>1. CASE ~EndPush
    BY <2>1 DEF BeginPush, PushSameConstant
  <2>2. CASE EndPush
    <3>1. groups' = [groups EXCEPT ![CurrentId].num_docs = @ + 1]
      BY <2>2 DEF EndPush
    <3>2. groups \in [DOMAIN groups -> Groups]
      BY DEF IngestInv, IngestTypeOK
    <3> QED
      BY <3>1, <3>2 DEF Groups
  <2> QED
    BY <2>1, <2>2
<1>4. DOMAIN groups' = DOMAIN groups
  BY DEF BeginPush, PushSameConstant, EndPush
<1>5. \A g \in DOMAIN groups' : ConstantsIn(groups'[g], TextsTaken')
  BY <1>2, <1>3, <1>4 DEF IdsFromTokens, ConstantsIn
<1> QED
  BY <1>1, <1>5, IdsStayInIngest

LEMMA MismatchConstants ==
  ASSUME NEW group \in Groups, NEW tm \in TermMaps,
         NEW i \in 1 .. Len(group.tokens), IsConstant(group.tokens[i]), NEW text \in Texts
  PROVE  LET new == PushMismatch(group, tm, i, text)
         IN  /\ Len(new.tokens) = Len(group.tokens)
             /\ \A j \in 1 .. Len(group.tokens) :
                  new.tokens[j] = group.tokens[j] \/ ~IsConstant(new.tokens[j])
<1> DEFINE new == PushMismatch(group, tm, i, text)
<1>1. \A type, n : ~IsConstant(NewVariable(type, n))
  BY DEF NewVariable, IsConstant
<1>2. Len(new.tokens) = Len(group.tokens)
  BY PushMismatchFrame
<1>3. \A j \in 1 .. Len(group.tokens) : j # i => new.tokens[j] = group.tokens[j]
  BY PushMismatchFrame
<1>4. new.tokens[i] = NewVariable(TypeOf[text], Len(group.columns) + 1)
  BY PushMismatchFrame
<1> HIDE DEF new
<1>5. ~IsConstant(new.tokens[i])
  BY <1>1, <1>4
<1>6. \A j \in 1 .. Len(group.tokens) :
        new.tokens[j] = group.tokens[j] \/ ~IsConstant(new.tokens[j])
  BY <1>3, <1>5
<1> QED
  BY <1>2, <1>6 DEF new

\* A constant that does not match becomes a variable: two texts, both of tokens.
LEMMA PushNewVariableIds ==
  ASSUME IdsFromTokens, IngestInv, aside' = aside, PushNewVariable
  PROVE  IdsFromTokens'
<1> DEFINE group    == CurrentGroup
           existing == group.tokens[pos].text
           tm1      == MutateOrCreate(term_map, CurrentText, FALSE)
           tm2      == MutateOrCreate(tm1, existing, FALSE)
           new      == PushMismatch(group, term_map, pos, CurrentText)
<1>1. /\ AtToken /\ IsConstant(group.tokens[pos]) /\ IngestNext
      /\ term_map' = tm2 /\ pos' = pos + 1 /\ lines' = lines
      /\ groups' = [groups EXCEPT ![CurrentId] = new]
  BY DEF PushNewVariable, TermMapAfterMismatch, IngestNext
<1>2. /\ CurrentText \in Texts /\ pos \in 1 .. Len(group.tokens)
      /\ group \in Groups /\ CurrentId \in DOMAIN groups /\ group = groups[CurrentId]
      /\ term_map \in TermMaps
  BY <1>1, TokenFacts, PushFacts DEF IngestInv, IngestTypeOK, CurrentGroup
<1>3. existing \in Texts
  BY <1>1, <1>2, GroupFields, TokenKinds DEF TemplateTokens, ConstantTokens, VariableTokens
<1>4. /\ Len(new.tokens) = Len(group.tokens)
      /\ \A j \in 1 .. Len(group.tokens) :
           new.tokens[j] = group.tokens[j] \/ ~IsConstant(new.tokens[j])
  <2> HIDE DEF group
  <2> QED
    BY <1>1, <1>2, MismatchConstants
<1>5. /\ TokensTaken \subseteq TokensTaken' /\ IsFiniteSet(TokensTaken')
      /\ TextsTaken \subseteq TextsTaken' /\ IsFiniteSet(TokensTaken)
  BY <1>1, TakenGrows DEF IdsFromTokens
<1>6. Capped[CurrentText] \in TextsTaken' /\ Capped[existing] \in TextsTaken'
  <2>1. Capped[existing] \in TextsTaken
    BY <1>1, <1>2 DEF IdsFromTokens, ConstantsIn
  <2> QED
    BY <1>1, <1>5, <2>1, PushTakesToken DEF IdsFromTokens
<1>7. IdsCounted(term_map) /\ KeysIn(term_map, TextsTaken')
  BY <1>5, MoreKeys DEF IdsFromTokens
<1> HIDE DEF group, existing, new
<1>8. /\ tm1 \in TermMaps /\ IdsCounted(tm1) /\ KeysIn(tm1, TextsTaken')
      /\ tm1.unique_terms = term_map.unique_terms
  <2>1. /\ tm1 \in TermMaps /\ IdsCounted(tm1)
        /\ tm1.unique_terms = term_map.unique_terms
        /\ \A texts : KeysIn(term_map, texts) /\ Capped[CurrentText] \in texts
                        => KeysIn(tm1, texts)
    BY <1>2, <1>7, CreateCounts
  <2> QED
    BY <1>6, <1>7, <2>1
<1> HIDE DEF tm1
<1>9. /\ IdsCounted(tm2) /\ KeysIn(tm2, TextsTaken')
      /\ tm2.unique_terms = term_map.unique_terms
  <2>1. /\ IdsCounted(tm2)
        /\ tm2.unique_terms = tm1.unique_terms
        /\ \A texts : KeysIn(tm1, texts) /\ Capped[existing] \in texts
                        => KeysIn(tm2, texts)
    BY <1>3, <1>8, CreateCounts
  <2> QED
    BY <1>6, <1>8, <2>1
<1> HIDE DEF tm2
<1>10. Len(tm2.unique_terms) <= Cardinality(TokensTaken')
  <2>1. Cardinality(TokensTaken) <= Cardinality(TokensTaken')
    BY <1>5, FS_Subset
  <2>2. /\ Cardinality(TokensTaken) \in Nat /\ Cardinality(TokensTaken') \in Nat
        /\ Len(term_map.unique_terms) \in Nat
    BY <1>2, <1>5, FS_CardinalityType DEF TermMaps
  <2> QED
    BY <1>9, <2>1, <2>2 DEF IdsFromTokens
<1>11. \A g \in DOMAIN groups' : ConstantsIn(groups'[g], TextsTaken')
  <2>1. ConstantsIn(new, TextsTaken')
    BY <1>2, <1>4, <1>5, ConstantsStay DEF IdsFromTokens
  <2>2. \A g \in DOMAIN groups : ConstantsIn(groups[g], TextsTaken')
    BY <1>5 DEF IdsFromTokens, ConstantsIn
  <2> QED
    BY <1>1, <2>1, <2>2
<1>12. \A n \in 1 .. Len(aside) : ConstantsIn(aside[n].group, TextsTaken')
  BY <1>5 DEF IdsFromTokens, ConstantsIn
<1> QED
  BY <1>1, <1>5, <1>9, <1>10, <1>11, <1>12 DEF IdsFromTokens

\* A variable takes a text: an entry of the buffer for the token, or a key.
LEMMA PushToColumnIds ==
  ASSUME IdsFromTokens, IngestInv, aside' = aside, PushToColumn
  PROVE  IdsFromTokens'
<1> DEFINE group == CurrentGroup
           flag  == group.tokens[pos].is_id_like
           tm2   == MutateOrCreate(term_map, CurrentText, flag)
           new   == PushVariable(group, term_map, pos, CurrentText)
<1>1. /\ AtToken /\ IsVariable(group.tokens[pos]) /\ IngestNext
      /\ term_map' = tm2 /\ pos' = pos + 1 /\ lines' = lines
      /\ groups' = [groups EXCEPT ![CurrentId] = new]
  BY DEF PushToColumn, IngestNext
<1>2. /\ CurrentText \in Texts /\ pos \in 1 .. Len(group.tokens)
      /\ group \in Groups /\ CurrentId \in DOMAIN groups /\ group = groups[CurrentId]
      /\ term_map \in TermMaps
  BY <1>1, TokenFacts, PushFacts DEF IngestInv, IngestTypeOK, CurrentGroup
<1>3. flag \in BOOLEAN /\ group.tokens[pos].column_index \in 1 .. Len(group.columns)
  <2>1. flag \in BOOLEAN
    BY <1>1, <1>2, GroupFields, TokenKinds DEF TemplateTokens, ConstantTokens, VariableTokens
  <2>2. Rectangular(group, pos)
    BY <1>1, PushFacts DEF AtToken
  <2> QED
    BY <1>1, <1>2, <2>1, <2>2 DEF Rectangular, ColumnsOwned
<1>4. /\ Len(new.tokens) = Len(group.tokens)
      /\ \A j \in 1 .. Len(group.tokens) :
           new.tokens[j] = group.tokens[j] \/ ~IsConstant(new.tokens[j])
  <2>1. \A token : IsVariable(token) => ~IsConstant(token)
    BY DEF IsVariable, IsConstant
  <2> HIDE DEF group, flag
  <2>2. /\ Len(new.tokens) = Len(group.tokens)
        /\ IsVariable(new.tokens[pos])
        /\ \A j \in 1 .. Len(group.tokens) :
             j # pos => new.tokens[j] = group.tokens[j]
    BY <1>1, <1>2, <1>3, PushVariableFrame
  <2> HIDE DEF new
  <2> QED
    BY <2>1, <2>2
<1>5. /\ TokensTaken \subseteq TokensTaken' /\ IsFiniteSet(TokensTaken')
      /\ TextsTaken \subseteq TextsTaken' /\ IsFiniteSet(TokensTaken)
  BY <1>1, TakenGrows DEF IdsFromTokens
<1>6. /\ Capped[CurrentText] \in TextsTaken'
      /\ Cardinality(TokensTaken) + 1 <= Cardinality(TokensTaken')
  BY <1>1, PushTakesToken DEF IdsFromTokens
<1>7. IdsCounted(term_map) /\ KeysIn(term_map, TextsTaken')
  BY <1>5, MoreKeys DEF IdsFromTokens
<1> HIDE DEF group, new, flag
<1>8. /\ IdsCounted(tm2) /\ KeysIn(tm2, TextsTaken')
      /\ flag => Len(tm2.unique_terms) = Len(term_map.unique_terms) + 1
      /\ ~flag => tm2.unique_terms = term_map.unique_terms
  <2>1. /\ IdsCounted(tm2)
        /\ flag => Len(tm2.unique_terms) = Len(term_map.unique_terms) + 1
        /\ ~flag => tm2.unique_terms = term_map.unique_terms
        /\ \A texts : KeysIn(term_map, texts) /\ Capped[CurrentText] \in texts
                        => KeysIn(tm2, texts)
    BY <1>2, <1>3, <1>7, CreateCounts
  <2> QED
    BY <1>6, <1>7, <2>1
<1> HIDE DEF tm2
<1>9. Len(tm2.unique_terms) <= Cardinality(TokensTaken')
  <2>1. /\ Cardinality(TokensTaken) \in Nat /\ Cardinality(TokensTaken') \in Nat
        /\ Len(term_map.unique_terms) \in Nat
    BY <1>2, <1>5, FS_CardinalityType DEF TermMaps
  <2> QED
    BY <1>6, <1>8, <2>1 DEF IdsFromTokens
<1>10. \A g \in DOMAIN groups' : ConstantsIn(groups'[g], TextsTaken')
  <2>1. ConstantsIn(new, TextsTaken')
    BY <1>2, <1>4, <1>5, ConstantsStay DEF IdsFromTokens
  <2>2. \A g \in DOMAIN groups : ConstantsIn(groups[g], TextsTaken')
    BY <1>5 DEF IdsFromTokens, ConstantsIn
  <2> QED
    BY <1>1, <2>1, <2>2
<1>11. \A n \in 1 .. Len(aside) : ConstantsIn(aside[n].group, TextsTaken')
  BY <1>5 DEF IdsFromTokens, ConstantsIn
<1> QED
  BY <1>1, <1>5, <1>8, <1>9, <1>10, <1>11 DEF IdsFromTokens

LEMMA IngestIds ==
  ASSUME IdsFromTokens, PatternsInv, Ingest
  PROVE  IdsFromTokens'
<1>1. IngestInv /\ IngestNext /\ aside' = aside
  BY DEF PatternsInv, Ingest, patternVars
<1> QED
  BY <1>1, OpenGroupIds, PassIds, PushNewVariableIds, PushToColumnIds DEF IngestNext

\* After the first pass no token is taken any more.
LEMMA TakenStays ==
  ASSUME lines' = lines, pos' = pos
  PROVE  TokensTaken' = TokensTaken /\ TextsTaken' = TextsTaken
<1>1. TokensTaken' = TokensTaken
  BY DEF TokensTaken, NumPushed
<1> QED
  BY <1>1 DEF TextsTaken

LEMMA IdsStay ==
  ASSUME IdsFromTokens, lines' = lines, pos' = pos, term_map' = term_map,
         \A g \in DOMAIN groups' : ConstantsIn(groups'[g], TextsTaken),
         \A n \in 1 .. Len(aside') : ConstantsIn(aside'[n].group, TextsTaken)
  PROVE  IdsFromTokens'
BY TakenStays DEF IdsFromTokens

\* The term of an id is the text of a token.
LEMMA TermText ==
  ASSUME IdsFromTokens, lines \in Seq(Lines), NEW id \in Nat, NEW text \in Texts,
         FindsTerm(term_map, id, text)
  PROVE  Capped[text] \in TextsTaken
<1>1. CASE InMap(term_map, id, text)
  <2>1. text \in TextsMapped(term_map)
    BY <1>1 DEF InMap, TextsMapped, NoTerm
  <2>2. text \in TextsTaken
    BY <2>1 DEF IdsFromTokens, KeysIn
  <2>3. PICK at \in TokensTaken : text = Capped[lines[at[1]][at[2]]]
    BY <2>2 DEF TextsTaken
  <2>4. PICK n \in Nat, i \in Nat : at = <<n, i>>
    BY TakenAt
  <2>5. n \in 1 .. Len(lines) /\ i \in 1 .. Len(lines[n])
    BY <2>4, TakenAt
  <2>6. lines[n] \in Seq(Texts)
    BY <2>5, ElementOfSeq, LineFacts
  <2>7. lines[n][i] \in Texts /\ text = Capped[lines[n][i]]
    BY <2>3, <2>4, <2>5, <2>6, ElementOfSeq
  <2>8. Capped[text] = text
    BY <2>7, CappedAssumption DEF CappedAssumption
  <2> QED
    BY <2>2, <2>8
<1>2. CASE InBuffer(term_map, id, text)
  BY <1>2 DEF IdsFromTokens, KeysIn, InBuffer
<1> QED
  BY <1>1, <1>2 DEF FindsTerm

\* A frequent term becomes the constant of a new group.
LEMMA MoveTermIds ==
  ASSUME IdsFromTokens, StoreInv, NEW id \in 0 .. term_map.next_term_id - 1,
         NEW text \in Texts, MoveTerm(id, text)
  PROVE  IdsFromTokens'
<1> DEFINE g     == SplitId
           group == groups[g]
           c     == SplitToken.column_index
           moved == RowsWith(group.columns[c], id)
           kept  == 1 .. group.num_docs \ moved
           new   == FixColumn(RemoveRows(group, moved), c, text)
           out   == [group |-> new, rows |-> RetainRows(origin[g], moved)]
<1>1. /\ phase = "split" /\ work # Idle /\ FindsTerm(term_map, id, text)
      /\ aside' = Append(aside, out)
      /\ groups' = [groups EXCEPT ![g] = RemoveRows(group, kept)]
      /\ lines' = lines /\ pos' = pos /\ term_map' = term_map
  BY DEF MoveTerm, Splitting
<1>2. /\ StoreOK /\ g \in DOMAIN groups /\ lines \in Seq(Lines)
      /\ group \in Groups /\ aside \in Seq([group : Groups, rows : Seq(Nat)])
      /\ ConstantsIn(group, TextsTaken)
  BY <1>1 DEF StoreInv, PatternsInv, SplitId, StoreOK, IdsFromTokens
<1>3. /\ RemoveRows(group, kept).tokens = group.tokens
      /\ RemoveRows(group, moved).tokens = group.tokens
      /\ "tokens" \in DOMAIN RemoveRows(group, moved)
  <2>1. \A keep : /\ RemoveRows(group, keep).tokens = group.tokens
                  /\ "tokens" \in DOMAIN RemoveRows(group, keep)
    BY <1>2 DEF RemoveRows, Groups
  <2> QED
    BY <2>1
<1>4. DOMAIN group.tokens = 1 .. Len(group.tokens) /\ Len(group.tokens) \in Nat
  BY <1>2, GroupFields, LenProperties
<1>5. new.tokens = [i \in 1 .. Len(group.tokens) |-> FixToken(group.tokens[i], c, text)]
  <2>1. new.tokens = [i \in DOMAIN RemoveRows(group, moved).tokens |->
                        FixToken(RemoveRows(group, moved).tokens[i], c, text)]
    BY <1>3, FixColumnTokens
  <2> HIDE DEF new
  <2> QED
    BY <1>3, <1>4, <2>1
<1> HIDE DEF new, moved, kept, c, group
<1>6. Capped[text] \in TextsTaken
  <2>1. id \in Nat
    BY <1>2 DEF StoreOK, TermMaps
  <2> QED
    BY <1>1, <1>2, <2>1, TermText
<1>7. ConstantsIn(new, TextsTaken)
  <2>1. Len(new.tokens) = Len(group.tokens)
    BY <1>4, <1>5
  <2>2. ASSUME NEW i \in 1 .. Len(group.tokens), IsConstant(new.tokens[i])
        PROVE  Capped[new.tokens[i].text] \in TextsTaken
    <3> DEFINE token == group.tokens[i]
    <3>1. new.tokens[i] = FixToken(token, c, text)
      BY <1>5
    <3>2. token \in TemplateTokens
      BY <1>2, GroupFields
    <3>3. CASE IsVariable(token) /\ token.column_index = c
      <4> HIDE DEF token
      <4>1. c \in Nat \ {0}
        BY <3>2, <3>3, TokenKinds DEF VariableTokens
      <4>2. FixToken(token, c, text).text = text
        BY <3>2, <3>3, <4>1, FixTokenFacts
      <4> QED
        BY <1>6, <3>1, <4>2
    <3>4. CASE IsVariable(token) /\ token.column_index # c
      <4>1. IsVariable(new.tokens[i])
        <5> HIDE DEF token
        <5> QED
          BY <3>1, <3>2, <3>4 DEF FixToken, IsVariable, TemplateTokens, VariableTokens,
                                  ConstantTokens
      <4> QED
        BY <2>2, <4>1 DEF IsVariable, IsConstant
    <3>5. CASE ~IsVariable(token)
      <4>1. new.tokens[i] = token
        BY <3>1, <3>5 DEF FixToken
      <4> QED
        BY <1>2, <2>2, <4>1 DEF ConstantsIn
    <3> QED
      BY <3>3, <3>4, <3>5
  <2> QED
    BY <2>1, <2>2 DEF ConstantsIn
<1>8. \A h \in DOMAIN groups' : ConstantsIn(groups'[h], TextsTaken)
  <2>1. ConstantsIn(RemoveRows(group, kept), TextsTaken)
    BY <1>2, <1>3 DEF ConstantsIn
  <2> QED
    BY <1>1, <2>1 DEF IdsFromTokens
<1>9. ASSUME NEW n \in 1 .. Len(aside')
      PROVE  ConstantsIn(aside'[n].group, TextsTaken)
  <2>1. out.group = new
    OBVIOUS
  <2> HIDE DEF out
  <2>2. /\ Len(aside') = Len(aside) + 1 /\ Len(aside) \in Nat
        /\ \A m \in 1 .. Len(aside) : aside'[m] = aside[m]
        /\ aside'[Len(aside) + 1] = out
    BY <1>1, <1>2
  <2>3. CASE n \in 1 .. Len(aside)
    BY <2>2, <2>3 DEF IdsFromTokens
  <2>4. CASE n = Len(aside) + 1
    BY <1>7, <2>1, <2>2, <2>4
  <2> QED
    BY <2>2, <2>3, <2>4
<1> QED
  BY <1>1, <1>8, <1>9, IdsStay

\* A group that is inserted, taken or appended keeps its template.
LEMMA InsertIds ==
  ASSUME IdsFromTokens, StoreInv, phase # "ingest", InsertNewGroup
  PROVE  IdsFromTokens'
<1>1. /\ aside \in Seq([group : Groups, rows : Seq(Nat)]) /\ aside # << >>
      /\ Len(aside) \in Nat \ {0} /\ aside' = Tail(aside) /\ Head(aside) = aside[1]
      /\ lines' = lines /\ pos' = pos /\ term_map' = term_map
  BY DEF InsertNewGroup, StoreInv, PatternsInv, StoreOK
<1>2. ASSUME NEW n \in 1 .. Len(aside')
      PROVE  ConstantsIn(aside'[n].group, TextsTaken)
  <2>1. /\ Len(Tail(aside)) = Len(aside) - 1
        /\ \A m \in 1 .. Len(Tail(aside)) : Tail(aside)[m] = aside[m + 1]
    BY <1>1, HeadTailProperties
  <2>2. n + 1 \in 1 .. Len(aside) /\ aside'[n] = aside[n + 1]
    BY <1>1, <2>1
  <2> QED
    BY <2>2 DEF IdsFromTokens
<1>3. \A g \in DOMAIN groups' : ConstantsIn(groups'[g], TextsTaken)
  <2>1. 1 \in 1 .. Len(aside)
    BY <1>1
  <2>2. ConstantsIn(Head(aside).group, TextsTaken)
    BY <1>1, <2>1 DEF IdsFromTokens
  <2>3. \A g \in DOMAIN groups' :
          groups'[g] = Head(aside).group \/ (g \in DOMAIN groups /\ groups'[g] = groups[g])
    BY DEF InsertNewGroup, Put
  <2> QED
    BY <2>2, <2>3 DEF IdsFromTokens
<1> QED
  BY <1>1, <1>2, <1>3, IdsStay

LEMMA TakeIds ==
  ASSUME IdsFromTokens, StoreInv, TakeFirst \/ AppendMember
  PROVE  IdsFromTokens'
<1>1. /\ phase = "merge" /\ work # Idle
      /\ lines' = lines /\ pos' = pos /\ term_map' = term_map
  BY DEF TakeFirst, AppendMember, Appending, Merging
<1>2. StoreOK /\ MembersOK /\ AsideOK
  BY <1>1 DEF StoreInv, PatternsInv, MergeOK
<1>3. /\ \A g \in DOMAIN groups' : g \in DOMAIN groups /\ groups'[g] = groups[g]
      /\ Len(aside') = 1
  BY DEF TakeFirst, AppendMember
<1>4. ConstantsIn(aside'[1].group, TextsTaken)
  <2>1. CASE TakeFirst
    <3>1. aside = << >> /\ aside'[1].group = groups[work.ids[1]]
      BY <2>1 DEF TakeFirst
    <3>2. 1 \in Left
      BY <1>2, <3>1 DEF MembersOK, Left, FirstLeft
    <3> QED
      BY <1>2, <3>1, <3>2 DEF MembersOK, IdsFromTokens
  <2>2. CASE AppendMember
    <3> DEFINE first == aside[1].group
               other == groups[work.ids[work.member]]
    <3>1. aside # << >> /\ aside'[1].group = AppendGroup(first, other)
      BY <2>2 DEF AppendMember
    <3>2. 1 \in 1 .. Len(aside) /\ aside \in Seq([group : Groups, rows : Seq(Nat)])
      BY <1>2, <3>1 DEF StoreOK, AsideOK
    <3>3. first \in Groups /\ ConstantsIn(first, TextsTaken)
      <4>1. aside[1] \in [group : Groups, rows : Seq(Nat)]
        BY <3>2, ElementOfSeq
      <4> QED
        BY <3>2, <4>1 DEF IdsFromTokens
    <3> HIDE DEF first, other
    <3>4. AppendGroup(first, other).tokens = first.tokens
      BY <3>3 DEF AppendGroup, Groups
    <3> QED
      BY <3>1, <3>3, <3>4 DEF ConstantsIn
  <2> QED
    BY <2>1, <2>2
<1> QED
  BY <1>1, <1>3, <1>4, IdsStay DEF IdsFromTokens

\* A constant of a member becomes a column: its text is the text of a token.
LEMMA ConvertIds ==
  ASSUME IdsFromTokens, StoreInv, ConvertMember
  PROVE  IdsFromTokens'
<1> DEFINE g     == work.ids[work.member]
           i     == work.token
           group == groups[g]
           text  == group.tokens[i].text
           new   == ConvertToVariable(group, term_map, i)
<1>1. /\ phase = "merge" /\ work # Idle /\ work.token <= Len(work.key)
      /\ work.member <= Len(work.ids)
      /\ groups' = [groups EXCEPT ![g] = new] /\ aside' = aside
      /\ term_map' = TermMapAfterConvert(group, term_map, i)
      /\ lines' = lines /\ pos' = pos
  BY DEF ConvertMember, Converting, Merging
<1>2. StoreOK /\ MembersOK /\ AsideOK /\ IsWork(work)
  BY <1>1 DEF StoreInv, PatternsInv, MergeOK
<1>3. work.member \in Left
  <2>1. /\ Len(work.ids) \in Nat \ {0} /\ Len(work.key) \in Nat
        /\ i \in Nat \ {0} /\ work.member \in Nat \ {0}
    BY <1>2 DEF MembersOK, IsWork
  <2>2. aside = << >>
    BY <1>1, <1>2, <2>1 DEF AsideOK
  <2> QED
    BY <1>1, <2>1, <2>2 DEF Left, FirstLeft
<1>4. /\ g \in DOMAIN groups /\ group \in Groups /\ Len(group.tokens) = Len(work.key)
      /\ term_map \in TermMaps /\ i \in 1 .. Len(group.tokens)
      /\ ConstantsIn(group, TextsTaken)
  <2>1. /\ g \in DOMAIN groups /\ group \in Groups /\ Len(group.tokens) = Len(work.key)
    BY <1>2, <1>3, MemberFacts
  <2>2. Len(work.key) \in Nat /\ i \in Nat \ {0} /\ term_map \in TermMaps
    BY <1>2 DEF MembersOK, IsWork, StoreOK
  <2> QED
    BY <1>1, <2>1, <2>2 DEF IdsFromTokens
<1>5. TokensTaken' = TokensTaken /\ TextsTaken' = TextsTaken
  BY <1>1, TakenStays
<1> HIDE DEF g, i, group
<1>6. CASE IsVariable(group.tokens[i])
  <2>1. term_map' = term_map /\ new = group
    BY <1>1, <1>6 DEF TermMapAfterConvert, ConvertToVariable
  <2>2. \A h \in DOMAIN groups' : ConstantsIn(groups'[h], TextsTaken)
    BY <1>1, <1>4, <2>1 DEF IdsFromTokens, group
  <2> QED
    BY <1>1, <2>1, <2>2, IdsStay DEF IdsFromTokens
<1>7. CASE ~IsVariable(group.tokens[i])
  <2>1. text \in Texts /\ IsConstant(group.tokens[i])
    BY <1>4, <1>7, GroupFields, TokenKinds DEF TemplateTokens, ConstantTokens, VariableTokens
  <2>2. term_map' = MutateOrCreate(term_map, text, FALSE)
    BY <1>1, <1>7 DEF TermMapAfterConvert
  <2>3. Capped[text] \in TextsTaken
    BY <1>4, <2>1 DEF ConstantsIn
  <2>4. ConstantsIn(new, TextsTaken)
    <3>1. /\ Len(new.tokens) = Len(group.tokens)
          /\ \A j \in 1 .. Len(group.tokens) : j # i => new.tokens[j] = group.tokens[j]
          /\ ~IsConstant(new.tokens[i])
      BY <1>4, <1>7, ConvertFields
    <3> HIDE DEF new
    <3> QED
      BY <1>4, <3>1, ConstantsStay
  <2> HIDE DEF new, text
  <2>5. /\ IdsCounted(term_map') /\ term_map'.unique_terms = term_map.unique_terms
        /\ KeysIn(term_map', TextsTaken)
    <3>1. IdsCounted(term_map) /\ KeysIn(term_map, TextsTaken)
      BY DEF IdsFromTokens
    <3> QED
      BY <1>4, <2>1, <2>2, <2>3, <3>1, CreateCounts
  <2>6. \A h \in DOMAIN groups' : ConstantsIn(groups'[h], TextsTaken)
    BY <1>1, <1>4, <2>4 DEF IdsFromTokens
  <2> QED
    BY <1>1, <1>5, <2>5, <2>6 DEF IdsFromTokens
<1> QED
  BY <1>6, <1>7

LEMMA IdsStep ==
  IdsFromTokens /\ StoreInv /\ [Next]_vars => IdsFromTokens'
<1> SUFFICES ASSUME IdsFromTokens, StoreInv, [Next]_vars PROVE IdsFromTokens'
  OBVIOUS
<1>1. CASE Ingest
  BY <1>1, IngestIds DEF StoreInv
<1>2. CASE \E id \in 0 .. term_map.next_term_id - 1, text \in Texts : MoveTerm(id, text)
  BY <1>2, MoveTermIds
<1>3. CASE InsertSplitGroup \/ InsertMerged
  BY <1>3, InsertIds DEF InsertSplitGroup, InsertMerged, Appending, Merging
<1>4. CASE ConvertMember
  BY <1>4, ConvertIds
<1>5. CASE TakeFirst \/ AppendMember
  BY <1>5, TakeIds
<1>6. CASE \/ \E split \in BOOLEAN : EndOfInput(split)
           \/ \E g \in todo : SplitGroup(g)
           \/ \E class \in classes : \E ids \in SetToSeqs(class.ids) : StartMerge(class, ids)
           \/ SplitNextToken \/ SplitGroupDone \/ EndSplit
           \/ Classify \/ ConvertNextToken \/ EndMerge
           \/ Merged \/ UNCHANGED vars
  <2>1. UNCHANGED <<ingestVars, aside>>
    BY <1>6 DEF EndOfInput, SplitGroup, StartMerge, SplitNextToken, SplitGroupDone, EndSplit,
                Classify, ConvertNextToken, EndMerge, Merged, vars, patternVars
  <2> QED
    BY <2>1, IdsStay DEF ingestVars, IdsFromTokens
<1> QED
  BY <1>1, <1>2, <1>3, <1>4, <1>5, <1>6 DEF Next, Split, Merge

LEMMA IdsStart == Init => IdsFromTokens
<1> SUFFICES ASSUME Init PROVE IdsFromTokens
  OBVIOUS
<1>1. /\ lines = << >> /\ DOMAIN groups = {} /\ aside = << >> /\ term_map = EmptyTermMap
  BY DEF Init, IngestInit
<1>2. TokensTaken = {}
  BY <1>1, TakenAt
<1>3. /\ TextsMapped(term_map) = {} /\ Len(term_map.unique_terms) = 0
      /\ term_map.next_term_id = 0
  BY <1>1 DEF TextsMapped, EmptyTermMap
<1>4. IdsCounted(term_map) /\ KeysIn(term_map, TextsTaken)
  BY <1>3, FS_EmptySet DEF IdsCounted, KeysIn
<1> QED
  BY <1>1, <1>2, <1>3, <1>4, FS_EmptySet DEF IdsFromTokens

\* Every key is the text of a token, so that there are not more keys.
LEMMA TwoIdsPerToken ==
  ASSUME IdsFromTokens, term_map \in TermMaps
  PROVE  TermIdsBounded
<1>1. IsFiniteSet(TextsTaken) /\ Cardinality(TextsTaken) <= Cardinality(TokensTaken)
  <2> DEFINE text == [at \in TokensTaken |-> Capped[lines[at[1]][at[2]]]]
  <2>1. IsFiniteSet(TokensTaken)
    BY DEF IdsFromTokens
  <2>2. text \in Surjection(TokensTaken, TextsTaken)
    BY DEF TextsTaken, Surjection
  <2> HIDE DEF text
  <2> QED
    BY <2>1, <2>2, FS_Surjection
<1>2. Cardinality(TextsMapped(term_map)) <= Cardinality(TextsTaken)
  BY <1>1, FS_Subset DEF IdsFromTokens, KeysIn
<1>3. /\ Cardinality(TextsMapped(term_map)) \in Nat /\ Cardinality(TextsTaken) \in Nat
      /\ Cardinality(TokensTaken) \in Nat /\ Len(term_map.unique_terms) \in Nat
  BY <1>1, FS_CardinalityType DEF IdsFromTokens, IdsCounted, TermMaps
<1> QED
  BY <1>1, <1>2, <1>3 DEF IdsFromTokens, IdsCounted, TermIdsBounded

(***************************************************************************)
(* next_term_id, a u32 in the code: the first pass, the terms that         *)
(* split_templates moves and the constants that merge_templates converts   *)
(* draw at most two ids for each token of the input, so that an input of   *)
(* less than 2^31 tokens never brings the counter to where it wraps.       *)
(***************************************************************************)
THEOREM IdsStayBounded == Spec /\ []NewIdsFresh => []TermIdsBounded
<1>1. Init => IdsFromTokens
  BY IdsStart
<1>2. IdsFromTokens /\ StoreInv /\ [Next]_vars => IdsFromTokens'
  BY IdsStep
<1>3. IdsFromTokens /\ StoreInv => TermIdsBounded
  <2> SUFFICES ASSUME IdsFromTokens, StoreInv PROVE TermIdsBounded
    OBVIOUS
  <2>1. term_map \in TermMaps
    BY DEF StoreInv, PatternsInv, StoreOK, IngestInv, IngestTypeOK
  <2> QED
    BY <2>1, TwoIdsPerToken
<1> QED BY <1>1, <1>2, <1>3, StoreInvariant, PTL DEF Spec

-----------------------------------------------------------------------------
(***************************************************************************)
(* Fresh ids from hashes that are apart.                                   *)
(*                                                                         *)
(* What the theorems above assume of the ids follows from HashesApart,     *)
(* which speaks of the types of the groups and lines there are: an id in   *)
(* use is that of a line of the input or was made of a salt and the types  *)
(* its group still has, and no salt comes twice.  How many salts that asks *)
(* about is counted: at most three for a line.                             *)
(***************************************************************************)

\* The ways an id comes into use: the first pass's, and a salted one.
Salted(g) ==
  /\ g.num_tokens \in Buckets
  /\ g.num_tokens = Len(groups[g].tokens)
  /\ \E s \in 1 .. salt[g.num_tokens] :
       g.id = s + FingerprintTypes(TokenTypes(groups[g]))

IdMade(g) == (\E n \in 1 .. Len(lines) : g = GroupIdOf(lines[n])) \/ Salted(g)

IdsMade == \A g \in DOMAIN groups : IdMade(g)

NoSalts == \A n \in Buckets : salt[n] = 0

(***************************************************************************)
(* How many salts a bucket can come to: the groups that split_templates    *)
(* sets aside share the lines out, one at least each, and merge_templates  *)
(* makes no more classes than there are groups then.                       *)
(***************************************************************************)
SaltsInv ==
  /\ Len(lines) <= MaxLines
  /\ phase = "ingest" => NoSalts /\ Cardinality(DOMAIN groups) <= Len(lines)
  /\ phase = "split" =>
       /\ \A n \in Buckets : salt[n] + Len(aside) <= Len(lines)
       /\ Cardinality(DOMAIN groups) + Len(aside) <= 2 * Len(lines)
       /\ todo # {} \/ work # Idle =>
            /\ NoSalts /\ Cardinality(DOMAIN groups) <= Len(lines)
            /\ \A n \in 1 .. Len(aside) : aside[n].group.num_docs > 0
  /\ phase = "classify" =>
       /\ \A n \in Buckets : salt[n] <= Len(lines)
       /\ Cardinality(DOMAIN groups) <= 2 * Len(lines)
  /\ phase = "merge" =>
       /\ IsFiniteSet(classes)
       /\ \A n \in Buckets :
            salt[n] + Cardinality(classes) + (IF work = Idle THEN 0 ELSE 1) <= 3 * Len(lines)

FreshInv == PatternsTypeInv /\ SaltsInv /\ IdsMade



\* The group that is inserted: it has a bucket, and lines of that length.
LEMMA InsertedBucket ==
  ASSUME PatternsTypeInv, phase # "ingest", aside # << >>
  PROVE  /\ Head(aside) = aside[1] /\ Len(aside) \in Nat \ {0}
         /\ aside[1].group \in Groups
         /\ Len(aside[1].group.tokens) \in Buckets
         /\ salt[Len(aside[1].group.tokens)] \in Nat
<1>1. aside \in Seq([group : Groups, rows : Seq(Nat)]) /\ TokensOK
  BY DEF PatternsTypeInv, StoreInv, PatternsInv, StoreOK
<1>2. Len(aside) \in Nat \ {0} /\ Head(aside) = aside[1]
  BY <1>1
<1>3. 1 \in 1 .. Len(aside)
  BY <1>2
<1>4. aside[1] \in [group : Groups, rows : Seq(Nat)]
  BY <1>1, <1>3, ElementOfSeq
<1>5. Len(aside[1].group.tokens) \in Buckets
  BY <1>1, <1>3 DEF TokensOK
<1> QED
  BY <1>2, <1>4, <1>5 DEF PatternsTypeInv

\* Hashes that are apart make ids that are not in use.
LEMMA ApartIsFresh ==
  ASSUME HashesApart, FreshInv
  PROVE  NewIdsFresh
<1> DEFINE group == aside[1].group
           n     == Len(group.tokens)
           id    == DuplicateId(group, salt[n] + 1)
<1> SUFFICES ASSUME Inserting, id \in DOMAIN groups PROVE FALSE
  <2>1. Inserting => Head(aside) = aside[1]
    BY InsertedBucket DEF FreshInv, Inserting, Appending, Merging
  <2> QED
    BY <2>1 DEF NewIdsFresh
<1>1. /\ aside # << >> /\ phase \in {"split", "merge"}
      /\ phase = "merge" => work # Idle
  BY DEF Inserting, Appending, Merging
<1>2. /\ group \in Groups /\ n \in Buckets /\ salt[n] \in Nat /\ Len(aside) \in Nat \ {0}
  BY <1>1, InsertedBucket DEF FreshInv
<1>3. salt[n] + 1 \in 1 .. MaxSalt /\ MaxSalt \in Nat
  <2>1. Len(lines) \in Nat /\ MaxSalt \in Nat
    BY DEF FreshInv, PatternsTypeInv, StoreInv, MaxSalt
  <2>2. CASE phase = "split"
    <3>1. salt[n] + Len(aside) <= Len(lines)
      BY <1>2, <2>2 DEF FreshInv, SaltsInv
    <3> HIDE DEF n
    <3> QED
      BY <1>2, <2>1, <3>1 DEF MaxSalt
  <2>3. CASE phase = "merge"
    <3>1. salt[n] + Cardinality(classes) + 1 <= 3 * Len(lines) /\ IsFiniteSet(classes)
      BY <1>1, <1>2, <2>3 DEF FreshInv, SaltsInv
    <3>2. Cardinality(classes) \in Nat
      BY <3>1, FS_CardinalityType
    <3> HIDE DEF n
    <3> QED
      BY <1>2, <2>1, <3>1, <3>2 DEF MaxSalt
  <2> QED
    BY <1>1, <2>1, <2>2, <2>3
<1>4. id = [num_tokens |-> n, id |-> salt[n] + 1 + FingerprintTypes(TokenTypes(group))]
  BY DEF DuplicateId
<1>5. IdMade(id)
  BY DEF FreshInv, IdsMade
<1>6. /\ <<"aside", 1>> \in Holders /\ Held(<<"aside", 1>>) = group
      /\ <<"map", id>> \in Holders /\ Held(<<"map", id>>) = groups[id]
  <2>1. 1 \in DOMAIN aside
    BY <1>2, LenProperties DEF FreshInv, PatternsTypeInv, StoreInv, PatternsInv, StoreOK
  <2> HIDE DEF id
  <2> QED
    BY <2>1 DEF Holders, Held
<1> HIDE DEF id
<1>7. ASSUME NEW m \in 1 .. Len(lines), id = GroupIdOf(lines[m]) PROVE FALSE
  <2>1. Len(lines[m]) = n /\ FingerprintTokens(TypesOf(lines[m])) = id.id
    BY <1>4, <1>7 DEF GroupIdOf
  <2>2. SaltedIsNew(TokenTypes(group), lines[m])
    BY <1>1, <1>6, <2>1 DEF HashesApart
  <2> HIDE DEF n, group
  <2> QED
    BY <1>3, <1>4, <2>1, <2>2 DEF SaltedIsNew
<1>8. ASSUME Salted(id) PROVE FALSE
  <2>1. Len(groups[id].tokens) = n
    BY <1>4, <1>8 DEF Salted
  <2>2. SaltsApart(TokenTypes(groups[id]), TokenTypes(group))
    BY <1>1, <1>6, <2>1 DEF HashesApart
  <2> HIDE DEF n, group
  <2>3. PICK s \in 1 .. salt[n] : id.id = s + FingerprintTypes(TokenTypes(groups[id]))
    BY <1>4, <1>8 DEF Salted
  <2>4. s \in 1 .. MaxSalt /\ s # salt[n] + 1
    BY <1>2, <1>3
  <2> QED
    BY <1>3, <1>4, <2>2, <2>3, <2>4 DEF SaltsApart
<1> QED
  BY <1>5, <1>7, <1>8 DEF IdMade

\* Groups set aside that have rows are not more than the lines.
AsideHasRows == \A n \in 1 .. Len(aside) : aside[n].group.num_docs > 0

LEMMA AsideCount ==
  StoreInv /\ phase # "ingest" /\ AsideHasRows => Len(aside) <= Len(lines)
<1> SUFFICES ASSUME StoreInv, phase # "ingest",
                    \A n \in 1 .. Len(aside) : aside[n].group.num_docs > 0
             PROVE  Len(aside) <= Len(lines)
  BY DEF AsideHasRows
<1>1. /\ StoreOK /\ Once(RowsByHolder, Len(lines)) /\ lines \in Seq(Lines)
  BY DEF StoreInv, PatternsInv, RowsOnceInv
<1>2. /\ aside \in Seq([group : Groups, rows : Seq(Nat)])
      /\ Len(aside) \in Nat /\ Len(lines) \in Nat /\ DOMAIN aside = 1 .. Len(aside)
  BY <1>1, LenProperties DEF StoreOK
<1>3. ASSUME NEW n \in 1 .. Len(aside)
      PROVE  /\ <<"aside", n>> \in DOMAIN RowsByHolder
             /\ RowsByHolder[<<"aside", n>>] = aside[n].rows
             /\ aside[n].rows[1] \in LinesIn(aside[n].rows)
  <2>1. /\ <<"aside", n>> \in DOMAIN RowsByHolder
        /\ RowsByHolder[<<"aside", n>>] = aside[n].rows
    BY <1>2, HolderFacts
  <2>2. GroupOK(aside[n].group, term_map, lines, aside[n].rows)
    BY <1>1 DEF StoreOK
  <2>3. aside[n].rows \in Seq(Nat) /\ Len(aside[n].rows) > 0 /\ Len(aside[n].rows) \in Nat
    BY <2>2 DEF GroupOK
  <2>4. aside[n].rows[1] \in LinesIn(aside[n].rows)
    BY <2>3 DEF LinesIn
  <2> QED
    BY <2>1, <2>4
<1> DEFINE first == [n \in 1 .. Len(aside) |-> aside[n].rows[1]]
<1>4. first \in Injection(1 .. Len(aside), 1 .. Len(lines))
  <2>1. ASSUME NEW n \in 1 .. Len(aside) PROVE first[n] \in 1 .. Len(lines)
    BY <1>1, <1>3 DEF Once
  <2>2. ASSUME NEW m \in 1 .. Len(aside), NEW n \in 1 .. Len(aside), first[m] = first[n]
        PROVE  m = n
    <3> SUFFICES ASSUME m # n PROVE FALSE
      OBVIOUS
    <3>1. <<"aside", m>> # <<"aside", n>>
      OBVIOUS
    <3>2. LinesIn(aside[m].rows) \cap LinesIn(aside[n].rows) = {}
      BY <1>1, <1>3, <3>1 DEF Once
    <3>3. first[m] = aside[m].rows[1] /\ first[n] = aside[n].rows[1]
      OBVIOUS
    <3> QED
      BY <1>3, <2>2, <3>2, <3>3
  <2>3. first \in [1 .. Len(aside) -> 1 .. Len(lines)]
    BY <2>1
  <2> HIDE DEF first
  <2> QED
    BY <2>2, <2>3 DEF Injection, IsInjective
<1>5. /\ IsFiniteSet(1 .. Len(lines)) /\ Cardinality(1 .. Len(lines)) = Len(lines)
      /\ Cardinality(1 .. Len(aside)) = Len(aside)
  <2>1. \A n \in Nat : IsFiniteSet(1 .. n) /\ Cardinality(1 .. n) = n
    <3> TAKE n \in Nat
    <3>1. IsFiniteSet(1 .. n) /\ Cardinality(1 .. n) = IF 1 > n THEN 0 ELSE n - 1 + 1
      BY FS_Interval
    <3> QED
      BY <3>1
  <2> QED
    BY <1>2, <2>1
<1> HIDE DEF first
<1> QED
  BY <1>4, <1>5, FS_Injection

\* A line more, and a group more at most.
LEMMA IngestSalts ==
  ASSUME FreshInv, Ingest
  PROVE  SaltsInv'
<1>1. /\ phase = "ingest" /\ IngestNext /\ UNCHANGED patternVars
      /\ PatternsInv /\ lines \in Seq(Lines)
  BY DEF Ingest, FreshInv, PatternsTypeInv, StoreInv
<1>2. /\ IsFiniteSet(DOMAIN groups) /\ phase' = "ingest" /\ salt' = salt
      /\ Len(lines) \in Nat /\ MaxLines \in Nat /\ Cardinality(DOMAIN groups) \in Nat
  <2>1. IsFiniteSet(DOMAIN groups) /\ phase' = "ingest" /\ salt' = salt
    BY <1>1 DEF PatternsInv, patternVars
  <2> QED
    BY <1>1, <2>1, FS_CardinalityType, LinesAssumption DEF LinesAssumption
<1>3. NoSalts /\ Len(lines) <= MaxLines /\ Cardinality(DOMAIN groups) <= Len(lines)
  BY <1>1 DEF FreshInv, SaltsInv
<1>4. Len(lines') <= MaxLines /\ Cardinality(DOMAIN groups') <= Len(lines')
  <2>1. ASSUME NEW line \in Lines, OpenGroup(line)
        PROVE  Len(lines') <= MaxLines /\ Cardinality(DOMAIN groups') <= Len(lines')
    <3>1. /\ lines' = Append(lines, line) /\ Len(lines) < MaxLines
          /\ DOMAIN groups' = DOMAIN groups \cup {GroupIdOf(line)}
      BY <2>1 DEF OpenGroup, Put
    <3>2. Len(lines') = Len(lines) + 1
      BY <1>1, <3>1, AppendProperties
    <3>3. \/ Cardinality(DOMAIN groups') = Cardinality(DOMAIN groups)
          \/ Cardinality(DOMAIN groups') = Cardinality(DOMAIN groups) + 1
      BY <1>2, <3>1, FS_AddElement
    <3> QED
      BY <1>2, <1>3, <3>1, <3>2, <3>3
  <2>2. ASSUME NEW line \in Lines, BeginPush(line)
        PROVE  Len(lines') <= MaxLines /\ Cardinality(DOMAIN groups') <= Len(lines')
    <3>1. lines' = Append(lines, line) /\ Len(lines) < MaxLines /\ groups' = groups
      BY <2>2 DEF BeginPush
    <3>2. Len(lines') = Len(lines) + 1
      BY <1>1, <3>1, AppendProperties
    <3> QED
      BY <1>2, <1>3, <3>1, <3>2
  <2>3. CASE PushSameConstant \/ PushNewVariable \/ PushToColumn \/ EndPush
    <3>1. lines' = lines /\ DOMAIN groups' = DOMAIN groups
      BY <2>3 DEF PushSameConstant, PushNewVariable, PushToColumn, EndPush
    <3> QED
      BY <1>3, <3>1
  <2> QED
    BY <1>1, <2>1, <2>2, <2>3 DEF IngestNext
<1> QED
  BY <1>2, <1>3, <1>4 DEF SaltsInv, NoSalts

\* A group more is set aside, of at least one row.
LEMMA MoveTermSalts ==
  ASSUME FreshInv, StoreInv', NEW id \in 0 .. term_map.next_term_id - 1, NEW text \in Texts,
         MoveTerm(id, text)
  PROVE  SaltsInv'
<1> DEFINE g     == SplitId
           group == groups[g]
           c     == SplitToken.column_index
           moved == RowsWith(group.columns[c], id)
           fixed == FixColumn(RemoveRows(group, moved), c, text)
           out   == [group |-> fixed, rows |-> RetainRows(origin[g], moved)]
<1>1. /\ phase = "split" /\ work # Idle /\ Cardinality(moved) > SplitThreshold
      /\ aside' = Append(aside, out)
      /\ UNCHANGED <<lines, phase, todo, work, salt>>
  BY DEF MoveTerm, Splitting, Frequent
<1>2. /\ StoreOK /\ g \in DOMAIN groups /\ group \in Groups
      /\ aside \in Seq([group : Groups, rows : Seq(Nat)]) /\ lines \in Seq(Lines)
  BY <1>1 DEF FreshInv, PatternsTypeInv, StoreInv, PatternsInv, SplitId, StoreOK
<1>3. /\ NoSalts /\ Cardinality(DOMAIN groups) <= Len(lines) /\ Len(lines) <= MaxLines
      /\ \A n \in 1 .. Len(aside) : aside[n].group.num_docs > 0
  BY <1>1 DEF FreshInv, SaltsInv
<1>4. DOMAIN groups' = DOMAIN groups
  BY MoveTermTypes DEF FreshInv
<1>5. fixed.num_docs = Cardinality(moved)
  <2>1. /\ RemoveRows(group, moved).num_docs = Cardinality(moved)
        /\ "num_docs" \in DOMAIN RemoveRows(group, moved)
    BY <1>2 DEF RemoveRows, Groups
  <2> HIDE DEF moved, group
  <2>2. FixColumn(RemoveRows(group, moved), c, text).num_docs = RemoveRows(group, moved).num_docs
    BY <2>1 DEF FixColumn
  <2> QED
    BY <2>1, <2>2
<1>6. out.group.num_docs > 0
  <2>1. out.group = fixed
    OBVIOUS
  <2>2. /\ c \in 1 .. Len(group.columns) /\ group.num_docs \in Nat
        /\ Len(group.columns[c]) = group.num_docs
    <3>1. /\ IsWork(work) /\ GroupOK(group, term_map, lines, origin[g])
          /\ IsVariable(SplitToken) /\ work.token <= Len(group.tokens)
      BY <1>1, <1>2
         DEF MoveTerm, Frequent, FreshInv, PatternsTypeInv, StoreInv, PatternsInv, StoreOK
    <3>2. work.token \in 1 .. Len(group.tokens)
      BY <1>2, <3>1, GroupFields DEF IsWork
    <3>3. /\ group.num_docs \in Nat /\ c \in 1 .. Len(group.columns)
      BY <1>2, <3>1, <3>2, GroupFields DEF GroupOK, ColumnsOwned, SplitToken
    <3> QED
      BY <3>1, <3>3 DEF GroupOK
  <2> HIDE DEF out, fixed
  <2>3. moved \in SUBSET (1 .. group.num_docs) /\ IsFiniteSet(1 .. group.num_docs)
    <3> HIDE DEF group, c
    <3>1. moved \in SUBSET (1 .. group.num_docs)
      BY <2>2 DEF RowsWith
    <3> HIDE DEF moved
    <3> QED
      BY <2>2, <3>1, FS_Interval
  <2> HIDE DEF moved
  <2>4. SplitThreshold \in Nat
    BY PatternsAssumption DEF PatternsAssumption
  <2>5. Cardinality(moved) \in Nat
    BY <2>3, FS_Subset, FS_CardinalityType
  <2> QED
    BY <1>1, <1>5, <2>1, <2>4, <2>5
<1> HIDE DEF out, fixed, moved, c, group
<1>7. /\ Len(aside') = Len(aside) + 1 /\ Len(aside) \in Nat
      /\ \A m \in 1 .. Len(aside) : aside'[m] = aside[m]
      /\ aside'[Len(aside) + 1] = out
  BY <1>1, <1>2
<1>8. \A n \in 1 .. Len(aside') : aside'[n].group.num_docs > 0
  BY <1>3, <1>6, <1>7
<1>9. Len(aside') <= Len(lines')
  <2>1. (StoreInv /\ phase # "ingest" /\ AsideHasRows => Len(aside) <= Len(lines))'
    BY AsideCount, PTL
  <2> QED
    BY <1>1, <1>8, <2>1 DEF AsideHasRows
<1>10. Len(lines) \in Nat /\ Cardinality(DOMAIN groups) \in Nat
  BY <1>2, FS_CardinalityType DEF StoreOK
<1>11. /\ NoSalts' /\ Cardinality(DOMAIN groups') <= Len(lines') /\ Len(lines') <= MaxLines
       /\ Len(lines') \in Nat /\ Len(aside') \in Nat /\ Cardinality(DOMAIN groups') \in Nat
  BY <1>1, <1>3, <1>4, <1>7, <1>10 DEF NoSalts
<1>12. /\ \A n \in Buckets : salt'[n] + Len(aside') <= Len(lines')
       /\ Cardinality(DOMAIN groups') + Len(aside') <= 2 * Len(lines')
  BY <1>9, <1>11 DEF NoSalts
<1> QED
  BY <1>1, <1>8, <1>11, <1>12 DEF SaltsInv

\* The steps of split_templates that leave the groups alone.
LEMMA SplitCursorSalts ==
  ASSUME FreshInv,
         (\E g \in todo : SplitGroup(g)) \/ SplitNextToken \/ SplitGroupDone
  PROVE  SaltsInv'
<1>1. /\ phase = "split" /\ phase' = "split"
      /\ todo # {} \/ work # Idle
      /\ lines' = lines /\ groups' = groups /\ aside' = aside /\ salt' = salt
  BY DEF SplitGroup, SplitNextToken, SplitGroupDone, Splitting, ingestVars
<1>2. /\ Len(lines) <= MaxLines /\ NoSalts /\ Cardinality(DOMAIN groups) <= Len(lines)
      /\ \A n \in Buckets : salt[n] + Len(aside) <= Len(lines)
      /\ Cardinality(DOMAIN groups) + Len(aside) <= 2 * Len(lines)
      /\ \A n \in 1 .. Len(aside) : aside[n].group.num_docs > 0
  BY <1>1 DEF FreshInv, SaltsInv
<1> HIDE DEF Idle
<1> QED
  BY <1>1, <1>2 DEF SaltsInv, NoSalts

\* A group comes out of aside, and into the map.
LEMMA InsertedCounts ==
  ASSUME FreshInv, phase # "ingest", InsertNewGroup
  PROVE  /\ Len(aside) \in Nat \ {0} /\ Len(aside') = Len(aside) - 1
         /\ Cardinality(DOMAIN groups) \in Nat /\ Cardinality(DOMAIN groups') \in Nat
         /\ Cardinality(DOMAIN groups') <= Cardinality(DOMAIN groups) + 1
         /\ \A n \in Buckets : /\ salt[n] \in Nat /\ salt'[n] \in Nat
                               /\ salt[n] <= salt'[n] /\ salt'[n] <= salt[n] + 1
         /\ lines' = lines
<1>1. StoreOK /\ salt \in [Buckets -> Nat] /\ IsFiniteSet(DOMAIN groups)
  BY DEF FreshInv, PatternsTypeInv, StoreInv, PatternsInv, StoreOK
<1>2. PICK id : DOMAIN groups' = DOMAIN groups \cup {id}
  BY <1>1, InsertKeepsStore
<1>3. \/ Cardinality(DOMAIN groups') = Cardinality(DOMAIN groups)
      \/ Cardinality(DOMAIN groups') = Cardinality(DOMAIN groups) + 1
  BY <1>1, <1>2, FS_AddElement
<1>4. Cardinality(DOMAIN groups) \in Nat
  BY <1>1, FS_CardinalityType
<1>5. PICK bucket : salt' = [salt EXCEPT ![bucket] = @ + 1] /\ lines' = lines
  BY DEF InsertNewGroup
<1>6. ASSUME NEW n \in Buckets
      PROVE  /\ salt[n] \in Nat /\ salt'[n] \in Nat
             /\ salt[n] <= salt'[n] /\ salt'[n] <= salt[n] + 1
  BY <1>1, <1>5
<1> QED
  BY <1>1, <1>3, <1>4, <1>5, <1>6, InsertKeepsStore

LEMMA InsertSplitSalts ==
  ASSUME FreshInv, InsertSplitGroup
  PROVE  SaltsInv'
<1>1. /\ phase = "split" /\ phase' = "split" /\ work = Idle /\ work' = work
      /\ todo = {} /\ todo' = todo /\ InsertNewGroup
  BY DEF InsertSplitGroup
<1>2. /\ Len(lines) <= MaxLines /\ Len(lines) \in Nat
      /\ \A n \in Buckets : salt[n] + Len(aside) <= Len(lines)
      /\ Cardinality(DOMAIN groups) + Len(aside) <= 2 * Len(lines)
  BY <1>1 DEF FreshInv, SaltsInv, PatternsTypeInv, StoreInv
<1>3. /\ Len(aside) \in Nat \ {0} /\ Len(aside') = Len(aside) - 1 /\ lines' = lines
      /\ Cardinality(DOMAIN groups) \in Nat /\ Cardinality(DOMAIN groups') \in Nat
      /\ Cardinality(DOMAIN groups') <= Cardinality(DOMAIN groups) + 1
      /\ \A n \in Buckets : /\ salt[n] \in Nat /\ salt'[n] \in Nat
                            /\ salt'[n] <= salt[n] + 1
  BY <1>1, InsertedCounts
<1>4. \A a, b, c, d, all \in Nat : a + b <= all /\ c <= a + 1 /\ d = b - 1 => c + d <= all
  OBVIOUS
<1>5. /\ Len(aside) \in Nat /\ Len(aside') \in Nat
      /\ Len(lines) \in Nat /\ 2 * Len(lines) \in Nat
  BY <1>2, <1>3
<1>6. \A n \in Buckets : salt'[n] + Len(aside') <= Len(lines)
  <2> SUFFICES ASSUME NEW n \in Buckets PROVE salt'[n] + Len(aside') <= Len(lines)
    OBVIOUS
  <2>1. /\ salt[n] \in Nat /\ salt'[n] \in Nat /\ salt'[n] <= salt[n] + 1
        /\ salt[n] + Len(aside) <= Len(lines)
    BY <1>2, <1>3
  <2> QED
    BY <1>3, <1>4, <1>5, <2>1
<1>7. Cardinality(DOMAIN groups') + Len(aside') <= 2 * Len(lines)
  BY <1>2, <1>3, <1>4, <1>5
<1> QED
  BY <1>1, <1>2, <1>3, <1>6, <1>7 DEF SaltsInv

LEMMA BeforeMergeSalts ==
  ASSUME FreshInv, (\E split \in BOOLEAN : EndOfInput(split)) \/ EndSplit
  PROVE  SaltsInv'
<1>1. /\ phase' \in {"split", "classify"} /\ phase \in {"ingest", "split"}
      /\ lines' = lines /\ groups' = groups /\ aside' = aside /\ salt' = salt
  BY DEF EndOfInput, EndSplit, ingestVars
<1>2. /\ aside = << >> /\ IsFiniteSet(DOMAIN groups) /\ Len(lines) \in Nat
      /\ Len(lines) <= MaxLines
  <2>1. phase = "split" => EndSplit
    BY DEF EndOfInput
  <2> QED
    BY <1>1, <2>1
       DEF FreshInv, SaltsInv, PatternsTypeInv, StoreInv, PatternsInv, StoreOK, EndSplit
<1>3. Cardinality(DOMAIN groups) \in Nat /\ \A n \in Buckets : salt[n] \in Nat
  BY <1>2, FS_CardinalityType DEF FreshInv, PatternsTypeInv
<1>4. CASE phase = "ingest"
  <2>1. NoSalts /\ Cardinality(DOMAIN groups) <= Len(lines)
    BY <1>4 DEF FreshInv, SaltsInv
  <2>2. /\ \A n \in Buckets : salt[n] + 0 <= Len(lines) /\ salt[n] <= Len(lines)
        /\ Cardinality(DOMAIN groups) + 0 <= 2 * Len(lines)
        /\ Cardinality(DOMAIN groups) <= 2 * Len(lines)
    BY <1>2, <1>3, <2>1 DEF NoSalts
  <2>3. Len(aside) = 0 /\ \A n \in 1 .. Len(aside) : aside[n].group.num_docs > 0
    BY <1>2
  <2> QED
    BY <1>1, <1>2, <2>1, <2>2, <2>3 DEF SaltsInv, NoSalts
<1>5. CASE phase = "split"
  <2>1. phase' = "classify"
    BY <1>5 DEF EndOfInput, EndSplit
  <2>2. /\ \A n \in Buckets : salt[n] + Len(aside) <= Len(lines)
        /\ Cardinality(DOMAIN groups) + Len(aside) <= 2 * Len(lines)
        /\ Len(aside) = 0
    BY <1>2, <1>5 DEF FreshInv, SaltsInv
  <2> QED
    BY <1>1, <1>2, <1>3, <2>1, <2>2 DEF SaltsInv
<1> QED
  BY <1>1, <1>4, <1>5

\* No more classes than groups.
LEMMA ClassifySalts ==
  ASSUME FreshInv, Classify
  PROVE  SaltsInv'
<1> DEFINE Class(g) == [key |-> MergeKey(groups[g]),
                        ids |-> {h \in DOMAIN groups :
                                   MergeKey(groups[h]) = MergeKey(groups[g])}]
           f   == [g \in DOMAIN groups |-> Class(g)]
           all == {Class(g) : g \in DOMAIN groups}
<1>1. /\ classes' \in SUBSET all /\ phase = "classify" /\ phase' = "merge"
      /\ lines' = lines /\ groups' = groups /\ salt' = salt /\ work' = work
  BY DEF Classify, ingestVars
<1>2. /\ work = Idle /\ IsFiniteSet(DOMAIN groups) /\ Len(lines) \in Nat
      /\ Len(lines) <= MaxLines
      /\ \A n \in Buckets : salt[n] <= Len(lines) /\ salt[n] \in Nat
      /\ Cardinality(DOMAIN groups) <= 2 * Len(lines)
  BY <1>1 DEF FreshInv, SaltsInv, PatternsTypeInv, StoreInv, PatternsInv, StoreOK
<1> HIDE DEF Class
<1>3. f \in Surjection(DOMAIN groups, all)
  BY DEF Surjection
<1> HIDE DEF f, all
<1>4. IsFiniteSet(all) /\ Cardinality(all) <= Cardinality(DOMAIN groups)
  BY <1>2, <1>3, FS_Surjection
<1>5. IsFiniteSet(classes') /\ Cardinality(classes') <= Cardinality(all)
  BY <1>1, <1>4, FS_Subset
<1>6. /\ Cardinality(all) \in Nat /\ Cardinality(classes') \in Nat
      /\ Cardinality(DOMAIN groups) \in Nat
  BY <1>2, <1>4, <1>5, FS_CardinalityType
<1>7. \A n \in Buckets : salt[n] + Cardinality(classes') + 0 <= 3 * Len(lines)
  BY <1>2, <1>4, <1>5, <1>6
<1>8. (IF work' = Idle THEN 0 ELSE 1) = 0
  BY <1>1, <1>2
<1> HIDE DEF Idle
<1> QED
  BY <1>1, <1>2, <1>5, <1>7, <1>8 DEF SaltsInv

\* A class is taken up and, once merged, it has cost one salt.
LEMMA MergeSalts ==
  ASSUME FreshInv, Merge
  PROVE  SaltsInv'
<1> DEFINE Busy == IF work = Idle THEN 0 ELSE 1
<1>1. ASSUME phase = "merge"
      PROVE  /\ IsFiniteSet(classes) /\ Cardinality(classes) \in Nat
             /\ Len(lines) \in Nat /\ Len(lines) <= MaxLines
             /\ \A n \in Buckets :
                  salt[n] \in Nat /\ salt[n] + Cardinality(classes) + Busy <= 3 * Len(lines)
             /\ IsWork(work) /\ StoreOK
  <2>1. IsFiniteSet(classes)
    BY <1>1 DEF FreshInv, SaltsInv
  <2> QED
    BY <1>1, <2>1, FS_CardinalityType
       DEF FreshInv, SaltsInv, PatternsTypeInv, StoreInv, PatternsInv
<1>2. ASSUME NEW class \in classes, NEW ids \in SetToSeqs(class.ids), StartMerge(class, ids)
      PROVE  SaltsInv'
  <2>1. /\ phase = "merge" /\ phase' = "merge" /\ work = Idle
        /\ classes' = classes \ {class} /\ lines' = lines /\ salt' = salt
    BY <1>2 DEF StartMerge, ingestVars
  <2>2. IsFiniteSet(classes') /\ Cardinality(classes') = Cardinality(classes) - 1
    BY <1>1, <2>1, FS_RemoveElement
  <2> DEFINE Then == IF work' = Idle THEN 0 ELSE 1
  <2>3. Then \in {0, 1} /\ Busy = 0
    BY <2>1
  <2> HIDE DEF Then, Busy, Idle
  <2>4. \A n \in Buckets : salt[n] + Cardinality(classes') + Then <= 3 * Len(lines)
    BY <1>1, <2>1, <2>2, <2>3
  <2> QED
    BY <1>1, <2>1, <2>2, <2>4 DEF SaltsInv, Then
<1>3. CASE ConvertMember \/ ConvertNextToken \/ TakeFirst \/ AppendMember
  <2>1. /\ phase = "merge" /\ phase' = "merge" /\ work # Idle /\ classes' = classes
        /\ lines' = lines /\ salt' = salt
    BY <1>3 DEF ConvertMember, ConvertNextToken, Converting, TakeFirst, AppendMember,
                Appending, Merging, ingestVars
  <2> DEFINE Then == IF work' = Idle THEN 0 ELSE 1
  <2>2. Then \in {0, 1} /\ Busy = 1
    BY <2>1
  <2> HIDE DEF Then, Busy, Idle
  <2>3. \A n \in Buckets : salt[n] + Cardinality(classes') + Then <= 3 * Len(lines)
    BY <1>1, <2>1, <2>2
  <2> QED
    BY <1>1, <2>1, <2>3 DEF SaltsInv, Then
<1>4. CASE InsertMerged
  <2>1. /\ phase = "merge" /\ phase' = "merge" /\ work # Idle /\ work' = Idle
        /\ classes' = classes /\ InsertNewGroup
    BY <1>4 DEF InsertMerged, Appending, Merging
  <2>2. lines' = lines /\ \A n \in Buckets : salt'[n] \in Nat /\ salt'[n] <= salt[n] + 1
    BY <2>1, InsertedCounts
  <2>3. Busy = 1
    BY <2>1
  <2> HIDE DEF Busy, Idle
  <2>4. \A n \in Buckets : salt'[n] + Cardinality(classes') + 0 <= 3 * Len(lines)
    BY <1>1, <2>1, <2>2, <2>3
  <2> QED
    BY <1>1, <2>1, <2>2, <2>4 DEF SaltsInv
<1>5. CASE EndMerge
  BY <1>1, <1>5 DEF EndMerge, SaltsInv, ingestVars
<1> QED
  BY <1>2, <1>3, <1>4, <1>5, ClassifySalts DEF Merge

LEMMA SaltsStep ==
  FreshInv /\ StoreInv' /\ [Next]_vars => SaltsInv'
<1> SUFFICES ASSUME FreshInv, StoreInv', [Next]_vars
             PROVE  SaltsInv'
  OBVIOUS
<1>1. CASE Split
  BY <1>1, MoveTermSalts, SplitCursorSalts, InsertSplitSalts, BeforeMergeSalts DEF Split
<1>2. CASE Merged \/ UNCHANGED vars
  <2>1. UNCHANGED vars
    BY <1>2 DEF Merged
  <2> QED
    BY <2>1 DEF FreshInv, SaltsInv, NoSalts, vars, ingestVars, patternVars
<1> QED
  BY <1>1, <1>2, IngestSalts, BeforeMergeSalts, MergeSalts DEF Next

\* An id that was made stays one that was made: lines and salts only grow,
\* and once there are salts a group keeps its types.
SameTypes(group, other) ==
  Len(group.tokens) = Len(other.tokens) /\ TokenTypes(group) = TokenTypes(other)

LEMMA MadeStays ==
  ASSUME FreshInv, NEW g \in DOMAIN groups,
         \A n \in Buckets : salt'[n] \in Nat /\ salt[n] <= salt'[n],
         Len(lines') \in Nat, Len(lines) <= Len(lines'),
         \A n \in 1 .. Len(lines) : lines'[n] = lines[n],
         phase = "ingest" \/ SameTypes(groups[g], groups'[g])
  PROVE  IdMade(g)'
<1>1. /\ IdMade(g) /\ salt \in [Buckets -> Nat] /\ Len(lines) \in Nat
      /\ phase = "ingest" => NoSalts
  BY DEF FreshInv, IdsMade, PatternsTypeInv, StoreInv, SaltsInv
<1>2. ASSUME NEW n \in 1 .. Len(lines), g = GroupIdOf(lines[n])
      PROVE  IdMade(g)'
  <2>1. n \in 1 .. Len(lines') /\ g = GroupIdOf(lines'[n])
    BY <1>1, <1>2
  <2>2. GroupIdOf(lines'[n]) = GroupIdOf(lines[n])
    OBVIOUS
  <2> QED
    BY <2>1 DEF IdMade, GroupIdOf, TypesOf
<1>3. ASSUME Salted(g)
      PROVE  IdMade(g)'
  <2>1. PICK s \in 1 .. salt[g.num_tokens] : g.id = s + FingerprintTypes(TokenTypes(groups[g]))
    BY <1>3 DEF Salted
  <2>2. /\ g.num_tokens \in Buckets /\ g.num_tokens = Len(groups[g].tokens)
        /\ salt[g.num_tokens] \in Nat
    BY <1>1, <1>3 DEF Salted
  <2>3. phase # "ingest"
    BY <1>1, <2>1, <2>2 DEF NoSalts
  <2>4. SameTypes(groups[g], groups'[g])
    BY <2>3
  <2>5. s \in 1 .. salt'[g.num_tokens]
    BY <2>1, <2>2
  <2>6. /\ g.num_tokens = Len(groups'[g].tokens)
        /\ g.id = s + FingerprintTypes(TokenTypes(groups'[g]))
    BY <2>1, <2>2, <2>4 DEF SameTypes
  <2>7. Salted(g)'
    BY <2>2, <2>5, <2>6 DEF Salted, TokenTypes
  <2> QED
    BY <2>7 DEF IdMade
<1> QED
  BY <1>1, <1>2, <1>3 DEF IdMade

\* The first pass makes ids of lines.
LEMMA IngestMade ==
  ASSUME FreshInv, Ingest
  PROVE  IdsMade'
<1>1. /\ IngestNext /\ salt' = salt /\ salt \in [Buckets -> Nat] /\ phase = "ingest"
      /\ lines \in Seq(Lines) /\ Len(lines) \in Nat
  BY DEF Ingest, patternVars, FreshInv, PatternsTypeInv, StoreInv
<1>2. ASSUME Len(lines') \in Nat, Len(lines) <= Len(lines'),
             \A n \in 1 .. Len(lines) : lines'[n] = lines[n]
      PROVE  \A g \in DOMAIN groups : IdMade(g)'
  BY <1>1, <1>2, MadeStays
<1>3. ASSUME NEW line \in Lines, lines' = Append(lines, line)
      PROVE  /\ \A g \in DOMAIN groups : IdMade(g)'
             /\ \E n \in 1 .. Len(lines') : lines'[n] = line
  <2>1. /\ Len(lines') = Len(lines) + 1 /\ lines'[Len(lines) + 1] = line
        /\ \A n \in 1 .. Len(lines) : lines'[n] = lines[n]
    BY <1>1, <1>3, AppendProperties
  <2> QED
    BY <1>1, <1>2, <2>1
<1>4. ASSUME NEW line \in Lines, OpenGroup(line)
      PROVE  IdsMade'
  <2>1. /\ DOMAIN groups' = DOMAIN groups \cup {GroupIdOf(line)}
        /\ lines' = Append(lines, line)
    BY <1>4 DEF OpenGroup, Put
  <2>2. PICK n \in 1 .. Len(lines') : lines'[n] = line
    BY <1>3, <2>1
  <2>3. ASSUME NEW g, g = GroupIdOf(line) PROVE IdMade(g)'
    BY <2>2, <2>3 DEF IdMade, GroupIdOf, TypesOf
  <2> QED
    BY <1>3, <2>1, <2>3 DEF IdsMade
<1>5. ASSUME NEW line \in Lines, BeginPush(line)
      PROVE  IdsMade'
  <2>1. DOMAIN groups' = DOMAIN groups /\ lines' = Append(lines, line)
    BY <1>5 DEF BeginPush
  <2> QED
    BY <1>3, <2>1 DEF IdsMade
<1>6. CASE PushSameConstant \/ PushNewVariable \/ PushToColumn \/ EndPush
  <2>1. DOMAIN groups' = DOMAIN groups /\ lines' = lines
    BY <1>6 DEF PushSameConstant, PushNewVariable, PushToColumn, EndPush
  <2> QED
    BY <1>1, <1>2, <2>1 DEF IdsMade
<1> QED
  BY <1>1, <1>4, <1>5, <1>6 DEF IngestNext

\* A group that is inserted gets a salted id, of the salt that is counted.
LEMMA InsertMade ==
  ASSUME FreshInv, phase # "ingest", InsertNewGroup
  PROVE  IdsMade'
<1> DEFINE group == aside[1].group
           n     == Len(group.tokens)
           id    == DuplicateId(group, salt[n] + 1)
<1>1. StoreOK /\ aside # << >>
  BY DEF FreshInv, PatternsTypeInv, StoreInv, PatternsInv, InsertNewGroup
<1>2. /\ Head(aside) = aside[1] /\ group \in Groups /\ n \in Buckets /\ salt[n] \in Nat
  BY <1>1, InsertedBucket DEF FreshInv
<1>3. /\ DOMAIN groups' = DOMAIN groups \cup {id} /\ groups'[id] = group
      /\ \A g \in DOMAIN groups : g # id => groups'[g] = groups[g]
      /\ lines' = lines
  <2>1. lines' = lines
    BY DEF InsertNewGroup
  <2> QED
    BY <1>1, <2>1, InsertKeepsStore
<1>4. /\ salt' = [salt EXCEPT ![n] = salt[n] + 1] /\ salt \in [Buckets -> Nat]
  BY <1>2 DEF InsertNewGroup, FreshInv, PatternsTypeInv
<1>5. id = [num_tokens |-> n, id |-> salt[n] + 1 + FingerprintTypes(TokenTypes(group))]
  BY DEF DuplicateId
<1>6. PICK bucket, g, new : bucket = n /\ g = id /\ new = group
  OBVIOUS
<1>7. Len(new.tokens) = bucket
  BY <1>6
<1> HIDE DEF id, n, group
<1>8. Salted(g)'
  <2>1. /\ g.num_tokens = bucket /\ g.id = salt[bucket] + 1 + FingerprintTypes(TokenTypes(new))
    BY <1>5, <1>6
  <2>2. bucket \in Buckets /\ salt[bucket] + 1 \in 1 .. salt'[bucket]
    BY <1>2, <1>4, <1>6
  <2>3. groups'[g] = new
    BY <1>3, <1>6
  <2> QED
    BY <1>7, <2>1, <2>2, <2>3 DEF Salted, TokenTypes
<1>9. ASSUME NEW h \in DOMAIN groups, h # g PROVE IdMade(h)'
  <2>1. SameTypes(groups[h], groups'[h])
    BY <1>3, <1>6, <1>9 DEF SameTypes
  <2>2. Len(lines) \in Nat
    BY DEF FreshInv, PatternsTypeInv, StoreInv
  <2> QED
    BY <1>3, <2>1, <2>2, InsertedCounts, MadeStays
<1> QED
  BY <1>3, <1>6, <1>8, <1>9 DEF IdsMade, IdMade

\* Neither a row less nor a constant that becomes a variable changes a type.
LEMMA ConvertKeepsTypes ==
  ASSUME NEW group \in Groups, NEW tm, NEW i \in 1 .. Len(group.tokens)
  PROVE  SameTypes(group, ConvertToVariable(group, tm, i))
<1> DEFINE new == ConvertToVariable(group, tm, i)
<1>1. CASE IsVariable(group.tokens[i])
  BY <1>1 DEF ConvertToVariable, SameTypes
<1>2. CASE ~IsVariable(group.tokens[i])
  <2> DEFINE token == NewVariable(group.tokens[i].token_type, Len(group.columns) + 1)
  <2>1. new.tokens = [group.tokens EXCEPT ![i] = token]
    BY <1>2 DEF ConvertToVariable, Groups
  <2>2. token.token_type = group.tokens[i].token_type
    BY DEF NewVariable
  <2>3. DOMAIN group.tokens = 1 .. Len(group.tokens) /\ group.tokens \in Seq(TemplateTokens)
    BY GroupFields, LenProperties
  <2> HIDE DEF new, token
  <2>4. /\ DOMAIN new.tokens = DOMAIN group.tokens
        /\ \A j \in DOMAIN group.tokens : new.tokens[j].token_type = group.tokens[j].token_type
    BY <2>1, <2>2
  <2>5. TokenTypes(new) = TokenTypes(group)
    BY <2>4 DEF TokenTypes
  <2>6. Len(new.tokens) = Len(group.tokens)
    BY <2>1, <2>3
  <2> QED
    BY <2>5, <2>6 DEF SameTypes, new
<1> QED
  BY <1>1, <1>2

\* The member at work is in the map, and the token at work one of its own.
LEMMA ConvertingIn ==
  ASSUME StoreInv, ConvertMember
  PROVE  LET g == work.ids[work.member]
         IN  /\ g \in DOMAIN groups /\ groups[g] \in Groups
             /\ work.token \in 1 .. Len(groups[g].tokens)
<1>1. /\ phase = "merge" /\ work # Idle /\ work.token <= Len(work.key)
      /\ work.member <= Len(work.ids)
  BY DEF ConvertMember, Converting, Merging
<1>2. StoreOK /\ MembersOK /\ AsideOK /\ IsWork(work)
  BY <1>1 DEF StoreInv, PatternsInv, MergeOK
<1>3. /\ Len(work.ids) \in Nat \ {0} /\ Len(work.key) \in Nat
      /\ work.token \in Nat \ {0} /\ work.member \in Nat \ {0}
  BY <1>2 DEF MembersOK, IsWork
<1>4. aside = << >>
  BY <1>1, <1>2, <1>3 DEF AsideOK
<1>5. work.member \in Left
  BY <1>1, <1>3, <1>4 DEF Left, FirstLeft
<1> QED
  BY <1>1, <1>2, <1>3, <1>5, MemberFacts

LEMMA MadeStep ==
  FreshInv /\ [Next]_vars => IdsMade'
<1> SUFFICES ASSUME FreshInv, [Next]_vars
             PROVE  IdsMade'
  OBVIOUS
<1>0. ASSUME DOMAIN groups' \subseteq DOMAIN groups, salt' = salt, lines' = lines,
             \A g \in DOMAIN groups' : SameTypes(groups[g], groups'[g])
      PROVE  IdsMade'
  <2>1. (\A n \in Buckets : salt[n] \in Nat) /\ Len(lines) \in Nat
    BY DEF FreshInv, PatternsTypeInv, StoreInv
  <2>2. \A n \in Buckets : salt'[n] \in Nat /\ salt[n] <= salt'[n]
    BY <1>0, <2>1
  <2>3. \A g \in DOMAIN groups' : IdMade(g)'
    BY <1>0, <2>1, <2>2, MadeStays
  <2> QED
    BY <2>3 DEF IdsMade
<1>1. ASSUME DOMAIN groups' \subseteq DOMAIN groups, salt' = salt, lines' = lines,
             \A g \in DOMAIN groups' : groups'[g] = groups[g]
      PROVE  IdsMade'
  BY <1>0, <1>1 DEF SameTypes
<1>2. CASE \E split \in BOOLEAN : EndOfInput(split)
  BY <1>1, <1>2 DEF EndOfInput, ingestVars
<1>3. CASE Split
  <2>1. ASSUME NEW id \in 0 .. term_map.next_term_id - 1, NEW text \in Texts,
               MoveTerm(id, text)
        PROVE  IdsMade'
    <3> DEFINE kept == 1 .. groups[SplitId].num_docs
                         \ RowsWith(groups[SplitId].columns[SplitToken.column_index], id)
    <3>1. DOMAIN groups' = DOMAIN groups /\ salt' = salt /\ lines' = lines
      BY <2>1, MoveTermTypes DEF FreshInv, MoveTerm
    <3>2. groups' = [groups EXCEPT ![SplitId] = RemoveRows(groups[SplitId], kept)]
      BY <2>1 DEF MoveTerm
    <3>3. \A g \in DOMAIN groups : groups[g] \in Groups
      <4>1. phase = "split"
        BY <2>1 DEF MoveTerm, Splitting
      <4> QED
        BY <4>1 DEF FreshInv, PatternsTypeInv, StoreInv, PatternsInv, StoreOK
    <3>4. \A group \in Groups : \A keep : RemoveRows(group, keep).tokens = group.tokens
      BY DEF RemoveRows, Groups
    <3> HIDE DEF kept
    <3>5. \A g \in DOMAIN groups : groups'[g].tokens = groups[g].tokens
      BY <3>2, <3>3, <3>4
    <3>6. \A g \in DOMAIN groups : SameTypes(groups[g], groups'[g])
      BY <3>5 DEF SameTypes, TokenTypes
    <3> QED
      BY <1>0, <3>1, <3>6
  <2>2. CASE InsertSplitGroup
    BY <2>2, InsertMade DEF InsertSplitGroup
  <2>3. CASE (\E g \in todo : SplitGroup(g)) \/ SplitNextToken \/ SplitGroupDone \/ EndSplit
    BY <1>1, <2>3 DEF SplitGroup, SplitNextToken, SplitGroupDone, EndSplit, ingestVars
  <2> QED
    BY <1>3, <2>1, <2>2, <2>3 DEF Split
<1>4. CASE Merge
  <2>1. CASE InsertMerged
    BY <2>1, InsertMade DEF InsertMerged, Appending, Merging
  <2>2. CASE TakeFirst \/ AppendMember
    BY <1>1, <2>2 DEF TakeFirst, AppendMember
  <2>5. CASE ConvertMember
    <3> DEFINE g   == work.ids[work.member]
               new == ConvertToVariable(groups[g], term_map, work.token)
    <3>1. /\ phase = "merge" /\ work # Idle
          /\ groups' = [groups EXCEPT ![g] = new] /\ salt' = salt /\ lines' = lines
      BY <2>5 DEF ConvertMember, Converting, Merging
    <3>2. /\ g \in DOMAIN groups /\ groups[g] \in Groups
          /\ work.token \in 1 .. Len(groups[g].tokens)
      BY <2>5, ConvertingIn DEF FreshInv, PatternsTypeInv
    <3>3. SameTypes(groups[g], new)
      BY <3>2, ConvertKeepsTypes
    <3> HIDE DEF new, g
    <3>4. \A h \in DOMAIN groups : SameTypes(groups[h], groups'[h])
      BY <3>1, <3>3 DEF SameTypes
    <3> QED
      BY <1>0, <3>1, <3>4
  <2>3. ASSUME NEW class \in classes, NEW ids \in SetToSeqs(class.ids),
               StartMerge(class, ids)
        PROVE  IdsMade'
    BY <1>1, <2>3 DEF StartMerge, ingestVars
  <2>4. CASE Classify \/ ConvertNextToken \/ EndMerge
    BY <1>1, <2>4 DEF Classify, ConvertNextToken, EndMerge, ingestVars
  <2> QED
    BY <1>4, <2>1, <2>2, <2>3, <2>4, <2>5 DEF Merge
<1>5. CASE Merged \/ UNCHANGED vars
  BY <1>1, <1>5 DEF Merged, vars, ingestVars, patternVars
<1> QED
  BY <1>2, <1>3, <1>4, <1>5, IngestMade DEF Next

LEMMA FreshInit == Init => FreshInv
<1> SUFFICES ASSUME Init PROVE FreshInv
  OBVIOUS
<1>1. PatternsTypeInv
  BY TypesStart
<1>2. /\ phase = "ingest" /\ lines = << >> /\ DOMAIN groups = {}
      /\ salt = [n \in Buckets |-> 0]
  BY DEF Init, IngestInit
<1>3. Len(lines) = 0 /\ Cardinality(DOMAIN groups) = 0 /\ MaxLines \in Nat
  BY <1>2, FS_EmptySet, LinesAssumption DEF LinesAssumption
<1>4. SaltsInv
  BY <1>2, <1>3 DEF SaltsInv, NoSalts
<1> QED
  BY <1>1, <1>2, <1>4 DEF FreshInv, IdsMade

LEMMA FreshStep ==
  HashesApart /\ FreshInv /\ [Next]_vars => FreshInv'
<1>1. FreshInv => PatternsTypeInv
  BY DEF FreshInv
<1>2. PatternsTypeInv' => StoreInv'
  BY DEF PatternsTypeInv
<1> QED
  BY <1>1, <1>2, ApartIsFresh, TypesStay, SaltsStep, MadeStep DEF FreshInv

(* No group is put under an id that is in use, in a run whose groups and   *)
(* lines have types that the two hashes keep apart: the ids in use are     *)
(* those of lines and those made of salts already drawn, a group keeps the *)
(* types its id was made of through the split and the merge, and a bucket  *)
(* never sees more than three salts for a line.                            *)
THEOREM NewIdsStayFresh == Spec /\ []HashesApart => []NewIdsFresh
<1>1. Init => FreshInv
  BY FreshInit
<1>2. HashesApart /\ FreshInv /\ [Next]_vars => FreshInv'
  BY FreshStep
<1>3. HashesApart /\ FreshInv => NewIdsFresh
  BY ApartIsFresh
<1> QED
  BY <1>1, <1>2, <1>3, PTL DEF Spec

(* In such a run the indexer implements the bag of documents, whatever     *)
(* split_templates moves and merge_templates joins: the line pushed is     *)
(* added, once, and nothing after the end of the input.                    *)
THEOREM ApartIndexerIsLogStore == Spec /\ []HashesApart => ImplementsLogStore
BY NewIdsStayFresh, IndexerIsLogStore, PTL
=============================================================================
