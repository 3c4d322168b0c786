----------------------- MODULE PreliminaryIndexProofs -----------------------
(***************************************************************************)
(* The invariants of the first pass hold for any input: IngestInv is       *)
(* inductive.  First what mutate_or_create does to the term map and one    *)
(* step of DocGroup::push to a group, for groups of any size and any set   *)
(* of texts; only these facts about DocGroups and TermMap are used in the  *)
(* proofs about a step of the first pass.                                  *)
(***************************************************************************)
EXTENDS PreliminaryIndex, SequenceTheorems, FiniteSetTheorems, TLAPS

-----------------------------------------------------------------------------
(* The term map.                                                           *)

(* mutate_or_create keeps the type of the map and returns a number.        *)
LEMMA MutateOrCreateType ==
  ASSUME NEW tm \in TermMaps, NEW key \in Texts, NEW is_id_like \in BOOLEAN
  PROVE  /\ TermIdOf(tm, key, is_id_like) \in Nat
         /\ MutateOrCreate(tm, key, is_id_like) \in TermMaps
<1> DEFINE entry == [text |-> key, id |-> tm.next_term_id]
<1>1. TermIdOf(tm, key, is_id_like) \in Nat
  BY CappedAssumption DEF CappedAssumption, TermIdOf, IsNewTerm, TermMaps, NoTerm
<1>2. CASE is_id_like
  <2>1. Append(tm.unique_terms, entry) \in Seq([text : Texts, id : Nat])
    BY DEF TermMaps
  <2>2. MutateOrCreate(tm, key, is_id_like)
          = [map          |-> tm.map,
             unique_terms |-> Append(tm.unique_terms, entry),
             next_term_id |-> tm.next_term_id + 1]
    BY <1>2 DEF MutateOrCreate, PushUnique, TermMaps
  <2> QED BY <1>1, <2>1, <2>2 DEF TermMaps
<1>3. CASE ~is_id_like /\ IsNewTerm(tm, key, is_id_like)
  <2>1. [tm.map EXCEPT ![Capped[key]] = tm.next_term_id]
          \in [Texts -> Nat \cup {NoTerm}]
    BY DEF TermMaps
  <2>2. MutateOrCreate(tm, key, is_id_like)
          = [map          |-> [tm.map EXCEPT ![Capped[key]] = tm.next_term_id],
             unique_terms |-> tm.unique_terms,
             next_term_id |-> tm.next_term_id + 1]
    BY <1>3 DEF MutateOrCreate, TermMaps
  <2> QED BY <1>1, <2>1, <2>2 DEF TermMaps
<1>4. CASE ~is_id_like /\ ~IsNewTerm(tm, key, is_id_like)
  BY <1>1, <1>4 DEF MutateOrCreate
<1> QED BY <1>2, <1>3, <1>4

(* An id once given to a term stays with it, whatever is inserted later.   *)
LEMMA StoredGrows ==
  ASSUME NEW tm \in TermMaps, NEW key \in Texts, NEW is_id_like \in BOOLEAN,
         NEW id \in Nat, NEW text \in Texts,
         Stored(tm, id, text)
  PROVE  Stored(MutateOrCreate(tm, key, is_id_like), id, text)
<1> DEFINE tm2 == MutateOrCreate(tm, key, is_id_like)
<1>1. CASE InMap(tm, id, text)
  BY <1>1, CappedAssumption
  DEF CappedAssumption, InMap, Stored, MutateOrCreate, IsNewTerm, PushUnique, TermMaps, NoTerm
<1>2. CASE InBuffer(tm, id, text)
  <2>1. PICK k \in 1 .. Len(tm.unique_terms) :
          tm.unique_terms[k].text = text /\ tm.unique_terms[k].id = id
    BY <1>2 DEF InBuffer
  <2>2. CASE is_id_like
    <3>1. tm2.unique_terms
            = Append(tm.unique_terms, [text |-> key, id |-> tm.next_term_id])
      BY <2>2 DEF MutateOrCreate, PushUnique, TermMaps
    <3>2. k \in 1 .. Len(tm2.unique_terms) /\ tm2.unique_terms[k] = tm.unique_terms[k]
      BY <2>1, <3>1 DEF TermMaps
    <3> QED BY <2>1, <3>2 DEF Stored, InBuffer
  <2>3. CASE ~is_id_like
    <3>1. tm2.unique_terms = tm.unique_terms
      BY <2>3 DEF MutateOrCreate, TermMaps
    <3> QED BY <1>2, <3>1 DEF Stored, InBuffer
  <2> QED BY <2>2, <2>3
<1> QED BY <1>1, <1>2 DEF Stored

(* The id returned names the key: as it is in the buffer, capped in the    *)
(* hash map.                                                               *)
LEMMA TermIdNamesKey ==
  ASSUME NEW tm \in TermMaps, NEW key \in Texts, NEW is_id_like \in BOOLEAN
  PROVE  LET tm2 == MutateOrCreate(tm, key, is_id_like)
             id  == TermIdOf(tm, key, is_id_like)
         IN  /\ is_id_like  => Stored(tm2, id, key)
             /\ ~is_id_like => Stored(tm2, id, Capped[key])
<1> DEFINE tm2 == MutateOrCreate(tm, key, is_id_like)
<1>1. CASE is_id_like
  <2>1. tm2.unique_terms
          = Append(tm.unique_terms, [text |-> key, id |-> tm.next_term_id])
    BY <1>1 DEF MutateOrCreate, PushUnique, TermMaps
  <2>2. /\ Len(tm2.unique_terms) = Len(tm.unique_terms) + 1
        /\ tm2.unique_terms[Len(tm.unique_terms) + 1]
             = [text |-> key, id |-> tm.next_term_id]
        /\ Len(tm.unique_terms) \in Nat
    BY <2>1 DEF TermMaps
  <2>3. TermIdOf(tm, key, is_id_like) = tm.next_term_id
    BY <1>1 DEF TermIdOf, IsNewTerm
  <2>4. InBuffer(tm2, tm.next_term_id, key)
    <3> DEFINE k == Len(tm.unique_terms) + 1
    <3>1. k \in 1 .. Len(tm2.unique_terms)
      BY <2>2
    <3>2. tm2.unique_terms[k].text = key /\ tm2.unique_terms[k].id = tm.next_term_id
      BY <2>2
    <3> QED BY <3>1, <3>2 DEF InBuffer
  <2> QED BY <1>1, <2>3, <2>4 DEF Stored
<1>2. CASE ~is_id_like
  BY <1>2, CappedAssumption
  DEF CappedAssumption, Stored, InMap, MutateOrCreate, TermIdOf, IsNewTerm, TermMaps, NoTerm
<1> QED BY <1>1, <1>2

(* The two ways a call of mutate_or_create changes the map.                *)
CreatedInBuffer(tm, key, tm2) ==
  /\ tm2.map = tm.map
  /\ tm2.unique_terms
       = Append(tm.unique_terms, [text |-> key, id |-> tm.next_term_id])
  /\ tm2.next_term_id = tm.next_term_id + 1

CreatedInMap(tm, key, tm2) ==
  /\ tm.map[Capped[key]] = NoTerm
  /\ tm2.map = [tm.map EXCEPT ![Capped[key]] = tm.next_term_id]
  /\ tm2.unique_terms = tm.unique_terms
  /\ tm2.next_term_id = tm.next_term_id + 1

(* There is no third one.                                                  *)
LEMMA MutateOrCreateCases ==
  ASSUME NEW tm \in TermMaps, NEW key \in Texts, NEW is_id_like \in BOOLEAN
  PROVE  \/ /\ is_id_like
            /\ CreatedInBuffer(tm, key, MutateOrCreate(tm, key, is_id_like))
         \/ /\ ~is_id_like
            /\ CreatedInMap(tm, key, MutateOrCreate(tm, key, is_id_like))
         \/ /\ ~is_id_like
            /\ MutateOrCreate(tm, key, is_id_like) = tm
<1>1. CASE is_id_like
  BY <1>1 DEF CreatedInBuffer, MutateOrCreate, PushUnique, TermMaps
<1>2. CASE ~is_id_like /\ IsNewTerm(tm, key, is_id_like)
  <2>1. tm.map[Capped[key]] = NoTerm
    BY <1>2 DEF IsNewTerm
  <2>2. MutateOrCreate(tm, key, is_id_like)
          = [tm EXCEPT !.map[Capped[key]] = tm.next_term_id,
                       !.next_term_id     = tm.next_term_id + 1]
    BY <1>2 DEF MutateOrCreate
  <2> QED BY <1>2, <2>1, <2>2 DEF CreatedInMap, TermMaps
<1>3. CASE ~is_id_like /\ ~IsNewTerm(tm, key, is_id_like)
  BY <1>3 DEF MutateOrCreate
<1> QED BY <1>1, <1>2, <1>3

(* A new entry holds the counter's id and no other.                        *)
LEMMA OnlyTheCounterIsNew ==
  ASSUME NEW tm \in TermMaps, NEW key \in Texts, NEW is_id_like \in BOOLEAN,
         NEW id \in Nat, id # tm.next_term_id, NEW text \in Texts,
         Stored(MutateOrCreate(tm, key, is_id_like), id, text)
  PROVE  Stored(tm, id, text)
<1> DEFINE tm2 == MutateOrCreate(tm, key, is_id_like)
<1>0. CreatedInBuffer(tm, key, tm2) \/ CreatedInMap(tm, key, tm2) \/ tm2 = tm
  BY MutateOrCreateCases
<1>1. CASE InMap(tm2, id, text)
  <2>1. InMap(tm, id, text)
    BY <1>0, <1>1 DEF CreatedInBuffer, CreatedInMap, InMap, TermMaps
  <2> QED BY <2>1 DEF Stored
<1>2. CASE InBuffer(tm2, id, text)
  <2>1. PICK k \in 1 .. Len(tm2.unique_terms) :
          tm2.unique_terms[k].text = text /\ tm2.unique_terms[k].id = id
    BY <1>2 DEF InBuffer
  <2>2. k \in 1 .. Len(tm.unique_terms) /\ tm2.unique_terms[k] = tm.unique_terms[k]
    <3> DEFINE entry == [text |-> key, id |-> tm.next_term_id]
    <3>1. tm.unique_terms \in Seq([text : Texts, id : Nat])
      BY DEF TermMaps
    <3>2. tm2.unique_terms = tm.unique_terms
          \/ tm2.unique_terms = Append(tm.unique_terms, entry)
      BY <1>0 DEF CreatedInBuffer, CreatedInMap
    <3> QED BY <2>1, <3>1, <3>2
  <2> QED BY <2>1, <2>2 DEF Stored, InBuffer
<1> QED BY <1>1, <1>2 DEF Stored

(***************************************************************************)
(* The counter stays ahead of every id in the hash map and the buffer.     *)
(***************************************************************************)
LEMMA CounterStaysAhead ==
  ASSUME NEW tm \in TermMaps, NEW key \in Texts, NEW is_id_like \in BOOLEAN,
         IdsBelowCounter(tm)
  PROVE  IdsBelowCounter(MutateOrCreate(tm, key, is_id_like))
<1> DEFINE tm2 == MutateOrCreate(tm, key, is_id_like)
           entry == [text |-> key, id |-> tm.next_term_id]
           next  == tm.next_term_id
<1>0. next \in Nat
  BY DEF TermMaps
<1>1. /\ tm.map \in [Texts -> Nat \cup {-1}]
      /\ tm.unique_terms \in Seq([text : Texts, id : Nat])
      /\ Capped[key] \in Texts
  BY CappedAssumption DEF CappedAssumption, TermMaps, NoTerm
<1>2. /\ \A t \in Texts : tm.map[t] < next
      /\ \A k \in 1 .. Len(tm.unique_terms) : tm.unique_terms[k].id < next
  BY DEF IdsBelowCounter
<1>3. CASE CreatedInBuffer(tm, key, tm2)
  <2>1. /\ tm2.map = tm.map
        /\ tm2.unique_terms = Append(tm.unique_terms, entry)
        /\ tm2.next_term_id = next + 1
    BY <1>3 DEF CreatedInBuffer
  <2>2. \A t \in Texts : tm2.map[t] < next + 1
    <3> TAKE t \in Texts
    <3>1. tm.map[t] \in Nat \cup {-1} /\ tm.map[t] < next
      BY <1>1, <1>2
    <3> QED BY <1>0, <2>1, <3>1
  <2>3. \A k \in 1 .. Len(tm2.unique_terms) : tm2.unique_terms[k].id < next + 1
    <3> TAKE k \in 1 .. Len(tm2.unique_terms)
    <3>1. CASE k \in 1 .. Len(tm.unique_terms)
      <4>1. tm2.unique_terms[k] = tm.unique_terms[k]
        BY <1>1, <2>1, <3>1
      <4>2. tm.unique_terms[k].id < next
        BY <1>2, <3>1
      <4>3. tm.unique_terms[k] \in [text : Texts, id : Nat]
        BY <1>1, <3>1, ElementOfSeq
      <4>4. \A i \in Nat : i < next => i < next + 1
        BY <1>0
      <4>5. tm.unique_terms[k].id \in Nat
        BY <4>3
      <4> QED BY <4>1, <4>2, <4>4, <4>5
    <3>2. CASE k \notin 1 .. Len(tm.unique_terms)
      <4>1. tm2.unique_terms[k] = entry
        BY <1>1, <2>1, <3>2
      <4> QED BY <1>0, <4>1
    <3> QED BY <3>1, <3>2
  <2> QED BY <2>1, <2>2, <2>3 DEF IdsBelowCounter
<1>4. CASE CreatedInMap(tm, key, tm2)
  <2>1. /\ tm2.map = [tm.map EXCEPT ![Capped[key]] = next]
        /\ tm2.unique_terms = tm.unique_terms
        /\ tm2.next_term_id = next + 1
    BY <1>4 DEF CreatedInMap
  <2>2. \A t \in Texts : tm2.map[t] < next + 1
    <3> TAKE t \in Texts
    <3>1. tm.map[t] \in Nat \cup {-1} /\ tm.map[t] < next
      BY <1>1, <1>2
    <3>2. tm2.map[t] = IF t = Capped[key] THEN next ELSE tm.map[t]
      BY <1>1, <2>1
    <3> QED BY <1>0, <3>1, <3>2
  <2>3. \A k \in 1 .. Len(tm.unique_terms) : tm.unique_terms[k].id < next + 1
    <3> TAKE k \in 1 .. Len(tm.unique_terms)
    <3>1. tm.unique_terms[k].id < next
      BY <1>2
    <3>2. tm.unique_terms[k] \in [text : Texts, id : Nat]
      BY <1>1, ElementOfSeq
    <3>3. \A i \in Nat : i < next => i < next + 1
      BY <1>0
    <3>4. tm.unique_terms[k].id \in Nat
      BY <3>2
    <3> QED BY <3>1, <3>3, <3>4
  <2> QED BY <2>1, <2>2, <2>3 DEF IdsBelowCounter
<1> QED BY <1>3, <1>4, MutateOrCreateCases

(* IdsNameOneTerm survives every call of mutate_or_create.                 *)
LEMMA IdsStayUnique ==
  ASSUME NEW tm \in TermMaps, NEW key \in Texts, NEW is_id_like \in BOOLEAN,
         IdsNameOneTerm(tm)
  PROVE  IdsNameOneTerm(MutateOrCreate(tm, key, is_id_like))
<1> DEFINE tm2  == MutateOrCreate(tm, key, is_id_like)
           next == tm.next_term_id
<1>0. \/ is_id_like /\ CreatedInBuffer(tm, key, tm2)
      \/ ~is_id_like /\ CreatedInMap(tm, key, tm2)
      \/ tm2 = tm
  BY MutateOrCreateCases
<1>1. IdsBelowCounter(tm2)
  BY CounterStaysAhead DEF IdsNameOneTerm
<1>2. tm2 \in TermMaps /\ next \in Nat
  BY MutateOrCreateType DEF TermMaps
<1>3. ASSUME NEW id \in 0 .. tm2.next_term_id - 1
      PROVE  \E t \in Texts : /\ Stored(tm2, id, t)
                              /\ \A s \in Texts : Stored(tm2, id, s) => s = t
  <2>1. CASE id \in 0 .. next - 1
    <3>1. PICK t \in Texts : /\ Stored(tm, id, t)
                             /\ \A s \in Texts : Stored(tm, id, s) => s = t
      BY <2>1 DEF IdsNameOneTerm
    <3>2. Stored(tm2, id, t)
      BY <2>1, <3>1, StoredGrows
    <3>3. \A s \in Texts : Stored(tm2, id, s) => Stored(tm, id, s)
      BY <1>2, <2>1, OnlyTheCounterIsNew
    <3> QED BY <3>1, <3>2, <3>3
  <2>2. CASE id \notin 0 .. next - 1
    <3>1. id = next /\ tm2.next_term_id = next + 1
      BY <1>0, <1>2, <2>2 DEF CreatedInBuffer, CreatedInMap
    <3>2. \A s \in Texts : ~Stored(tm, id, s)
      BY <1>2, <3>1 DEF IdsNameOneTerm, IdsBelowCounter, Stored, InMap, InBuffer,
                        TermMaps
    <3>3. CASE is_id_like
      <4>1. /\ tm2.map = tm.map
            /\ tm2.unique_terms = Append(tm.unique_terms, [text |-> key, id |-> next])
        BY <3>3 DEF MutateOrCreate, PushUnique, TermMaps
      <4>2. tm.unique_terms \in Seq([text : Texts, id : Nat])
        BY DEF TermMaps
      <4>3. TermIdOf(tm, key, is_id_like) = next
        BY <3>3 DEF TermIdOf, IsNewTerm
      <4>4. Stored(tm2, id, key)
        BY <3>1, <3>3, <4>3, TermIdNamesKey
      <4>5. ASSUME NEW s \in Texts, Stored(tm2, id, s)
            PROVE  s = key
        <5>1. ~InMap(tm2, id, s)
          BY <3>2, <4>1 DEF Stored, InMap
        <5>2. PICK k \in 1 .. Len(tm2.unique_terms) :
                tm2.unique_terms[k].text = s /\ tm2.unique_terms[k].id = id
          BY <4>5, <5>1 DEF Stored, InBuffer
        <5>3. k \notin 1 .. Len(tm.unique_terms)
          <6>1. SUFFICES ASSUME k \in 1 .. Len(tm.unique_terms) PROVE FALSE
            OBVIOUS
          <6>2. tm2.unique_terms[k] = tm.unique_terms[k]
            BY <4>1, <4>2, <6>1
          <6>3. InBuffer(tm, id, s)
            BY <5>2, <6>1, <6>2 DEF InBuffer
          <6> QED BY <3>2, <6>3 DEF Stored
        <5>4. tm2.unique_terms[k] = [text |-> key, id |-> next]
          BY <4>1, <4>2, <5>2, <5>3
        <5> QED BY <5>2, <5>4
      <4> QED BY <4>4, <4>5
    <3>4. CASE ~is_id_like
      <4>1. /\ tm.map[Capped[key]] = NoTerm
            /\ tm2.map = [tm.map EXCEPT ![Capped[key]] = next]
            /\ tm2.unique_terms = tm.unique_terms
        BY <1>0, <1>2, <3>1, <3>4 DEF CreatedInMap
      <4>2. TermIdOf(tm, key, is_id_like) = next
        BY <3>4, <4>1 DEF TermIdOf, IsNewTerm
      <4>3. Capped[key] \in Texts /\ Stored(tm2, id, Capped[key])
        BY <3>1, <3>4, <4>2, TermIdNamesKey, CappedAssumption DEF CappedAssumption
      <4>4. ASSUME NEW s \in Texts, Stored(tm2, id, s)
            PROVE  s = Capped[key]
        <5>1. ~InBuffer(tm2, id, s)
          BY <3>2, <4>1 DEF Stored, InBuffer
        <5>2. tm2.map[s] = id
          BY <4>4, <5>1 DEF Stored, InMap
        <5>3. tm.map[s] # id
          BY <3>2 DEF Stored, InMap
        <5> QED BY <4>1, <5>2, <5>3 DEF TermMaps
      <4> QED BY <4>3, <4>4
    <3> QED BY <3>3, <3>4
  <2> QED BY <2>1, <2>2
<1> QED BY <1>1, <1>3 DEF IdsNameOneTerm

-----------------------------------------------------------------------------
(* Document groups.                                                        *)

(* The fields of a group have their types.                                 *)
LEMMA GroupFields ==
  ASSUME NEW group \in Groups
  PROVE  /\ group.tokens \in Seq(TemplateTokens)
         /\ group.columns \in Seq(Seq(Nat))
         /\ group.num_docs \in Nat
         /\ Len(group.tokens) \in Nat
         /\ Len(group.columns) \in Nat
         /\ \A i \in 1 .. Len(group.tokens) : group.tokens[i] \in TemplateTokens
         /\ \A c \in 1 .. Len(group.columns) : group.columns[c] \in Seq(Nat)
<1>1. /\ group.tokens \in Seq(TemplateTokens)
      /\ group.columns \in Seq(Seq(Nat))
      /\ group.num_docs \in Nat
  BY DEF Groups
<1>2. \A i \in 1 .. Len(group.tokens) : group.tokens[i] \in TemplateTokens
  BY <1>1, ElementOfSeq
<1>3. \A c \in 1 .. Len(group.columns) : group.columns[c] \in Seq(Nat)
  BY <1>1, ElementOfSeq
<1>4. Len(group.tokens) \in Nat /\ Len(group.columns) \in Nat
  BY <1>1, LenProperties
<1> QED BY <1>1, <1>2, <1>3, <1>4

(* A token is a constant with a text or a variable, never both.            *)
LEMMA TokenKinds ==
  ASSUME NEW token \in TemplateTokens
  PROVE  /\ IsConstant(token) <=> ~IsVariable(token)
         /\ IsConstant(token) => token.text \in Texts
         /\ IsVariable(token) => /\ token.column_index \in Nat \ {0}
                                 /\ token.is_id_like \in BOOLEAN
                                 /\ token \in VariableTokens
  BY DEF TemplateTokens, ConstantTokens, VariableTokens, IsConstant, IsVariable

(* new_variable and the constants of DocGroup::new are template tokens.    *)
LEMMA NewTokens ==
  ASSUME NEW token_type \in Types
  PROVE  /\ \A text \in Texts :
              /\ NewConstant(token_type, text) \in TemplateTokens
              /\ IsConstant(NewConstant(token_type, text))
              /\ ~IsVariable(NewConstant(token_type, text))
              /\ NewConstant(token_type, text).text = text
         /\ \A c \in Nat \ {0} :
              /\ NewVariable(token_type, c) \in TemplateTokens
              /\ IsVariable(NewVariable(token_type, c))
              /\ ~IsConstant(NewVariable(token_type, c))
              /\ NewVariable(token_type, c).column_index = c
<1>1. ASSUME NEW text \in Texts
      PROVE  /\ NewConstant(token_type, text) \in ConstantTokens
             /\ NewConstant(token_type, text).kind = "Constant"
             /\ NewConstant(token_type, text).text = text
  BY DEF NewConstant, ConstantTokens
<1>2. ASSUME NEW c \in Nat \ {0}
      PROVE  /\ NewVariable(token_type, c) \in VariableTokens
             /\ NewVariable(token_type, c).kind = "Variable"
             /\ NewVariable(token_type, c).column_index = c
  BY DEF NewVariable, VariableTokens
<1> QED BY <1>1, <1>2 DEF TemplateTokens, IsConstant, IsVariable

(***************************************************************************)
(* The branch of a constant that does not match: one more column, for      *)
(* token i, with the old text's id in every row and the new text's in the  *)
(* last; everything else as it was.                                        *)
(***************************************************************************)
LEMMA PushMismatchFrame ==
  ASSUME NEW group \in Groups, NEW tm \in TermMaps,
         NEW i \in 1 .. Len(group.tokens), IsConstant(group.tokens[i]),
         NEW text \in Texts
  PROVE  LET new == PushMismatch(group, tm, i, text)
             n   == Len(group.columns) + 1
             ct  == TermIdOf(tm, text, FALSE)
             id  == TermIdOf(MutateOrCreate(tm, text, FALSE),
                             group.tokens[i].text, FALSE)
         IN  /\ new \in Groups
             /\ new.num_docs = group.num_docs
             /\ Len(new.tokens) = Len(group.tokens)
             /\ \A j \in 1 .. Len(group.tokens) :
                  j # i => new.tokens[j] = group.tokens[j]
             /\ new.tokens[i] = NewVariable(TypeOf[text], n)
             /\ Len(new.columns) = n
             /\ \A c \in 1 .. Len(group.columns) : new.columns[c] = group.columns[c]
             /\ Len(new.columns[n]) = group.num_docs + 1
             /\ \A r \in 1 .. group.num_docs : new.columns[n][r] = id
             /\ new.columns[n][group.num_docs + 1] = ct
             /\ id \in Nat /\ ct \in Nat
<1> DEFINE existing == group.tokens[i].text
           ct       == TermIdOf(tm, text, FALSE)
           id       == TermIdOf(MutateOrCreate(tm, text, FALSE), existing, FALSE)
           n        == Len(group.columns) + 1
           rows     == [r \in 1 .. group.num_docs |-> id]
           column   == Append(rows, ct)
           token    == NewVariable(TypeOf[text], n)
           new      == PushMismatch(group, tm, i, text)
<1>1. existing \in Texts
  BY GroupFields, TokenKinds
<1>2. ct \in Nat /\ id \in Nat
  BY <1>1, MutateOrCreateType
<1>3. token \in TemplateTokens
  BY GroupFields, NewTokens, DocGroupsAssumption DEF DocGroupsAssumption
<1>4. /\ rows \in Seq(Nat)
      /\ Len(rows) = group.num_docs
      /\ \A r \in 1 .. group.num_docs : rows[r] = id
  <2> HIDE DEF id
  <2> QED BY <1>2, GroupFields
<1>5. /\ column \in Seq(Nat)
      /\ Len(column) = group.num_docs + 1
      /\ \A r \in 1 .. group.num_docs : column[r] = id
      /\ column[group.num_docs + 1] = ct
  <2> HIDE DEF id, ct, rows
  <2> QED BY <1>2, <1>4, GroupFields, AppendProperties
<1>6. new = [tokens   |-> [group.tokens EXCEPT ![i] = token],
             columns  |-> Append(group.columns, column),
             num_docs |-> group.num_docs]
  <2>1. new = [group EXCEPT !.columns   = Append(group.columns, column),
                            !.tokens[i] = token]
    BY DEF PushMismatch, NewColumn
  <2>2. group = [tokens   |-> group.tokens,
                 columns  |-> group.columns,
                 num_docs |-> group.num_docs]
    BY DEF Groups
  <2> HIDE DEF new, column, token
  <2> QED BY <2>1, <2>2
<1> HIDE DEF new, column, token
<1>7. /\ new.tokens = [group.tokens EXCEPT ![i] = token]
      /\ new.columns = Append(group.columns, column)
      /\ new.num_docs = group.num_docs
  BY <1>6
<1>8. /\ new.tokens \in Seq(TemplateTokens)
      /\ Len(new.tokens) = Len(group.tokens)
      /\ \A j \in 1 .. Len(group.tokens) : j # i => new.tokens[j] = group.tokens[j]
      /\ new.tokens[i] = token
  BY <1>3, <1>7, GroupFields, ExceptSeq
<1>9. /\ new.columns \in Seq(Seq(Nat))
      /\ Len(new.columns) = n
      /\ \A c \in 1 .. Len(group.columns) : new.columns[c] = group.columns[c]
      /\ new.columns[n] = column
  BY <1>5, <1>7, GroupFields, AppendProperties
<1>10. new \in Groups
  BY <1>6, <1>7, <1>8, <1>9, GroupFields DEF Groups
<1> QED BY <1>2, <1>5, <1>7, <1>8, <1>9, <1>10 DEF token, new

(* check_is_id_like compares two numbers.                                  *)
LEMMA CheckIsIdLikeType ==
  ASSUME NEW column \in Seq(Nat)
  PROVE  CheckIsIdLike(column) \in BOOLEAN
<1> DEFINE rows == 1 .. Len(column)
           seen == {column[r] : r \in rows}
           read == [r \in rows |-> column[r]]
<1>1. Len(column) \in Nat /\ IsFiniteSet(rows)
  BY LenProperties, FS_Interval
<1>2. read \in Surjection(rows, seen)
  BY DEF Surjection
<1>3. IsFiniteSet(seen)
  BY <1>1, <1>2, FS_Surjection DEF ExistsSurjection
<1>4. Cardinality(seen) \in Nat
  BY <1>3, FS_CardinalityType
<1> QED BY <1>1, <1>4 DEF CheckIsIdLike, IdLikePercent

(***************************************************************************)
(* The branch of a variable: its column gets one more row, and the token   *)
(* may change is_id_like but not its column.                               *)
(***************************************************************************)
LEMMA PushVariableFrame ==
  ASSUME NEW group \in Groups, NEW tm \in TermMaps,
         NEW i \in 1 .. Len(group.tokens), IsVariable(group.tokens[i]),
         group.tokens[i].column_index \in 1 .. Len(group.columns),
         NEW text \in Texts
  PROVE  LET new == PushVariable(group, tm, i, text)
             c   == group.tokens[i].column_index
             id  == TermIdOf(tm, text, group.tokens[i].is_id_like)
         IN  /\ new \in Groups
             /\ new.num_docs = group.num_docs
             /\ Len(new.tokens) = Len(group.tokens)
             /\ \A j \in 1 .. Len(group.tokens) :
                  j # i => new.tokens[j] = group.tokens[j]
             /\ IsVariable(new.tokens[i])
             /\ new.tokens[i].column_index = c
             /\ Len(new.columns) = Len(group.columns)
             /\ \A d \in 1 .. Len(group.columns) :
                  d # c => new.columns[d] = group.columns[d]
             /\ Len(new.columns[c]) = Len(group.columns[c]) + 1
             /\ \A r \in 1 .. Len(group.columns[c]) :
                  new.columns[c][r] = group.columns[c][r]
             /\ new.columns[c][Len(group.columns[c]) + 1] = id
             /\ id \in Nat
<1> DEFINE old    == group.tokens[i]
           c      == old.column_index
           id     == TermIdOf(tm, text, old.is_id_like)
           column == Append(group.columns[c], id)
           flag   == IF group.num_docs = IdLikeCheckAt THEN CheckIsIdLike(column)
                                                       ELSE old.is_id_like
           token  == [old EXCEPT !.is_id_like = flag]
           new    == PushVariable(group, tm, i, text)
<1>1. /\ old \in VariableTokens
      /\ old.is_id_like \in BOOLEAN
      /\ IsVariable(old)
  BY GroupFields, TokenKinds
<1>2. id \in Nat
  BY <1>1, MutateOrCreateType
<1>3. flag \in BOOLEAN
  <2>1. group.columns[c] \in Seq(Nat)
    BY GroupFields
  <2>2. column \in Seq(Nat)
    <3> HIDE DEF id, c
    <3> QED BY <1>2, <2>1, AppendProperties
  <2> HIDE DEF column
  <2> QED BY <1>1, <2>2, CheckIsIdLikeType
<1>4. /\ token \in TemplateTokens
      /\ IsVariable(token)
      /\ token.column_index = c
  <2> HIDE DEF flag, old
  <2> QED BY <1>1, <1>3 DEF VariableTokens, TemplateTokens, IsVariable
<1>5. /\ column \in Seq(Nat)
      /\ Len(column) = Len(group.columns[c]) + 1
      /\ \A r \in 1 .. Len(group.columns[c]) : column[r] = group.columns[c][r]
      /\ column[Len(group.columns[c]) + 1] = id
  <2>1. group.columns[c] \in Seq(Nat)
    BY GroupFields
  <2> HIDE DEF id, c
  <2> QED BY <1>2, <2>1, AppendProperties
<1>6. new = [tokens   |-> [group.tokens EXCEPT ![i] = token],
             columns  |-> [group.columns EXCEPT ![c] = column],
             num_docs |-> group.num_docs]
  <2>1. new = [group EXCEPT !.columns[c] = column,
                            !.tokens[i].is_id_like =
                              IF group.num_docs = IdLikeCheckAt
                              THEN CheckIsIdLike(column) ELSE @]
    BY DEF PushVariable
  <2>2. group = [tokens   |-> group.tokens,
                 columns  |-> group.columns,
                 num_docs |-> group.num_docs]
    BY DEF Groups
  <2> HIDE DEF new, column
  <2> QED BY <2>1, <2>2
<1> HIDE DEF new, column, token
<1>7. /\ new.tokens = [group.tokens EXCEPT ![i] = token]
      /\ new.columns = [group.columns EXCEPT ![c] = column]
      /\ new.num_docs = group.num_docs
  BY <1>6
<1>8. /\ new.tokens \in Seq(TemplateTokens)
      /\ Len(new.tokens) = Len(group.tokens)
      /\ \A j \in 1 .. Len(group.tokens) : j # i => new.tokens[j] = group.tokens[j]
      /\ new.tokens[i] = token
  BY <1>4, <1>7, GroupFields, ExceptSeq
<1>9. /\ new.columns \in Seq(Seq(Nat))
      /\ Len(new.columns) = Len(group.columns)
      /\ \A d \in 1 .. Len(group.columns) : d # c => new.columns[d] = group.columns[d]
      /\ new.columns[c] = column
  <2> DEFINE before == group.columns
             after  == new.columns
             S      == Seq(Nat)
  <2>1. /\ before \in Seq(S) /\ c \in 1 .. Len(before) /\ column \in S
        /\ after = [before EXCEPT ![c] = column]
    BY <1>5, <1>7, GroupFields
  <2> HIDE DEF before, after, S, c
  <2>2. /\ after \in Seq(S) /\ Len(after) = Len(before)
        /\ \A d \in 1 .. Len(before) : d # c => after[d] = before[d]
        /\ after[c] = column
    BY <2>1, ExceptSeq
  <2> QED
    BY <2>2 DEF before, after, S
<1>10. new \in Groups
  BY <1>6, <1>7, <1>8, <1>9, GroupFields DEF Groups
<1> QED BY <1>2, <1>4, <1>5, <1>7, <1>8, <1>9, <1>10 DEF new

-----------------------------------------------------------------------------
(* The same two branches, seen by what can be read back.                   *)

(* tm2 has the terms of tm and maybe more.                                 *)
Extends(tm2, tm) ==
  \A id \in Nat, text \in Texts : Stored(tm, id, text) => Stored(tm2, id, text)

(* mutate_or_create only ever extends a term map.                          *)
LEMMA MutateOrCreateExtends ==
  ASSUME NEW tm \in TermMaps, NEW key \in Texts, NEW is_id_like \in BOOLEAN
  PROVE  Extends(MutateOrCreate(tm, key, is_id_like), tm)
BY StoredGrows DEF Extends

(* The cell of token i in row r exists.                                    *)
HasCell(group, i, r) ==
  IsVariable(group.tokens[i]) =>
    /\ group.tokens[i].column_index \in 1 .. Len(group.columns)
    /\ r \in 1 .. Len(group.columns[group.tokens[i].column_index])

(***************************************************************************)
(* A cell reads as before in any group that has the same token and the     *)
(* same cell, with any term map that holds the same terms.                 *)
(***************************************************************************)
LEMMA CellStays ==
  ASSUME NEW group \in Groups, NEW new, NEW tm, NEW tm2, Extends(tm2, tm),
         NEW i \in 1 .. Len(group.tokens), NEW r, NEW text \in Texts,
         HasCell(group, i, r),
         CellRecovers(group, tm, i, r, text),
         new.tokens[i].kind = group.tokens[i].kind,
         IsConstant(group.tokens[i]) => new.tokens[i].text = group.tokens[i].text,
         IsVariable(group.tokens[i]) =>
           /\ new.tokens[i].column_index = group.tokens[i].column_index
           /\ new.columns[group.tokens[i].column_index][r]
                = group.columns[group.tokens[i].column_index][r]
  PROVE  CellRecovers(new, tm2, i, r, text)
<1>1. group.tokens[i] \in TemplateTokens
  BY GroupFields
<1>2. CASE IsConstant(group.tokens[i])
  <2>1. ~IsVariable(group.tokens[i])
    BY <1>1, <1>2, TokenKinds
  <2> QED BY <1>2, <2>1 DEF CellRecovers, CellReads, IsConstant, IsVariable
<1>3. CASE IsVariable(group.tokens[i])
  <2> DEFINE id == group.columns[group.tokens[i].column_index][r]
  <2>1. ~IsConstant(group.tokens[i])
    BY <1>1, <1>3, TokenKinds
  <2>2. id \in Nat
    <3>1. /\ group.tokens[i].column_index \in 1 .. Len(group.columns)
          /\ r \in 1 .. Len(group.columns[group.tokens[i].column_index])
      BY <1>3 DEF HasCell
    <3>2. group.columns[group.tokens[i].column_index] \in Seq(Nat)
      BY <3>1, GroupFields
    <3> QED BY <3>1, <3>2, ElementOfSeq
  <2>3. Capped[text] \in Texts
    BY CappedAssumption DEF CappedAssumption
  <2>4. Stored(tm, id, text) \/ Stored(tm, id, Capped[text])
    BY <2>1 DEF CellRecovers, CellReads
  <2>5. Stored(tm2, id, text) \/ Stored(tm2, id, Capped[text])
    BY <2>2, <2>3, <2>4 DEF Extends
  <2>6. IsVariable(new.tokens[i])
    BY <1>3 DEF IsVariable
  <2> QED BY <1>3, <2>5, <2>6 DEF CellRecovers, CellReads
<1> QED BY <1>1, <1>2, <1>3, TokenKinds

-----------------------------------------------------------------------------
(* What the cursor moving past a token does to the shape of a group.       *)

(* DocGroup::new makes a group without columns.                            *)
LEMMA NewGroupShape ==
  ASSUME NEW line \in Seq(Texts)
  PROVE  /\ NewGroup(line) \in Groups
         /\ NewGroup(line).num_docs = 1
         /\ Len(NewGroup(line).tokens) = Len(line)
         /\ \A i \in 1 .. Len(line) :
              /\ IsConstant(NewGroup(line).tokens[i])
              /\ ~IsVariable(NewGroup(line).tokens[i])
              /\ NewGroup(line).tokens[i].text = line[i]
         /\ Rectangular(NewGroup(line), 0)
<1> DEFINE new == NewGroup(line)
           tokens == [i \in 1 .. Len(line) |-> NewConstant(TypeOf[line[i]], line[i])]
<1>1. Len(line) \in Nat /\ \A i \in 1 .. Len(line) : line[i] \in Texts
  BY LenProperties, ElementOfSeq
<1>2. \A i \in 1 .. Len(line) :
        /\ NewConstant(TypeOf[line[i]], line[i]) \in TemplateTokens
        /\ IsConstant(NewConstant(TypeOf[line[i]], line[i]))
        /\ ~IsVariable(NewConstant(TypeOf[line[i]], line[i]))
        /\ NewConstant(TypeOf[line[i]], line[i]).text = line[i]
  <2> TAKE i \in 1 .. Len(line)
  <2>1. line[i] \in Texts /\ TypeOf[line[i]] \in Types
    BY <1>1, DocGroupsAssumption DEF DocGroupsAssumption
  <2> QED BY <2>1, NewTokens
<1>3. tokens \in Seq(TemplateTokens) /\ Len(tokens) = Len(line)
  BY <1>1, <1>2
<1>4. new.tokens = tokens /\ new.columns = << >> /\ new.num_docs = 1
  BY DEF NewGroup
<1>5. << >> \in Seq(Seq(Nat)) /\ Len(<< >>) = 0
  OBVIOUS
<1>6. new \in Groups
  BY <1>3, <1>5 DEF NewGroup, Groups
<1>7. \A i \in 1 .. Len(line) :
        /\ IsConstant(new.tokens[i])
        /\ ~IsVariable(new.tokens[i])
        /\ new.tokens[i].text = line[i]
  BY <1>2, <1>4
<1> HIDE DEF new, tokens
<1>8. Rectangular(new, 0)
  BY <1>3, <1>4, <1>5, <1>7 DEF Rectangular, ColumnsOwned
<1> QED BY <1>3, <1>4, <1>6, <1>7, <1>8 DEF new

(* A constant that matches has no column to grow.                          *)
LEMMA SameConstantShape ==
  ASSUME NEW group \in Groups, NEW i \in 1 .. Len(group.tokens),
         IsConstant(group.tokens[i]), Rectangular(group, i)
  PROVE  Rectangular(group, i + 1)
<1>1. ~IsVariable(group.tokens[i])
  BY GroupFields, TokenKinds
<1>2. ASSUME NEW j \in 1 .. Len(group.tokens), IsVariable(group.tokens[j])
      PROVE  j < i <=> j < i + 1
  <2>1. j # i
    BY <1>1, <1>2
  <2> QED BY <2>1, GroupFields
<1> QED BY <1>2 DEF Rectangular

(* A new variable comes with a column of one row more than num_docs.       *)
LEMMA PushMismatchShape ==
  ASSUME NEW group \in Groups, NEW tm \in TermMaps,
         NEW i \in 1 .. Len(group.tokens), IsConstant(group.tokens[i]),
         NEW text \in Texts, Rectangular(group, i)
  PROVE  Rectangular(PushMismatch(group, tm, i, text), i + 1)
<1> DEFINE new == PushMismatch(group, tm, i, text)
           n   == Len(group.columns) + 1
<1>1. /\ new.num_docs = group.num_docs
      /\ Len(new.tokens) = Len(group.tokens)
      /\ \A j \in 1 .. Len(group.tokens) :
           j # i => new.tokens[j] = group.tokens[j]
      /\ new.tokens[i] = NewVariable(TypeOf[text], n)
      /\ Len(new.columns) = n
      /\ \A c \in 1 .. Len(group.columns) : new.columns[c] = group.columns[c]
      /\ Len(new.columns[n]) = group.num_docs + 1
  BY PushMismatchFrame, ZenonT(30)
<1>2. /\ Len(group.tokens) \in Nat
      /\ Len(group.columns) \in Nat
      /\ group.num_docs \in Nat
      /\ ~IsVariable(group.tokens[i])
  BY GroupFields, TokenKinds
<1>3. TypeOf[text] \in Types
  BY DocGroupsAssumption DEF DocGroupsAssumption
<1>4. IsVariable(new.tokens[i]) /\ new.tokens[i].column_index = n
  BY <1>1, <1>2, <1>3, NewTokens
<1> HIDE DEF new, n
<1>5. \A j \in 1 .. Len(group.tokens) :
        j # i => /\ IsVariable(new.tokens[j]) <=> IsVariable(group.tokens[j])
                 /\ new.tokens[j].column_index = group.tokens[j].column_index
  BY <1>1
<1>6. \A j \in 1 .. Len(group.tokens) :
        j # i /\ IsVariable(group.tokens[j])
          => group.tokens[j].column_index \in 1 .. Len(group.columns)
  BY DEF Rectangular, ColumnsOwned
<1>7. n = Len(group.columns) + 1
  BY DEF n
<1>8. ColumnsOwned(new)
  <2>1. \A j \in 1 .. Len(new.tokens) :
          IsVariable(new.tokens[j])
            => new.tokens[j].column_index \in 1 .. Len(new.columns)
    <3> TAKE j \in 1 .. Len(new.tokens)
    <3>1. CASE j = i
      BY <1>1, <1>2, <1>4, <1>7, <3>1
    <3>2. CASE j # i
      <4>1. IsVariable(new.tokens[j])
              => new.tokens[j].column_index \in 1 .. Len(group.columns)
        BY <1>1, <1>5, <1>6, <3>2
      <4> QED BY <1>1, <1>2, <1>7, <4>1
    <3> QED BY <3>1, <3>2
  <2>2. ASSUME NEW j \in 1 .. Len(new.tokens), NEW k \in 1 .. Len(new.tokens),
               IsVariable(new.tokens[j]), IsVariable(new.tokens[k]),
               new.tokens[j].column_index = new.tokens[k].column_index
        PROVE  j = k
    <3>1. CASE j # i /\ k # i
      BY <1>1, <1>5, <2>2, <3>1 DEF Rectangular, ColumnsOwned
    <3>2. CASE j # i /\ k = i
      BY <1>1, <1>2, <1>4, <1>5, <1>6, <1>7, <2>2, <3>2
    <3>3. CASE j = i /\ k # i
      BY <1>1, <1>2, <1>4, <1>5, <1>6, <1>7, <2>2, <3>3
    <3> QED BY <3>1, <3>2, <3>3
  <2>3. ASSUME NEW c \in 1 .. Len(new.columns)
        PROVE  \E j \in 1 .. Len(new.tokens) :
                 IsVariable(new.tokens[j]) /\ new.tokens[j].column_index = c
    <3>1. CASE c = n
      BY <1>1, <1>4, <3>1
    <3>2. CASE c # n
      <4>1. c \in 1 .. Len(group.columns)
        BY <1>1, <1>2, <1>7, <3>2
      <4>2. PICK j \in 1 .. Len(group.tokens) :
              IsVariable(group.tokens[j]) /\ group.tokens[j].column_index = c
        BY <4>1 DEF Rectangular, ColumnsOwned
      <4>3. j # i
        BY <1>2, <4>2
      <4> QED BY <1>1, <1>5, <4>2, <4>3
    <3> QED BY <3>1, <3>2
  <2> QED BY <2>1, <2>2, <2>3 DEF ColumnsOwned
<1>9. ASSUME NEW j \in 1 .. Len(new.tokens), IsVariable(new.tokens[j])
      PROVE  Len(new.columns[new.tokens[j].column_index])
               = new.num_docs + IF j < i + 1 THEN 1 ELSE 0
  <2>1. CASE j = i
    BY <1>1, <1>2, <1>4, <2>1, SMTT(30)
  <2>2. CASE j # i
    <3>1. IsVariable(group.tokens[j]) /\ j \in 1 .. Len(group.tokens)
      BY <1>1, <1>5, <1>9, <2>2
    <3>2. new.columns[new.tokens[j].column_index]
            = group.columns[group.tokens[j].column_index]
      BY <1>1, <1>5, <1>6, <2>2, <3>1
    <3>3. j < i <=> j < i + 1
      BY <1>2, <2>2, <3>1
    <3> QED BY <1>1, <3>1, <3>2, <3>3 DEF Rectangular
  <2> QED BY <2>1, <2>2
<1> QED BY <1>8, <1>9 DEF Rectangular, new

(* A variable's column grows by the row that the cursor moves past.        *)
LEMMA PushVariableShape ==
  ASSUME NEW group \in Groups, NEW tm \in TermMaps,
         NEW i \in 1 .. Len(group.tokens), IsVariable(group.tokens[i]),
         NEW text \in Texts, Rectangular(group, i)
  PROVE  Rectangular(PushVariable(group, tm, i, text), i + 1)
<1> DEFINE new == PushVariable(group, tm, i, text)
           c   == group.tokens[i].column_index
<1>1. c \in 1 .. Len(group.columns)
  BY DEF Rectangular, ColumnsOwned
<1>2. /\ new.num_docs = group.num_docs
      /\ Len(new.tokens) = Len(group.tokens)
      /\ \A j \in 1 .. Len(group.tokens) :
           j # i => new.tokens[j] = group.tokens[j]
      /\ IsVariable(new.tokens[i])
      /\ new.tokens[i].column_index = c
      /\ Len(new.columns) = Len(group.columns)
      /\ \A d \in 1 .. Len(group.columns) :
           d # c => new.columns[d] = group.columns[d]
      /\ Len(new.columns[c]) = Len(group.columns[c]) + 1
  BY <1>1, PushVariableFrame, ZenonT(60)
<1>3. /\ Len(group.tokens) \in Nat
      /\ group.num_docs \in Nat
  BY GroupFields
<1> HIDE DEF new
<1>4. \A j \in 1 .. Len(group.tokens) :
        /\ IsVariable(new.tokens[j]) <=> IsVariable(group.tokens[j])
        /\ new.tokens[j].column_index = group.tokens[j].column_index
  BY <1>2
<1>5. ColumnsOwned(group)
  BY DEF Rectangular
<1>6. ColumnsOwned(new)
  <2>1. Len(new.tokens) = Len(group.tokens) /\ Len(new.columns) = Len(group.columns)
    BY <1>2
  <2>2. \A j \in 1 .. Len(new.tokens) :
          IsVariable(new.tokens[j])
            => new.tokens[j].column_index \in 1 .. Len(new.columns)
    BY <1>4, <1>5, <2>1 DEF ColumnsOwned
  <2>3. ASSUME NEW j \in 1 .. Len(new.tokens), NEW k \in 1 .. Len(new.tokens),
               IsVariable(new.tokens[j]), IsVariable(new.tokens[k]),
               new.tokens[j].column_index = new.tokens[k].column_index
        PROVE  j = k
    BY <1>4, <1>5, <2>1, <2>3 DEF ColumnsOwned
  <2>4. ASSUME NEW d \in 1 .. Len(new.columns)
        PROVE  \E j \in 1 .. Len(new.tokens) :
                 IsVariable(new.tokens[j]) /\ new.tokens[j].column_index = d
    <3>1. PICK j \in 1 .. Len(group.tokens) :
            IsVariable(group.tokens[j]) /\ group.tokens[j].column_index = d
      BY <1>5, <2>1 DEF ColumnsOwned
    <3> QED BY <1>4, <2>1, <3>1
  <2> QED BY <2>2, <2>3, <2>4 DEF ColumnsOwned
<1>7. ASSUME NEW j \in 1 .. Len(new.tokens), IsVariable(new.tokens[j])
      PROVE  Len(new.columns[new.tokens[j].column_index])
               = new.num_docs + IF j < i + 1 THEN 1 ELSE 0
  <2>1. CASE j = i
    <3>1. Len(group.columns[c]) = group.num_docs + IF i < i THEN 1 ELSE 0
      BY DEF Rectangular
    <3>2. Len(new.columns[c]) = new.num_docs + 1
      BY <1>2, <1>3, <3>1
    <3>3. i < i + 1
      BY <1>3
    <3> QED BY <1>2, <2>1, <3>2, <3>3
  <2>2. CASE j # i
    <3>1. IsVariable(group.tokens[j]) /\ j \in 1 .. Len(group.tokens)
      BY <1>2, <1>4, <1>7
    <3>2. group.tokens[j].column_index # c
      BY <1>5, <2>2, <3>1 DEF ColumnsOwned
    <3>3. group.tokens[j].column_index \in 1 .. Len(group.columns)
      BY <1>5, <3>1 DEF ColumnsOwned
    <3>4. new.columns[new.tokens[j].column_index]
            = group.columns[group.tokens[j].column_index]
      BY <1>2, <1>4, <3>1, <3>2, <3>3
    <3>5. j < i <=> j < i + 1
      BY <1>3, <2>2, <3>1
    <3> QED BY <1>2, <3>1, <3>4, <3>5 DEF Rectangular
  <2> QED BY <2>1, <2>2
<1> QED BY <1>6, <1>7 DEF Rectangular, new

-----------------------------------------------------------------------------
(* What the cursor moving past a token does to the rows of a group.        *)

(* Row r is finished, or under way and token j is left of the cursor.      *)
Reached(group, cursor, j, r) ==
  /\ r \in 1 .. group.num_docs + 1
  /\ r = group.num_docs + 1 => j < cursor

(* A cell that was reached exists.                                         *)
LEMMA ReachedHasCell ==
  ASSUME NEW group \in Groups, NEW cursor \in Nat, Rectangular(group, cursor),
         NEW j \in 1 .. Len(group.tokens), NEW r, Reached(group, cursor, j, r)
  PROVE  HasCell(group, j, r)
<1>1. SUFFICES ASSUME IsVariable(group.tokens[j])
               PROVE  /\ group.tokens[j].column_index \in 1 .. Len(group.columns)
                      /\ r \in 1 .. Len(group.columns[group.tokens[j].column_index])
  BY DEF HasCell
<1>2. group.tokens[j].column_index \in 1 .. Len(group.columns)
  BY <1>1 DEF Rectangular, ColumnsOwned
<1>3. Len(group.columns[group.tokens[j].column_index])
        = group.num_docs + IF j < cursor THEN 1 ELSE 0
  BY <1>1 DEF Rectangular
<1>4. group.num_docs \in Nat
  BY GroupFields
<1>5. CASE j < cursor
  BY <1>2, <1>3, <1>4, <1>5 DEF Reached
<1>6. CASE ~(j < cursor)
  BY <1>2, <1>3, <1>4, <1>6 DEF Reached
<1> QED BY <1>5, <1>6

(* What was reached before a constant turns variable still reads the same. *)
LEMMA PushMismatchKeepsCells ==
  ASSUME NEW group \in Groups, NEW tm \in TermMaps,
         NEW i \in 1 .. Len(group.tokens), IsConstant(group.tokens[i]),
         NEW text \in Texts, Rectangular(group, i)
  PROVE  \A j \in 1 .. Len(group.tokens), r \in Nat, t \in Texts :
           Reached(group, i, j, r) /\ CellRecovers(group, tm, j, r, t)
             => CellRecovers(PushMismatch(group, tm, i, text),
                             TermMapAfterMismatch(group, tm, i, text), j, r, t)
<1> DEFINE new      == PushMismatch(group, tm, i, text)
           existing == group.tokens[i].text
           tm1      == MutateOrCreate(tm, text, FALSE)
           tm2      == MutateOrCreate(tm1, existing, FALSE)
           n        == Len(group.columns) + 1
           id       == TermIdOf(tm1, existing, FALSE)
<1>1. /\ new.num_docs = group.num_docs
      /\ \A k \in 1 .. Len(group.tokens) : k # i => new.tokens[k] = group.tokens[k]
      /\ new.tokens[i] = NewVariable(TypeOf[text], n)
      /\ \A c \in 1 .. Len(group.columns) : new.columns[c] = group.columns[c]
      /\ \A s \in 1 .. group.num_docs : new.columns[n][s] = id
  BY PushMismatchFrame, ZenonT(30)
<1>2. existing \in Texts /\ ~IsVariable(group.tokens[i])
  BY GroupFields, TokenKinds
<1>3. tm1 \in TermMaps /\ tm2 \in TermMaps
  BY <1>2, MutateOrCreateType
<1>4. Extends(tm2, tm)
  <2>1. Extends(tm1, tm)
    BY MutateOrCreateExtends
  <2>2. Extends(tm2, tm1)
    BY <1>2, <1>3, MutateOrCreateExtends
  <2> QED BY <2>1, <2>2 DEF Extends
<1>5. i \in Nat /\ group.num_docs \in Nat /\ Len(group.columns) \in Nat
  BY GroupFields
<1>7. TermMapAfterMismatch(group, tm, i, text) = tm2
  BY DEF TermMapAfterMismatch
<1>8. Stored(tm2, id, Capped[existing])
  BY <1>2, <1>3, TermIdNamesKey
<1>9. NewVariable(TypeOf[text], n).column_index = n
      /\ IsVariable(NewVariable(TypeOf[text], n))
  BY <1>5, NewTokens, DocGroupsAssumption DEF DocGroupsAssumption
<1> HIDE DEF new, tm1, tm2, id
<1> SUFFICES ASSUME NEW j \in 1 .. Len(group.tokens), NEW r \in Nat,
                    NEW t \in Texts, Reached(group, i, j, r),
                    CellRecovers(group, tm, j, r, t)
             PROVE  CellRecovers(new, tm2, j, r, t)
  BY <1>7 DEF new
<1>6. HasCell(group, j, r)
  BY <1>5, ReachedHasCell
<1>10. CASE j # i
  <2>1. new.tokens[j] = group.tokens[j]
    BY <1>1, <1>10
  <2>2. IsVariable(group.tokens[j]) =>
          new.columns[group.tokens[j].column_index]
            = group.columns[group.tokens[j].column_index]
    BY <1>1, <1>6 DEF HasCell
  <2> QED BY <1>4, <1>6, <2>1, <2>2, CellStays
<1>11. CASE j = i
  <2>1. r \in 1 .. group.num_docs
    BY <1>5, <1>11 DEF Reached
  <2>2. existing = t \/ existing = Capped[t]
    BY <1>2, <1>11 DEF CellRecovers, CellReads
  <2>3. Capped[existing] = Capped[t]
    BY <2>2, CappedAssumption DEF CappedAssumption
  <2>4. new.columns[n][r] = id
    BY <1>1, <2>1
  <2>5. CellReads(new, tm2, i, r, Capped[t])
    <3> HIDE DEF n
    <3> QED BY <1>1, <1>8, <1>9, <2>3, <2>4 DEF CellReads
  <2> QED BY <1>11, <2>5 DEF CellRecovers
<1> QED BY <1>10, <1>11

(* The new row of the column of a new variable reads as the line's token.  *)
LEMMA PushMismatchNewCell ==
  ASSUME NEW group \in Groups, NEW tm \in TermMaps,
         NEW i \in 1 .. Len(group.tokens), IsConstant(group.tokens[i]),
         NEW text \in Texts
  PROVE  CellRecovers(PushMismatch(group, tm, i, text),
                      TermMapAfterMismatch(group, tm, i, text),
                      i, group.num_docs + 1, text)
<1> DEFINE new      == PushMismatch(group, tm, i, text)
           existing == group.tokens[i].text
           tm1      == MutateOrCreate(tm, text, FALSE)
           tm2      == MutateOrCreate(tm1, existing, FALSE)
           n        == Len(group.columns) + 1
           ct       == TermIdOf(tm, text, FALSE)
<1>1. /\ new.tokens[i] = NewVariable(TypeOf[text], n)
      /\ new.columns[n][group.num_docs + 1] = ct
      /\ ct \in Nat
  BY PushMismatchFrame, ZenonT(30)
<1>2. existing \in Texts
  BY GroupFields, TokenKinds
<1>3. tm1 \in TermMaps
  BY MutateOrCreateType
<1>4. Capped[text] \in Texts
  BY CappedAssumption DEF CappedAssumption
<1>5. Stored(tm1, ct, Capped[text])
  BY TermIdNamesKey
<1>6. Stored(tm2, ct, Capped[text])
  BY <1>1, <1>2, <1>3, <1>4, <1>5, StoredGrows
<1>7. TermMapAfterMismatch(group, tm, i, text) = tm2
  BY DEF TermMapAfterMismatch
<1>8. NewVariable(TypeOf[text], n).column_index = n
      /\ IsVariable(NewVariable(TypeOf[text], n))
  BY GroupFields, NewTokens, DocGroupsAssumption DEF DocGroupsAssumption
<1> HIDE DEF new, tm1, tm2, ct, n
<1>9. CellReads(new, tm2, i, group.num_docs + 1, Capped[text])
  BY <1>1, <1>6, <1>8 DEF CellReads
<1> QED BY <1>7, <1>9 DEF CellRecovers, new

(* What was reached before a column grows still reads the same.            *)
LEMMA PushVariableKeepsCells ==
  ASSUME NEW group \in Groups, NEW tm \in TermMaps,
         NEW i \in 1 .. Len(group.tokens), IsVariable(group.tokens[i]),
         NEW text \in Texts, Rectangular(group, i)
  PROVE  \A j \in 1 .. Len(group.tokens), r \in Nat, t \in Texts :
           Reached(group, i, j, r) /\ CellRecovers(group, tm, j, r, t)
             => CellRecovers(PushVariable(group, tm, i, text),
                             MutateOrCreate(tm, text, group.tokens[i].is_id_like),
                             j, r, t)
<1> DEFINE new == PushVariable(group, tm, i, text)
           tm2 == MutateOrCreate(tm, text, group.tokens[i].is_id_like)
           c   == group.tokens[i].column_index
<1>1. c \in 1 .. Len(group.columns)
  BY DEF Rectangular, ColumnsOwned
<1>2. /\ \A k \in 1 .. Len(group.tokens) :
           k # i => new.tokens[k] = group.tokens[k]
      /\ IsVariable(new.tokens[i])
      /\ new.tokens[i].column_index = c
      /\ \A d \in 1 .. Len(group.columns) :
           d # c => new.columns[d] = group.columns[d]
      /\ \A s \in 1 .. Len(group.columns[c]) :
           new.columns[c][s] = group.columns[c][s]
  BY <1>1, PushVariableFrame, ZenonT(30)
<1>3. group.tokens[i].is_id_like \in BOOLEAN
  BY GroupFields, TokenKinds
<1>4. Extends(tm2, tm)
  BY <1>3, MutateOrCreateExtends
<1> HIDE DEF new, tm2
<1> SUFFICES ASSUME NEW j \in 1 .. Len(group.tokens), NEW r \in Nat,
                    NEW t \in Texts, Reached(group, i, j, r),
                    CellRecovers(group, tm, j, r, t)
             PROVE  CellRecovers(new, tm2, j, r, t)
  BY DEF new, tm2
<1>5. HasCell(group, j, r)
  <2>1. i \in Nat
    BY GroupFields
  <2> QED BY <2>1, ReachedHasCell
<1>6. /\ new.tokens[j].kind = group.tokens[j].kind
      /\ IsConstant(group.tokens[j]) => new.tokens[j].text = group.tokens[j].text
      /\ IsVariable(group.tokens[j]) =>
           new.tokens[j].column_index = group.tokens[j].column_index
  BY <1>2, TokenKinds, GroupFields DEF IsVariable
<1>7. IsVariable(group.tokens[j]) =>
        new.columns[group.tokens[j].column_index][r]
          = group.columns[group.tokens[j].column_index][r]
  BY <1>1, <1>2, <1>5 DEF HasCell
<1> QED BY <1>4, <1>5, <1>6, <1>7, CellStays

(* The new row of a column reads as the line's token.                      *)
LEMMA PushVariableNewCell ==
  ASSUME NEW group \in Groups, NEW tm \in TermMaps,
         NEW i \in 1 .. Len(group.tokens), IsVariable(group.tokens[i]),
         NEW text \in Texts, Rectangular(group, i)
  PROVE  CellRecovers(PushVariable(group, tm, i, text),
                      MutateOrCreate(tm, text, group.tokens[i].is_id_like),
                      i, group.num_docs + 1, text)
<1> DEFINE new  == PushVariable(group, tm, i, text)
           flag == group.tokens[i].is_id_like
           tm2  == MutateOrCreate(tm, text, flag)
           c    == group.tokens[i].column_index
           id   == TermIdOf(tm, text, flag)
<1>1. c \in 1 .. Len(group.columns)
  BY DEF Rectangular, ColumnsOwned
<1>2. Len(group.columns[c]) = group.num_docs
  <2>1. Len(group.columns[c]) = group.num_docs + IF i < i THEN 1 ELSE 0
    BY DEF Rectangular
  <2> QED BY <2>1, GroupFields
<1>3. /\ IsVariable(new.tokens[i])
      /\ new.tokens[i].column_index = c
      /\ new.columns[c][Len(group.columns[c]) + 1] = id
  BY <1>1, PushVariableFrame
<1>4. flag \in BOOLEAN
  BY GroupFields, TokenKinds
<1>5. Stored(tm2, id, text) \/ Stored(tm2, id, Capped[text])
  BY <1>4, TermIdNamesKey
<1> HIDE DEF new, tm2, id, c
<1>6. CellRecovers(new, tm2, i, group.num_docs + 1, text)
  BY <1>2, <1>3, <1>5 DEF CellRecovers, CellReads
<1> QED BY <1>6 DEF new, tm2

(* The lines of the input are sequences of texts with a group id.          *)
LEMMA LineFacts ==
  ASSUME NEW line \in Lines
  PROVE  /\ line \in Seq(Texts)
         /\ Len(line) \in Nat
         /\ GroupIdOf(line) \in GroupIds
         /\ GroupIdOf(line).num_tokens = Len(line)
BY LinesAssumption, LenProperties DEF LinesAssumption, GroupIdOf, GroupIds

(* What the invariant says while a push is in progress.                    *)
LEMMA PushFacts ==
  ASSUME IngestInv, pos > 0
  PROVE  /\ pos \in Nat /\ Len(lines) \in Nat \ {0}
         /\ NumPushed = Len(lines) - 1
         /\ Current \in Lines
         /\ Current \in Seq(Texts)
         /\ CurrentId \in DOMAIN groups
         /\ CurrentGroup \in Groups
         /\ Len(CurrentGroup.tokens) = Len(Current)
         /\ pos <= Len(Current) + 1
         /\ Cursor(CurrentId) = pos
         /\ Rectangular(CurrentGroup, pos)
<1>1. /\ pos \in Nat
      /\ lines \in Seq(Lines)
      /\ Len(lines) > 0
      /\ CurrentId \in DOMAIN groups
      /\ pos <= Len(Current) + 1
  BY DEF IngestInv, IngestTypeOK, PushInRange
<1>2. Len(lines) \in Nat \ {0} /\ NumPushed = Len(lines) - 1
  BY <1>1, LenProperties DEF NumPushed
<1>3. Current \in Lines
  BY <1>1, <1>2, ElementOfSeq DEF Current
<1>4. Current \in Seq(Texts) /\ CurrentId.num_tokens = Len(Current)
  BY <1>3, LineFacts DEF CurrentId
<1>5. CurrentGroup \in Groups /\ Len(CurrentGroup.tokens) = Len(Current)
  BY <1>1, <1>4 DEF IngestInv, IngestTypeOK, GroupsMatchLines, CurrentGroup
<1>6. Cursor(CurrentId) = pos
  BY DEF Cursor
<1>7. Rectangular(CurrentGroup, pos)
  BY <1>1, <1>6 DEF IngestInv, ColumnsRectangular, CurrentGroup
<1> QED BY <1>1, <1>2, <1>3, <1>4, <1>5, <1>6, <1>7

(* And at a token.                                                         *)
LEMMA TokenFacts ==
  ASSUME IngestInv, AtToken
  PROVE  /\ pos > 0
         /\ pos \in 1 .. Len(CurrentGroup.tokens)
         /\ CurrentText \in Texts
<1>1. pos > 0 /\ pos <= Len(CurrentGroup.tokens)
  BY DEF AtToken
<1>2. /\ pos \in Nat
      /\ Current \in Seq(Texts)
      /\ CurrentGroup \in Groups
      /\ Len(CurrentGroup.tokens) = Len(Current)
  BY <1>1, PushFacts
<1>3. pos \in 1 .. Len(Current) /\ pos \in 1 .. Len(CurrentGroup.tokens)
  BY <1>1, <1>2, GroupFields
<1> QED BY <1>1, <1>2, <1>3, ElementOfSeq DEF CurrentText

(* The invariant holds before the first line.                              *)
LEMMA IngestInitInv == IngestInit => IngestInv
<1> SUFFICES ASSUME IngestInit PROVE IngestInv
  OBVIOUS
<1>1. /\ term_map = EmptyTermMap
      /\ groups = << >> /\ DOMAIN groups = {}
      /\ lines = << >> /\ Len(lines) = 0
      /\ origin = << >> /\ DOMAIN origin = {}
      /\ pos = 0
  BY DEF IngestInit
<1>2. EmptyTermMap \in TermMaps
  BY DEF EmptyTermMap, TermMaps, NoTerm
<1>3. IngestTypeOK
  BY <1>1, <1>2 DEF IngestTypeOK
<1>4. IdsNameOneTerm(EmptyTermMap)
  BY DEF IdsNameOneTerm, IdsBelowCounter, EmptyTermMap, NoTerm
<1>5. TermIdsSound
  BY <1>1, <1>4 DEF TermIdsSound
<1>6. PushInRange /\ RowInFlight
  BY <1>1 DEF PushInRange, RowInFlight
<1>7. GroupsMatchLines /\ ColumnsRectangular /\ RowsRecoverable
  BY <1>1 DEF GroupsMatchLines, ColumnsRectangular, RowsRecoverable
<1>8. EveryLineInOneRow
  BY <1>1 DEF EveryLineInOneRow, NumPushed
<1> QED BY <1>3, <1>5, <1>6, <1>7, <1>8 DEF IngestInv

-----------------------------------------------------------------------------
(* What the three branches of push have in common: the group at the cursor *)
(* becomes `new`, the term map tm2, and nothing that was reached is lost.  *)
Advances(new, tm2) ==
  /\ AtToken
  /\ new \in Groups
  /\ new.num_docs = CurrentGroup.num_docs
  /\ Len(new.tokens) = Len(CurrentGroup.tokens)
  /\ Rectangular(new, pos + 1)
  /\ tm2 \in TermMaps
  /\ IdsNameOneTerm(tm2)
  /\ Extends(tm2, term_map)
  /\ \A j \in 1 .. Len(CurrentGroup.tokens), r \in Nat, t \in Texts :
       Reached(CurrentGroup, pos, j, r) /\ CellRecovers(CurrentGroup, term_map, j, r, t)
         => CellRecovers(new, tm2, j, r, t)
  /\ CellRecovers(new, tm2, pos, CurrentGroup.num_docs + 1, CurrentText)

(* One more token of the line pushed keeps the invariant.                  *)
LEMMA AdvanceKeepsInv ==
  ASSUME IngestInv, NEW new, NEW tm2, Advances(new, tm2),
         groups' = [groups EXCEPT ![CurrentId] = new],
         term_map' = tm2,
         pos' = pos + 1,
         UNCHANGED <<lines, origin>>
  PROVE  IngestInv'
<1> DEFINE G == CurrentId
           group == CurrentGroup
<1>0. /\ lines' = lines /\ origin' = origin
      /\ groups' = [groups EXCEPT ![G] = new]
      /\ term_map' = tm2
      /\ pos' = pos + 1
  OBVIOUS
<1>1. /\ AtToken
      /\ new \in Groups
      /\ new.num_docs = group.num_docs
      /\ Len(new.tokens) = Len(group.tokens)
      /\ Rectangular(new, pos + 1)
      /\ tm2 \in TermMaps
      /\ IdsNameOneTerm(tm2)
      /\ Extends(tm2, term_map)
  BY DEF Advances
<1>2. \A j \in 1 .. Len(group.tokens), r \in Nat, t \in Texts :
        Reached(group, pos, j, r) /\ CellRecovers(group, term_map, j, r, t)
          => CellRecovers(new, tm2, j, r, t)
  BY DEF Advances
<1>3. CellRecovers(new, tm2, pos, group.num_docs + 1, CurrentText)
  BY DEF Advances
<1>4. /\ pos > 0 /\ pos \in 1 .. Len(group.tokens)
      /\ CurrentText \in Texts
  BY <1>1, TokenFacts
<1>5. /\ pos \in Nat /\ Len(lines) \in Nat \ {0}
      /\ Current \in Seq(Texts)
      /\ G \in DOMAIN groups
      /\ group \in Groups
      /\ Len(group.tokens) = Len(Current)
      /\ Rectangular(group, pos)
  BY <1>4, PushFacts
<1>6. group = groups[G] /\ group.num_docs \in Nat /\ Len(group.tokens) \in Nat
  BY <1>5, GroupFields DEF CurrentGroup
<1>7. /\ DOMAIN groups' = DOMAIN groups
      /\ groups'[G] = new
      /\ \A g \in DOMAIN groups : g # G => groups'[g] = groups[g]
  BY <1>0, <1>5
<1>8. /\ Current' = Current /\ CurrentId' = G /\ CurrentGroup' = new
      /\ pos' \in Nat /\ pos' > 0
      /\ NumPushed' = NumPushed
  BY <1>0, <1>4, <1>5, <1>7 DEF Current, CurrentId, CurrentGroup, NumPushed
<1>9. \A g \in DOMAIN groups : groups'[g].num_docs = groups[g].num_docs
                               /\ Len(groups'[g].tokens) = Len(groups[g].tokens)
  BY <1>1, <1>6, <1>7
<1> HIDE DEF group, G
<1>10. IngestTypeOK'
  BY <1>0, <1>1, <1>7, <1>8 DEF IngestInv, IngestTypeOK
<1>11. PushInRange'
  <2>1. pos + 1 <= Len(Current) + 1
    BY <1>4, <1>5, <1>6
  <2> QED BY <1>0, <1>5, <1>7, <1>8, <2>1 DEF PushInRange
<1>12. GroupsMatchLines'
  BY <1>0, <1>7, <1>8, <1>9 DEF IngestInv, GroupsMatchLines
<1>13. ColumnsRectangular'
  <2> SUFFICES ASSUME NEW g \in DOMAIN groups
               PROVE  Rectangular(groups'[g], Cursor(g)')
    BY <1>7 DEF ColumnsRectangular
  <2>1. CASE g = G
    BY <1>0, <1>1, <1>7, <1>8, <2>1 DEF Cursor
  <2>2. CASE g # G
    <3>1. Cursor(g) = 0 /\ Cursor(g)' = 0
      BY <1>8, <2>2 DEF Cursor, G
    <3> QED BY <1>7, <2>2, <3>1 DEF IngestInv, ColumnsRectangular
  <2> QED BY <2>1, <2>2
<1>14. RowsRecoverable'
  <2> SUFFICES ASSUME NEW g \in DOMAIN groups', NEW r \in 1 .. groups'[g].num_docs
               PROVE  /\ Len(lines'[origin'[g][r]]) = Len(groups'[g].tokens)
                      /\ \A i \in 1 .. Len(groups'[g].tokens) :
                           CellRecovers(groups'[g], term_map', i, r,
                                        lines'[origin'[g][r]][i])
    BY DEF RowsRecoverable
  <2>0. /\ g \in DOMAIN groups
        /\ r \in 1 .. groups[g].num_docs
        /\ Len(groups'[g].tokens) = Len(groups[g].tokens)
    BY <1>7, <1>9
  <2>1. Len(lines[origin[g][r]]) = Len(groups[g].tokens)
    BY <2>0 DEF IngestInv, RowsRecoverable
  <2>2. ASSUME NEW i \in 1 .. Len(groups[g].tokens)
        PROVE  CellRecovers(groups'[g], tm2, i, r, lines[origin[g][r]][i])
    <3> DEFINE text == lines[origin[g][r]][i]
    <3>1. CellRecovers(groups[g], term_map, i, r, text)
      BY <2>0 DEF IngestInv, RowsRecoverable
    <3>2. text \in Texts
      <4>1. lines \in Seq(Lines) /\ origin[g][r] \in 1 .. NumPushed
        BY <2>0 DEF IngestInv, IngestTypeOK, GroupsMatchLines
      <4>2. origin[g][r] \in 1 .. Len(lines)
        BY <1>5, <4>1 DEF NumPushed
      <4>3. lines[origin[g][r]] \in Lines
        BY <4>1, <4>2, ElementOfSeq
      <4>4. lines[origin[g][r]] \in Seq(Texts)
        BY <4>3, LineFacts
      <4> QED BY <2>1, <4>4, ElementOfSeq
    <3>3. groups[g] \in Groups /\ groups[g].num_docs \in Nat
      BY <2>0, GroupFields DEF IngestInv, IngestTypeOK
    <3> HIDE DEF text
    <3>4. CASE g = G
      <4>1. Reached(group, pos, i, r) /\ r \in Nat
        BY <1>6, <2>0, <3>3, <3>4 DEF Reached
      <4> QED BY <1>2, <1>6, <1>7, <3>1, <3>2, <3>4, <4>1 DEF text
    <3>5. CASE g # G
      <4>1. HasCell(groups[g], i, r)
        <5>1. Rectangular(groups[g], Cursor(g)) /\ Cursor(g) = 0
          BY <2>0, <3>5 DEF IngestInv, ColumnsRectangular, Cursor, G
        <5>2. Reached(groups[g], 0, i, r)
          BY <2>0, <3>3 DEF Reached
        <5> QED BY <3>3, <5>1, <5>2, ReachedHasCell
      <4>2. CellRecovers(groups[g], tm2, i, r, text)
        BY <1>1, <3>1, <3>2, <3>3, <4>1, CellStays
      <4> QED BY <1>7, <2>0, <3>5, <4>2 DEF text
    <3> QED BY <3>4, <3>5
  <2> QED BY <1>0, <2>0, <2>1, <2>2
<1>15. RowInFlight'
  <2> SUFFICES ASSUME NEW i \in 1 .. pos
               PROVE  CellRecovers(new, tm2, i, group.num_docs + 1, Current[i])
    <3>1. 1 .. pos' - 1 = 1 .. pos
      BY <1>0, <1>5
    <3> QED BY <1>0, <1>1, <1>8, <3>1 DEF RowInFlight
  <2>1. CASE i = pos
    BY <1>3, <2>1 DEF CurrentText
  <2>2. CASE i # pos
    <3>1. i \in 1 .. pos - 1 /\ i < pos /\ i \in 1 .. Len(group.tokens)
      BY <1>4, <1>6, <2>2
    <3>2. CellRecovers(group, term_map, i, group.num_docs + 1, Current[i])
      BY <1>4, <3>1 DEF IngestInv, RowInFlight, group
    <3>3. Current[i] \in Texts
      BY <1>5, <3>1, ElementOfSeq
    <3>4. Reached(group, pos, i, group.num_docs + 1) /\ group.num_docs + 1 \in Nat
      BY <1>6, <3>1 DEF Reached
    <3> QED BY <1>2, <3>1, <3>2, <3>3, <3>4
  <2> QED BY <2>1, <2>2
<1>16. EveryLineInOneRow'
  <2>1. ASSUME NEW n \in 1 .. NumPushed PROVE InOneRow(n)'
    <3>1. InOneRow(n)
      BY DEF IngestInv, EveryLineInOneRow
    <3> QED BY <1>0, <1>7, <1>9, <3>1 DEF InOneRow
  <2> QED BY <1>8, <2>1 DEF EveryLineInOneRow
<1>17. TermIdsSound'
  BY <1>0, <1>1 DEF TermIdsSound
<1> QED BY <1>10, <1>11, <1>12, <1>13, <1>14, <1>15, <1>16, <1>17 DEF IngestInv

(* A constant that matches: the group stays as it is.                      *)
LEMMA PushSameConstantKeepsInv ==
  IngestInv /\ PushSameConstant => IngestInv'
<1> SUFFICES ASSUME IngestInv, PushSameConstant PROVE IngestInv'
  OBVIOUS
<1> DEFINE group == CurrentGroup
<1>1. /\ AtToken
      /\ IsConstant(group.tokens[pos])
      /\ Matches(group, pos, CurrentText)
      /\ pos' = pos + 1
      /\ UNCHANGED <<term_map, groups, lines, origin>>
  BY DEF PushSameConstant
<1>2. /\ pos > 0 /\ pos \in 1 .. Len(group.tokens)
      /\ CurrentText \in Texts
  BY <1>1, TokenFacts
<1>3. group \in Groups /\ Rectangular(group, pos)
  BY <1>2, PushFacts
<1>4. Rectangular(group, pos + 1)
  BY <1>1, <1>2, <1>3, SameConstantShape
<1>5. term_map \in TermMaps /\ IdsNameOneTerm(term_map)
  BY DEF IngestInv, IngestTypeOK, TermIdsSound
<1>6. CellRecovers(group, term_map, pos, group.num_docs + 1, CurrentText)
  BY <1>1 DEF CellRecovers, CellReads, Matches
<1>7. Advances(group, term_map)
  BY <1>1, <1>3, <1>4, <1>5, <1>6 DEF Advances, Extends
<1>8. groups' = [groups EXCEPT ![CurrentId] = group]
  BY <1>1 DEF IngestInv, IngestTypeOK, CurrentGroup
<1> HIDE DEF group
<1> QED BY <1>1, <1>7, <1>8, AdvanceKeepsInv

(* A constant that does not match turns variable.                          *)
LEMMA PushNewVariableKeepsInv ==
  IngestInv /\ PushNewVariable => IngestInv'
<1> SUFFICES ASSUME IngestInv, PushNewVariable PROVE IngestInv'
  OBVIOUS
<1> DEFINE group == CurrentGroup
           new   == PushMismatch(group, term_map, pos, CurrentText)
           tm1   == MutateOrCreate(term_map, CurrentText, FALSE)
           tm2   == TermMapAfterMismatch(group, term_map, pos, CurrentText)
<1>1. /\ AtToken
      /\ IsConstant(group.tokens[pos])
      /\ term_map' = tm2
      /\ groups' = [groups EXCEPT ![CurrentId] = new]
      /\ pos' = pos + 1
      /\ UNCHANGED <<lines, origin>>
  BY DEF PushNewVariable
<1>2. /\ pos > 0 /\ pos \in 1 .. Len(group.tokens)
      /\ CurrentText \in Texts
  BY <1>1, TokenFacts
<1>3. group \in Groups /\ Rectangular(group, pos)
  BY <1>2, PushFacts
<1>4. term_map \in TermMaps /\ IdsNameOneTerm(term_map)
  BY DEF IngestInv, IngestTypeOK, TermIdsSound
<1>5. group.tokens[pos].text \in Texts
  BY <1>1, <1>2, <1>3, GroupFields, TokenKinds
<1>6. tm1 \in TermMaps /\ IdsNameOneTerm(tm1) /\ Extends(tm1, term_map)
  BY <1>2, <1>4, MutateOrCreateType, IdsStayUnique, MutateOrCreateExtends
<1>7. tm2 = MutateOrCreate(tm1, group.tokens[pos].text, FALSE)
  BY DEF TermMapAfterMismatch
<1>8. tm2 \in TermMaps /\ IdsNameOneTerm(tm2) /\ Extends(tm2, tm1)
  <2> HIDE DEF tm1, tm2
  <2> QED BY <1>5, <1>6, <1>7, MutateOrCreateType, IdsStayUnique, MutateOrCreateExtends
<1>9. Extends(tm2, term_map)
  BY <1>6, <1>8 DEF Extends
<1>10. /\ new \in Groups
       /\ new.num_docs = group.num_docs
       /\ Len(new.tokens) = Len(group.tokens)
  BY <1>1, <1>2, <1>3, <1>4, PushMismatchFrame
<1>11. Rectangular(new, pos + 1)
  BY <1>1, <1>2, <1>3, <1>4, PushMismatchShape
<1>12. \A j \in 1 .. Len(group.tokens), r \in Nat, t \in Texts :
         Reached(group, pos, j, r) /\ CellRecovers(group, term_map, j, r, t)
           => CellRecovers(new, tm2, j, r, t)
  BY <1>1, <1>2, <1>3, <1>4, PushMismatchKeepsCells
<1>13. CellRecovers(new, tm2, pos, group.num_docs + 1, CurrentText)
  BY <1>1, <1>2, <1>3, <1>4, PushMismatchNewCell
<1> HIDE DEF new, tm1, tm2
<1>14. Advances(new, tm2)
  BY <1>1, <1>8, <1>9, <1>10, <1>11, <1>12, <1>13 DEF Advances
<1> QED BY <1>1, <1>14, AdvanceKeepsInv

(* A variable's column takes the term id.                                  *)
LEMMA PushToColumnKeepsInv ==
  IngestInv /\ PushToColumn => IngestInv'
<1> SUFFICES ASSUME IngestInv, PushToColumn PROVE IngestInv'
  OBVIOUS
<1> DEFINE group == CurrentGroup
           flag  == group.tokens[pos].is_id_like
           new   == PushVariable(group, term_map, pos, CurrentText)
           tm2   == MutateOrCreate(term_map, CurrentText, flag)
<1>1. /\ AtToken
      /\ IsVariable(group.tokens[pos])
      /\ term_map' = tm2
      /\ groups' = [groups EXCEPT ![CurrentId] = new]
      /\ pos' = pos + 1
      /\ UNCHANGED <<lines, origin>>
  BY DEF PushToColumn
<1>2. /\ pos > 0 /\ pos \in 1 .. Len(group.tokens)
      /\ CurrentText \in Texts
  BY <1>1, TokenFacts
<1>3. group \in Groups /\ Rectangular(group, pos)
  BY <1>2, PushFacts
<1>4. term_map \in TermMaps /\ IdsNameOneTerm(term_map)
  BY DEF IngestInv, IngestTypeOK, TermIdsSound
<1>5. flag \in BOOLEAN
  BY <1>1, <1>2, <1>3, GroupFields, TokenKinds
<1>6. tm2 \in TermMaps /\ IdsNameOneTerm(tm2) /\ Extends(tm2, term_map)
  BY <1>2, <1>4, <1>5, MutateOrCreateType, IdsStayUnique, MutateOrCreateExtends
<1>7. group.tokens[pos].column_index \in 1 .. Len(group.columns)
  BY <1>1, <1>2, <1>3 DEF Rectangular, ColumnsOwned
<1>8. /\ new \in Groups
      /\ new.num_docs = group.num_docs
      /\ Len(new.tokens) = Len(group.tokens)
  BY <1>1, <1>2, <1>3, <1>4, <1>7, PushVariableFrame
<1>9. Rectangular(new, pos + 1)
  BY <1>1, <1>2, <1>3, <1>4, PushVariableShape
<1>10. \A j \in 1 .. Len(group.tokens), r \in Nat, t \in Texts :
         Reached(group, pos, j, r) /\ CellRecovers(group, term_map, j, r, t)
           => CellRecovers(new, tm2, j, r, t)
  BY <1>1, <1>2, <1>3, <1>4, PushVariableKeepsCells
<1>11. CellRecovers(new, tm2, pos, group.num_docs + 1, CurrentText)
  BY <1>1, <1>2, <1>3, <1>4, PushVariableNewCell
<1> HIDE DEF new, tm2
<1>12. Advances(new, tm2)
  BY <1>1, <1>6, <1>8, <1>9, <1>10, <1>11 DEF Advances
<1> QED BY <1>1, <1>12, AdvanceKeepsInv

-----------------------------------------------------------------------------
(* The steps that are not at a token.                                      *)

(* A line that joins a group: nothing of the group has been touched yet.   *)
LEMMA BeginPushKeepsInv ==
  ASSUME IngestInv, NEW line \in Lines, BeginPush(line)
  PROVE  IngestInv'
<1>1. /\ pos = 0
      /\ GroupIdOf(line) \in DOMAIN groups
      /\ lines' = Append(lines, line)
      /\ pos' = 1
      /\ UNCHANGED <<term_map, groups, origin>>
  BY DEF BeginPush, HasGroup
<1>2. /\ lines \in Seq(Lines) /\ Len(lines) \in Nat
      /\ NumPushed = Len(lines)
  BY <1>1, LenProperties DEF IngestInv, IngestTypeOK, NumPushed
<1>3. /\ lines' \in Seq(Lines)
      /\ Len(lines') = Len(lines) + 1
      /\ lines'[Len(lines) + 1] = line
      /\ \A n \in 1 .. Len(lines) : lines'[n] = lines[n]
  BY <1>1, <1>2, AppendProperties
<1>4. NumPushed' = Len(lines)
  BY <1>1, <1>2, <1>3 DEF NumPushed
<1>5. Current' = line /\ CurrentId' = GroupIdOf(line)
  BY <1>3 DEF Current, CurrentId
<1>6. IngestTypeOK'
  BY <1>1, <1>3 DEF IngestInv, IngestTypeOK
<1>7. PushInRange'
  BY <1>1, <1>2, <1>3, <1>5, LineFacts DEF PushInRange
<1>8. GroupsMatchLines'
  BY <1>1, <1>2, <1>4 DEF IngestInv, GroupsMatchLines
<1>9. ColumnsRectangular'
  <2> SUFFICES ASSUME NEW g \in DOMAIN groups
               PROVE  Rectangular(groups[g], Cursor(g)')
    BY <1>1 DEF ColumnsRectangular
  <2>1. Cursor(g) = 0 /\ Cursor(g)' \in {0, 1}
    BY <1>1 DEF Cursor
  <2>2. Rectangular(groups[g], 0)
    BY <2>1 DEF IngestInv, ColumnsRectangular
  <2>3. \A i \in 1 .. Len(groups[g].tokens) : (i < 0 <=> i < Cursor(g)')
    <3>1. Len(groups[g].tokens) \in Nat
      BY GroupFields DEF IngestInv, IngestTypeOK
    <3> QED BY <2>1, <3>1
  <2> QED BY <2>2, <2>3 DEF Rectangular
<1>10. RowsRecoverable'
  <2> SUFFICES ASSUME NEW g \in DOMAIN groups, NEW r \in 1 .. groups[g].num_docs
               PROVE  /\ Len(lines'[origin[g][r]]) = Len(groups[g].tokens)
                      /\ \A i \in 1 .. Len(groups[g].tokens) :
                           CellRecovers(groups[g], term_map, i, r,
                                        lines'[origin[g][r]][i])
    BY <1>1 DEF RowsRecoverable
  <2>1. origin[g][r] \in 1 .. Len(lines)
    BY <1>2 DEF IngestInv, GroupsMatchLines
  <2>2. lines'[origin[g][r]] = lines[origin[g][r]]
    BY <1>3, <2>1
  <2> QED BY <2>2 DEF IngestInv, RowsRecoverable
<1>11. RowInFlight'
  BY <1>1 DEF RowInFlight
<1>12. EveryLineInOneRow'
  <2>1. ASSUME NEW n \in 1 .. Len(lines) PROVE InOneRow(n)'
    <3>1. InOneRow(n)
      BY <1>2 DEF IngestInv, EveryLineInOneRow
    <3> QED BY <1>1, <3>1 DEF InOneRow
  <2> QED BY <1>4, <2>1 DEF EveryLineInOneRow
<1>13. TermIdsSound'
  BY <1>1 DEF IngestInv, TermIdsSound
<1> QED
  BY <1>6, <1>7, <1>8, <1>9, <1>10, <1>11, <1>12, <1>13 DEF IngestInv

(* A line that opens a group is its first row, in constants.               *)
LEMMA OpenGroupKeepsInv ==
  ASSUME IngestInv, NEW line \in Lines, OpenGroup(line)
  PROVE  IngestInv'
<1> DEFINE id  == GroupIdOf(line)
           new == NewGroup(line)
           n   == Len(lines) + 1
<1>1. /\ pos = 0 /\ pos' = 0
      /\ id \notin DOMAIN groups
      /\ lines' = Append(lines, line)
      /\ groups' = Put(groups, id, new)
      /\ origin' = Put(origin, id, <<n>>)
      /\ term_map' = term_map
  BY DEF OpenGroup, HasGroup
<1>2. /\ lines \in Seq(Lines) /\ Len(lines) \in Nat
      /\ NumPushed = Len(lines)
      /\ DOMAIN origin = DOMAIN groups
      /\ groups \in [DOMAIN groups -> Groups]
      /\ origin \in [DOMAIN groups -> Seq(Nat)]
  BY <1>1, LenProperties DEF IngestInv, IngestTypeOK, NumPushed
<1>3. /\ lines' \in Seq(Lines)
      /\ Len(lines') = n
      /\ lines'[n] = line
      /\ \A k \in 1 .. Len(lines) : lines'[k] = lines[k]
  BY <1>1, <1>2, AppendProperties
<1>4. NumPushed' = n
  BY <1>1, <1>3 DEF NumPushed
<1>5. /\ line \in Seq(Texts) /\ Len(line) \in Nat
      /\ id \in GroupIds
      /\ id.num_tokens = Len(line)
  BY LineFacts
<1>6. /\ new \in Groups
      /\ new.num_docs = 1
      /\ Len(new.tokens) = Len(line)
      /\ \A i \in 1 .. Len(line) :
           /\ IsConstant(new.tokens[i])
           /\ new.tokens[i].text = line[i]
      /\ Rectangular(new, 0)
  BY <1>5, NewGroupShape
<1> HIDE DEF new, id
<1>7. /\ DOMAIN groups' = DOMAIN groups \cup {id}
      /\ DOMAIN origin' = DOMAIN groups \cup {id}
      /\ groups'[id] = new
      /\ origin'[id] = <<n>>
      /\ groups' \in [DOMAIN groups' -> Groups]
      /\ origin' \in [DOMAIN groups' -> Seq(Nat)]
  <2>1. <<n>> \in Seq(Nat)
    BY <1>2
  <2> QED BY <1>1, <1>2, <1>6, <2>1 DEF Put
<1>8. \A g \in DOMAIN groups :
        g # id /\ groups'[g] = groups[g] /\ origin'[g] = origin[g]
  BY <1>1, <1>2 DEF Put
<1>9. IngestTypeOK'
  BY <1>1, <1>3, <1>5, <1>7 DEF IngestInv, IngestTypeOK
<1>10. PushInRange' /\ RowInFlight'
  BY <1>1 DEF PushInRange, RowInFlight
<1>11. GroupsMatchLines'
  <2> SUFFICES ASSUME NEW g \in DOMAIN groups'
               PROVE  /\ Len(groups'[g].tokens) = g.num_tokens
                      /\ Len(origin'[g]) = groups'[g].num_docs
                      /\ \A r \in 1 .. groups'[g].num_docs :
                           origin'[g][r] \in 1 .. n
    BY <1>4 DEF GroupsMatchLines
  <2>1. CASE g = id
    <3>1. Len(<<n>>) = 1 /\ <<n>>[1] = n /\ n \in 1 .. n
      BY <1>2
    <3>2. groups'[g] = new /\ origin'[g] = <<n>>
      BY <1>7, <2>1
    <3>3. \A r \in 1 .. 1 : r = 1
      OBVIOUS
    <3> HIDE DEF n
    <3> QED BY <1>5, <1>6, <2>1, <3>1, <3>2, <3>3
  <2>2. CASE g # id
    <3>1. g \in DOMAIN groups /\ groups'[g] = groups[g] /\ origin'[g] = origin[g]
      BY <1>7, <1>8, <2>2
    <3>2. \A r \in 1 .. groups[g].num_docs : origin[g][r] \in 1 .. Len(lines)
      BY <1>2, <3>1 DEF IngestInv, GroupsMatchLines
    <3> QED BY <1>2, <3>1, <3>2 DEF IngestInv, GroupsMatchLines
  <2> QED BY <2>1, <2>2
<1>12. ColumnsRectangular'
  <2> SUFFICES ASSUME NEW g \in DOMAIN groups'
               PROVE  Rectangular(groups'[g], 0)
    BY <1>1 DEF ColumnsRectangular, Cursor
  <2>1. CASE g = id
    BY <1>6, <1>7, <2>1
  <2>2. CASE g # id
    <3>1. g \in DOMAIN groups /\ groups'[g] = groups[g]
      BY <1>7, <1>8, <2>2
    <3>2. Cursor(g) = 0
      BY <1>1 DEF Cursor
    <3> QED BY <3>1, <3>2 DEF IngestInv, ColumnsRectangular
  <2> QED BY <2>1, <2>2
<1>13. RowsRecoverable'
  <2> SUFFICES ASSUME NEW g \in DOMAIN groups', NEW r \in 1 .. groups'[g].num_docs
               PROVE  /\ Len(lines'[origin'[g][r]]) = Len(groups'[g].tokens)
                      /\ \A i \in 1 .. Len(groups'[g].tokens) :
                           CellRecovers(groups'[g], term_map, i, r,
                                        lines'[origin'[g][r]][i])
    BY <1>1 DEF RowsRecoverable
  <2>1. CASE g = id
    <3>1. r = 1 /\ origin'[g][r] = n
      BY <1>6, <1>7, <2>1
    <3> QED BY <1>3, <1>6, <1>7, <2>1, <3>1 DEF CellRecovers, CellReads
  <2>2. CASE g # id
    <3>1. g \in DOMAIN groups /\ groups'[g] = groups[g] /\ origin'[g] = origin[g]
      BY <1>7, <1>8, <2>2
    <3>2. origin[g][r] \in 1 .. Len(lines)
      BY <1>2, <3>1 DEF IngestInv, GroupsMatchLines
    <3>3. lines'[origin[g][r]] = lines[origin[g][r]]
      BY <1>3, <3>2
    <3> QED BY <3>1, <3>3 DEF IngestInv, RowsRecoverable
  <2> QED BY <2>1, <2>2
<1>14. EveryLineInOneRow'
  <2> SUFFICES ASSUME NEW k \in 1 .. n
               PROVE  \E g \in DOMAIN groups' : \E r \in 1 .. groups'[g].num_docs :
                        \A h \in DOMAIN groups' : \A s \in 1 .. groups'[h].num_docs :
                          origin'[h][s] = k <=> h = g /\ s = r
    BY <1>4 DEF EveryLineInOneRow, InOneRow
  <2>1. \A h \in DOMAIN groups : \A s \in 1 .. groups[h].num_docs :
          origin[h][s] \in 1 .. Len(lines)
    BY <1>2 DEF IngestInv, GroupsMatchLines
  <2>2. \A s \in 1 .. groups'[id].num_docs : s = 1 /\ origin'[id][s] = n
    BY <1>6, <1>7
  <2>3. CASE k = n
    <3>1. 1 \in 1 .. groups'[id].num_docs /\ origin'[id][1] = n
      BY <1>6, <1>7
    <3>2. ASSUME NEW h \in DOMAIN groups', NEW s \in 1 .. groups'[h].num_docs
          PROVE  origin'[h][s] = n <=> h = id /\ s = 1
      <4>1. CASE h = id
        BY <2>2, <4>1
      <4>2. CASE h # id
        <5>1. h \in DOMAIN groups /\ groups'[h] = groups[h] /\ origin'[h] = origin[h]
          BY <1>7, <1>8, <4>2
        <5>2. origin[h][s] \in 1 .. Len(lines)
          BY <2>1, <5>1
        <5> QED BY <1>2, <4>2, <5>1, <5>2
      <4> QED BY <4>1, <4>2
    <3>3. id \in DOMAIN groups'
      BY <1>7
    <3> HIDE DEF n
    <3> QED BY <2>3, <3>1, <3>2, <3>3
  <2>4. CASE k # n
    <3>1. k \in 1 .. Len(lines)
      BY <1>2, <2>4
    <3>2. PICK g \in DOMAIN groups : \E r \in 1 .. groups[g].num_docs :
            \A h \in DOMAIN groups : \A s \in 1 .. groups[h].num_docs :
              origin[h][s] = k <=> h = g /\ s = r
      BY <1>2, <3>1 DEF IngestInv, EveryLineInOneRow, InOneRow
    <3>3. PICK r \in 1 .. groups[g].num_docs :
            \A h \in DOMAIN groups : \A s \in 1 .. groups[h].num_docs :
              origin[h][s] = k <=> h = g /\ s = r
      BY <3>2
    <3>4. g \in DOMAIN groups' /\ r \in 1 .. groups'[g].num_docs
      BY <1>7, <1>8, <3>2, <3>3
    <3>5. ASSUME NEW h \in DOMAIN groups', NEW s \in 1 .. groups'[h].num_docs
          PROVE  origin'[h][s] = k <=> h = g /\ s = r
      <4>1. CASE h = id
        BY <1>8, <2>2, <2>4, <4>1
      <4>2. CASE h # id
        <5>1. h \in DOMAIN groups /\ groups'[h] = groups[h] /\ origin'[h] = origin[h]
          BY <1>7, <1>8, <4>2
        <5> QED BY <3>3, <5>1
      <4> QED BY <4>1, <4>2
    <3> QED BY <3>4, <3>5
  <2> QED BY <2>3, <2>4
<1>15. TermIdsSound'
  BY <1>1 DEF IngestInv, TermIdsSound
<1> QED
  BY <1>9, <1>10, <1>11, <1>12, <1>13, <1>14, <1>15 DEF IngestInv

(* The end of a push: the row under way becomes a row like the others.     *)
LEMMA EndPushKeepsInv ==
  IngestInv /\ EndPush => IngestInv'
<1> SUFFICES ASSUME IngestInv, EndPush PROVE IngestInv'
  OBVIOUS
<1> DEFINE G     == CurrentId
           group == CurrentGroup
           n     == Len(lines)
           last  == group.num_docs + 1
           new   == [group EXCEPT !.num_docs = last]
<1>1. /\ pos > 0 /\ pos > Len(group.tokens) /\ pos' = 0
      /\ groups' = [groups EXCEPT ![G].num_docs = @ + 1]
      /\ origin' = [origin EXCEPT ![G] = Append(origin[G], n)]
      /\ term_map' = term_map /\ lines' = lines
  BY DEF EndPush
<1>2. /\ pos \in Nat /\ n \in Nat \ {0}
      /\ NumPushed = n - 1
      /\ Current \in Seq(Texts)
      /\ G \in DOMAIN groups
      /\ group \in Groups
      /\ Len(group.tokens) = Len(Current)
      /\ pos <= Len(Current) + 1
      /\ Cursor(G) = pos
      /\ Rectangular(group, pos)
  BY <1>1, PushFacts
<1>3. /\ group = groups[G]
      /\ group.num_docs \in Nat
      /\ Len(group.tokens) \in Nat
      /\ lines[n] = Current
  BY <1>2, GroupFields DEF CurrentGroup, Current
<1>4. /\ groups \in [DOMAIN groups -> Groups]
      /\ origin \in [DOMAIN groups -> Seq(Nat)]
  BY DEF IngestInv, IngestTypeOK
<1>5. /\ new \in Groups
      /\ new.num_docs = last
      /\ new.tokens = group.tokens
      /\ new.columns = group.columns
  BY <1>2, <1>3, SMTT(30) DEF Groups
<1>6. groups' = [groups EXCEPT ![G] = new]
  BY <1>1, <1>3
<1>7. /\ origin[G] \in Seq(Nat)
      /\ Len(origin[G]) = group.num_docs
  BY <1>2, <1>3, <1>4 DEF IngestInv, GroupsMatchLines
<1>8. /\ Append(origin[G], n) \in Seq(Nat)
      /\ Len(Append(origin[G], n)) = last
      /\ Append(origin[G], n)[last] = n
      /\ \A r \in 1 .. group.num_docs : Append(origin[G], n)[r] = origin[G][r]
  BY <1>2, <1>7, AppendProperties
<1> DEFINE rows == Append(origin[G], n)
<1> HIDE DEF new, group, G, n, last, rows
<1>9. /\ DOMAIN groups' = DOMAIN groups
      /\ groups'[G] = new /\ origin'[G] = rows
      /\ \A g \in DOMAIN groups :
           g # G => groups'[g] = groups[g] /\ origin'[g] = origin[g]
      /\ groups' \in [DOMAIN groups -> Groups]
      /\ origin' \in [DOMAIN groups -> Seq(Nat)]
  BY <1>1, <1>2, <1>4, <1>5, <1>6, <1>8 DEF rows
<1>10. NumPushed' = n
  BY <1>1 DEF NumPushed, n
<1>11. last = group.num_docs + 1
  BY DEF last
<1>12. \A r \in 1 .. last : r \in 1 .. group.num_docs \/ r = last
  BY <1>3, <1>11
<1>13. IngestTypeOK'
  BY <1>1, <1>9 DEF IngestInv, IngestTypeOK
<1>14. PushInRange' /\ RowInFlight'
  BY <1>1 DEF PushInRange, RowInFlight
<1>15. GroupsMatchLines'
  <2> SUFFICES ASSUME NEW g \in DOMAIN groups
               PROVE  /\ Len(groups'[g].tokens) = g.num_tokens
                      /\ Len(origin'[g]) = groups'[g].num_docs
                      /\ \A r \in 1 .. groups'[g].num_docs : origin'[g][r] \in 1 .. n
    BY <1>9, <1>10 DEF GroupsMatchLines
  <2>1. \A r \in 1 .. groups[g].num_docs : origin[g][r] \in 1 .. n
    BY <1>2 DEF IngestInv, GroupsMatchLines
  <2>2. CASE g = G
    <3>1. Len(groups[G].tokens) = G.num_tokens
      BY <1>2 DEF IngestInv, GroupsMatchLines
    <3>2. \A r \in 1 .. last : rows[r] \in 1 .. n
      BY <1>2, <1>3, <1>8, <1>12, <2>1, <2>2 DEF rows
    <3> QED BY <1>3, <1>5, <1>8, <1>9, <2>2, <3>1, <3>2 DEF rows
  <2>3. CASE g # G
    BY <1>9, <2>1, <2>3 DEF IngestInv, GroupsMatchLines
  <2> QED BY <2>2, <2>3
<1>16. ColumnsRectangular'
  <2> SUFFICES ASSUME NEW g \in DOMAIN groups
               PROVE  Rectangular(groups'[g], 0)
    BY <1>1, <1>9 DEF ColumnsRectangular, Cursor
  <2>1. CASE g = G
    <3>1. ColumnsOwned(new)
      BY <1>2, <1>5 DEF Rectangular, ColumnsOwned
    <3>2. ASSUME NEW i \in 1 .. Len(new.tokens), IsVariable(new.tokens[i])
          PROVE  Len(new.columns[new.tokens[i].column_index])
                   = new.num_docs + IF i < 0 THEN 1 ELSE 0
      <4>1. i < pos /\ ~(i < 0)
        BY <1>1, <1>2, <1>3, <1>5
      <4>2. Len(group.columns[group.tokens[i].column_index])
              = group.num_docs + IF i < pos THEN 1 ELSE 0
        BY <1>2, <1>5, <3>2 DEF Rectangular
      <4>3. Len(new.columns[new.tokens[i].column_index]) = last
        BY <1>5, <1>11, <4>1, <4>2
      <4> QED BY <1>3, <1>5, <1>11, <4>1, <4>3
    <3> QED BY <1>9, <2>1, <3>1, <3>2 DEF Rectangular
  <2>2. CASE g # G
    <3>1. Cursor(g) = 0
      BY <2>2 DEF Cursor, G
    <3> QED BY <1>9, <2>2, <3>1 DEF IngestInv, ColumnsRectangular
  <2> QED BY <2>1, <2>2
<1>17. \A i, r, t : CellRecovers(new, term_map, i, r, t)
                      <=> CellRecovers(group, term_map, i, r, t)
  BY <1>5 DEF CellRecovers, CellReads
<1>18. RowsRecoverable'
  <2> SUFFICES ASSUME NEW g \in DOMAIN groups', NEW r \in 1 .. groups'[g].num_docs
               PROVE  /\ Len(lines'[origin'[g][r]]) = Len(groups'[g].tokens)
                      /\ \A i \in 1 .. Len(groups'[g].tokens) :
                           CellRecovers(groups'[g], term_map', i, r,
                                        lines'[origin'[g][r]][i])
    BY DEF RowsRecoverable
  <2>0. g \in DOMAIN groups
    BY <1>9
  <2>1. CASE g = G /\ r = last
    <3>1. lines[origin'[g][r]] = Current
      BY <1>3, <1>8, <1>9, <2>1 DEF rows
    <3>2. ASSUME NEW i \in 1 .. Len(new.tokens)
          PROVE  CellRecovers(new, term_map, i, r, Current[i])
      <4>1. i \in 1 .. pos - 1
        BY <1>1, <1>2, <1>3, <1>5
      <4>2. CellRecovers(group, term_map, i, group.num_docs + 1, Current[i])
        BY <1>1, <4>1 DEF IngestInv, RowInFlight, group
      <4> QED BY <1>11, <1>17, <2>1, <4>2
    <3> QED BY <1>1, <1>2, <1>5, <1>9, <2>1, <3>1, <3>2
  <2>2. CASE g = G /\ r # last
    <3>1. r \in 1 .. groups[G].num_docs
      BY <1>3, <1>5, <1>9, <1>12, <2>0, <2>2
    <3>2. origin'[g][r] = origin[G][r]
      BY <1>3, <1>8, <1>9, <2>2, <3>1 DEF rows
    <3>3. /\ Len(lines[origin[G][r]]) = Len(groups[G].tokens)
          /\ \A i \in 1 .. Len(groups[G].tokens) :
               CellRecovers(groups[G], term_map, i, r, lines[origin[G][r]][i])
      BY <1>2, <3>1 DEF IngestInv, RowsRecoverable
    <3> QED BY <1>1, <1>3, <1>5, <1>9, <1>17, <2>2, <3>2, <3>3, ZenonT(30)
  <2>3. CASE g # G
    BY <1>1, <1>9, <2>0, <2>3 DEF IngestInv, RowsRecoverable
  <2> QED BY <2>1, <2>2, <2>3
<1>19. EveryLineInOneRow'
  <2>1. \A h \in DOMAIN groups : \A s \in 1 .. groups[h].num_docs :
          origin[h][s] \in 1 .. n - 1
    BY <1>2 DEF IngestInv, GroupsMatchLines
  <2>2. \A h \in DOMAIN groups : \A s \in 1 .. groups'[h].num_docs :
          \/ h = G /\ s = last /\ origin'[h][s] = n
          \/ /\ s \in 1 .. groups[h].num_docs
             /\ origin'[h][s] = origin[h][s]
             /\ ~(h = G /\ s = last)
    <3> TAKE h \in DOMAIN groups
    <3> TAKE s \in 1 .. groups'[h].num_docs
    <3>1. CASE h = G /\ s = last
      BY <1>8, <1>9, <3>1 DEF rows
    <3>2. CASE h = G /\ s # last
      <4>1. s \in 1 .. group.num_docs
        BY <1>5, <1>9, <1>12, <3>2
      <4> QED BY <1>3, <1>8, <1>9, <3>2, <4>1 DEF rows
    <3>3. CASE h # G
      BY <1>9, <3>3
    <3> QED BY <3>1, <3>2, <3>3
  <2>3. last \in 1 .. groups'[G].num_docs
    BY <1>3, <1>5, <1>9, <1>11
  <2>4. \A h \in DOMAIN groups : \A s \in 1 .. groups[h].num_docs :
          s \in 1 .. groups'[h].num_docs
    <3> TAKE h \in DOMAIN groups
    <3> TAKE s \in 1 .. groups[h].num_docs
    <3>1. CASE h = G
      BY <1>3, <1>5, <1>9, <1>11, <3>1
    <3>2. CASE h # G
      BY <1>9, <3>2
    <3> QED BY <3>1, <3>2
  <2>5. ASSUME NEW k \in 1 .. n
        PROVE  \E g \in DOMAIN groups : \E r \in 1 .. groups'[g].num_docs :
                 \A h \in DOMAIN groups : \A s \in 1 .. groups'[h].num_docs :
                   origin'[h][s] = k <=> h = g /\ s = r
    <3>1. CASE k = n
      <4>1. ASSUME NEW h \in DOMAIN groups, NEW s \in 1 .. groups'[h].num_docs
            PROVE  origin'[h][s] = n <=> h = G /\ s = last
        <5>1. \A m \in 1 .. n - 1 : m # n
          BY <1>2
        <5> QED BY <2>1, <2>2, <5>1
      <4> QED BY <1>2, <2>3, <3>1, <4>1
    <3>2. CASE k # n
      <4>1. k \in 1 .. NumPushed
        BY <1>2, <3>2
      <4>2. PICK g \in DOMAIN groups : \E r \in 1 .. groups[g].num_docs :
              \A h \in DOMAIN groups : \A s \in 1 .. groups[h].num_docs :
                origin[h][s] = k <=> h = g /\ s = r
        BY <4>1 DEF IngestInv, EveryLineInOneRow, InOneRow
      <4>3. PICK r \in 1 .. groups[g].num_docs :
              \A h \in DOMAIN groups : \A s \in 1 .. groups[h].num_docs :
                origin[h][s] = k <=> h = g /\ s = r
        BY <4>2
      <4>4. r \in 1 .. groups'[g].num_docs
        BY <2>4, <4>3
      <4>5. ~(g = G /\ r = last)
        BY <1>3, <1>11, <4>3
      <4>6. ASSUME NEW h \in DOMAIN groups, NEW s \in 1 .. groups'[h].num_docs
            PROVE  origin'[h][s] = k <=> h = g /\ s = r
        BY <2>2, <3>2, <4>3, <4>5
      <4> QED BY <4>4, <4>6
    <3> QED BY <3>1, <3>2
  <2>6. ASSUME NEW k \in 1 .. n PROVE InOneRow(k)'
    <3>1. SUFFICES \E g \in DOMAIN groups' : \E r \in 1 .. groups'[g].num_docs :
                     \A h \in DOMAIN groups' : \A s \in 1 .. groups'[h].num_docs :
                       origin'[h][s] = k <=> h = g /\ s = r
      BY DEF InOneRow
    <3>2. DOMAIN groups' = DOMAIN groups
      BY <1>9
    <3> QED BY <2>5, <3>2
  <2> QED BY <1>10, <2>6 DEF EveryLineInOneRow
<1>20. TermIdsSound'
  BY <1>1 DEF IngestInv, TermIdsSound
<1> QED
  BY <1>13, <1>14, <1>15, <1>16, <1>18, <1>19, <1>20 DEF IngestInv

(* Every step of the first pass keeps the invariant.                       *)
LEMMA IngestStepInv ==
  IngestInv /\ [IngestNext]_ingestVars => IngestInv'
<1> SUFFICES ASSUME IngestInv, [IngestNext]_ingestVars PROVE IngestInv'
  OBVIOUS
<1>1. CASE \E line \in Lines : OpenGroup(line)
  BY <1>1, OpenGroupKeepsInv
<1>2. CASE \E line \in Lines : BeginPush(line)
  BY <1>2, BeginPushKeepsInv
<1>3. CASE PushSameConstant
  BY <1>3, PushSameConstantKeepsInv
<1>4. CASE PushNewVariable
  BY <1>4, PushNewVariableKeepsInv
<1>5. CASE PushToColumn
  BY <1>5, PushToColumnKeepsInv
<1>6. CASE EndPush
  BY <1>6, EndPushKeepsInv
<1>7. CASE UNCHANGED ingestVars
  BY <1>7 DEF ingestVars, IngestInv, IngestTypeOK, PushInRange, GroupsMatchLines,
              ColumnsRectangular, RowsRecoverable, RowInFlight, EveryLineInOneRow,
              InOneRow, TermIdsSound, NumPushed, Cursor, CurrentId, Current,
              CurrentGroup
<1> QED
  BY <1>1, <1>2, <1>3, <1>4, <1>5, <1>6, <1>7 DEF IngestNext

-----------------------------------------------------------------------------
(* The first pass, for every set of texts and lines, every length of input *)
(* and every fingerprint function: IngestInv always holds.                 *)
THEOREM IngestInvariant == IngestSpec => []IngestInv
<1>1. IngestInit => IngestInv
  BY IngestInitInv
<1>2. IngestInv /\ [IngestNext]_ingestVars => IngestInv'
  BY IngestStepInv
<1> QED BY <1>1, <1>2, PTL DEF IngestSpec

(* The variables of the first pass keep their types.                       *)
THEOREM IngestTypeCorrect == IngestSpec => []IngestTypeOK
<1>1. IngestInv => IngestTypeOK
  BY DEF IngestInv
<1> QED BY <1>1, IngestInvariant, PTL

(* However late a position turns variable, its column has one row per      *)
(* document: push and convert_to_variable never leave a column behind.     *)
THEOREM ColumnsStayRectangular == IngestSpec => []ColumnsRectangular
<1>1. IngestInv => ColumnsRectangular
  BY DEF IngestInv
<1> QED BY <1>1, IngestInvariant, PTL

(* Every row of every group reads back as its line, up to the cap on keys. *)
THEOREM RowsStayRecoverable == IngestSpec => []RowsRecoverable
<1>1. IngestInv => RowsRecoverable
  BY DEF IngestInv
<1> QED BY <1>1, IngestInvariant, PTL

(* Every line that was pushed is in exactly one row of one group.          *)
THEOREM LinesStayInOneRow == IngestSpec => []EveryLineInOneRow
<1>1. IngestInv => EveryLineInOneRow
  BY DEF IngestInv
<1> QED BY <1>1, IngestInvariant, PTL

(* mutate_or_create and push_unique never give two terms one id.           *)
THEOREM TermIdsStaySound == IngestSpec => []TermIdsSound
<1>1. IngestInv => TermIdsSound
  BY DEF IngestInv
<1> QED BY <1>1, IngestInvariant, PTL
=============================================================================
