------------------------------ MODULE TermMap ------------------------------
(***************************************************************************)
(* The term map of the indexer (src/indexing/termmap.rs): every term that  *)
(* ever stood at a variable position has an id.  `map` is the content of   *)
(* the ArenaHashMap, `unique_terms` the flat buffer that id-like columns   *)
(* write to without looking up the term, and one counter hands out the     *)
(* ids of both.                                                            *)
(***************************************************************************)
EXTENDS Integers, Sequences

CONSTANTS
  Texts,   (* The texts of tokens.                                         *)
  Capped   (* Capped[t]: the first u16::MAX bytes of t, all of it that the *)
           (* hash map keeps of a key.                                     *)

ASSUME CappedAssumption ==
  /\ Capped \in [Texts -> Texts]
  /\ \A t \in Texts : Capped[Capped[t]] = Capped[t]

(* The value of `map` at a key the hash map does not hold.                 *)
NoTerm == -1

(* The state of the term map.                                              *)
TermMaps ==
  [ map          : [Texts -> Nat \cup {NoTerm}],
    unique_terms : Seq([text : Texts, id : Nat]),
    next_term_id : Nat ]

EmptyTermMap ==
  [ map          |-> [t \in Texts |-> NoTerm],
    unique_terms |-> << >>,
    next_term_id |-> 0 ]

(* Mutant of IsNewTerm: the slot of a term that is not there is read.      *)
OnlyIdLikeIsNew(tm, key, is_id_like) == is_id_like

(***************************************************************************)
(* mutate_or_create returns an id and may change the map: TermIdOf is the  *)
(* id, MutateOrCreate the map after the call.                              *)
(***************************************************************************)
IsNewTerm(tm, key, is_id_like) ==
  is_id_like \/ tm.map[Capped[key]] = NoTerm

TermIdOf(tm, key, is_id_like) ==
  IF IsNewTerm(tm, key, is_id_like) THEN tm.next_term_id
                                    ELSE tm.map[Capped[key]]

(* Mutant of PushUnique: the counter is left to the hash map.              *)
PushUniqueKeepsCounter(tm, key) ==
  [tm EXCEPT !.unique_terms = Append(@, [text |-> key, id |-> tm.next_term_id])]

PushUnique(tm, key) ==
  [tm EXCEPT !.unique_terms = Append(@, [text |-> key, id |-> tm.next_term_id]),
             !.next_term_id = @ + 1]

MutateOrCreate(tm, key, is_id_like) ==
  IF is_id_like THEN PushUnique(tm, key)
  ELSE IF IsNewTerm(tm, key, is_id_like)
       THEN [tm EXCEPT !.map[Capped[key]] = tm.next_term_id,
                       !.next_term_id     = @ + 1]
       ELSE tm

(***************************************************************************)
(* The pairs that iter() and find_term_for_term_id() see: the entries of   *)
(* the hash map, then those of the buffer.                                 *)
(***************************************************************************)
InMap(tm, id, text) == tm.map[text] = id

InBuffer(tm, id, text) ==
  \E k \in 1 .. Len(tm.unique_terms) :
    tm.unique_terms[k].text = text /\ tm.unique_terms[k].id = id

Stored(tm, id, text) == InMap(tm, id, text) \/ InBuffer(tm, id, text)

(***************************************************************************)
(* Hash map and buffer share one id space: every id below the counter      *)
(* names exactly one term, and no entry of either holds an id that the     *)
(* counter is still going to hand out.                                     *)
(***************************************************************************)
IdsBelowCounter(tm) ==
  /\ \A t \in Texts : tm.map[t] < tm.next_term_id
  /\ \A k \in 1 .. Len(tm.unique_terms) :
       tm.unique_terms[k].id < tm.next_term_id

IdsNameOneTerm(tm) ==
  /\ IdsBelowCounter(tm)
  /\ \A id \in 0 .. tm.next_term_id - 1 :
       \E t \in Texts : /\ Stored(tm, id, t)
                        /\ \A s \in Texts : Stored(tm, id, s) => s = t
=============================================================================
