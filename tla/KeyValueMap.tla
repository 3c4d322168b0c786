---------------------------- MODULE KeyValueMap ----------------------------
(***************************************************************************)
(* What the hash map promises its caller: a map.  One call is answered     *)
(* after the other; an update shows its updater the value that the key had *)
(* and stores the value that the updater makes of it.                      *)
(***************************************************************************)

CONSTANTS Keys, Values, NoValue,
          StoredAs   (* StoredAs[k]: the key that an update of k goes to.  *)

VARIABLES
  map,      (* The value of every key.                                     *)
  call,     (* The last call, and whether it is under way.                 *)
  busy,
  answer    (* Its answer: the value found and the value left behind.      *)

Unanswered == [old |-> NoValue, new |-> NoValue]

Init ==
  /\ map = [k \in Keys |-> NoValue]
  /\ call = [op |-> "none", key |-> << >>]
  /\ busy = FALSE
  /\ answer = Unanswered

Call(op, key) ==
  /\ ~busy
  /\ call' = [op |-> op, key |-> key]
  /\ busy' = TRUE
  /\ answer' = Unanswered
  /\ UNCHANGED map

Update(value) ==
  LET key == StoredAs[call.key]
  IN  /\ busy
      /\ call.op = "mutate_or_create"
      /\ map' = [map EXCEPT ![key] = value]
      /\ answer' = [old |-> map[key], new |-> value]
      /\ busy' = FALSE
      /\ UNCHANGED call

Get ==
  /\ busy
  /\ call.op = "get"
  /\ answer' = [old |-> map[call.key], new |-> map[call.key]]
  /\ busy' = FALSE
  /\ UNCHANGED <<map, call>>

Next ==
  \/ \E op \in {"mutate_or_create", "get"}, key \in Keys : Call(op, key)
  \/ \E value \in Values : Update(value)
  \/ Get

Spec == Init /\ [][Next]_<<map, call, busy, answer>>
=============================================================================
