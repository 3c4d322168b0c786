------------------------------ MODULE LogStore ------------------------------
(***************************************************************************)
(* What the indexer promises its caller, without templates, columns and    *)
(* term ids: while the input is open every document handed over is added   *)
(* to a bag, that document and once; nothing is ever taken from the bag,   *)
(* and once the input is closed nothing is added, whatever reorganisation  *)
(* goes on inside.                                                         *)
(***************************************************************************)
EXTENDS Bags, Sequences

CONSTANT Documents   (* The documents that may be logged.                  *)

VARIABLES
  log,    (* The documents handed over and stored so far, in order.        *)
  docs,   (* The bag of the documents stored.                              *)
  open    (* The input has not ended.                                      *)

storeVars == <<log, docs, open>>

Init ==
  /\ log = << >>
  /\ docs = EmptyBag
  /\ open = TRUE

Add(doc) ==
  /\ open
  /\ log' = Append(log, doc)
  /\ docs' = docs (+) SetToBag({doc})
  /\ UNCHANGED open

Close ==
  /\ open
  /\ open' = FALSE
  /\ UNCHANGED <<log, docs>>

Next == (\E doc \in Documents : Add(doc)) \/ Close

Spec == Init /\ [][Next]_storeVars
=============================================================================
