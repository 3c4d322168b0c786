---------------------------- MODULE MCIndexFolder ---------------------------
(* Three runs of up to two templates: a run over the leftovers of a run     *)
(* that stopped over the files of another.                                  *)
EXTENDS IndexFolder
=============================================================================
