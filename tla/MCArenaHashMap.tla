--------------------------- MODULE MCArenaHashMap ---------------------------
(* Keys of 18 bytes that differ after the first 16, keys of 5 bytes that    *)
(* differ in the last, a long key that is cut to one of the former.  Keys   *)
(* of a length have one hash; all four start at one bucket or its neighbour *)
(* in a table of four, next to each other in one of eight.  One key of each *)
(* length fill a page to its last byte; all four fill the two pages so, if  *)
(* they come in the right order, and find no room for the last in others.   *)
EXTENDS ArenaHashMap

Fill(n) == [i \in 1 .. n |-> i]
MCMaxKeyLen == 18
MCLong == Fill(20)
MCKeys == {MCLong, Fill(18), Fill(17) \o <<255>>, Fill(5), Fill(4) \o <<255>>}
MCHash == [k \in MCKeys |-> CASE k = MCLong -> 0 [] Len(k) = 5 -> 2 [] OTHER -> 3]
=============================================================================
