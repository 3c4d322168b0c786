------------------------- MODULE MCPreliminaryIndex -------------------------
(* Three words and a number in lines of no or two tokens; all lines of two *)
(* words share a group, so that its first column sees three different      *)
(* terms in a row and turns id-like.  The long word x is capped to a.      *)
EXTENDS PreliminaryIndex

MCTexts == {"a", "b", "c", "x", "1"}
MCTypes == {"Word", "Number"}
MCTypeOf == [t \in MCTexts |-> IF t = "1" THEN "Number" ELSE "Word"]
MCCapped == [t \in MCTexts |-> IF t = "x" THEN "a" ELSE t]
MCLines == {<< >>, <<"a", "a">>, <<"b", "a">>, <<"c", "b">>, <<"x", "b">>,
            <<"1", "a">>}
MCFingerprint(types) == Cardinality({i \in DOMAIN types : types[i] = "Word"})
=============================================================================
