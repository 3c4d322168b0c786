------------------------------ MODULE MCSearch ------------------------------
(* Lines of two buckets; the long word x is capped to a.  Three different  *)
(* words in a row make a column id-like, so that a fourth line's term may  *)
(* be in the hash map and in the buffer.  The second token may turn        *)
(* variable before the first.                                              *)
EXTENDS Search

MCTexts == {"a", "b", "c", "x"}
MCTypes == {"Word"}
MCTypeOf == [t \in MCTexts |-> "Word"]
MCCapped == [t \in MCTexts |-> IF t = "x" THEN "a" ELSE t]
MCRank == [t \in MCTexts |-> CASE t = "a" -> 0 [] t = "b" -> 2 [] t = "c" -> 1
                               [] OTHER -> 3]
MCLines == {<<"c">>, <<"a", "a">>, <<"a", "b">>, <<"b", "a">>, <<"c", "b">>,
            <<"x", "b">>}
MCFingerprint(types) == Len(types)

(* The two hashes are apart for all types that these lines can give a      *)
(* group, so that HashesApart holds in every state.                        *)
ASSUME MCHashesApart ==
  \A line \in Lines : \A types, others \in [1 .. Len(line) -> Types] :
    \A s, t \in 1 .. 3 * MaxLines :
      /\ s + FingerprintTypes(types) = t + FingerprintTypes(others) => s = t
      /\ FingerprintTokens(TypesOf(line)) # t + FingerprintTypes(others)
=============================================================================
