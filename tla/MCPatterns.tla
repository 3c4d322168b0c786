----------------------------- MODULE MCPatterns -----------------------------
(* Lines of one bucket that make a group of words and a group with a       *)
(* number; the long word x is capped to a.  Two rows make a term frequent, *)
(* groups of one document give up their constants in a merge.              *)
EXTENDS Patterns

MCTexts == {"a", "b", "x", "1"}
MCTypes == {"Word", "Number"}
MCTypeOf == [t \in MCTexts |-> IF t = "1" THEN "Number" ELSE "Word"]
MCCapped == [t \in MCTexts |-> IF t = "x" THEN "a" ELSE t]
MCLines == {<<"a", "a">>, <<"a", "b">>, <<"b", "a">>, <<"x", "b">>, <<"1", "a">>}

(* The two hashes agree on short lines, and are far apart.                 *)
MCFingerprint(types) == 100 * Cardinality({i \in DOMAIN types : types[i] = "Word"})

(* The two hashes are apart for all types that these lines can give a      *)
(* group, so that HashesApart holds in every state.                        *)
ASSUME MCHashesApart ==
  \A line \in Lines : \A types, others \in [1 .. Len(line) -> Types] :
    \A s, t \in 1 .. 3 * MaxLines :
      /\ s + FingerprintTypes(types) = t + FingerprintTypes(others) => s = t
      /\ FingerprintTokens(TypesOf(line)) # t + FingerprintTypes(others)
=============================================================================
