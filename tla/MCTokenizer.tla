----------------------------- MODULE MCTokenizer ----------------------------
(* Inputs are up to MaxPieces pieces put together, so that real addresses   *)
(* and UUIDs, whole, broken and run into their neighbours, are short to     *)
(* write: "0", "7", "25", ".", "1.2.3.", "a", "g", "-", "%", " ", "_",       *)
(* U+00A0 in two bytes, and two halves of a UUID that start with a letter   *)
(* ("...d" and "e...") and one that starts with a digit.                    *)
EXTENDS Tokenizer

CONSTANT MaxPieces  (* Bound: the pieces of an input.                      *)

Hex(first, n) == <<first>> \o [i \in 1 .. n - 1 |-> 97 + (i % 6)]

UuidHead(first) == Hex(first, 8) \o <<Dash>> \o Hex(98, 4) \o <<Dash>>
                     \o Hex(52, 4) \o <<Dash>>
UuidTail == Hex(56, 4) \o <<Dash>> \o Hex(101, 12)

Pieces == {<<48>>, <<55>>, <<50, 53>>, <<Dot>>, <<49, Dot, 50, Dot, 51, Dot>>,
           <<97>>, <<103>>, <<Dash>>, <<Percent>>, <<32>>, <<Underscore>>,
           <<194, 160>>, UuidHead(97), UuidHead(49), UuidTail}

Strings[n \in 0 .. MaxPieces] ==
  IF n = 0 THEN {<<>>}
  ELSE Strings[n - 1] \union {s \o piece : s \in Strings[n - 1], piece \in Pieces}

MCInputs == Strings[MaxPieces]
=============================================================================
