----------------------------- MODULE ValueBlock -----------------------------
(***************************************************************************)
(* How the template ids of terms are stored (VecU32ValueWriter and         *)
(* VecU32ValueReader in src/indexing/write_dict.rs).  A block holds the    *)
(* values of some terms in a row: their number, then each one's length and *)
(* elements, all of them u32, which are the elements of the sequence here. *)
(***************************************************************************)
EXTENDS Integers, Sequences, SequencesExt

SerializeBlock(vals) ==
  <<Len(vals)>> \o FlattenSeq([i \in DOMAIN vals |-> <<Len(vals[i])>> \o vals[i]])

\* Mutant: the length of a value is not stepped over with its elements.
MutLoadNext(data, read) ==
  LET len == data[read.consumed + 1]
  IN  [vals     |-> Append(read.vals,
                      SubSeq(data, read.consumed + 2, read.consumed + 1 + len)),
       consumed |-> read.consumed + len]

\* One value: its length, its elements.
LoadNext(data, read) ==
  LET len == data[read.consumed + 1]
  IN  [vals     |-> Append(read.vals,
                      SubSeq(data, read.consumed + 2, read.consumed + 1 + len)),
       consumed |-> read.consumed + 1 + len]

\* load: the values of a block and how much of the data it takes.
Load(data) ==
  LET read[n \in 0 .. data[1]] == IF n = 0 THEN [vals |-> << >>, consumed |-> 1]
                                  ELSE LoadNext(data, read[n - 1])
  IN  read[data[1]]
=============================================================================
