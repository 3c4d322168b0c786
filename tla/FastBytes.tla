----------------------------- MODULE FastBytes ------------------------------
(***************************************************************************)
(* Comparing and copying short slices of bytes in a few wide accesses that *)
(* may overlap (stacker: fastcmp.rs, fastcpy.rs).  Slices are sequences, a *)
(* window is the n bytes that one access at an offset from 0 covers.       *)
(***************************************************************************)
EXTENDS Integers, Sequences

Window(s, offset, n) == SubSeq(s, offset + 1, offset + n)

\* The first and the last n bytes, which meet if a slice has at most n + n.
DoubleCheckTrick(left, right, n) ==
  /\ Window(left, 0, n) = Window(right, 0, n)
  /\ Window(left, Len(left) - n, n) = Window(right, Len(right) - n, n)

ShortCompare(left, right) == \A i \in 1 .. Len(left) : left[i] = right[i]

\* Mutant: what is left over after the whole chunks is not compared.
MutFastNbyteSliceCompare(left, right, n) ==
  \A chunk \in 0 .. Len(left) \div n - 1 :
    Window(left, chunk * n, n) = Window(right, chunk * n, n)

\* All whole chunks of n bytes, then the last n bytes.
FastNbyteSliceCompare(left, right, n) ==
  /\ \A chunk \in 0 .. Len(left) \div n - 1 :
       Window(left, chunk * n, n) = Window(right, chunk * n, n)
  /\ Window(left, Len(left) - n, n) = Window(right, Len(right) - n, n)

FastShortSliceCompare(left, right) ==
  LET len == Len(left)
  IN  /\ len = Len(right)
      /\ len < 4 => ShortCompare(left, right)
      /\ len >= 4 /\ len < 8 => DoubleCheckTrick(left, right, 4)
      /\ len >= 8 /\ len <= 16 => DoubleCheckTrick(left, right, 8)
      /\ len > 16 => FastNbyteSliceCompare(left, right, 16)

\* The destination after bytes are written to it from an offset on.
Written(dst, offset, bytes) ==
  [i \in 1 .. Len(dst) |->
     IF i \in offset + 1 .. offset + Len(bytes) THEN bytes[i - offset] ELSE dst[i]]

DoubleCopyTrick(src, dst, n) ==
  Written(Written(dst, 0, Window(src, 0, n)),
          Len(src) - n, Window(src, Len(src) - n, n))

ShortCopy(src, dst) ==
  LET first == Written(dst, 0, Window(src, 0, 1))
  IN  IF Len(src) >= 2 THEN DoubleCopyTrick(src, first, 2) ELSE first

(* What the destination holds afterwards.  Slices beyond 32 bytes are left *)
(* to memcpy; a build for AVX takes up to 64 in two accesses of 32.        *)
FastShortSliceCopy(src, dst) ==
  LET len == Len(src)
  IN  CASE len = 0              -> dst
        [] len > 0 /\ len < 4    -> ShortCopy(src, dst)
        [] len >= 4 /\ len < 8   -> DoubleCopyTrick(src, dst, 4)
        [] len >= 8 /\ len <= 16 -> DoubleCopyTrick(src, dst, 8)
        [] len > 16 /\ len <= 32 -> DoubleCopyTrick(src, dst, 16)
        [] len > 32              -> src
=============================================================================
