------------------------- MODULE ArenaHashMapProofs -------------------------
(***************************************************************************)
(* The hash map is a map, for any keys, hashes and sizes of pages: keys do *)
(* not overlap in the arena, no probe sequence has a gap, in the table or  *)
(* in the one that a resize fills, and each call is answered as a map      *)
(* answers it.  The wide accesses of FastBytes compare and copy every byte *)
(* of slices of every length.                                              *)
(***************************************************************************)
EXTENDS ArenaHashMap, FiniteSetTheorems, TLAPS

-----------------------------------------------------------------------------
(* Comparing and copying bytes.                                            *)

(* A window has the bytes of the slice at its offset.                      *)
LEMMA WindowBytes ==
  ASSUME NEW S, NEW s \in Seq(S), NEW offset \in Nat, NEW n \in Nat,
         offset + n <= Len(s)
  PROVE  /\ Window(s, offset, n) \in Seq(S)
         /\ Len(Window(s, offset, n)) = n
         /\ \A i \in 1 .. n : Window(s, offset, n)[i] = s[offset + i]
  BY DEF Window

(* Equal windows of two slices are equal byte for byte.                    *)
LEMMA EqualWindows ==
  ASSUME NEW S, NEW left \in Seq(S), NEW right \in Seq(S), NEW offset \in Nat,
         NEW n \in Nat, offset + n <= Len(left), offset + n <= Len(right),
         Window(left, offset, n) = Window(right, offset, n)
  PROVE  \A i \in offset + 1 .. offset + n : left[i] = right[i]
<1> SUFFICES ASSUME NEW i \in offset + 1 .. offset + n
             PROVE  left[i] = right[i]
  OBVIOUS
<1>1. i - offset \in 1 .. n /\ offset + (i - offset) = i
  OBVIOUS
<1>2. Window(left, offset, n)[i - offset] = left[i]
  BY <1>1, WindowBytes
<1>3. Window(right, offset, n)[i - offset] = right[i]
  BY <1>1, WindowBytes
<1> QED
  BY <1>2, <1>3

(* Two windows that meet cover the slice.                                  *)
LEMMA DoubleCheckTrickCompares ==
  ASSUME NEW S, NEW left \in Seq(S), NEW right \in Seq(S), NEW n \in Nat,
         Len(left) = Len(right), n <= Len(left), Len(left) <= n + n,
         DoubleCheckTrick(left, right, n)
  PROVE  \A i \in 1 .. Len(left) : left[i] = right[i]
<1>1. \A i \in 1 .. n : left[i] = right[i]
  BY EqualWindows DEF DoubleCheckTrick
<1>2. Len(left) - n \in Nat
  OBVIOUS
<1>3. \A i \in Len(left) - n + 1 .. Len(left) : left[i] = right[i]
  BY <1>2, EqualWindows DEF DoubleCheckTrick
<1> QED
  BY <1>1, <1>3

(* Whole chunks of 16 bytes and the last 16 bytes cover the slice.         *)
LEMMA FastNbyteSliceCompareCompares ==
  ASSUME NEW S, NEW left \in Seq(S), NEW right \in Seq(S),
         Len(left) = Len(right), Len(left) > 16,
         FastNbyteSliceCompare(left, right, 16)
  PROVE  \A i \in 1 .. Len(left) : left[i] = right[i]
<1>1. \A i \in Len(left) - 16 + 1 .. Len(left) : left[i] = right[i]
  BY EqualWindows DEF FastNbyteSliceCompare
<1>2. ASSUME NEW i \in 1 .. Len(left) - 16
      PROVE  left[i] = right[i]
  <2> DEFINE chunk == (i - 1) \div 16
  <2>1. /\ chunk \in 0 .. Len(left) \div 16 - 1
        /\ chunk * 16 \in Nat /\ chunk * 16 + 16 <= Len(left)
        /\ i \in chunk * 16 + 1 .. chunk * 16 + 16
    OBVIOUS
  <2>2. Window(left, chunk * 16, 16) = Window(right, chunk * 16, 16)
    BY <2>1 DEF FastNbyteSliceCompare
  <2> QED
    BY <2>1, <2>2, EqualWindows
<1> QED
  BY <1>1, <1>2, SMTT(30)

(***************************************************************************)
(* fast_short_slice_compare is equality, whatever the lengths: the key     *)
(* that a lookup finds is the key that it was asked for.                   *)
(***************************************************************************)
THEOREM FastCompareIsEquality ==
  ASSUME NEW S, NEW left \in Seq(S), NEW right \in Seq(S)
  PROVE  FastShortSliceCompare(left, right) <=> left = right
<1>1. ASSUME left = right PROVE FastShortSliceCompare(left, right)
  BY <1>1 DEF FastShortSliceCompare, ShortCompare, DoubleCheckTrick,
              FastNbyteSliceCompare
<1>2. ASSUME FastShortSliceCompare(left, right) PROVE left = right
  <2>1. Len(left) = Len(right)
    BY <1>2 DEF FastShortSliceCompare
  <2>2. CASE Len(left) < 4
    BY <1>2, <2>1, <2>2 DEF FastShortSliceCompare, ShortCompare
  <2>3. CASE Len(left) >= 4 /\ Len(left) < 8
    <3>1. DoubleCheckTrick(left, right, 4)
      BY <1>2, <2>3 DEF FastShortSliceCompare
    <3>2. 4 \in Nat /\ 4 <= Len(left) /\ Len(left) <= 4 + 4
      BY <2>3
    <3>3. \A i \in 1 .. Len(left) : left[i] = right[i]
      BY <2>1, <3>1, <3>2, DoubleCheckTrickCompares
    <3> QED
      BY <2>1, <3>3
  <2>4. CASE Len(left) >= 8 /\ Len(left) <= 16
    <3>1. DoubleCheckTrick(left, right, 8)
      BY <1>2, <2>4 DEF FastShortSliceCompare
    <3>2. 8 \in Nat /\ 8 <= Len(left) /\ Len(left) <= 8 + 8
      BY <2>4
    <3>3. \A i \in 1 .. Len(left) : left[i] = right[i]
      BY <2>1, <3>1, <3>2, DoubleCheckTrickCompares
    <3> QED
      BY <2>1, <3>3
  <2>5. CASE Len(left) > 16
    <3>1. FastNbyteSliceCompare(left, right, 16)
      BY <1>2, <2>5 DEF FastShortSliceCompare
    <3>2. \A i \in 1 .. Len(left) : left[i] = right[i]
      BY <2>1, <2>5, <3>1, FastNbyteSliceCompareCompares
    <3> QED
      BY <2>1, <3>2
  <2>6. \/ Len(left) < 4
        \/ Len(left) >= 4 /\ Len(left) < 8
        \/ Len(left) >= 8 /\ Len(left) <= 16
        \/ Len(left) > 16
    BY <2>1
  <2> QED
    BY <2>2, <2>3, <2>4, <2>5, <2>6, Zenon
<1> QED
  BY <1>1, <1>2

(* Writing two windows that meet copies the slice.                         *)
LEMMA DoubleCopyTrickCopies ==
  ASSUME NEW S, NEW src \in Seq(S), NEW dst \in Seq(S), NEW n \in Nat,
         Len(src) = Len(dst), n <= Len(src), Len(src) <= n + n
  PROVE  DoubleCopyTrick(src, dst, n) = src
<1> DEFINE low == Window(src, 0, n)
           high == Window(src, Len(src) - n, n)
           half == Written(dst, 0, low)
<1>1. Len(low) = n /\ \A i \in 1 .. n : low[i] = src[i]
  <2>1. 0 \in Nat /\ 0 + n <= Len(src) /\ \A i \in 1 .. n : 0 + i = i
    OBVIOUS
  <2> QED
    BY <2>1, WindowBytes
<1>2. Len(src) - n \in Nat /\ (Len(src) - n) + n <= Len(src)
  OBVIOUS
<1>3. Len(high) = n /\ \A i \in 1 .. n : high[i] = src[(Len(src) - n) + i]
  BY <1>2, WindowBytes
<1>4. half = [i \in 1 .. Len(src) |-> IF i \in 1 .. n THEN src[i] ELSE dst[i]]
  BY <1>1 DEF Written
<1>5. Len(half) = Len(src)
  BY <1>4
<1>6. ASSUME NEW i \in 1 .. Len(src), i \in Len(src) - n + 1 .. Len(src)
      PROVE  high[i - (Len(src) - n)] = src[i]
  <2>1. i - (Len(src) - n) \in 1 .. n /\ Len(src) - n + (i - (Len(src) - n)) = i
    BY <1>6
  <2> QED
    BY <1>3, <2>1
<1> HIDE DEF low, high, half
<1>7. Written(half, Len(src) - n, high) = [i \in 1 .. Len(src) |-> src[i]]
  BY <1>2, <1>3, <1>4, <1>5, <1>6 DEF Written
<1>8. src = [i \in 1 .. Len(src) |-> src[i]]
  OBVIOUS
<1>9. DoubleCopyTrick(src, dst, n) = Written(half, Len(src) - n, high)
  BY DEF DoubleCopyTrick, half, low, high
<1> QED
  BY <1>7, <1>8, <1>9

(* One byte, then two windows of two bytes.                                *)
LEMMA ShortCopyCopies ==
  ASSUME NEW S, NEW src \in Seq(S), NEW dst \in Seq(S),
         Len(src) = Len(dst), (Len(src) > 0 /\ Len(src) < 4)
  PROVE  ShortCopy(src, dst) = src
<1> DEFINE byte == Window(src, 0, 1)
           first == Written(dst, 0, byte)
<1>1. Len(byte) = 1 /\ byte[1] = src[1]
  BY DEF Window
<1>2. first = [i \in 1 .. Len(src) |-> IF i = 1 THEN src[1] ELSE dst[i]]
  BY <1>1 DEF Written
<1>3. first \in Seq(S) /\ Len(first) = Len(src)
  BY <1>2
<1>4. CASE Len(src) >= 2
  <2>1. 2 \in Nat /\ 2 <= Len(src) /\ Len(src) <= 2 + 2
    BY <1>4
  <2>2. DoubleCopyTrick(src, first, 2) = src
    BY <1>3, <2>1, DoubleCopyTrickCopies
  <2> QED
    BY <1>4, <2>2 DEF ShortCopy
<1>5. CASE Len(src) = 1
  <2>1. first = src
    BY <1>2, <1>5
  <2> QED
    BY <1>5, <2>1 DEF ShortCopy
<1> QED
  BY <1>4, <1>5

(***************************************************************************)
(* fast_short_slice_copy leaves a copy of the source in a destination of   *)
(* its length, whatever the length and whatever was there before: a key is *)
(* stored whole in the arena.                                              *)
(***************************************************************************)
THEOREM FastCopyCopies ==
  ASSUME NEW S, NEW src \in Seq(S), NEW dst \in Seq(S), Len(src) = Len(dst)
  PROVE  FastShortSliceCopy(src, dst) = src
<1>1. CASE Len(src) = 0
  <2>1. Len(dst) = 0
    BY <1>1
  <2>2. src = dst
    BY <1>1, <2>1
  <2> QED
    BY <1>1, <2>2 DEF FastShortSliceCopy
<1>2. CASE Len(src) > 0 /\ Len(src) < 4
  <2>1. ShortCopy(src, dst) = src
    BY <1>2, ShortCopyCopies
  <2> QED
    BY <1>2, <2>1 DEF FastShortSliceCopy
<1>3. CASE Len(src) >= 4 /\ Len(src) < 8
  <2>1. 4 \in Nat /\ 4 <= Len(src) /\ Len(src) <= 4 + 4
    BY <1>3
  <2>2. DoubleCopyTrick(src, dst, 4) = src
    BY <2>1, DoubleCopyTrickCopies
  <2> QED
    BY <1>3, <2>2 DEF FastShortSliceCopy
<1>4. CASE Len(src) >= 8 /\ Len(src) <= 16
  <2>1. 8 \in Nat /\ 8 <= Len(src) /\ Len(src) <= 8 + 8
    BY <1>4
  <2>2. DoubleCopyTrick(src, dst, 8) = src
    BY <2>1, DoubleCopyTrickCopies
  <2> QED
    BY <1>4, <2>2 DEF FastShortSliceCopy
<1>5. CASE Len(src) > 16 /\ Len(src) <= 32
  <2>1. 16 \in Nat /\ 16 <= Len(src) /\ Len(src) <= 16 + 16
    BY <1>5
  <2>2. DoubleCopyTrick(src, dst, 16) = src
    BY <2>1, DoubleCopyTrickCopies
  <2> QED
    BY <1>5, <2>2 DEF FastShortSliceCopy
<1>6. CASE Len(src) > 32
  BY <1>6 DEF FastShortSliceCopy
<1>7. \/ Len(src) = 0
      \/ Len(src) > 0 /\ Len(src) < 4
      \/ Len(src) >= 4 /\ Len(src) < 8
      \/ Len(src) >= 8 /\ Len(src) <= 16
      \/ Len(src) > 16 /\ Len(src) <= 32
      \/ Len(src) > 32
  OBVIOUS
<1> QED
  BY <1>1, <1>2, <1>3, <1>4, <1>5, <1>6, <1>7, Zenon

-----------------------------------------------------------------------------
(* Buckets in a circle.                                                    *)

\* c is met on the way from f to b.
Between(f, c, b) ==
  IF f <= b THEN f <= c /\ c <= b ELSE f <= c \/ c <= b

LEMMA ProbeFacts ==
  ASSUME NEW M \in Nat \ {0}, NEW hash \in Nat, NEW b \in 0 .. M - 1
  PROVE  /\ FirstProbe(hash, M - 1) \in 0 .. M - 1
         /\ NextProbe(b, M - 1) \in 0 .. M - 1
         /\ NextProbe(b, M - 1) = IF b + 1 = M THEN 0 ELSE b + 1
<1>1. (M - 1) + 1 = M
  OBVIOUS
<1>2. (hash + 1) % M \in 0 .. M - 1 /\ (b + 1) % M \in 0 .. M - 1
  OBVIOUS
<1>3. (b + 1) % M = IF b + 1 = M THEN 0 ELSE b + 1
  OBVIOUS
<1> QED
  BY <1>1, <1>2, <1>3 DEF FirstProbe, NextProbe

\* What is met before the next bucket is met up to this one.
LEMMA BeforeNext ==
  ASSUME NEW M \in Nat \ {0}, NEW f \in 0 .. M - 1, NEW b \in 0 .. M - 1,
         NEW c \in 0 .. M - 1, NEW n \in 0 .. M - 1,
         n = (IF b + 1 = M THEN 0 ELSE b + 1), Between(f, c, n), c # n
  PROVE  Between(f, c, b)
  BY DEF Between

LEMMA OneBeforeOther ==
  ASSUME NEW f \in Nat, NEW b \in Nat, NEW c \in Nat
  PROVE  Between(f, c, b) \/ Between(f, b, c)
  BY DEF Between

\* The buckets that Unbroken speaks of.
LEMMA StepsBetween ==
  ASSUME NEW M \in Nat \ {0}, NEW f \in 0 .. M - 1, NEW b \in 0 .. M - 1,
         NEW n \in 0 .. (b - f) % M
  PROVE  (f + n) % M \in 0 .. M - 1 /\ Between(f, (f + n) % M, b)
<1>1. (b - f) % M = IF f <= b THEN b - f ELSE b - f + M
  OBVIOUS
<1>2. n \in 0 .. M - 1
  BY <1>1
<1>3. (f + n) % M = IF f + n < M THEN f + n ELSE f + n - M
  BY <1>2
<1> QED
  BY <1>1, <1>2, <1>3 DEF Between

-----------------------------------------------------------------------------
(* Tables.                                                                 *)

KeyAt(t, cts, b) == cts[t[b].key_addr]

IsEntry(slot, cts) ==
  /\ ~IsEmpty(slot)
  /\ slot.key_addr \in DOMAIN cts
  /\ cts[slot.key_addr] \in Keys
  /\ slot.hash = Hash[cts[slot.key_addr]]
  /\ slot.value \in Values

\* All buckets on the way from f to b, but b itself, are taken.
FilledUpTo(t, M, f, b) ==
  \A c \in 0 .. M - 1 : Between(f, c, b) /\ c # b => ~IsEmpty(t[c])

TableTyped(t, cts, M) ==
  /\ M \in Nat \ {0}
  /\ t \in [0 .. M - 1 -> Slots]
  /\ \A b \in 0 .. M - 1 : ~IsEmpty(t[b]) => IsEntry(t[b], cts)

OneEntryEach(t, cts, M) ==
  \A b, c \in 0 .. M - 1 :
    ~IsEmpty(t[b]) /\ ~IsEmpty(t[c]) /\ KeyAt(t, cts, b) = KeyAt(t, cts, c) => b = c

WithoutGaps(t, M) ==
  \A b \in 0 .. M - 1 :
    ~IsEmpty(t[b]) => FilledUpTo(t, M, FirstProbe(t[b].hash, M - 1), b)

TableOK(t, cts, M) ==
  /\ TableTyped(t, cts, M)
  /\ OneEntryEach(t, cts, M)
  /\ WithoutGaps(t, M)

\* What the loop of a call has seen on its way to bucket b.
Searched(t, cts, M, key, b) ==
  /\ b \in 0 .. M - 1
  /\ \A c \in 0 .. M - 1 :
       Between(FirstProbe(Hash[key], M - 1), c, b) /\ c # b =>
         ~IsEmpty(t[c]) /\ KeyAt(t, cts, c) # key

\* The bytes at an address stay.
Keeps(cts, new) ==
  DOMAIN cts \subseteq DOMAIN new /\ \A a \in DOMAIN cts : new[a] = cts[a]

LEMMA HashFacts ==
  /\ \A k \in Keys : Hash[k] \in Nat
  /\ \A k \in Keys : k \in Seq(Byte) /\ Capped(k) \in Keys
  BY ArenaHashMapAssumption

LEMMA EmptyFacts ==
  /\ Null \in Nat
  /\ IsEmpty(EmptySlot) /\ EmptySlot \in Slots
<1>1. MaxPages * PageSize \in Nat \ {0}
  BY ArenaHashMapAssumption
<1>2. Null \in Nat
  BY <1>1 DEF Null
<1> QED
  BY <1>2 DEF IsEmpty, EmptySlot, Slots

LEMMA EmptyTableOK ==
  ASSUME NEW M \in Nat \ {0}, NEW cts
  PROVE  TableOK(EmptyTable(M), cts, M) /\ \A b \in 0 .. M - 1 : IsEmpty(EmptyTable(M)[b])
<1>1. \A b \in 0 .. M - 1 : EmptyTable(M)[b] = EmptySlot
  BY DEF EmptyTable
<1>2. EmptyTable(M) \in [0 .. M - 1 -> Slots]
  BY EmptyFacts DEF EmptyTable
<1> QED
  BY <1>1, <1>2, EmptyFacts DEF TableOK, TableTyped, OneEntryEach, WithoutGaps

LEMMA TableSize ==
  ASSUME NEW M \in Nat, NEW t, DOMAIN t = 0 .. M - 1
  PROVE  SizeOf(t) = M
  BY FS_Interval DEF SizeOf

\* An empty bucket at the end of a search: the key is not in the table.
LEMMA SearchEndsAtEmpty ==
  ASSUME NEW t, NEW cts, NEW M, NEW key \in Keys, NEW b,
         TableOK(t, cts, M), Searched(t, cts, M, key, b), IsEmpty(t[b])
  PROVE  \A c \in 0 .. M - 1 : ~IsEmpty(t[c]) => KeyAt(t, cts, c) # key
<1> SUFFICES ASSUME NEW c \in 0 .. M - 1, ~IsEmpty(t[c]), KeyAt(t, cts, c) = key
             PROVE  FALSE
  OBVIOUS
<1> DEFINE f == FirstProbe(Hash[key], M - 1)
<1>1. M \in Nat \ {0} /\ b \in 0 .. M - 1
  BY DEF TableOK, TableTyped, Searched
<1>2. t[c].hash = Hash[key]
  BY DEF TableOK, TableTyped, IsEntry, KeyAt
<1>3. f \in 0 .. M - 1
  BY <1>1, HashFacts, ProbeFacts
<1>4. FilledUpTo(t, M, f, c)
  BY <1>2 DEF TableOK, WithoutGaps
<1>5. c # b
  OBVIOUS
<1>6. ~Between(f, b, c)
  BY <1>1, <1>4, <1>5 DEF FilledUpTo
<1>7. Between(f, c, b)
  BY <1>1, <1>3, <1>6, OneBeforeOther
<1> QED
  BY <1>5, <1>7 DEF Searched

\* An entry goes into the empty bucket that its probes lead to.
LEMMA PutEntry ==
  ASSUME NEW t, NEW cts, NEW new, NEW M, NEW b \in 0 .. M - 1, NEW slot \in Slots,
         TableOK(t, cts, M), Keeps(cts, new), IsEmpty(t[b]), IsEntry(slot, new),
         \A c \in 0 .. M - 1 : ~IsEmpty(t[c]) => KeyAt(t, cts, c) # new[slot.key_addr],
         FilledUpTo(t, M, FirstProbe(slot.hash, M - 1), b)
  PROVE  TableOK([t EXCEPT ![b] = slot], new, M)
<1> DEFINE u == [t EXCEPT ![b] = slot]
<1>1. M \in Nat \ {0} /\ t \in [0 .. M - 1 -> Slots]
  BY DEF TableOK, TableTyped
<1>2. /\ u \in [0 .. M - 1 -> Slots] /\ u[b] = slot
      /\ \A c \in 0 .. M - 1 : c # b => u[c] = t[c]
  BY <1>1
<1>3. ~IsEmpty(slot)
  BY DEF IsEntry
<1>4. \A c \in 0 .. M - 1 : c # b /\ ~IsEmpty(u[c]) =>
        /\ ~IsEmpty(t[c]) /\ IsEntry(u[c], new)
        /\ KeyAt(u, new, c) = KeyAt(t, cts, c)
  BY <1>2 DEF TableOK, TableTyped, IsEntry, KeyAt, Keeps
<1>5. TableTyped(u, new, M)
  BY <1>1, <1>2, <1>3, <1>4 DEF TableTyped
<1>6. OneEntryEach(u, new, M)
  <2>1. KeyAt(u, new, b) = new[slot.key_addr]
    BY <1>2 DEF KeyAt
  <2>2. \A c \in 0 .. M - 1 : c # b /\ ~IsEmpty(u[c]) => KeyAt(u, new, c) # KeyAt(u, new, b)
    BY <1>4, <2>1
  <2> QED
    BY <1>4, <2>2 DEF OneEntryEach, TableOK
<1>7. WithoutGaps(u, M)
  <2>1. \A c \in 0 .. M - 1 : ~IsEmpty(t[c]) => ~IsEmpty(u[c])
    BY <1>2, <1>3
  <2> SUFFICES ASSUME NEW c \in 0 .. M - 1, ~IsEmpty(u[c])
               PROVE  FilledUpTo(u, M, FirstProbe(u[c].hash, M - 1), c)
    BY DEF WithoutGaps
  <2>2. CASE c = b
    BY <1>2, <2>1, <2>2 DEF FilledUpTo
  <2>3. CASE c # b
    <3>1. FilledUpTo(t, M, FirstProbe(t[c].hash, M - 1), c) /\ u[c] = t[c]
      BY <1>2, <1>4, <2>3 DEF TableOK, WithoutGaps
    <3> QED
      BY <2>1, <3>1 DEF FilledUpTo
  <2> QED
    BY <2>2, <2>3
<1> QED
  BY <1>5, <1>6, <1>7 DEF TableOK

\* An update leaves everything but a value as it is.
LEMMA SetValue ==
  ASSUME NEW t, NEW cts, NEW M, NEW b \in 0 .. M - 1, NEW value \in Values,
         TableOK(t, cts, M), ~IsEmpty(t[b])
  PROVE  TableOK([t EXCEPT ![b].value = value], cts, M)
<1> DEFINE u == [t EXCEPT ![b].value = value]
<1>1. M \in Nat \ {0} /\ t \in [0 .. M - 1 -> Slots]
  BY DEF TableOK, TableTyped
<1>2. /\ u \in [0 .. M - 1 -> Slots]
      /\ \A c \in 0 .. M - 1 :
           /\ u[c].key_addr = t[c].key_addr /\ u[c].hash = t[c].hash
           /\ u[c].value \in {t[c].value, value}
  BY <1>1 DEF Slots
<1>3. \A c \in 0 .. M - 1 : /\ IsEmpty(u[c]) <=> IsEmpty(t[c])
                            /\ KeyAt(u, cts, c) = KeyAt(t, cts, c)
  BY <1>2 DEF IsEmpty, KeyAt
<1>4. TableTyped(u, cts, M)
  <2>1. \A c \in 0 .. M - 1 : ~IsEmpty(u[c]) => IsEntry(u[c], cts)
    BY <1>2, <1>3 DEF TableOK, TableTyped, IsEntry
  <2> QED
    BY <1>1, <1>2, <2>1 DEF TableTyped
<1>5. OneEntryEach(u, cts, M)
  BY <1>3 DEF OneEntryEach, TableOK
<1>6. WithoutGaps(u, M)
  BY <1>2, <1>3 DEF WithoutGaps, TableOK, FilledUpTo
<1> QED
  BY <1>4, <1>5, <1>6 DEF TableOK

-----------------------------------------------------------------------------
(* The arena.                                                              *)

\* Each key lies within its page, before the next one.
ArenaOK(pgs, cts) ==
  /\ pgs \in Seq(0 .. PageSize)
  /\ Len(pgs) \in 1 .. MaxPages
  /\ \A a \in DOMAIN cts : cts[a] \in Seq(Byte)
  /\ \A a \in DOMAIN cts : \E p \in 1 .. Len(pgs), l \in Nat :
       a = Addr(p - 1, l) /\ l + 2 + Len(cts[a]) <= pgs[p]
  /\ \A a, b \in DOMAIN cts : a < b => a + 2 + Len(cts[a]) <= b

LEMMA AddrFacts ==
  ASSUME NEW p \in 1 .. MaxPages, NEW l \in Nat, l + 2 <= PageSize
  PROVE  /\ Addr(p - 1, l) \in Nat /\ Addr(p - 1, l) < Null
         /\ Addr(p - 1, l) % PageSize = l
         /\ Addr(p - 1, l) \div PageSize = p - 1
<1>1. PageSize \in Nat \ {0} /\ MaxPages \in Nat \ {0}
  BY ArenaHashMapAssumption
<1>2. p - 1 \in Nat /\ p - 1 < MaxPages
  BY <1>1
<1>3. (p - 1) * PageSize + PageSize <= MaxPages * PageSize
  BY <1>1, <1>2
<1>4. (p - 1) * PageSize \in Nat
  BY <1>1, <1>2
<1>5. Addr(p - 1, l) = (p - 1) * PageSize + l
  BY DEF Addr
<1>6. ((p - 1) * PageSize + l) % PageSize = l
      /\ ((p - 1) * PageSize + l) \div PageSize = p - 1
  BY <1>1, <1>2
<1>7. MaxPages * PageSize \in Nat
  BY <1>1
<1> QED
  BY <1>1, <1>3, <1>4, <1>5, <1>6, <1>7 DEF Null

\* All of a page is before the next page.
LEMMA PagesInOrder ==
  ASSUME NEW p \in Nat, NEW q \in Nat, q < p, NEW l \in Nat, NEW m \in Nat,
         NEW n \in Nat, m + n <= PageSize
  PROVE  Addr(q, m) + n <= Addr(p, l)
<1>1. PageSize \in Nat
  BY ArenaHashMapAssumption
<1>2. q * PageSize + PageSize <= p * PageSize
  BY <1>1
<1>3. q * PageSize \in Nat /\ p * PageSize \in Nat
  BY <1>1
<1> QED
  BY <1>1, <1>2, <1>3 DEF Addr

LEMMA ArenaKeepsKeys ==
  ASSUME ArenaOK(pages, contents)
  PROVE  KeysIntact
<1> SUFFICES ASSUME NEW a \in DOMAIN contents
             PROVE  /\ a # Null
                    /\ (a % PageSize) + 2 + Len(contents[a])
                         <= pages[(a \div PageSize) + 1]
                    /\ \A b \in DOMAIN contents : a < b => a + 2 + Len(contents[a]) <= b
  BY DEF KeysIntact
<1>1. PICK p \in 1 .. Len(pages), l \in Nat :
        a = Addr(p - 1, l) /\ l + 2 + Len(contents[a]) <= pages[p]
  BY DEF ArenaOK
<1>2. pages[p] \in 0 .. PageSize /\ p \in 1 .. MaxPages /\ PageSize \in Nat
  BY ArenaHashMapAssumption DEF ArenaOK
<1>3. Len(contents[a]) \in Nat
  BY DEF ArenaOK
<1>4. l + 2 <= PageSize
  BY <1>1, <1>2, <1>3
<1>5. a \in Nat /\ a < Null /\ a % PageSize = l /\ a \div PageSize = p - 1
  BY <1>1, <1>2, <1>4, AddrFacts
<1>6. (a \div PageSize) + 1 = p
  BY <1>2, <1>5
<1>7. a # Null
  BY <1>5, EmptyFacts
<1> QED
  BY <1>1, <1>5, <1>6, <1>7 DEF ArenaOK

\* The bytes of a key are copied as they are.
LEMMA StoredAsGiven ==
  ASSUME NEW key \in Seq(Byte)
  PROVE  StoredBytes(key) = key
<1> DEFINE zeros == [i \in 1 .. Len(key) |-> 0]
<1>1. zeros \in Seq(Byte) /\ Len(zeros) = Len(key)
  BY DEF Byte
<1> HIDE DEF zeros
<1>2. FastShortSliceCopy(key, zeros) = key
  BY <1>1, FastCopyCopies
<1> QED
  BY <1>2 DEF StoredBytes, zeros

LEMMA CappedFacts ==
  ASSUME NEW k \in Keys
  PROVE  /\ Capped(k) \in Keys /\ Capped(k) \in Seq(Byte)
         /\ Len(Capped(k)) \in Nat /\ Len(Capped(k)) <= MaxKeyLen
<1>1. k \in Seq(Byte) /\ Capped(k) \in Keys /\ MaxKeyLen \in Nat
  BY ArenaHashMapAssumption
<1>2. Len(k) \in Nat
  BY <1>1
<1>3. CASE Len(k) < MaxKeyLen
  <2>1. Capped(k) = SubSeq(k, 1, Len(k))
    BY <1>3 DEF Capped
  <2>2. Len(Capped(k)) = Len(k)
    BY <1>1, <1>2, <2>1
  <2> QED
    BY <1>1, <1>2, <1>3, <2>2, HashFacts
<1>4. CASE ~(Len(k) < MaxKeyLen)
  <2>1. Capped(k) = SubSeq(k, 1, MaxKeyLen)
    BY <1>4 DEF Capped
  <2>2. Len(Capped(k)) = MaxKeyLen
    BY <1>1, <1>2, <1>4, <2>1
  <2> QED
    BY <1>1, <2>2, HashFacts
<1> QED
  BY <1>3, <1>4

LEMMA Elements ==
  ASSUME NEW S, NEW s \in Seq(S)
  PROVE  \A q \in 1 .. Len(s) : s[q] \in S
OBVIOUS

\* Page p is the last one and has room for the key from l on.
Placed(pgs, npgs, key, p, l) ==
  /\ p = Len(npgs)
  /\ npgs \in Seq(0 .. PageSize) /\ Len(npgs) \in 1 .. MaxPages
  /\ Len(npgs) >= Len(pgs)
  /\ \A q \in 1 .. Len(pgs) : npgs[q] >= pgs[q]
  /\ l + 2 + Len(key) <= npgs[p]
  /\ p = Len(pgs) => l >= pgs[p]

\* new is cts with a key at an address.
StoredAt(cts, new, addr, key) ==
  /\ DOMAIN new = DOMAIN cts \cup {addr}
  /\ \A a \in DOMAIN new : new[a] = IF a = addr THEN key ELSE cts[a]

\* A key goes behind all keys that are there.
LEMMA AddKey ==
  ASSUME NEW pgs, NEW cts, NEW new, NEW npgs, NEW key \in Seq(Byte),
         NEW p \in Nat, NEW l \in Nat,
         ArenaOK(pgs, cts), Placed(pgs, npgs, key, p, l),
         StoredAt(cts, new, Addr(p - 1, l), key)
  PROVE  /\ ArenaOK(npgs, new)
         /\ Addr(p - 1, l) \in 0 .. Null - 1
         /\ Addr(p - 1, l) \notin DOMAIN cts
         /\ Addr(p - 1, l) \in DOMAIN new /\ new[Addr(p - 1, l)] = key
         /\ Keeps(cts, new)
<1> DEFINE addr == Addr(p - 1, l)
<1>0. /\ p = Len(npgs)
      /\ npgs \in Seq(0 .. PageSize) /\ Len(npgs) \in 1 .. MaxPages
      /\ Len(npgs) >= Len(pgs)
      /\ \A q \in 1 .. Len(pgs) : npgs[q] >= pgs[q]
      /\ l + 2 + Len(key) <= npgs[p]
      /\ p = Len(pgs) => l >= pgs[p]
  BY DEF Placed
<1>1. /\ Len(key) \in Nat /\ PageSize \in Nat /\ MaxPages \in Nat /\ npgs[p] \in 0 .. PageSize
      /\ Len(pgs) \in Nat /\ p \in 1 .. MaxPages
      /\ \A q \in 1 .. Len(pgs) : pgs[q] \in 0 .. PageSize
      /\ \A q \in 1 .. Len(npgs) : npgs[q] \in 0 .. PageSize
  <2> HIDE DEF addr
  <2>1. pgs \in Seq(0 .. PageSize)
    BY DEF ArenaOK
  <2>2. PageSize \in Nat /\ MaxPages \in Nat
    BY ArenaHashMapAssumption
  <2>3. npgs \in Seq(0 .. PageSize)
    BY <1>0
  <2>4. Len(key) \in Nat /\ Len(pgs) \in Nat
    BY <2>1
  <2>5. p \in 1 .. Len(npgs) /\ p \in 1 .. MaxPages
    BY <1>0, <2>2
  <2>6. \A q \in 1 .. Len(pgs) : pgs[q] \in 0 .. PageSize
    BY <2>1, Elements
  <2>7. \A q \in 1 .. Len(npgs) : npgs[q] \in 0 .. PageSize
    BY <2>3, Elements
  <2> QED
    BY <2>2, <2>4, <2>5, <2>6, <2>7
<1>pages. /\ p = Len(npgs) /\ Len(pgs) <= Len(npgs)
          /\ \A q \in 1 .. Len(pgs) : npgs[q] >= pgs[q]
  BY <1>0
<1>2. addr \in Nat /\ addr < Null
  BY <1>0, <1>1, AddrFacts
<1>3. ASSUME NEW a \in DOMAIN cts
      PROVE  /\ a \in Nat /\ Len(cts[a]) \in Nat
             /\ a + 2 + Len(cts[a]) <= addr
             /\ \E q \in 1 .. Len(npgs), m \in Nat :
                  a = Addr(q - 1, m) /\ m + 2 + Len(cts[a]) <= npgs[q]
  <2>1. Len(cts[a]) \in Nat
    BY DEF ArenaOK
  <2>2. PICK q \in 1 .. Len(pgs), m \in Nat :
          a = Addr(q - 1, m) /\ m + 2 + Len(cts[a]) <= pgs[q]
    BY DEF ArenaOK
  <2>3. q \in 1 .. p /\ q \in 1 .. Len(npgs) /\ pgs[q] \in 0 .. PageSize
        /\ npgs[q] >= pgs[q] /\ npgs[q] \in 0 .. PageSize
    BY <1>1, <1>pages
  <2>4. m + 2 + Len(cts[a]) <= npgs[q]
    BY <2>1, <2>2, <2>3, SMTT(30)
  <2>5. a \in Nat
    <3>1. m + 2 <= PageSize
      BY <1>1, <2>1, <2>3, <2>4
    <3>2. q \in 1 .. MaxPages
      BY <1>1, <2>3
    <3> QED
      BY <2>2, <3>1, <3>2, AddrFacts
  <2>6. Addr(q - 1, m) + (2 + Len(cts[a])) <= addr
    <3>1. CASE q < p
      <4>1. q - 1 \in Nat /\ p - 1 \in Nat /\ q - 1 < p - 1
            /\ m + (2 + Len(cts[a])) <= PageSize /\ 2 + Len(cts[a]) \in Nat
        BY <1>1, <2>1, <2>3, <2>4, <3>1, SMTT(30)
      <4> QED
        BY <4>1, PagesInOrder
    <3>2. CASE q = p
      <4>1. m + 2 + Len(cts[a]) <= l
        BY <1>0, <1>1, <2>1, <2>2, <2>3, <3>2
      <4>2. (p - 1) * PageSize \in Nat
        BY <1>0, <1>1, SMTT(30)
      <4> QED
        BY <1>0, <2>1, <3>2, <4>1, <4>2 DEF Addr
    <3> QED
      BY <2>3, <3>1, <3>2
  <2>7. a + 2 + Len(cts[a]) <= addr
    BY <1>2, <2>1, <2>2, <2>5, <2>6
  <2> HIDE DEF addr
  <2> QED
    BY <2>1, <2>2, <2>3, <2>4, <2>5, <2>7
<1>4. addr \notin DOMAIN cts
  <2> SUFFICES ASSUME addr \in DOMAIN cts PROVE FALSE
    OBVIOUS
  <2> QED
    BY <1>0, <1>2, <1>3, SMTT(30)
<1>5. /\ DOMAIN new = DOMAIN cts \cup {addr} /\ new[addr] = key
      /\ \A a \in DOMAIN cts : new[a] = cts[a]
  BY <1>4 DEF StoredAt
<1> HIDE DEF addr
<1>6. \A a \in DOMAIN new : new[a] \in Seq(Byte)
  BY <1>5 DEF ArenaOK
<1>7. \A a \in DOMAIN new : \E q \in 1 .. Len(npgs), m \in Nat :
        a = Addr(q - 1, m) /\ m + 2 + Len(new[a]) <= npgs[q]
  <2>1. p \in 1 .. Len(npgs)
    BY <1>0, <1>1
  <2>2. addr = Addr(p - 1, l) /\ l + 2 + Len(new[addr]) <= npgs[p]
    BY <1>0, <1>5 DEF addr
  <2> QED
    BY <1>3, <1>5, <2>1, <2>2
<1>8. \A a, b \in DOMAIN new : a < b => a + 2 + Len(new[a]) <= b
  <2> SUFFICES ASSUME NEW a \in DOMAIN new, NEW b \in DOMAIN new, a < b
               PROVE  a + 2 + Len(new[a]) <= b
    OBVIOUS
  <2>1. CASE a \in DOMAIN cts /\ b \in DOMAIN cts
    BY <1>5, <2>1 DEF ArenaOK
  <2>2. CASE a \in DOMAIN cts /\ b = addr
    BY <1>3, <1>5, <2>2
  <2>3. CASE a = addr /\ b \in DOMAIN cts
    <3>1. b \in Nat /\ Len(cts[b]) \in Nat /\ b + 2 + Len(cts[b]) <= addr
      BY <1>3, <2>3
    <3> QED
      BY <1>2, <2>3, <3>1 DEF addr
  <2>4. CASE a = addr /\ b = addr
    BY <1>2, <2>4 DEF addr
  <2> QED
    BY <1>5, <2>1, <2>2, <2>3, <2>4
<1>9. ArenaOK(npgs, new)
  BY <1>0, <1>6, <1>7, <1>8 DEF ArenaOK
<1> QED
  BY <1>2, <1>4, <1>5, <1>9, EmptyFacts DEF Keeps, addr

\* What allocate_space gives a key is its own.
LEMMA Allocation ==
  ASSUME NEW key \in Seq(Byte), Len(key) <= MaxKeyLen,
         ArenaOK(pages, contents), ~ArenaFull(NumBytes(key)),
         NEW npgs, npgs = PagesAfter(NumBytes(key)),
         NEW addr, addr = Allocated(NumBytes(key)),
         NEW new, new = [a \in DOMAIN contents \cup {addr} |->
                           IF a = addr THEN StoredBytes(key) ELSE contents[a]]
  PROVE  /\ ArenaOK(npgs, new)
         /\ addr \in 0 .. Null - 1 /\ addr \in DOMAIN new /\ new[addr] = key
         /\ addr \notin DOMAIN contents
         /\ Keeps(contents, new)
<1> DEFINE n == NumBytes(key)
           last == Len(pages)
<1>1. /\ Len(key) \in Nat /\ n = 2 + Len(key) /\ n \in Nat /\ n <= PageSize
      /\ PageSize \in Nat /\ MaxPages \in Nat
  BY ArenaHashMapAssumption DEF NumBytes
<1>2. /\ pages \in Seq(0 .. PageSize) /\ last \in 1 .. MaxPages
      /\ last \in Nat /\ \A q \in 1 .. last : pages[q] \in 0 .. PageSize
  BY <1>1 DEF ArenaOK
<1>3. StoredBytes(key) = key
  BY StoredAsGiven
<1>4. CASE IsAvailable(n)
  <2>1. n + pages[last] <= PageSize
    BY <1>4 DEF IsAvailable
  <2>9. PICK l \in Nat : l = pages[last]
    BY <1>1, <1>2
  <2>2. addr = Addr(last - 1, l)
    BY <1>4, <2>9 DEF Allocated
  <2>3. npgs = [pages EXCEPT ![last] = pages[last] + n]
    BY <1>4 DEF PagesAfter
  <2>4. pages[last] + n \in 0 .. PageSize
    BY <1>1, <1>2, <2>1
  <2>5. /\ npgs \in Seq(0 .. PageSize) /\ Len(npgs) = last
        /\ npgs[last] = pages[last] + n
        /\ \A q \in 1 .. last : q # last => npgs[q] = pages[q]
    <3>1. npgs \in Seq(0 .. PageSize) /\ Len(npgs) = last
      BY <1>2, <2>3, <2>4
    <3>2. npgs[last] = pages[last] + n
      BY <1>2, <2>3
    <3>3. \A q \in 1 .. last : q # last => npgs[q] = pages[q]
      BY <1>2, <2>3
    <3> QED
      BY <3>1, <3>2, <3>3
  <2>6. \A q \in 1 .. last : npgs[q] >= pages[q]
    <3>1. pages[last] + n >= pages[last]
      BY <1>1, <1>2
    <3>2. \A q \in 1 .. last : pages[q] >= pages[q]
      BY <1>2
    <3> HIDE DEF n, last
    <3> QED
      BY <2>5, <3>1, <3>2
  <2>7. /\ pages[last] + 2 + Len(key) <= npgs[last] /\ Len(npgs) \in 1 .. MaxPages
        /\ Len(npgs) >= Len(pages) /\ pages[last] >= pages[last]
    BY <1>1, <1>2, <2>5, <2>9
  <2>8. StoredAt(contents, new, Addr(last - 1, l), key)
    BY <1>3, <2>2 DEF StoredAt
  <2>10. Placed(pages, npgs, key, last, l)
    BY <1>2, <2>5, <2>6, <2>7, <2>9 DEF Placed
  <2>11. last \in Nat /\ ArenaOK(pages, contents)
    BY <1>2
  <2> HIDE DEF last
  <2> QED
    BY <2>2, <2>8, <2>10, <2>11, AddKey
<1>5. CASE ~IsAvailable(n)
  <2>1. last < MaxPages
    BY <1>2, <1>1, <1>5 DEF ArenaFull
  <2>2. addr = Addr(last, 0)
    BY <1>5 DEF Allocated
  <2>3. npgs = Append(pages, n) /\ n \in 0 .. PageSize
    BY <1>1, <1>5 DEF PagesAfter
  <2> HIDE DEF n
  <2>4. /\ npgs \in Seq(0 .. PageSize) /\ Len(npgs) = last + 1
        /\ npgs[last + 1] = n
        /\ \A q \in 1 .. last : npgs[q] = pages[q]
    BY <1>2, <2>3
  <2>5. \A q \in 1 .. last : npgs[q] >= pages[q]
    BY <1>2, <2>4
  <2>6. (last + 1) - 1 = last /\ last + 1 \in 1 .. MaxPages /\ last + 1 # last
        /\ last + 1 \in Nat /\ last + 1 >= last
    BY <1>1, <1>2, <2>1
  <2>7. 0 + 2 + Len(key) <= npgs[last + 1]
    BY <1>1, <2>4
  <2>8. /\ addr = Addr((last + 1) - 1, 0) /\ Len(npgs) \in 1 .. MaxPages
        /\ Len(npgs) >= Len(pages) /\ Len(npgs) # Len(pages)
    BY <2>2, <2>4, <2>6
  <2>9. StoredAt(contents, new, Addr((last + 1) - 1, 0), key)
    BY <1>3, <2>8 DEF StoredAt
  <2>10. Placed(pages, npgs, key, last + 1, 0)
    BY <2>4, <2>5, <2>6, <2>7, <2>8 DEF Placed
  <2> HIDE DEF last
  <2> QED
    BY <2>6, <2>8, <2>9, <2>10, AddKey
<1> QED
  BY <1>4, <1>5

-----------------------------------------------------------------------------
(* A resize.                                                               *)

Enlarged(M) == IF M * 2 > 8 THEN M * 2 ELSE 8

\* The entries of t in the first n slots are those of g, the next one has
\* been probed up to bucket b.
ResizeOK(t, g, cts, M, n, b) ==
  /\ n \in 0 .. M
  /\ TableOK(g, cts, Enlarged(M))
  /\ \A c \in 0 .. Enlarged(M) - 1 : ~IsEmpty(g[c]) => \E a \in 0 .. n - 1 : t[a] = g[c]
  /\ \A a \in 0 .. n - 1 : ~IsEmpty(t[a]) => \E c \in 0 .. Enlarged(M) - 1 : g[c] = t[a]
  /\ n < M =>
       /\ b \in 0 .. Enlarged(M) - 1
       /\ ~IsEmpty(t[n]) =>
            FilledUpTo(g, Enlarged(M), FirstProbe(t[n].hash, Enlarged(M) - 1), b)

LEMMA EnlargedFacts ==
  ASSUME NEW M \in Nat \ {0}
  PROVE  Enlarged(M) \in Nat \ {0} /\ Enlarged(M) >= 2 * M /\ Enlarged(M) >= 8
  BY DEF Enlarged

LEMMA NothingBefore ==
  ASSUME NEW t, NEW M, NEW f \in Nat
  PROVE  FilledUpTo(t, M, f, f)
  BY DEF FilledUpTo, Between

\* The bucket where the probes of a slot of a table start.
LEMMA FirstBucket ==
  ASSUME NEW t, NEW M, NEW n \in 0 .. M - 1, t \in [0 .. M - 1 -> Slots],
         NEW N \in Nat \ {0}
  PROVE  FirstProbe(t[n].hash, N - 1) \in 0 .. N - 1
<1>1. t[n].hash \in Nat
  BY DEF Slots
<1>2. 0 \in 0 .. N - 1
  OBVIOUS
<1> QED
  BY <1>1, <1>2, ProbeFacts

LEMMA ResizeStarts ==
  ASSUME NEW t, NEW cts, NEW M, TableOK(t, cts, M)
  PROVE  ResizeOK(t, EmptyTable(Enlarged(M)), cts, M, 0,
                  FirstProbe(t[0].hash, Enlarged(M) - 1))
<1> DEFINE N == Enlarged(M)
           f == FirstProbe(t[0].hash, N - 1)
<1>1. M \in Nat \ {0} /\ t \in [0 .. M - 1 -> Slots] /\ 0 \in 0 .. M - 1
  BY DEF TableOK, TableTyped
<1>2. N \in Nat \ {0}
  BY <1>1, EnlargedFacts
<1> HIDE DEF N
<1>3. f \in 0 .. N - 1 /\ f \in Nat
  <2>1. f \in 0 .. N - 1
    BY <1>1, <1>2, FirstBucket
  <2> HIDE DEF f
  <2> QED
    BY <1>2, <2>1
<1>4. TableOK(EmptyTable(N), cts, N) /\ \A b \in 0 .. N - 1 : IsEmpty(EmptyTable(N)[b])
  BY <1>2, EmptyTableOK
<1>5. FilledUpTo(EmptyTable(N), N, f, f)
  BY <1>3, NothingBefore
<1>6. 0 \in 0 .. M
  BY <1>1
<1> QED
  BY <1>3, <1>4, <1>5, <1>6 DEF ResizeOK, N

LEMMA ResizeSkips ==
  ASSUME NEW t, NEW g, NEW cts, NEW M, NEW n, NEW b, NEW next,
         TableOK(t, cts, M), ResizeOK(t, g, cts, M, n, b), n < M, IsEmpty(t[n]),
         next = IF n + 1 < M THEN FirstProbe(t[n + 1].hash, Enlarged(M) - 1) ELSE 0
  PROVE  ResizeOK(t, g, cts, M, n + 1, next)
<1> DEFINE N == Enlarged(M)
<1>1. /\ M \in Nat \ {0} /\ t \in [0 .. M - 1 -> Slots]
      /\ n \in 0 .. M - 1 /\ n + 1 \in 0 .. M
  BY DEF TableOK, TableTyped, ResizeOK
<1>2. N \in Nat \ {0}
  BY <1>1, EnlargedFacts
<1>3. \A a \in 0 .. (n + 1) - 1 : ~IsEmpty(t[a]) => a \in 0 .. n - 1
  BY <1>1
<1>4. \A a \in 0 .. n - 1 : a \in 0 .. (n + 1) - 1
  BY <1>1
<1>5. n + 1 < M => next \in 0 .. N - 1 /\ next \in Nat
                   /\ next = FirstProbe(t[n + 1].hash, N - 1)
  <2> SUFFICES ASSUME n + 1 < M
               PROVE  FirstProbe(t[n + 1].hash, N - 1) \in 0 .. N - 1
    BY <1>2
  <2>1. n + 1 \in 0 .. M - 1
    BY <1>1
  <2> HIDE DEF N
  <2> QED
    BY <1>1, <1>2, <2>1, FirstBucket
<1>6. n + 1 < M => FilledUpTo(g, N, FirstProbe(t[n + 1].hash, N - 1), next)
  BY <1>5, NothingBefore
<1> QED
  BY <1>1, <1>3, <1>4, <1>5, <1>6 DEF ResizeOK

LEMMA ResizeProbes ==
  ASSUME NEW t, NEW g, NEW cts, NEW M, NEW n, NEW b,
         TableOK(t, cts, M), ResizeOK(t, g, cts, M, n, b), n < M,
         ~IsEmpty(t[n]), ~IsEmpty(g[b])
  PROVE  ResizeOK(t, g, cts, M, n, NextProbe(b, Enlarged(M) - 1))
<1> DEFINE N == Enlarged(M)
           f == FirstProbe(t[n].hash, N - 1)
           next == NextProbe(b, N - 1)
<1>1. /\ M \in Nat \ {0} /\ t \in [0 .. M - 1 -> Slots] /\ n \in 0 .. M - 1
      /\ b \in 0 .. N - 1 /\ FilledUpTo(g, N, f, b)
  BY DEF TableOK, TableTyped, ResizeOK
<1>2. N \in Nat \ {0}
  BY <1>1, EnlargedFacts
<1> HIDE DEF N
<1>3. f \in 0 .. N - 1
  BY <1>1, <1>2, FirstBucket
<1>4. next \in 0 .. N - 1 /\ next = IF b + 1 = N THEN 0 ELSE b + 1
  BY <1>1, <1>2, ProbeFacts
<1>5. FilledUpTo(g, N, f, next)
  <2> SUFFICES ASSUME NEW c \in 0 .. N - 1, Between(f, c, next), c # next
               PROVE  ~IsEmpty(g[c])
    BY DEF FilledUpTo
  <2> HIDE DEF f, next
  <2>1. Between(f, c, b)
    BY <1>1, <1>2, <1>3, <1>4, BeforeNext
  <2> QED
    BY <1>1, <2>1 DEF FilledUpTo
<1> QED
  BY <1>4, <1>5 DEF ResizeOK, N

LEMMA ResizeMoves ==
  ASSUME NEW t, NEW g, NEW cts, NEW M, NEW n, NEW b, NEW next,
         TableOK(t, cts, M), ResizeOK(t, g, cts, M, n, b), n < M,
         ~IsEmpty(t[n]), IsEmpty(g[b]),
         next = IF n + 1 < M THEN FirstProbe(t[n + 1].hash, Enlarged(M) - 1) ELSE 0
  PROVE  ResizeOK(t, [g EXCEPT ![b] = t[n]], cts, M, n + 1, next)
<1> DEFINE N == Enlarged(M)
           f == FirstProbe(t[n].hash, N - 1)
           h == [g EXCEPT ![b] = t[n]]
<1>1. /\ M \in Nat \ {0} /\ t \in [0 .. M - 1 -> Slots] /\ n \in 0 .. M - 1
      /\ b \in 0 .. N - 1 /\ FilledUpTo(g, N, f, b) /\ n + 1 \in 0 .. M
      /\ TableOK(g, cts, N)
  BY DEF TableOK, TableTyped, ResizeOK
<1>2. N \in Nat \ {0} /\ g \in [0 .. N - 1 -> Slots]
  BY <1>1, EnlargedFacts DEF TableOK, TableTyped
<1>3. /\ \A c \in 0 .. N - 1 : ~IsEmpty(g[c]) => \E a \in 0 .. n - 1 : t[a] = g[c]
      /\ \A a \in 0 .. n - 1 : ~IsEmpty(t[a]) => \E c \in 0 .. N - 1 : g[c] = t[a]
  BY DEF ResizeOK
<1>4. n + 1 < M => next \in 0 .. N - 1 /\ next = FirstProbe(t[n + 1].hash, N - 1)
  <2> SUFFICES ASSUME n + 1 < M
               PROVE  FirstProbe(t[n + 1].hash, N - 1) \in 0 .. N - 1
    OBVIOUS
  <2>1. n + 1 \in 0 .. M - 1
    BY <1>1
  <2> HIDE DEF N
  <2> QED
    BY <1>1, <1>2, <2>1, FirstBucket
<1> HIDE DEF N
<1>5. IsEntry(t[n], cts) /\ t[n] \in Slots
  BY <1>1 DEF TableOK, TableTyped
<1>6. \A c \in 0 .. N - 1 : ~IsEmpty(g[c]) => KeyAt(g, cts, c) # cts[t[n].key_addr]
  <2> SUFFICES ASSUME NEW c \in 0 .. N - 1, ~IsEmpty(g[c])
               PROVE  KeyAt(g, cts, c) # cts[t[n].key_addr]
    OBVIOUS
  <2>1. PICK a \in 0 .. n - 1 : t[a] = g[c]
    BY <1>3
  <2>2. a \in 0 .. M - 1 /\ a # n /\ ~IsEmpty(t[a])
    BY <1>1, <2>1
  <2>3. KeyAt(t, cts, a) # KeyAt(t, cts, n)
    BY <1>1, <2>2 DEF TableOK, OneEntryEach
  <2> QED
    BY <2>1, <2>3 DEF KeyAt
<1>7. Keeps(cts, cts)
  BY DEF Keeps
<1>8. TableOK(h, cts, N)
  BY <1>1, <1>5, <1>6, <1>7, PutEntry
<1>9. h[b] = t[n] /\ \A c \in 0 .. N - 1 : c # b => h[c] = g[c]
  BY <1>1, <1>2
<1> HIDE DEF h
<1>10. \A c \in 0 .. N - 1 : ~IsEmpty(h[c]) => \E a \in 0 .. (n + 1) - 1 : t[a] = h[c]
  <2>1. \A a \in 0 .. n - 1 : a \in 0 .. (n + 1) - 1
    BY <1>1
  <2>2. n \in 0 .. (n + 1) - 1
    BY <1>1
  <2> QED
    BY <1>3, <1>9, <2>1, <2>2
<1>11. \A a \in 0 .. (n + 1) - 1 : ~IsEmpty(t[a]) => \E c \in 0 .. N - 1 : h[c] = t[a]
  <2> SUFFICES ASSUME NEW a \in 0 .. (n + 1) - 1, ~IsEmpty(t[a])
               PROVE  \E c \in 0 .. N - 1 : h[c] = t[a]
    OBVIOUS
  <2>1. a \in 0 .. n - 1 \/ a = n
    BY <1>1
  <2>2. CASE a \in 0 .. n - 1
    <3>1. PICK c \in 0 .. N - 1 : g[c] = t[a]
      BY <1>3, <2>2
    <3>2. c # b
      BY <3>1
    <3> QED
      BY <1>9, <3>1, <3>2
  <2>3. CASE a = n
    BY <1>1, <1>9, <2>3
  <2> QED
    BY <2>1, <2>2, <2>3
<1>12. n + 1 < M => next \in 0 .. N - 1 /\ FilledUpTo(h, N, FirstProbe(t[n + 1].hash, N - 1), next)
  <2>1. n + 1 < M => next \in Nat
    BY <1>2, <1>4
  <2> QED
    BY <1>4, <2>1, NothingBefore
<1> QED
  BY <1>1, <1>8, <1>10, <1>11, <1>12 DEF ResizeOK, N, h

-----------------------------------------------------------------------------
(* The inductive invariant.                                                *)

CallOK ==
  /\ pc \in {"idle", "resize", "probe", "panicked"}
  /\ pc # "idle" => call.key \in Keys /\ call.op \in {"get", "mutate_or_create"}
  /\ pc = "resize" => call.op = "mutate_or_create"

ProgressOK ==
  /\ pc = "probe" => Searched(table, contents, mask + 1, SearchKey, bucket)
  /\ pc = "resize" => ResizeOK(table, grown, contents, mask + 1, from, bucket)
  /\ pc # "resize" => grown = << >>

HashMapInv ==
  /\ mask \in Nat
  /\ ArenaOK(pages, contents)
  /\ TableOK(table, contents, mask + 1)
  /\ CallOK
  /\ ProgressOK

-----------------------------------------------------------------------------
(* The steps.                                                              *)

LEMMA TableFacts ==
  ASSUME HashMapInv
  PROVE  /\ (mask + 1) - 1 = mask /\ mask + 1 \in Nat \ {0}
         /\ table \in [0 .. mask -> Slots]
         /\ Capacity = mask + 1 /\ NewLen = Enlarged(mask + 1)
<1>1. mask \in Nat
  BY DEF HashMapInv
<1>2. (mask + 1) - 1 = mask /\ mask + 1 \in Nat \ {0}
  BY <1>1
<1>3. table \in [0 .. (mask + 1) - 1 -> Slots]
  BY DEF HashMapInv, TableOK, TableTyped
<1>4. Capacity = mask + 1
  <2>1. DOMAIN table = 0 .. (mask + 1) - 1 /\ mask + 1 \in Nat
    BY <1>2, <1>3
  <2> QED
    BY <2>1, TableSize DEF Capacity
<1> QED
  BY <1>2, <1>3, <1>4 DEF NewLen, Enlarged

LEMMA GrownFacts ==
  ASSUME HashMapInv, pc = "resize"
  PROVE  /\ ResizeOK(table, grown, contents, mask + 1, from, bucket)
         /\ SizeOf(grown) = Enlarged(mask + 1)
         /\ Enlarged(mask + 1) \in Nat \ {0} /\ from \in 0 .. mask + 1
<1>1. ResizeOK(table, grown, contents, mask + 1, from, bucket)
  BY DEF HashMapInv, ProgressOK
<1>2. Enlarged(mask + 1) \in Nat \ {0}
  BY TableFacts, EnlargedFacts
<1>3. DOMAIN grown = 0 .. Enlarged(mask + 1) - 1
  BY <1>1 DEF ResizeOK, TableOK, TableTyped
<1>4. SizeOf(grown) = Enlarged(mask + 1)
  BY <1>2, <1>3, TableSize
<1> QED
  BY <1>1, <1>2, <1>4 DEF ResizeOK

\* A call starts to look for its key where nothing has been seen.
LEMMA SearchStarts ==
  ASSUME NEW t, NEW cts, NEW M \in Nat \ {0}, NEW key \in Keys
  PROVE  Searched(t, cts, M, key, FirstProbe(Hash[key], M - 1))
<1>1. Hash[key] \in Nat /\ 0 \in 0 .. M - 1
  BY HashFacts
<1>2. PICK f \in 0 .. M - 1 : f = FirstProbe(Hash[key], M - 1)
  BY <1>1, ProbeFacts
<1>3. f \in Nat
  BY <1>2
<1>4. \A c \in 0 .. M - 1 : ~(Between(f, c, f) /\ c # f)
  BY <1>3 DEF Between
<1> QED
  BY <1>2, <1>4 DEF Searched

LEMMA SearchGoesOn ==
  ASSUME NEW t, NEW cts, NEW M \in Nat \ {0}, NEW key \in Keys, NEW b,
         Searched(t, cts, M, key, b), ~IsEmpty(t[b]), KeyAt(t, cts, b) # key
  PROVE  Searched(t, cts, M, key, NextProbe(b, M - 1))
<1> DEFINE f == FirstProbe(Hash[key], M - 1)
           next == NextProbe(b, M - 1)
<1>1. b \in 0 .. M - 1 /\ Hash[key] \in Nat
  BY HashFacts DEF Searched
<1>2. /\ f \in 0 .. M - 1 /\ next \in 0 .. M - 1
      /\ next = IF b + 1 = M THEN 0 ELSE b + 1
  BY <1>1, ProbeFacts
<1>3. ASSUME NEW c \in 0 .. M - 1, Between(f, c, next), c # next
      PROVE  ~IsEmpty(t[c]) /\ KeyAt(t, cts, c) # key
  <2> HIDE DEF f, next
  <2>1. Between(f, c, b)
    BY <1>1, <1>2, <1>3, BeforeNext
  <2> QED
    BY <2>1 DEF Searched, f
<1> QED
  BY <1>2, <1>3 DEF Searched

\* Keys are compared in full.
LEMMA MatchIsKey ==
  ASSUME HashMapInv, NEW b \in 0 .. mask, ~IsEmpty(table[b]), NEW key \in Keys
  PROVE  KeyMatches(table[b], key) <=> KeyAt(table, contents, b) = key
<1>1. b \in 0 .. (mask + 1) - 1
  BY TableFacts
<1>2. IsEntry(table[b], contents)
  BY <1>1 DEF HashMapInv, TableOK, TableTyped
<1>3. contents[table[b].key_addr] \in Seq(Byte) /\ key \in Seq(Byte)
  BY <1>2, HashFacts DEF IsEntry
<1>4. FastShortSliceCompare(contents[table[b].key_addr], key)
        <=> contents[table[b].key_addr] = key
  BY <1>3, FastCompareIsEquality
<1>5. table[b].hash = Hash[contents[table[b].key_addr]]
  BY <1>2 DEF IsEntry
<1> QED
  BY <1>4, <1>5 DEF KeyMatches, KeyAt

LEMMA SearchKeyFacts ==
  ASSUME HashMapInv, pc # "idle"
  PROVE  /\ SearchKey \in Keys
         /\ call.op = "mutate_or_create" =>
              /\ SearchKey = Capped(call.key)
              /\ Len(SearchKey) <= MaxKeyLen
         /\ call.op = "get" => SearchKey = call.key
<1>1. call.key \in Keys /\ call.op \in {"get", "mutate_or_create"}
  BY DEF HashMapInv, CallOK
<1> QED
  BY <1>1, CappedFacts DEF SearchKey

LEMMA ProbeInTable ==
  ASSUME HashMapInv, pc = "probe"
  PROVE  /\ Searched(table, contents, mask + 1, SearchKey, bucket)
         /\ bucket \in 0 .. mask
<1>1. Searched(table, contents, mask + 1, SearchKey, bucket)
  BY DEF HashMapInv, ProgressOK
<1> QED
  BY <1>1, TableFacts DEF Searched

LEMMA FirstCapacityFacts ==
  \A table_size \in TableSizes : FirstCapacity(table_size) \in Nat \ {0}
  BY FirstCapacityAssumption DEF IsPowerOfTwo

LEMMA InitInv ==
  ASSUME Init
  PROVE  HashMapInv
<1>1. PICK table_size \in TableSizes : table = EmptyTable(FirstCapacity(table_size))
  BY DEF Init
<1>2. PICK M \in Nat \ {0} : M = FirstCapacity(table_size)
  BY FirstCapacityFacts
<1>3. mask = M - 1
  <2>1. DOMAIN table = 0 .. M - 1
    BY <1>1, <1>2 DEF EmptyTable
  <2> QED
    BY <1>2, <2>1, TableSize DEF Init
<1>4. mask \in Nat /\ mask + 1 = M
  BY <1>2, <1>3
<1>5. TableOK(table, contents, mask + 1)
  BY <1>1, <1>2, <1>4, EmptyTableOK
<1>6. ArenaOK(pages, contents)
  <2>1. 0 \in 0 .. PageSize /\ 1 \in 1 .. MaxPages
    BY ArenaHashMapAssumption
  <2>2. <<0>> \in Seq(0 .. PageSize) /\ Len(<<0>>) = 1
    BY <2>1
  <2>3. pages = <<0>> /\ DOMAIN contents = {}
    BY DEF Init
  <2> QED
    BY <2>1, <2>2, <2>3 DEF ArenaOK
<1>7. CallOK /\ ProgressOK
  BY DEF Init, CallOK, ProgressOK
<1> QED
  BY <1>4, <1>5, <1>6, <1>7 DEF HashMapInv

LEMMA CallGetInv ==
  ASSUME HashMapInv, NEW key \in Keys, CallGet(key)
  PROVE  HashMapInv'
<1>1. /\ pc = "idle" /\ pc' = "probe" /\ call' = [op |-> "get", key |-> key]
      /\ bucket' = FirstProbe(Hash[key], mask)
      /\ UNCHANGED <<tableVars, arenaVars, resizeVars>>
  BY DEF CallGet, Start
<1>2. SearchKey' = key
  BY <1>1 DEF SearchKey
<1>3. Searched(table, contents, mask + 1, key, FirstProbe(Hash[key], (mask + 1) - 1))
  BY TableFacts, SearchStarts
<1>4. Searched(table, contents, mask + 1, SearchKey, bucket)'
  BY <1>1, <1>2, <1>3, TableFacts DEF tableVars, arenaVars
<1>5. CallOK'
  BY <1>1 DEF CallOK
<1>6. ProgressOK'
  BY <1>1, <1>4 DEF HashMapInv, ProgressOK, resizeVars
<1> QED
  BY <1>1, <1>5, <1>6 DEF HashMapInv, tableVars, arenaVars

LEMMA CallMutateOrCreateInv ==
  ASSUME HashMapInv, NEW key \in Keys, CallMutateOrCreate(key)
  PROVE  HashMapInv'
<1>1. /\ pc = "idle" /\ call' = [op |-> "mutate_or_create", key |-> key]
      /\ from' = 0 /\ UNCHANGED <<tableVars, arenaVars>>
  BY DEF CallMutateOrCreate, Start
<1>2. UNCHANGED <<table, mask, pages, contents>>
  BY <1>1 DEF tableVars, arenaVars
<1>3. CASE IsSaturated(Capacity)
  <2>1. /\ pc' = "resize" /\ grown' = EmptyTable(NewLen)
        /\ bucket' = FirstProbe(table[0].hash, NewLen - 1)
    BY <1>3 DEF CallMutateOrCreate
  <2>2. ResizeOK(table, EmptyTable(Enlarged(mask + 1)), contents, mask + 1, 0,
                 FirstProbe(table[0].hash, Enlarged(mask + 1) - 1))
    BY ResizeStarts DEF HashMapInv
  <2>3. ResizeOK(table, grown, contents, mask + 1, from, bucket)'
    BY <1>1, <1>2, <2>1, <2>2, TableFacts
  <2>4. CallOK' /\ ProgressOK'
    BY <1>1, <2>1, <2>3 DEF CallOK, ProgressOK
  <2> QED
    BY <1>2, <2>4 DEF HashMapInv
<1>4. CASE ~IsSaturated(Capacity)
  <2>1. /\ pc' = "probe" /\ grown' = grown
        /\ bucket' = FirstProbe(Hash[Capped(key)], mask)
    BY <1>4 DEF CallMutateOrCreate
  <2>2. SearchKey' = Capped(key) /\ Capped(key) \in Keys
    BY <1>1, HashFacts DEF SearchKey
  <2>3. Searched(table, contents, mask + 1, Capped(key),
                 FirstProbe(Hash[Capped(key)], (mask + 1) - 1))
    BY <2>2, TableFacts, SearchStarts
  <2>4. Searched(table, contents, mask + 1, SearchKey, bucket)'
    BY <1>2, <2>1, <2>2, <2>3, TableFacts
  <2>5. CallOK' /\ ProgressOK'
    BY <1>1, <2>1, <2>4 DEF HashMapInv, CallOK, ProgressOK
  <2> QED
    BY <1>2, <2>5 DEF HashMapInv
<1> QED
  BY <1>3, <1>4

\* What stays when a resize takes a step.
LEMMA ResizeStepInv ==
  ASSUME HashMapInv, pc = "resize", pc' = "resize",
         UNCHANGED <<tableVars, arenaVars, call>>,
         ResizeOK(table, grown', contents, mask + 1, from', bucket')
  PROVE  HashMapInv'
<1>1. UNCHANGED <<table, mask, pages, contents, call>>
  BY DEF tableVars, arenaVars
<1>2. ResizeOK(table, grown, contents, mask + 1, from, bucket)'
  BY <1>1
<1>3. CallOK' /\ ProgressOK'
  BY <1>1, <1>2 DEF HashMapInv, CallOK, ProgressOK
<1> QED
  BY <1>1, <1>3 DEF HashMapInv

LEMMA AdvanceFacts ==
  ASSUME HashMapInv, Moving, AdvanceFrom, table' = table
  PROVE  /\ from' = from + 1 /\ from < mask + 1
         /\ bucket' = IF from + 1 < mask + 1
                      THEN FirstProbe(table[from + 1].hash, Enlarged(mask + 1) - 1)
                      ELSE 0
<1>1. pc = "resize" /\ from < Capacity /\ from' = from + 1
      /\ bucket' = IF from' < Capacity
                   THEN FirstProbe(table[from'].hash, SizeOf(grown) - 1)
                   ELSE 0
  BY DEF Moving, AdvanceFrom
<1> QED
  BY <1>1, TableFacts, GrownFacts

LEMMA SkipEmptySlotInv ==
  ASSUME HashMapInv, SkipEmptySlot
  PROVE  HashMapInv'
<1>1. /\ pc = "resize" /\ pc' = "resize" /\ IsEmpty(table[from])
      /\ UNCHANGED <<tableVars, arenaVars, call>> /\ grown' = grown /\ table' = table
  BY DEF SkipEmptySlot, Moving, tableVars
<1>2. /\ from' = from + 1 /\ from < mask + 1
      /\ bucket' = IF from + 1 < mask + 1
                   THEN FirstProbe(table[from + 1].hash, Enlarged(mask + 1) - 1)
                   ELSE 0
  BY <1>1, AdvanceFacts DEF SkipEmptySlot
<1>3. ResizeOK(table, grown, contents, mask + 1, from, bucket)
      /\ TableOK(table, contents, mask + 1)
  BY <1>1, GrownFacts DEF HashMapInv
<1>4. ResizeOK(table, grown, contents, mask + 1, from + 1, bucket')
  BY <1>1, <1>2, <1>3, ResizeSkips
<1> QED
  BY <1>1, <1>2, <1>4, ResizeStepInv

LEMMA ProbeGrownInv ==
  ASSUME HashMapInv, ProbeGrown
  PROVE  HashMapInv'
<1>1. /\ pc = "resize" /\ pc' = "resize" /\ ~IsEmpty(table[from]) /\ ~IsEmpty(grown[bucket])
      /\ UNCHANGED <<tableVars, arenaVars, call>> /\ grown' = grown /\ from' = from
      /\ bucket' = NextProbe(bucket, SizeOf(grown) - 1) /\ from < Capacity
  BY DEF ProbeGrown, Moving, resizeVars
<1>2. /\ ResizeOK(table, grown, contents, mask + 1, from, bucket)
      /\ TableOK(table, contents, mask + 1) /\ from < mask + 1
      /\ bucket' = NextProbe(bucket, Enlarged(mask + 1) - 1)
  BY <1>1, TableFacts, GrownFacts DEF HashMapInv
<1>3. ResizeOK(table, grown, contents, mask + 1, from, bucket')
  BY <1>1, <1>2, ResizeProbes
<1> QED
  BY <1>1, <1>3, ResizeStepInv

LEMMA MoveEntryInv ==
  ASSUME HashMapInv, MoveEntry
  PROVE  HashMapInv'
<1>1. /\ pc = "resize" /\ pc' = "resize" /\ ~IsEmpty(table[from]) /\ IsEmpty(grown[bucket])
      /\ UNCHANGED <<tableVars, arenaVars, call>> /\ table' = table
      /\ grown' = [grown EXCEPT ![bucket] = table[from]]
  BY DEF MoveEntry, Moving, tableVars
<1>2. /\ from' = from + 1 /\ from < mask + 1
      /\ bucket' = IF from + 1 < mask + 1
                   THEN FirstProbe(table[from + 1].hash, Enlarged(mask + 1) - 1)
                   ELSE 0
  BY <1>1, AdvanceFacts DEF MoveEntry
<1>3. ResizeOK(table, grown, contents, mask + 1, from, bucket)
      /\ TableOK(table, contents, mask + 1)
  BY <1>1, GrownFacts DEF HashMapInv
<1>4. ResizeOK(table, grown', contents, mask + 1, from + 1, bucket')
  BY <1>1, <1>2, <1>3, ResizeMoves
<1> QED
  BY <1>1, <1>2, <1>4, ResizeStepInv

LEMMA EndResizeInv ==
  ASSUME HashMapInv, EndResize
  PROVE  HashMapInv'
<1>1. /\ pc = "resize" /\ pc' = "probe" /\ table' = grown /\ grown' = << >>
      /\ mask' = SizeOf(grown) - 1 /\ bucket' = FirstProbe(Hash[SearchKey], mask')
      /\ pages' = pages /\ contents' = contents /\ call' = call
  BY DEF EndResize, MaskAfterResize, arenaVars
<1>2. /\ ResizeOK(table, grown, contents, mask + 1, from, bucket)
      /\ mask' = Enlarged(mask + 1) - 1 /\ Enlarged(mask + 1) \in Nat \ {0}
  BY <1>1, GrownFacts
<1>3. mask' \in Nat /\ mask' + 1 = Enlarged(mask + 1)
  BY <1>2
<1>4. TableOK(table', contents', mask' + 1)
  BY <1>1, <1>2, <1>3 DEF ResizeOK
<1>5. SearchKey' = SearchKey /\ SearchKey \in Keys
  BY <1>1, SearchKeyFacts DEF SearchKey
<1>6. Searched(table', contents', mask' + 1, SearchKey, FirstProbe(Hash[SearchKey], (mask' + 1) - 1))
  BY <1>2, <1>3, <1>5, SearchStarts
<1>7. (mask' + 1) - 1 = mask'
  <2>1. PICK m \in Nat : m = mask'
    BY <1>3
  <2>2. \A i \in Nat : (i + 1) - 1 = i
    OBVIOUS
  <2> QED
    BY <2>1, <2>2
<1>8. Searched(table, contents, mask + 1, SearchKey, bucket)'
  BY <1>1, <1>5, <1>6, <1>7
<1>9. CallOK' /\ ProgressOK'
  BY <1>1, <1>8 DEF HashMapInv, CallOK, ProgressOK
<1>10. ArenaOK(pages, contents)' /\ TableOK(table, contents, mask + 1)'
  BY <1>1, <1>4 DEF HashMapInv
<1> QED
  BY <1>3, <1>9, <1>10 DEF HashMapInv

LEMMA ProbeInv ==
  ASSUME HashMapInv, Probe
  PROVE  HashMapInv'
<1>1. /\ pc = "probe" /\ pc' = "probe" /\ ~IsEmpty(table[bucket])
      /\ ~KeyMatches(table[bucket], SearchKey)
      /\ bucket' = NextProbe(bucket, mask)
      /\ UNCHANGED <<table, mask, pages, contents, call, grown>>
  BY DEF Probe, Probing, tableVars, arenaVars, resizeVars
<1>2. SearchKey' = SearchKey /\ SearchKey \in Keys
  BY <1>1, SearchKeyFacts DEF SearchKey
<1>3. Searched(table, contents, mask + 1, SearchKey, bucket) /\ bucket \in 0 .. mask
  BY <1>1, ProbeInTable
<1>4. KeyAt(table, contents, bucket) # SearchKey
  BY <1>1, <1>2, <1>3, MatchIsKey
<1>5. Searched(table, contents, mask + 1, SearchKey, NextProbe(bucket, (mask + 1) - 1))
  BY <1>1, <1>2, <1>3, <1>4, TableFacts, SearchGoesOn
<1>6. Searched(table, contents, mask + 1, SearchKey, bucket)'
  BY <1>1, <1>2, <1>5, TableFacts
<1>7. CallOK' /\ ProgressOK'
  BY <1>1, <1>6 DEF HashMapInv, CallOK, ProgressOK
<1> QED
  BY <1>1, <1>7 DEF HashMapInv

\* A call that returns, or panics, leaves no loop behind.
LEMMA CallOverInv ==
  ASSUME HashMapInv, pc = "probe", pc' \in {"idle", "panicked"},
         call' = call, mask' = mask, grown' = grown,
         TableOK(table', contents', mask + 1), ArenaOK(pages', contents')
  PROVE  HashMapInv'
<1>1. CallOK' /\ ProgressOK'
  BY DEF HashMapInv, CallOK, ProgressOK
<1>2. TableOK(table, contents, mask + 1)' /\ ArenaOK(pages, contents)'
  OBVIOUS
<1> QED
  BY <1>1, <1>2 DEF HashMapInv

LEMMA GetInv ==
  ASSUME HashMapInv, GetAbsent \/ GetFound \/ Panic
  PROVE  HashMapInv'
<1>1. /\ pc = "probe" /\ pc' \in {"idle", "panicked"}
      /\ UNCHANGED <<call, mask, grown, table, pages, contents>>
  BY DEF GetAbsent, GetFound, Panic, Return, Probing, tableVars, arenaVars, resizeVars
<1>2. TableOK(table', contents', mask + 1) /\ ArenaOK(pages', contents')
  BY <1>1 DEF HashMapInv
<1> QED
  BY <1>1, <1>2, CallOverInv

LEMMA MutateFoundInv ==
  ASSUME HashMapInv, NEW value \in Values, MutateFound(value)
  PROVE  HashMapInv'
<1>1. /\ pc = "probe" /\ pc' = "idle" /\ ~IsEmpty(table[bucket])
      /\ table' = [table EXCEPT ![bucket].value = value]
      /\ UNCHANGED <<call, mask, grown, pages, contents>>
  BY DEF MutateFound, Return, Probing, arenaVars, resizeVars
<1>2. bucket \in 0 .. (mask + 1) - 1
  BY <1>1, ProbeInTable, TableFacts
<1>3. TableOK(table', contents', mask + 1)
  BY <1>1, <1>2, SetValue DEF HashMapInv
<1>4. ArenaOK(pages', contents')
  BY <1>1 DEF HashMapInv
<1> QED
  BY <1>1, <1>3, <1>4, CallOverInv

\* What a new entry is made of.
LEMMA CreateFacts ==
  ASSUME HashMapInv, NEW value \in Values, Create(value)
  PROVE  /\ pc = "probe" /\ pc' = "idle"
         /\ UNCHANGED <<call, mask, grown>>
         /\ bucket \in 0 .. mask /\ IsEmpty(table[bucket])
         /\ ArenaOK(pages', contents') /\ Keeps(contents, contents')
         /\ \A b \in 0 .. mask : ~IsEmpty(table[b]) => KeyAt(table, contents, b) # SearchKey
         /\ \E slot \in Slots :
              /\ table' = [table EXCEPT ![bucket] = slot]
              /\ IsEntry(slot, contents') /\ slot.value = value
              /\ contents'[slot.key_addr] = SearchKey
<1> DEFINE n == NumBytes(SearchKey)
           addr == Allocated(n)
           slot == [key_addr |-> addr, hash |-> Hash[SearchKey], value |-> value]
<1>1. /\ pc = "probe" /\ pc' = "idle" /\ call.op = "mutate_or_create"
      /\ IsEmpty(table[bucket]) /\ ~ArenaFull(n)
      /\ pages' = PagesAfter(n)
      /\ contents' = [a \in DOMAIN contents \cup {addr} |->
                        IF a = addr THEN StoredBytes(SearchKey) ELSE contents[a]]
      /\ table' = [table EXCEPT ![bucket] = slot]
      /\ UNCHANGED <<call, mask, grown>>
  BY DEF Create, Return, Probing, resizeVars
<1>2. SearchKey \in Keys /\ SearchKey \in Seq(Byte) /\ Len(SearchKey) <= MaxKeyLen
  BY <1>1, SearchKeyFacts, HashFacts
<1>3. Searched(table, contents, mask + 1, SearchKey, bucket) /\ bucket \in 0 .. mask
  BY <1>1, ProbeInTable
<1>4. \A b \in 0 .. mask : ~IsEmpty(table[b]) => KeyAt(table, contents, b) # SearchKey
  <2>1. \A b \in 0 .. (mask + 1) - 1 :
          ~IsEmpty(table[b]) => KeyAt(table, contents, b) # SearchKey
    BY <1>1, <1>2, <1>3, SearchEndsAtEmpty DEF HashMapInv
  <2> QED
    BY <2>1, TableFacts
<1>5. /\ ArenaOK(pages', contents')
      /\ addr \in 0 .. Null - 1 /\ addr \in DOMAIN contents' /\ contents'[addr] = SearchKey
      /\ Keeps(contents, contents')
  BY <1>1, <1>2, Allocation DEF HashMapInv
<1> HIDE DEF addr
<1>6. slot \in Slots /\ IsEntry(slot, contents')
  <2>1. addr \in 0 .. Null /\ addr # Null
    BY <1>5, EmptyFacts
  <2> QED
    BY <1>2, <1>5, <2>1, HashFacts DEF Slots, IsEntry, IsEmpty
<1> QED
  BY <1>1, <1>3, <1>4, <1>5, <1>6

LEMMA CreateInv ==
  ASSUME HashMapInv, NEW value \in Values, Create(value)
  PROVE  HashMapInv'
<1>1. /\ pc = "probe" /\ pc' = "idle" /\ UNCHANGED <<call, mask, grown>>
      /\ bucket \in 0 .. mask /\ IsEmpty(table[bucket])
      /\ ArenaOK(pages', contents') /\ Keeps(contents, contents')
      /\ \A b \in 0 .. mask : ~IsEmpty(table[b]) => KeyAt(table, contents, b) # SearchKey
  BY CreateFacts
<1>2. PICK slot \in Slots : /\ table' = [table EXCEPT ![bucket] = slot]
                            /\ IsEntry(slot, contents')
                            /\ contents'[slot.key_addr] = SearchKey
  BY CreateFacts
<1>3. slot.hash = Hash[SearchKey]
  BY <1>2 DEF IsEntry
<1>4. FilledUpTo(table, mask + 1, FirstProbe(slot.hash, (mask + 1) - 1), bucket)
  BY <1>1, <1>3, ProbeInTable DEF Searched, FilledUpTo
<1>5. TableOK(table', contents', mask + 1)
  <2>1. bucket \in 0 .. (mask + 1) - 1 /\ TableOK(table, contents, mask + 1)
    BY <1>1, TableFacts DEF HashMapInv
  <2>2. \A b \in 0 .. (mask + 1) - 1 : ~IsEmpty(table[b]) =>
          KeyAt(table, contents, b) # contents'[slot.key_addr]
    BY <1>1, <1>2, TableFacts
  <2> QED
    BY <1>1, <1>2, <1>4, <2>1, <2>2, PutEntry
<1> QED
  BY <1>1, <1>5, CallOverInv

LEMMA StutterInv ==
  ASSUME HashMapInv, UNCHANGED vars
  PROVE  HashMapInv'
  BY DEF HashMapInv, CallOK, ProgressOK, SearchKey, vars, tableVars, arenaVars, resizeVars

LEMMA NextInv ==
  ASSUME HashMapInv, [Next]_vars
  PROVE  HashMapInv'
<1>1. CASE UNCHANGED vars
  BY <1>1, StutterInv
<1>2. ASSUME NEW key \in Keys, CallGet(key) \/ CallMutateOrCreate(key) PROVE HashMapInv'
  BY <1>2, CallGetInv, CallMutateOrCreateInv
<1>3. CASE Work
  <2>1. CASE SkipEmptySlot
    BY <2>1, SkipEmptySlotInv
  <2>2. CASE ProbeGrown
    BY <2>2, ProbeGrownInv
  <2>3. CASE MoveEntry
    BY <2>3, MoveEntryInv
  <2>4. CASE EndResize
    BY <2>4, EndResizeInv
  <2>5. CASE Probe
    BY <2>5, ProbeInv
  <2>6. CASE GetAbsent \/ GetFound \/ Panic
    BY <2>6, GetInv
  <2>7. ASSUME NEW value \in Values, MutateFound(value) \/ Create(value) PROVE HashMapInv'
    BY <2>7, MutateFoundInv, CreateInv
  <2> QED
    BY <1>3, <2>1, <2>2, <2>3, <2>4, <2>5, <2>6, <2>7 DEF Work
<1>4. CASE Panicked
  BY <1>4, StutterInv DEF Panicked
<1> QED
  BY <1>1, <1>2, <1>3, <1>4 DEF Next

-----------------------------------------------------------------------------
(* The theorems about the table and the arena.                             *)

(* The inductive invariant: table, resize and search under way, and arena. *)
THEOREM HashMapInvariant == Spec => []HashMapInv
<1> QED
  BY InitInv, NextInv, PTL DEF Spec

(* No two keys overlap in the arena, none crosses the end of its page, and *)
(* none has the address of an empty slot, for any size of pages.           *)
THEOREM KeysStayIntact == Spec => []KeysIntact
<1>1. HashMapInv => KeysIntact
  BY ArenaKeepsKeys DEF HashMapInv
<1> QED
  BY <1>1, HashMapInvariant, PTL

LEMMA WithoutGapsUnbroken ==
  ASSUME NEW t, NEW M \in Nat \ {0}, t \in [0 .. M - 1 -> Slots], WithoutGaps(t, M)
  PROVE  Unbroken(t, M - 1)
<1> SUFFICES ASSUME NEW b \in Occupied(t),
                    NEW n \in 0 .. (b - FirstProbe(t[b].hash, M - 1)) % ((M - 1) + 1)
             PROVE  ~IsEmpty(t[(FirstProbe(t[b].hash, M - 1) + n) % ((M - 1) + 1)])
  BY DEF Unbroken
<1> DEFINE f == FirstProbe(t[b].hash, M - 1)
<1>1. b \in 0 .. M - 1 /\ ~IsEmpty(t[b]) /\ (M - 1) + 1 = M
  BY DEF Occupied
<1>2. f \in 0 .. M - 1
  BY <1>1, FirstBucket
<1>3. FilledUpTo(t, M, f, b)
  BY <1>1 DEF WithoutGaps
<1> HIDE DEF f
<1>4. (f + n) % M \in 0 .. M - 1 /\ Between(f, (f + n) % M, b)
  BY <1>1, <1>2, StepsBetween DEF f
<1>5. ~IsEmpty(t[(f + n) % M])
  BY <1>1, <1>3, <1>4 DEF FilledUpTo
<1> QED
  BY <1>1, <1>5 DEF f

(* No probe sequence is broken, in the table or in the one that a resize   *)
(* fills, for any keys and hashes.                                         *)
THEOREM ProbesStayUnbroken == Spec => []NoGaps
<1>1. ASSUME HashMapInv PROVE NoGaps
  <2>1. Unbroken(table, mask)
    <3>1. Unbroken(table, (mask + 1) - 1)
      BY <1>1, TableFacts, WithoutGapsUnbroken DEF HashMapInv, TableOK, TableTyped
    <3> QED
      BY <1>1, <3>1, TableFacts
  <2>2. CASE pc = "resize"
    <3>1. /\ TableOK(grown, contents, Enlarged(mask + 1))
          /\ SizeOf(grown) = Enlarged(mask + 1) /\ Enlarged(mask + 1) \in Nat \ {0}
      BY <1>1, <2>2, GrownFacts DEF ResizeOK
    <3>2. Unbroken(grown, SizeOf(grown) - 1)
      BY <3>1, WithoutGapsUnbroken DEF TableOK, TableTyped
    <3> QED
      BY <2>1, <3>2 DEF NoGaps
  <2>3. CASE pc # "resize"
    <3>1. Occupied(grown) = {}
      BY <1>1, <2>3 DEF HashMapInv, ProgressOK, Occupied
    <3> QED
      BY <2>1, <3>1 DEF NoGaps, Unbroken
  <2> QED
    BY <2>2, <2>3
<1> QED
  BY <1>1, HashMapInvariant, PTL

-----------------------------------------------------------------------------
(* The table as a map.                                                     *)

ContentOf(t, cts) ==
  [k \in Keys |->
     IF \E b \in Occupied(t) : cts[t[b].key_addr] = k
     THEN t[CHOOSE b \in Occupied(t) : cts[t[b].key_addr] = k].value
     ELSE NoValue]

\* What the table says of a key.
Maps(t, cts, M, k, v) ==
  \/ \E b \in 0 .. M - 1 : ~IsEmpty(t[b]) /\ KeyAt(t, cts, b) = k /\ t[b].value = v
  \/ /\ \A b \in 0 .. M - 1 : ~IsEmpty(t[b]) => KeyAt(t, cts, b) # k
     /\ v = NoValue

LEMMA ContentMaps ==
  ASSUME NEW t, NEW cts, NEW M, TableOK(t, cts, M), NEW k \in Keys, NEW v,
         Maps(t, cts, M, k, v)
  PROVE  ContentOf(t, cts)[k] = v
<1>1. t \in [0 .. M - 1 -> Slots] /\ OneEntryEach(t, cts, M)
  BY DEF TableOK, TableTyped
<1>2. \A b : b \in Occupied(t) <=> b \in 0 .. M - 1 /\ ~IsEmpty(t[b])
  BY <1>1 DEF Occupied
<1> DEFINE Holds(b) == cts[t[b].key_addr] = k
<1>3. ContentOf(t, cts)[k] = IF \E b \in Occupied(t) : Holds(b)
                             THEN t[CHOOSE b \in Occupied(t) : Holds(b)].value
                             ELSE NoValue
  BY DEF ContentOf
<1>4. CASE \E b \in 0 .. M - 1 : ~IsEmpty(t[b]) /\ KeyAt(t, cts, b) = k /\ t[b].value = v
  <2>1. PICK b \in 0 .. M - 1 : ~IsEmpty(t[b]) /\ KeyAt(t, cts, b) = k /\ t[b].value = v
    BY <1>4
  <2>2. b \in Occupied(t) /\ Holds(b)
    BY <1>2, <2>1 DEF KeyAt
  <2>3. PICK c : c = CHOOSE a \in Occupied(t) : Holds(a)
    OBVIOUS
  <2>4. c \in Occupied(t) /\ Holds(c)
    BY <2>2, <2>3
  <2>5. c = b
    BY <1>1, <1>2, <2>1, <2>4 DEF OneEntryEach, KeyAt
  <2> QED
    BY <1>3, <2>1, <2>2, <2>3, <2>5
<1>5. CASE (\A b \in 0 .. M - 1 : ~IsEmpty(t[b]) => KeyAt(t, cts, b) # k) /\ v = NoValue
  <2>1. ~\E b \in Occupied(t) : Holds(b)
    BY <1>2, <1>5 DEF KeyAt
  <2> QED
    BY <1>3, <1>5, <2>1
<1> QED
  BY <1>4, <1>5 DEF Maps

\* Every key has one of the two.
LEMMA MapsSomething ==
  ASSUME NEW t, NEW cts, NEW M, TableOK(t, cts, M), NEW k \in Keys
  PROVE  Maps(t, cts, M, k, ContentOf(t, cts)[k])
<1>1. CASE \E b \in 0 .. M - 1 : ~IsEmpty(t[b]) /\ KeyAt(t, cts, b) = k
  <2>1. PICK b \in 0 .. M - 1 : ~IsEmpty(t[b]) /\ KeyAt(t, cts, b) = k
    BY <1>1
  <2>2. Maps(t, cts, M, k, t[b].value)
    BY <2>1 DEF Maps
  <2> QED
    BY <2>2, ContentMaps
<1>2. CASE \A b \in 0 .. M - 1 : ~IsEmpty(t[b]) => KeyAt(t, cts, b) # k
  <2>1. Maps(t, cts, M, k, NoValue)
    BY <1>2 DEF Maps
  <2> QED
    BY <2>1, ContentMaps
<1> QED
  BY <1>1, <1>2

LEMMA ContentIs ==
  ASSUME NEW t, NEW cts, NEW M, TableOK(t, cts, M), NEW F,
         F = [k \in Keys |-> F[k]],
         \A k \in Keys : Maps(t, cts, M, k, F[k])
  PROVE  ContentOf(t, cts) = F
<1>1. \A k \in Keys : ContentOf(t, cts)[k] = F[k]
  BY ContentMaps
<1>2. ContentOf(t, cts) = [k \in Keys |-> ContentOf(t, cts)[k]]
  BY DEF ContentOf
<1> QED
  BY <1>1, <1>2

\* The new table of a resize holds what the old one held.
LEMMA ResizedContent ==
  ASSUME NEW t, NEW g, NEW cts, NEW M, NEW b,
         TableOK(t, cts, M), ResizeOK(t, g, cts, M, M, b)
  PROVE  ContentOf(g, cts) = ContentOf(t, cts)
<1> DEFINE N == Enlarged(M)
           F == ContentOf(t, cts)
<1>1. /\ TableOK(g, cts, N)
      /\ \A c \in 0 .. N - 1 : ~IsEmpty(g[c]) => \E a \in 0 .. M - 1 : t[a] = g[c]
      /\ \A a \in 0 .. M - 1 : ~IsEmpty(t[a]) => \E c \in 0 .. N - 1 : g[c] = t[a]
  BY DEF ResizeOK
<1> HIDE DEF N
<1>2. F = [k \in Keys |-> F[k]]
  BY DEF ContentOf
<1> HIDE DEF F
<1>3. ASSUME NEW k \in Keys PROVE Maps(g, cts, N, k, F[k])
  <2>1. Maps(t, cts, M, k, F[k])
    BY MapsSomething DEF F
  <2>2. CASE \E a \in 0 .. M - 1 : ~IsEmpty(t[a]) /\ KeyAt(t, cts, a) = k /\ t[a].value = F[k]
    <3>1. PICK a \in 0 .. M - 1 : ~IsEmpty(t[a]) /\ KeyAt(t, cts, a) = k /\ t[a].value = F[k]
      BY <2>2
    <3>2. PICK c \in 0 .. N - 1 : g[c] = t[a]
      BY <1>1, <3>1
    <3>3. ~IsEmpty(g[c]) /\ KeyAt(g, cts, c) = k /\ g[c].value = F[k]
      BY <3>1, <3>2 DEF KeyAt
    <3> QED
      BY <3>3 DEF Maps
  <2>3. CASE /\ \A a \in 0 .. M - 1 : ~IsEmpty(t[a]) => KeyAt(t, cts, a) # k
             /\ F[k] = NoValue
    <3>1. ASSUME NEW c \in 0 .. N - 1, ~IsEmpty(g[c]) PROVE KeyAt(g, cts, c) # k
      <4>1. PICK a \in 0 .. M - 1 : t[a] = g[c]
        BY <1>1, <3>1
      <4>2. KeyAt(t, cts, a) # k
        BY <2>3, <3>1, <4>1
      <4> QED
        BY <4>1, <4>2 DEF KeyAt
    <3> QED
      BY <2>3, <3>1 DEF Maps
  <2> QED
    BY <2>1, <2>2, <2>3 DEF Maps
<1> QED
  BY <1>1, <1>2, <1>3, ContentIs DEF F

\* In u, slot b is what key has; other slots are as in t.
Updates(t, cts, u, new, M, b, slot, key) ==
  /\ b \in 0 .. M - 1
  /\ u[b] = slot /\ \A c \in 0 .. M - 1 : c # b => u[c] = t[c]
  /\ ~IsEmpty(slot) /\ new[slot.key_addr] = key
  /\ \A c \in 0 .. M - 1 : ~IsEmpty(t[c]) => new[t[c].key_addr] = cts[t[c].key_addr]
  /\ \A c \in 0 .. M - 1 : ~IsEmpty(t[c]) /\ KeyAt(t, cts, c) = key => c = b
  /\ ~IsEmpty(t[b]) => KeyAt(t, cts, b) = key

\* A slot is given to a key: an update of the map.
LEMMA UpdatedContent ==
  ASSUME NEW t, NEW cts, NEW u, NEW new, NEW M, NEW b, NEW slot, NEW key \in Keys,
         TableOK(t, cts, M), TableOK(u, new, M),
         Updates(t, cts, u, new, M, b, slot, key)
  PROVE  ContentOf(u, new) = [ContentOf(t, cts) EXCEPT ![key] = slot.value]
<1> DEFINE C == ContentOf(t, cts)
           F == [C EXCEPT ![key] = slot.value]
<1>1. /\ b \in 0 .. M - 1 /\ ~IsEmpty(slot) /\ new[slot.key_addr] = key
      /\ \A c \in 0 .. M - 1 : ~IsEmpty(t[c]) => new[t[c].key_addr] = cts[t[c].key_addr]
      /\ \A c \in 0 .. M - 1 : ~IsEmpty(t[c]) /\ KeyAt(t, cts, c) = key => c = b
      /\ ~IsEmpty(t[b]) => KeyAt(t, cts, b) = key
  BY DEF Updates
<1>2. u[b] = slot /\ \A c \in 0 .. M - 1 : c # b => u[c] = t[c]
  BY DEF Updates
<1>3. C = [k \in Keys |-> C[k]]
  BY DEF ContentOf
<1>4. \A k \in Keys : Maps(t, cts, M, k, C[k])
  BY MapsSomething
<1> HIDE DEF C
<1>5. /\ F = [k \in Keys |-> F[k]] /\ F[key] = slot.value
      /\ \A k \in Keys : k # key => F[k] = C[k]
  BY <1>3
<1>6. TableOK(u, new, M)
  OBVIOUS
<1> HIDE DEF F
<1>7. \A c \in 0 .. M - 1 : c # b /\ ~IsEmpty(t[c]) =>
        ~IsEmpty(u[c]) /\ KeyAt(u, new, c) = KeyAt(t, cts, c) /\ u[c].value = t[c].value
  BY <1>1, <1>2 DEF KeyAt
<1>8. \A c \in 0 .. M - 1 : c # b /\ ~IsEmpty(u[c]) =>
        ~IsEmpty(t[c]) /\ KeyAt(u, new, c) = KeyAt(t, cts, c)
  BY <1>1, <1>2 DEF KeyAt
<1>9. KeyAt(u, new, b) = key
  BY <1>1, <1>2 DEF KeyAt
<1>10. ASSUME NEW k \in Keys PROVE Maps(u, new, M, k, F[k])
  <2>1. CASE k = key
    BY <1>1, <1>2, <1>5, <1>9, <2>1 DEF Maps
  <2>2. CASE k # key
    <3>1. CASE \E c \in 0 .. M - 1 : ~IsEmpty(t[c]) /\ KeyAt(t, cts, c) = k /\ t[c].value = C[k]
      <4>1. PICK c \in 0 .. M - 1 : ~IsEmpty(t[c]) /\ KeyAt(t, cts, c) = k /\ t[c].value = C[k]
        BY <3>1
      <4>2. c # b
        BY <1>1, <2>2, <4>1
      <4>3. ~IsEmpty(u[c]) /\ KeyAt(u, new, c) = k /\ u[c].value = F[k]
        BY <1>5, <1>7, <2>2, <4>1, <4>2
      <4> QED
        BY <4>3 DEF Maps
    <3>2. CASE /\ \A c \in 0 .. M - 1 : ~IsEmpty(t[c]) => KeyAt(t, cts, c) # k
               /\ C[k] = NoValue
      <4>1. \A c \in 0 .. M - 1 : ~IsEmpty(u[c]) => KeyAt(u, new, c) # k
        BY <1>8, <1>9, <2>2, <3>2
      <4> QED
        BY <1>5, <2>2, <3>2, <4>1 DEF Maps
    <3> QED
      BY <1>4, <3>1, <3>2 DEF Maps
  <2> QED
    BY <2>1, <2>2
<1>11. ContentOf(u, new) = F
  BY <1>5, <1>6, <1>10, ContentIs
<1> QED
  BY <1>11 DEF F, C

-----------------------------------------------------------------------------
(* The steps as steps of a map.                                            *)

MapStutters == UNCHANGED <<Content, call, pc # "idle", answer>>

LEMMA ContentIsContentOf ==
  Content = ContentOf(table, contents) /\ Content' = ContentOf(table', contents')
  BY DEF Content, ContentOf

LEMMA InitImplements ==
  ASSUME Init
  PROVE  Map!Init
<1>1. PICK table_size \in TableSizes : table = EmptyTable(FirstCapacity(table_size))
  BY DEF Init
<1>2. PICK M \in Nat \ {0} : M = FirstCapacity(table_size)
  BY FirstCapacityFacts
<1>3. TableOK(table, contents, M) /\ \A b \in 0 .. M - 1 : IsEmpty(table[b])
  BY <1>1, <1>2, EmptyTableOK
<1> DEFINE F == [k \in Keys |-> NoValue]
<1>4. \A k \in Keys : Maps(table, contents, M, k, F[k])
  BY <1>3 DEF Maps
<1>5. F = [k \in Keys |-> F[k]]
  OBVIOUS
<1> HIDE DEF F
<1>6. ContentOf(table, contents) = F
  BY <1>3, <1>4, <1>5, ContentIs
<1>7. Content = [k \in Keys |-> NoValue]
  BY <1>6, ContentIsContentOf DEF F
<1> QED
  BY <1>7 DEF Init, Map!Init, Map!Unanswered

LEMMA CallImplements ==
  ASSUME NEW key \in Keys, CallGet(key) \/ CallMutateOrCreate(key)
  PROVE  Map!Next
<1>1. /\ pc = "idle" /\ pc' \in {"probe", "resize"}
      /\ answer' = [old |-> NoValue, new |-> NoValue]
      /\ table' = table /\ contents' = contents
      /\ \E op \in {"mutate_or_create", "get"} : call' = [op |-> op, key |-> key]
  BY DEF CallGet, CallMutateOrCreate, Start, tableVars, arenaVars
<1>2. Content' = Content
  BY <1>1, ContentIsContentOf
<1> QED
  BY <1>1, <1>2 DEF Map!Next, Map!Call, Map!Unanswered

LEMMA SearchImplements ==
  ASSUME SkipEmptySlot \/ ProbeGrown \/ MoveEntry \/ Probe \/ Panic
  PROVE  MapStutters
<1>1. pc # "idle" /\ pc' # "idle" /\ UNCHANGED <<call, answer, table, contents>>
  BY DEF SkipEmptySlot, ProbeGrown, MoveEntry, Probe, Panic, Moving, Probing,
         tableVars, arenaVars
<1>2. Content' = Content
  BY <1>1, ContentIsContentOf
<1> QED
  BY <1>1, <1>2 DEF MapStutters

LEMMA EndResizeImplements ==
  ASSUME HashMapInv, EndResize
  PROVE  MapStutters
<1>1. /\ pc = "resize" /\ pc' = "probe" /\ table' = grown /\ from = Capacity
      /\ UNCHANGED <<call, answer, contents>>
  BY DEF EndResize, arenaVars
<1>2. ResizeOK(table, grown, contents, mask + 1, mask + 1, bucket)
      /\ TableOK(table, contents, mask + 1)
  BY <1>1, GrownFacts, TableFacts DEF HashMapInv
<1>3. ContentOf(grown, contents) = ContentOf(table, contents)
  BY <1>2, ResizedContent
<1>4. Content' = Content
  BY <1>1, <1>3, ContentIsContentOf
<1> QED
  BY <1>1, <1>4 DEF MapStutters

\* What a lookup that ends has found.
LEMMA FoundContent ==
  ASSUME HashMapInv, pc = "probe"
  PROVE  /\ IsEmpty(table[bucket]) => Content[SearchKey] = NoValue
         /\ ~IsEmpty(table[bucket]) /\ KeyMatches(table[bucket], SearchKey) =>
              /\ KeyAt(table, contents, bucket) = SearchKey
              /\ Content[SearchKey] = table[bucket].value
<1>1. /\ Searched(table, contents, mask + 1, SearchKey, bucket) /\ bucket \in 0 .. mask
      /\ TableOK(table, contents, mask + 1) /\ SearchKey \in Keys
      /\ bucket \in 0 .. (mask + 1) - 1
  BY ProbeInTable, SearchKeyFacts, TableFacts DEF HashMapInv
<1>2. ASSUME IsEmpty(table[bucket]) PROVE Content[SearchKey] = NoValue
  <2>1. \A c \in 0 .. (mask + 1) - 1 : ~IsEmpty(table[c]) => KeyAt(table, contents, c) # SearchKey
    BY <1>1, <1>2, SearchEndsAtEmpty
  <2>2. Maps(table, contents, mask + 1, SearchKey, NoValue)
    BY <2>1 DEF Maps
  <2> QED
    BY <1>1, <2>2, ContentMaps, ContentIsContentOf
<1>3. ASSUME ~IsEmpty(table[bucket]), KeyMatches(table[bucket], SearchKey)
      PROVE  /\ KeyAt(table, contents, bucket) = SearchKey
             /\ Content[SearchKey] = table[bucket].value
  <2>1. KeyAt(table, contents, bucket) = SearchKey
    BY <1>1, <1>3, MatchIsKey
  <2>2. Maps(table, contents, mask + 1, SearchKey, table[bucket].value)
    BY <1>1, <1>3, <2>1 DEF Maps
  <2> QED
    BY <1>1, <2>1, <2>2, ContentMaps, ContentIsContentOf
<1> QED
  BY <1>2, <1>3

LEMMA GetImplements ==
  ASSUME HashMapInv, GetAbsent \/ GetFound
  PROVE  Map!Next
<1>1. /\ pc = "probe" /\ pc' = "idle" /\ call.op = "get"
      /\ UNCHANGED <<call, table, contents>>
  BY DEF GetAbsent, GetFound, Return, Probing, arenaVars
<1>2. SearchKey = call.key
  BY <1>1 DEF SearchKey
<1>3. answer' = [old |-> Content[SearchKey], new |-> Content[SearchKey]]
  BY <1>1, FoundContent DEF GetAbsent, GetFound, Return
<1>4. Content' = Content
  BY <1>1, ContentIsContentOf
<1>5. Map!Get
  BY <1>1, <1>2, <1>3, <1>4 DEF Map!Get
<1> QED
  BY <1>5 DEF Map!Next

\* An update of the key that is stored is an update of the map.
LEMMA UpdateImplements ==
  ASSUME HashMapInv, pc = "probe", pc' = "idle", call.op = "mutate_or_create",
         call' = call, NEW value \in Values,
         answer' = [old |-> Content[SearchKey], new |-> value],
         Content' = [Content EXCEPT ![SearchKey] = value]
  PROVE  Map!Next
<1>1. call.key \in Keys /\ SearchKey = Capped(call.key)
  BY SearchKeyFacts DEF HashMapInv, CallOK
<1>2. [k \in Keys |-> Capped(k)][call.key] = SearchKey
  BY <1>1
<1>3. Map!Update(value)
  BY <1>2 DEF Map!Update
<1> QED
  BY <1>3 DEF Map!Next

LEMMA MutateFoundImplements ==
  ASSUME HashMapInv, HashMapInv', NEW value \in Values, MutateFound(value)
  PROVE  Map!Next
<1>1. /\ pc = "probe" /\ pc' = "idle" /\ call.op = "mutate_or_create" /\ call' = call
      /\ ~IsEmpty(table[bucket]) /\ KeyMatches(table[bucket], SearchKey)
      /\ table' = [table EXCEPT ![bucket].value = value]
      /\ answer' = [old |-> table[bucket].value, new |-> value]
      /\ contents' = contents /\ mask' = mask
  BY DEF MutateFound, Return, Probing, arenaVars
<1>2. KeyAt(table, contents, bucket) = SearchKey /\ Content[SearchKey] = table[bucket].value
  BY <1>1, FoundContent
<1>3. SearchKey \in Keys /\ bucket \in 0 .. (mask + 1) - 1
  BY <1>1, SearchKeyFacts, ProbeInTable, TableFacts
<1>4. PICK slot : slot = [table[bucket] EXCEPT !.value = value]
  OBVIOUS
<1>5. /\ TableOK(table, contents, mask + 1) /\ table[bucket] \in Slots
      /\ TableOK(table', contents, mask + 1)
  <2>1. TableOK(table, contents, mask + 1)'
    BY DEF HashMapInv
  <2> QED
    BY <1>1, <1>3, <2>1 DEF HashMapInv, TableOK, TableTyped
<1>6. /\ slot.key_addr = table[bucket].key_addr /\ slot.value = value /\ ~IsEmpty(slot)
      /\ table' = [table EXCEPT ![bucket] = slot]
  BY <1>1, <1>4, <1>5 DEF Slots, IsEmpty
<1>7. /\ contents[slot.key_addr] = SearchKey
      /\ \A c \in 0 .. (mask + 1) - 1 :
           ~IsEmpty(table[c]) /\ KeyAt(table, contents, c) = SearchKey => c = bucket
  BY <1>1, <1>2, <1>3, <1>5, <1>6 DEF TableOK, TableTyped, OneEntryEach, IsEntry, KeyAt
<1>8. Updates(table, contents, table', contents, mask + 1, bucket, slot, SearchKey)
  BY <1>2, <1>3, <1>5, <1>6, <1>7 DEF Updates, TableOK, TableTyped
<1>9. ContentOf(table', contents)
        = [ContentOf(table, contents) EXCEPT ![SearchKey] = slot.value]
  BY <1>3, <1>5, <1>8, UpdatedContent
<1>10. Content' = [Content EXCEPT ![SearchKey] = value]
  BY <1>1, <1>6, <1>9, ContentIsContentOf
<1> QED
  BY <1>1, <1>2, <1>10, UpdateImplements

LEMMA CreateImplements ==
  ASSUME HashMapInv, HashMapInv', NEW value \in Values, Create(value)
  PROVE  Map!Next
<1>1. /\ pc = "probe" /\ pc' = "idle" /\ call.op = "mutate_or_create" /\ call' = call
      /\ answer' = [old |-> NoValue, new |-> value] /\ IsEmpty(table[bucket])
      /\ mask' = mask
  BY DEF Create, Return, Probing
<1>2. /\ bucket \in 0 .. mask /\ Keeps(contents, contents')
      /\ \A b \in 0 .. mask : ~IsEmpty(table[b]) => KeyAt(table, contents, b) # SearchKey
  BY CreateFacts
<1>3. PICK slot \in Slots : /\ table' = [table EXCEPT ![bucket] = slot]
                            /\ IsEntry(slot, contents') /\ slot.value = value
                            /\ contents'[slot.key_addr] = SearchKey
  BY CreateFacts
<1>4. SearchKey \in Keys /\ Content[SearchKey] = NoValue
  BY <1>1, SearchKeyFacts, FoundContent
<1>5. /\ bucket \in 0 .. (mask + 1) - 1
      /\ \A b \in 0 .. (mask + 1) - 1 :
           ~IsEmpty(table[b]) /\ KeyAt(table, contents, b) = SearchKey => b = bucket
  BY <1>2, TableFacts
<1>6. TableOK(table, contents, mask + 1)
      /\ TableOK(table', contents', mask + 1)
  <2>1. TableOK(table, contents, mask + 1)'
    BY DEF HashMapInv
  <2> QED
    BY <1>1, <1>3, <2>1 DEF HashMapInv
<1>7. \A c \in 0 .. (mask + 1) - 1 : ~IsEmpty(table[c]) =>
        contents'[table[c].key_addr] = contents[table[c].key_addr]
  BY <1>2, <1>6 DEF TableOK, TableTyped, IsEntry, Keeps
<1>8. Updates(table, contents, table', contents', mask + 1, bucket, slot, SearchKey)
  BY <1>1, <1>3, <1>5, <1>6, <1>7 DEF Updates, TableOK, TableTyped, IsEntry
<1>9. ContentOf(table', contents')
        = [ContentOf(table, contents) EXCEPT ![SearchKey] = slot.value]
  BY <1>4, <1>6, <1>8, UpdatedContent
<1>10. Content' = [Content EXCEPT ![SearchKey] = value]
  BY <1>3, <1>9, ContentIsContentOf
<1> QED
  BY <1>1, <1>4, <1>10, UpdateImplements

LEMMA NextImplements ==
  ASSUME HashMapInv, HashMapInv', [Next]_vars
  PROVE  Map!Next \/ MapStutters
<1>1. ASSUME UNCHANGED vars PROVE MapStutters
  <2>1. UNCHANGED <<table, contents, call, pc, answer>>
    BY <1>1 DEF vars, tableVars, arenaVars
  <2>2. Content' = Content
    BY <2>1, ContentIsContentOf
  <2> QED
    BY <2>1, <2>2 DEF MapStutters
<1>2. ASSUME NEW key \in Keys, CallGet(key) \/ CallMutateOrCreate(key) PROVE Map!Next
  BY <1>2, CallImplements
<1>3. CASE Work
  <2>1. ASSUME NEW value \in Values, MutateFound(value) \/ Create(value) PROVE Map!Next
    BY <2>1, MutateFoundImplements, CreateImplements
  <2> QED
    BY <1>3, <2>1, SearchImplements, EndResizeImplements, GetImplements DEF Work
<1> QED
  BY <1>1, <1>2, <1>3 DEF Next, Panicked

(* Whatever the hashes of the keys, the sizes of the table and the pages:  *)
(* every call of the hash map is answered as a map answers it.             *)
THEOREM HashMapIsMap == Spec => ImplementsMap
<1>1. HashMapInv /\ HashMapInv' /\ [Next]_vars
        => [Map!Next]_<<Content, call, pc # "idle", answer>>
  BY NextImplements DEF MapStutters
<1>2. Init => Map!Init
  BY InitImplements
<1> QED
  BY <1>1, <1>2, HashMapInvariant, PTL DEF Spec, ImplementsMap, Map!Spec

-----------------------------------------------------------------------------
(* Counting the entries.                                                   *)

\* The entries that a resize has moved.
Moved(t, n) == {b \in Occupied(t) : b < n}

CountInv ==
  /\ len \in Nat /\ len = Cardinality(Occupied(table))
  /\ 2 * len <= mask + 2
  /\ pc = "probe" /\ call.op = "mutate_or_create" => 2 * len < mask + 1
  /\ pc = "resize" => Cardinality(Occupied(grown)) = Cardinality(Moved(table, from))

LEMMA FiniteTable ==
  ASSUME NEW t, NEW M \in Nat \ {0}, DOMAIN t = 0 .. M - 1
  PROVE  /\ IsFiniteSet(Occupied(t)) /\ Cardinality(Occupied(t)) \in Nat
         /\ \A n : /\ IsFiniteSet(Moved(t, n)) /\ Cardinality(Moved(t, n)) \in Nat
                   /\ Cardinality(Moved(t, n)) <= Cardinality(Occupied(t))
<1>1. IsFiniteSet(0 .. M - 1)
  BY FS_Interval
<1>2. IsFiniteSet(Occupied(t))
  BY <1>1, FS_Subset DEF Occupied
<1>3. \A n : Moved(t, n) \subseteq Occupied(t)
  BY DEF Moved
<1> QED
  BY <1>2, <1>3, FS_Subset, FS_CardinalityType

LEMMA OneMore ==
  ASSUME NEW t, NEW u, NEW b, b \in DOMAIN t, DOMAIN u = DOMAIN t,
         IsEmpty(t[b]), ~IsEmpty(u[b]), \A c \in DOMAIN t : c # b => u[c] = t[c],
         IsFiniteSet(Occupied(t))
  PROVE  Cardinality(Occupied(u)) = Cardinality(Occupied(t)) + 1
<1>1. Occupied(u) = Occupied(t) \cup {b} /\ b \notin Occupied(t)
  BY DEF Occupied
<1> QED
  BY <1>1, FS_AddElement

LEMMA InitCount ==
  ASSUME Init
  PROVE  CountInv
<1>1. \E M \in Nat \ {0} : table = EmptyTable(M)
  BY FirstCapacityFacts DEF Init
<1>2. Occupied(table) = {}
  BY <1>1, EmptyFacts DEF Occupied, EmptyTable
<1>3. mask \in Nat
  BY InitInv DEF HashMapInv
<1> QED
  BY <1>2, <1>3, FS_EmptySet DEF Init, CountInv

LEMMA CallCount ==
  ASSUME HashMapInv, CountInv, NEW key \in Keys, CallGet(key) \/ CallMutateOrCreate(key)
  PROVE  CountInv'
<1>1. UNCHANGED <<table, mask, len>> /\ pc' \in {"probe", "resize"}
  BY DEF CallGet, CallMutateOrCreate, tableVars
<1>2. pc' = "probe" /\ call'.op = "mutate_or_create" => 2 * len < mask + 1
  <2>1. CASE CallGet(key)
    BY <2>1 DEF CallGet, Start
  <2>2. CASE CallMutateOrCreate(key)
    <3>1. pc' = "probe" => ~IsSaturated(Capacity)
      BY <2>2 DEF CallMutateOrCreate
    <3> QED
      BY <3>1, TableFacts DEF IsSaturated, CountInv, HashMapInv
  <2> QED
    BY <2>1, <2>2
<1>3. pc' = "resize" => Cardinality(Occupied(grown')) = Cardinality(Moved(table', from'))
  <2> SUFFICES ASSUME pc' = "resize"
               PROVE  Occupied(grown') = {} /\ Moved(table', from') = {}
    OBVIOUS
  <2>1. grown' = EmptyTable(NewLen) /\ from' = 0
    BY DEF CallGet, CallMutateOrCreate
  <2>2. Occupied(grown') = {}
    BY <2>1, EmptyFacts DEF Occupied, EmptyTable
  <2>3. \A b \in Occupied(table) : ~(b < 0)
    BY TableFacts DEF Occupied
  <2> QED
    BY <1>1, <2>1, <2>2, <2>3 DEF Moved
<1>4. Occupied(table') = Occupied(table)
  BY <1>1
<1> QED
  BY <1>1, <1>2, <1>3, <1>4 DEF CountInv

LEMMA ResizeCount ==
  ASSUME HashMapInv, CountInv, SkipEmptySlot \/ ProbeGrown \/ MoveEntry
  PROVE  CountInv'
<1>1. /\ pc = "resize" /\ pc' = "resize" /\ UNCHANGED <<table, mask, len>>
      /\ from < mask + 1
  BY TableFacts DEF SkipEmptySlot, ProbeGrown, MoveEntry, Moving, tableVars
<1>2. /\ from \in 0 .. mask + 1 /\ from \in 0 .. mask /\ from \in Nat
      /\ DOMAIN table = 0 .. mask /\ DOMAIN table = 0 .. (mask + 1) - 1
      /\ mask + 1 \in Nat \ {0}
  BY <1>1, GrownFacts, TableFacts DEF HashMapInv
<1>3. Cardinality(Occupied(grown)) = Cardinality(Moved(table, from))
  BY <1>1 DEF CountInv
<1>4. Cardinality(Occupied(grown')) = Cardinality(Moved(table, from'))
  <2>1. CASE SkipEmptySlot
    <3>1. grown' = grown /\ from' = from + 1 /\ IsEmpty(table[from])
      BY <2>1 DEF SkipEmptySlot, AdvanceFrom
    <3>2. \A b \in Occupied(table) : b < from + 1 <=> b < from
      BY <1>2, <3>1 DEF Occupied
    <3>3. Moved(table, from + 1) = Moved(table, from)
      BY <3>2 DEF Moved
    <3> QED
      BY <1>3, <3>1, <3>3
  <2>2. CASE ProbeGrown
    BY <1>3, <2>2 DEF ProbeGrown, resizeVars
  <2>3. CASE MoveEntry
    <3>1. /\ grown' = [grown EXCEPT ![bucket] = table[from]] /\ from' = from + 1
          /\ ~IsEmpty(table[from]) /\ IsEmpty(grown[bucket])
      BY <2>3 DEF MoveEntry, AdvanceFrom
    <3>2. /\ bucket \in 0 .. Enlarged(mask + 1) - 1
          /\ DOMAIN grown = 0 .. Enlarged(mask + 1) - 1
          /\ Enlarged(mask + 1) \in Nat \ {0}
      BY <1>1, GrownFacts DEF ResizeOK, TableOK, TableTyped
    <3>3. IsFiniteSet(Occupied(grown))
      BY <3>2, FiniteTable
    <3>4. Cardinality(Occupied(grown')) = Cardinality(Occupied(grown)) + 1
      BY <3>1, <3>2, <3>3, OneMore
    <3>5. Moved(table, from + 1) = Moved(table, from) \cup {from} /\ from \notin Moved(table, from)
      <4>1. from \in Occupied(table)
        BY <1>2, <3>1 DEF Occupied
      <4>2. \A b \in Occupied(table) : b < from + 1 <=> b < from \/ b = from
        BY <1>2 DEF Occupied
      <4>3. ~(from < from) /\ from < from + 1
        BY <1>2
      <4> QED
        BY <4>1, <4>2, <4>3 DEF Moved
    <3>6. IsFiniteSet(Moved(table, from))
      BY <1>2, FiniteTable
    <3>7. Cardinality(Moved(table, from + 1)) = Cardinality(Moved(table, from)) + 1
      BY <3>5, <3>6, FS_AddElement
    <3> QED
      BY <1>3, <3>1, <3>4, <3>7
  <2> QED
    BY <2>1, <2>2, <2>3
<1>5. Occupied(table') = Occupied(table) /\ Moved(table', from') = Moved(table, from')
  BY <1>1
<1> QED
  BY <1>1, <1>4, <1>5 DEF CountInv

LEMMA EndResizeCount ==
  ASSUME HashMapInv, CountInv, EndResize
  PROVE  CountInv'
<1>1. /\ pc = "resize" /\ pc' = "probe" /\ from = Capacity /\ len' = len
      /\ table' = grown /\ mask' = SizeOf(grown) - 1
  BY DEF EndResize, MaskAfterResize
<1>2. /\ from = mask + 1 /\ mask \in Nat /\ SizeOf(grown) = Enlarged(mask + 1)
      /\ DOMAIN table = 0 .. mask
  BY <1>1, TableFacts, GrownFacts DEF HashMapInv
<1>3. \A b \in Occupied(table) : b < mask + 1
  BY <1>2 DEF Occupied
<1>4. Moved(table, from) = Occupied(table)
  BY <1>2, <1>3 DEF Moved
<1>5. len' = Cardinality(Occupied(table')) /\ len' \in Nat
  BY <1>1, <1>4 DEF CountInv
<1>6. PICK m \in Nat, l \in Nat : m = mask /\ l = len
  BY <1>2 DEF CountInv
<1>7. 2 * l < Enlarged(m + 1)
  BY <1>6 DEF CountInv, Enlarged
<1>8. Enlarged(m + 1) \in Nat
  BY <1>6 DEF Enlarged
<1>9. 2 * len' < mask' + 1 /\ 2 * len' <= mask' + 2
  BY <1>1, <1>2, <1>6, <1>7, <1>8
<1> QED
  BY <1>1, <1>5, <1>9 DEF CountInv

LEMMA SearchCount ==
  ASSUME HashMapInv, CountInv, Probe \/ GetAbsent \/ GetFound \/ Panic
  PROVE  CountInv'
<1>1. pc = "probe" /\ pc' # "resize" /\ UNCHANGED <<table, mask, len, call>>
  BY DEF Probe, GetAbsent, GetFound, Panic, Return, Probing, tableVars
<1>2. Occupied(table') = Occupied(table)
  BY <1>1
<1> QED
  BY <1>1, <1>2 DEF CountInv

LEMMA MutateFoundCount ==
  ASSUME HashMapInv, CountInv, NEW value \in Values, MutateFound(value)
  PROVE  CountInv'
<1>1. /\ pc = "probe" /\ pc' = "idle" /\ ~IsEmpty(table[bucket])
      /\ table' = [table EXCEPT ![bucket].value = value]
      /\ UNCHANGED <<mask, len, call>>
  BY DEF MutateFound, Return, Probing
<1>2. table \in [0 .. mask -> Slots] /\ bucket \in 0 .. mask
  BY <1>1, TableFacts, ProbeInTable
<1>3. /\ DOMAIN table' = 0 .. mask
      /\ \A b \in 0 .. mask : table'[b].key_addr = table[b].key_addr
  BY <1>1, <1>2 DEF Slots
<1>4. Occupied(table') = Occupied(table)
  BY <1>2, <1>3 DEF Occupied, IsEmpty
<1> QED
  BY <1>1, <1>4 DEF CountInv

LEMMA CreateCount ==
  ASSUME HashMapInv, CountInv, NEW value \in Values, Create(value)
  PROVE  CountInv'
<1>1. /\ pc = "probe" /\ pc' = "idle" /\ call.op = "mutate_or_create"
      /\ len' = len + 1 /\ mask' = mask
  BY DEF Create, Return, Probing, LenAfterCreate
<1>2. bucket \in 0 .. mask /\ IsEmpty(table[bucket])
  BY CreateFacts
<1>3. PICK slot : table' = [table EXCEPT ![bucket] = slot] /\ ~IsEmpty(slot)
  BY CreateFacts DEF IsEntry
<1>4. DOMAIN table = 0 .. mask /\ DOMAIN table = 0 .. (mask + 1) - 1 /\ mask + 1 \in Nat \ {0}
  BY TableFacts
<1>5. /\ DOMAIN table' = DOMAIN table /\ ~IsEmpty(table'[bucket])
      /\ \A c \in DOMAIN table : c # bucket => table'[c] = table[c]
  BY <1>2, <1>3, <1>4
<1>6. IsFiniteSet(Occupied(table))
  BY <1>4, FiniteTable
<1>7. Cardinality(Occupied(table')) = Cardinality(Occupied(table)) + 1
  BY <1>2, <1>4, <1>5, <1>6, OneMore
<1>8. len \in Nat /\ mask \in Nat /\ 2 * len < mask + 1 /\ len = Cardinality(Occupied(table))
  BY <1>1 DEF CountInv, HashMapInv
<1>9. len + 1 \in Nat /\ 2 * (len + 1) <= mask + 2
  BY <1>8
<1> QED
  BY <1>1, <1>7, <1>8, <1>9 DEF CountInv

LEMMA NextCount ==
  ASSUME HashMapInv, CountInv, [Next]_vars
  PROVE  CountInv'
<1>1. ASSUME UNCHANGED vars PROVE CountInv'
  BY <1>1 DEF CountInv, vars, tableVars, resizeVars
<1>2. ASSUME NEW key \in Keys, CallGet(key) \/ CallMutateOrCreate(key) PROVE CountInv'
  BY <1>2, CallCount
<1>3. CASE Work
  <2>1. ASSUME NEW value \in Values, MutateFound(value) \/ Create(value) PROVE CountInv'
    BY <2>1, MutateFoundCount, CreateCount
  <2> QED
    BY <1>3, <2>1, ResizeCount, EndResizeCount, SearchCount DEF Work
<1> QED
  BY <1>1, <1>2, <1>3 DEF Next, Panicked

\* Tables only grow.
TwoSlots == mask >= 1

LEMMA StaysRoomy ==
  ASSUME HashMapInv, TwoSlots, [Next]_vars
  PROVE  TwoSlots'
<1>1. CASE EndResize
  <2>1. mask' = Enlarged(mask + 1) - 1 /\ mask + 1 \in Nat \ {0}
    BY <1>1, TableFacts, GrownFacts DEF EndResize, MaskAfterResize
  <2>2. Enlarged(mask + 1) \in Nat /\ Enlarged(mask + 1) >= 8
    BY <2>1, EnlargedFacts
  <2>3. Enlarged(mask + 1) - 1 >= 1
    BY <2>2
  <2> QED
    BY <2>1, <2>3 DEF TwoSlots
<1>2. CASE ~EndResize
  <2>1. mask' = mask
    BY <1>2 DEF Next, Work, CallGet, CallMutateOrCreate, SkipEmptySlot, ProbeGrown,
                MoveEntry, Probe, GetAbsent, GetFound, MutateFound, Create, Panic,
                Panicked, Return, vars, tableVars
  <2> QED
    BY <2>1 DEF TwoSlots
<1> QED
  BY <1>1, <1>2

(* len counts the entries, no key has two, and in a table of two slots or  *)
(* more a bucket is left at which every loop of probes ends, whatever the  *)
(* hashes.  (In a table of one slot there is none: LookupsReturn.)         *)
THEOREM EntriesStayCounted ==
  ASSUME \A table_size \in TableSizes : FirstCapacity(table_size) >= 2
  PROVE  Spec => []EntriesCounted
<1>1. Init => CountInv /\ TwoSlots
  <2> SUFFICES ASSUME Init PROVE TwoSlots
    BY InitCount
  <2>1. PICK table_size \in TableSizes : table = EmptyTable(FirstCapacity(table_size))
    BY DEF Init
  <2>2. PICK M \in Nat \ {0} : M = FirstCapacity(table_size) /\ M >= 2
    BY FirstCapacityFacts
  <2>3. DOMAIN table = 0 .. M - 1
    BY <2>1, <2>2 DEF EmptyTable
  <2>4. mask = M - 1
    BY <2>2, <2>3, TableSize DEF Init
  <2> QED
    BY <2>2, <2>4 DEF TwoSlots
<1>2. HashMapInv /\ CountInv /\ TwoSlots /\ [Next]_vars => CountInv' /\ TwoSlots'
  BY NextCount, StaysRoomy
<1>3. ASSUME HashMapInv, CountInv, TwoSlots PROVE EntriesCounted
  <2>1. \A b, c \in Occupied(table) :
          contents[table[b].key_addr] = contents[table[c].key_addr] => b = c
    <3>1. \A b \in Occupied(table) : b \in 0 .. (mask + 1) - 1 /\ ~IsEmpty(table[b])
      BY <1>3, TableFacts DEF Occupied
    <3> QED
      BY <1>3, <3>1 DEF HashMapInv, TableOK, OneEntryEach, KeyAt
  <2>2. mask \in Nat /\ len \in Nat /\ mask >= 1 /\ 2 * len <= mask + 2 /\ len < mask + 1
    BY <1>3 DEF HashMapInv, CountInv, TwoSlots
  <2>3. len < Capacity
    BY <1>3, <2>2, TableFacts
  <2>4. ASSUME pc = "resize" PROVE Cardinality(Occupied(grown)) < SizeOf(grown)
    <3>1. /\ Cardinality(Occupied(grown)) = Cardinality(Moved(table, from))
          /\ len = Cardinality(Occupied(table))
      BY <1>3, <2>4 DEF CountInv
    <3>2. /\ Cardinality(Moved(table, from)) <= len
          /\ Cardinality(Moved(table, from)) \in Nat
      BY <1>3, <3>1, TableFacts, FiniteTable
    <3>3. SizeOf(grown) = Enlarged(mask + 1) /\ Enlarged(mask + 1) \in Nat
          /\ Enlarged(mask + 1) >= 2 * (mask + 1)
      BY <1>3, <2>2, <2>4, GrownFacts, TableFacts, EnlargedFacts
    <3>4. Cardinality(Moved(table, from)) < Enlarged(mask + 1)
      BY <2>2, <3>2, <3>3
    <3> QED
      BY <3>1, <3>3, <3>4
  <2>5. len = Cardinality(Occupied(table))
    BY <1>3 DEF CountInv
  <2> QED
    BY <2>1, <2>3, <2>4, <2>5 DEF EntriesCounted
<1> QED
  BY <1>1, <1>2, <1>3, HashMapInvariant, PTL DEF Spec
-----------------------------------------------------------------------------
(* The types of the variables: sizes of tables stay powers of two, which is *)
(* what lets `& mask` stand for a modulus.                                  *)

LEMMA DoubledPower ==
  ASSUME NEW n, IsPowerOfTwo(n)
  PROVE  IsPowerOfTwo(2 * n)
<1>1. n \in Nat \ {0} /\ 2 * n \in Nat \ {0}
  BY DEF IsPowerOfTwo
<1>2. ASSUME NEW d \in 1 .. 2 * n, (2 * n) % d = 0, d % 2 # 0
      PROVE  d = 1
  <2>1. PICK q \in Nat : 2 * n = d * q
    <3>1. d \in Nat \ {0}
      BY <1>1
    <3>2. 2 * n = d * ((2 * n) \div d) + ((2 * n) % d)
      BY <1>1, <3>1
    <3>3. (2 * n) \div d \in Nat
      BY <1>1, <3>1
    <3> QED
      BY <1>1, <1>2, <3>1, <3>2, <3>3
  <2>2. PICK e \in Nat : d = 2 * e + 1
    <3>1. d \in Nat /\ d % 2 \in {0, 1} /\ d = 2 * (d \div 2) + (d % 2) /\ d \div 2 \in Nat
      BY <1>1
    <3> QED
      BY <1>2, <3>1
  <2>3. PICK r \in Nat : q = 2 * r /\ n = d * r
    <3>1. e * q \in Nat /\ d * q = 2 * (e * q) + q
      BY <2>2
    <3>2. PICK x \in Nat : x = e * q
      BY <3>1
    <3>3. q = 2 * (n - x) /\ n - x \in Nat
      BY <1>1, <2>1, <3>1, <3>2
    <3>4. d * q = 2 * (d * (n - x))
      BY <1>1, <2>2, <3>3, Z3
    <3>5. d * (n - x) \in Nat
      BY <2>2, <3>3
    <3>6. n = d * (n - x)
      BY <1>1, <2>1, <3>4, <3>5
    <3> QED
      BY <3>3, <3>6
  <2>4. n % d = 0 /\ d \in 1 .. n
    <3>1. d \in Nat \ {0} /\ r \in Nat \ {0}
      BY <1>1, <2>3
    <3>2. d <= d * r
      BY <3>1, Z3
    <3>3. (d * r) % d = 0
      BY <3>1, Z3
    <3> QED
      BY <1>1, <2>3, <3>1, <3>2, <3>3
  <2> QED
    BY <1>2, <2>4 DEF IsPowerOfTwo
<1> QED
  BY <1>1, <1>2 DEF IsPowerOfTwo

LEMMA EnlargedPower ==
  ASSUME NEW M, IsPowerOfTwo(M)
  PROVE  IsPowerOfTwo(Enlarged(M))
<1>1. IsPowerOfTwo(8)
  BY DEF IsPowerOfTwo
<1>2. M \in Nat /\ M * 2 = 2 * M
  BY DEF IsPowerOfTwo
<1> QED
  BY <1>1, <1>2, DoubledPower DEF Enlarged

\* What the invariant does not say of the variables.
SizesOK ==
  /\ IsPowerOfTwo(mask + 1)
  /\ from \in 0 .. mask + 1
  /\ bucket \in Nat
  /\ len \in Nat
  /\ contents = [a \in DOMAIN contents |-> contents[a]]

LEMMA FirstProbeNat ==
  ASSUME NEW h \in Nat, NEW m \in Nat
  PROVE  FirstProbe(h, m) \in Nat
  BY DEF FirstProbe

LEMMA NextProbeNat ==
  ASSUME NEW b \in Nat, NEW m \in Nat
  PROVE  NextProbe(b, m) \in Nat
  BY DEF NextProbe

LEMMA InitSizes ==
  ASSUME Init
  PROVE  SizesOK
<1>1. PICK table_size \in TableSizes : table = EmptyTable(FirstCapacity(table_size))
  BY DEF Init
<1>2. PICK M \in Nat \ {0} : M = FirstCapacity(table_size) /\ IsPowerOfTwo(M)
  BY FirstCapacityAssumption DEF IsPowerOfTwo
<1>3. DOMAIN table = 0 .. M - 1
  BY <1>1, <1>2 DEF EmptyTable
<1>4. mask = M - 1
  BY <1>2, <1>3, TableSize DEF Init
<1>5. mask + 1 = M
  BY <1>2, <1>4
<1>6. contents = [a \in DOMAIN contents |-> contents[a]]
  BY DEF Init
<1> QED
  BY <1>2, <1>5, <1>6 DEF Init, SizesOK

LEMMA CallSizes ==
  ASSUME HashMapInv, SizesOK, NEW key \in Keys, CallGet(key) \/ CallMutateOrCreate(key)
  PROVE  SizesOK'
<1>1. UNCHANGED <<mask, len, contents>> /\ mask \in Nat
  BY DEF CallGet, CallMutateOrCreate, tableVars, arenaVars, HashMapInv
<1>2. from' \in 0 .. mask + 1
  BY <1>1 DEF CallGet, CallMutateOrCreate, resizeVars, SizesOK
<1>3. bucket' \in Nat
  <2>1. CASE bucket' = FirstProbe(table[0].hash, NewLen - 1)
    <3>1. table[0] \in Slots /\ table[0].hash \in Nat
      BY <1>1, TableFacts DEF Slots
    <3>2. NewLen - 1 \in Nat
      <4>1. PICK M \in Nat \ {0} : NewLen = Enlarged(M)
        BY TableFacts
      <4> QED
        BY <4>1, EnlargedFacts
    <3> QED
      BY <2>1, <3>1, <3>2, FirstProbeNat
  <2>2. CASE \E k \in Keys : bucket' = FirstProbe(Hash[k], mask)
    BY <1>1, <2>2, HashFacts, FirstProbeNat
  <2> QED
    BY <2>1, <2>2, HashFacts DEF CallGet, CallMutateOrCreate
<1> QED
  BY <1>1, <1>2, <1>3 DEF SizesOK

LEMMA ResizeSizes ==
  ASSUME HashMapInv, SizesOK, SkipEmptySlot \/ ProbeGrown \/ MoveEntry
  PROVE  SizesOK'
<1>1. /\ pc = "resize" /\ from < Capacity /\ mask \in Nat
      /\ UNCHANGED <<table, mask, len, contents>>
  BY DEF SkipEmptySlot, ProbeGrown, MoveEntry, Moving, tableVars, arenaVars, HashMapInv
<1>2. SizeOf(grown) - 1 \in Nat
  BY <1>1, GrownFacts
<1>3. CASE ProbeGrown
  <2>1. from' = from /\ bucket' = NextProbe(bucket, SizeOf(grown) - 1)
    BY <1>3 DEF ProbeGrown, resizeVars
  <2> QED
    BY <1>1, <1>2, <2>1, NextProbeNat DEF SizesOK
<1>4. CASE SkipEmptySlot \/ MoveEntry
  <2>1. AdvanceFrom /\ Moving
    BY <1>4 DEF SkipEmptySlot, MoveEntry
  <2>2. from' \in 0 .. mask + 1 /\ from' = from + 1
    BY <1>1, <2>1, TableFacts DEF AdvanceFrom, SizesOK
  <2>3. CASE from' < Capacity
    <3>1. from' \in 0 .. mask
      BY <1>1, <2>2, <2>3, TableFacts
    <3>2. table[from'] \in Slots
      BY <3>1, TableFacts
    <3>3. table[from'].hash \in Nat
      BY <3>2 DEF Slots
    <3>4. bucket' = FirstProbe(table'[from'].hash, SizeOf(grown) - 1)
          \/ bucket' = FirstProbe(table[from'].hash, SizeOf(grown) - 1)
      BY <2>1, <2>3 DEF AdvanceFrom
    <3> QED
      BY <1>1, <1>2, <2>2, <3>3, <3>4, FirstProbeNat DEF SizesOK
  <2>4. CASE ~(from' < Capacity)
    BY <1>1, <2>1, <2>2, <2>4 DEF AdvanceFrom, SizesOK
  <2> QED
    BY <2>3, <2>4
<1> QED
  BY <1>3, <1>4

LEMMA EndResizeSizes ==
  ASSUME HashMapInv, SizesOK, EndResize
  PROVE  SizesOK'
<1>1. /\ pc = "resize" /\ mask' = SizeOf(grown) - 1
      /\ bucket' = FirstProbe(Hash[SearchKey], mask')
      /\ UNCHANGED <<len, contents, from>>
  BY DEF EndResize, MaskAfterResize, arenaVars
<1>2. PICK M \in Nat \ {0} : M = mask + 1
  BY TableFacts
<1>3. Enlarged(M) \in Nat /\ Enlarged(M) >= 2 * M /\ mask' = Enlarged(M) - 1
  BY <1>1, <1>2, GrownFacts, EnlargedFacts
<1>4. mask' \in Nat /\ mask' + 1 = Enlarged(M)
  BY <1>2, <1>3
<1>5. IsPowerOfTwo(mask' + 1)
  BY <1>2, <1>4, EnlargedPower DEF SizesOK
<1>6. from' \in 0 .. mask' + 1
  BY <1>1, <1>2, <1>3, <1>4 DEF SizesOK
<1>7. bucket' \in Nat
  BY <1>1, <1>4, SearchKeyFacts, HashFacts, FirstProbeNat
<1> QED
  BY <1>1, <1>5, <1>6, <1>7 DEF SizesOK

LEMMA SearchSizes ==
  ASSUME HashMapInv, SizesOK,
         \/ Probe \/ GetAbsent \/ GetFound \/ Panic
         \/ \E value \in Values : MutateFound(value) \/ Create(value)
  PROVE  SizesOK'
<1>1. mask \in Nat /\ UNCHANGED <<mask, from>>
  BY DEF Probe, GetAbsent, GetFound, Panic, MutateFound, Create, Return, tableVars,
         resizeVars, HashMapInv
<1>2. bucket' \in Nat
  <2>1. bucket' = bucket \/ bucket' = NextProbe(bucket, mask)
    BY DEF Probe, GetAbsent, GetFound, Panic, MutateFound, Create, Return
  <2> QED
    BY <1>1, <2>1, NextProbeNat DEF SizesOK
<1>3. len' \in Nat /\ contents' = [a \in DOMAIN contents' |-> contents'[a]]
  <2>1. CASE UNCHANGED <<len, contents>>
    BY <2>1 DEF SizesOK
  <2>2. CASE \E value \in Values : Create(value)
    <3>1. PICK f : contents' = [a \in DOMAIN contents \cup {Allocated(NumBytes(SearchKey))} |-> f[a]]
      <4> DEFINE D == DOMAIN contents \cup {Allocated(NumBytes(SearchKey))}
                 F == [a \in D |-> IF a = Allocated(NumBytes(SearchKey))
                                   THEN StoredBytes(SearchKey) ELSE contents[a]]
      <4>1. contents' = F
        BY <2>2 DEF Create
      <4>2. F = [a \in D |-> F[a]]
        OBVIOUS
      <4> QED
        BY <4>1, <4>2
    <3>2. len' = len + 1
      BY <2>2 DEF Create, LenAfterCreate
    <3> QED
      BY <3>1, <3>2 DEF SizesOK
  <2> QED
    BY <2>1, <2>2 DEF Probe, GetAbsent, GetFound, Panic, MutateFound, tableVars, arenaVars
<1> QED
  BY <1>1, <1>2, <1>3 DEF SizesOK

LEMMA NextSizes ==
  ASSUME HashMapInv, SizesOK, [Next]_vars
  PROVE  SizesOK'
<1>1. ASSUME UNCHANGED vars PROVE SizesOK'
  BY <1>1 DEF SizesOK, vars, tableVars, arenaVars, resizeVars
<1>2. ASSUME NEW key \in Keys, CallGet(key) \/ CallMutateOrCreate(key) PROVE SizesOK'
  BY <1>2, CallSizes
<1>3. CASE Work
  BY <1>3, ResizeSizes, EndResizeSizes, SearchSizes DEF Work
<1> QED
  BY <1>1, <1>2, <1>3 DEF Next, Panicked

(* The variables keep their types; above all, every table, also the one    *)
(* that a resize fills, has a power of two of slots (so that & mask is a   *)
(* modulus), and a resize at least doubles it.                             *)
THEOREM HashMapTypeCorrect == Spec => []HashMapTypeOK
<1>1. Init => SizesOK
  BY InitSizes
<1>2. HashMapInv /\ SizesOK /\ [Next]_vars => SizesOK'
  BY NextSizes
<1>3. ASSUME HashMapInv, SizesOK PROVE HashMapTypeOK
  <2>1. IsTable(table)
    <3>1. table \in [0 .. (mask + 1) - 1 -> Slots] /\ SizeOf(table) = mask + 1
      BY <1>3, TableFacts DEF Capacity
    <3> QED
      BY <1>3, <3>1 DEF IsTable, SizesOK
  <2>2. ASSUME pc = "resize" PROVE IsTable(grown) /\ SizeOf(grown) >= 2 * Capacity
    <3>1. SizeOf(grown) = Enlarged(mask + 1)
      BY <1>3, <2>2, GrownFacts
    <3>2. grown \in [0 .. Enlarged(mask + 1) - 1 -> Slots]
      BY <1>3, <2>2, GrownFacts DEF ResizeOK, TableOK, TableTyped
    <3>3. IsPowerOfTwo(Enlarged(mask + 1))
      BY <1>3, EnlargedPower DEF SizesOK
    <3>4. Enlarged(mask + 1) >= 2 * Capacity
      BY <1>3, TableFacts, EnlargedFacts
    <3> QED
      BY <3>1, <3>2, <3>3, <3>4 DEF IsTable
  <2>3. contents \in [DOMAIN contents -> Seq(Byte)]
    <3>1. \A a \in DOMAIN contents : contents[a] \in Seq(Byte)
      BY <1>3 DEF HashMapInv, ArenaOK
    <3> QED
      BY <1>3, <3>1 DEF SizesOK
  <2>4. from \in 0 .. Capacity
    BY <1>3, TableFacts DEF SizesOK
  <2>5. pages \in Seq(0 .. PageSize) /\ Len(pages) \in 1 .. MaxPages
    BY <1>3 DEF HashMapInv, ArenaOK
  <2>6. pc \in {"idle", "resize", "probe", "panicked"}
    BY <1>3 DEF HashMapInv, CallOK
  <2> QED
    BY <1>3, <2>1, <2>2, <2>3, <2>4, <2>5, <2>6 DEF HashMapTypeOK, SizesOK
<1> QED
  BY <1>1, <1>2, <1>3, HashMapInvariant, PTL DEF Spec

-----------------------------------------------------------------------------
(* Progress: what bounds the loops of a call.                              *)

\* There is an empty slot of t, and each is nearer to bucket c than to b.
Nearer(t, b, c) ==
  /\ \E f \in DOMAIN t : IsEmpty(t[f])
  /\ \A f \in DOMAIN t : IsEmpty(t[f]) => (f - c) % SizeOf(t) < (f - b) % SizeOf(t)

\* A probe, of a lookup or of a resize, goes nearer to every empty slot.
ProbesAdvance ==
  /\ Probe => Nearer(table, bucket, bucket')
  /\ ProbeGrown => Nearer(grown, bucket, bucket')

\* From a taken slot of a table with an empty one, the next is nearer to it.
LEMMA NextIsNearer ==
  ASSUME NEW t, NEW M \in Nat \ {0}, DOMAIN t = 0 .. M - 1,
         NEW b \in 0 .. M - 1, ~IsEmpty(t[b]),
         Cardinality(Occupied(t)) < M
  PROVE  Nearer(t, b, NextProbe(b, M - 1))
<1>1. SizeOf(t) = M
  BY TableSize
<1>2. \E f \in DOMAIN t : IsEmpty(t[f])
  <2> SUFFICES ASSUME \A f \in DOMAIN t : ~IsEmpty(t[f]) PROVE FALSE
    OBVIOUS
  <2>1. Occupied(t) = DOMAIN t
    BY DEF Occupied
  <2> QED
    BY <1>1, <2>1 DEF SizeOf
<1>3. PICK c \in 0 .. M - 1 : c = NextProbe(b, M - 1) /\ c = IF b + 1 = M THEN 0 ELSE b + 1
  BY ProbeFacts, 0 \in Nat
<1>4. ASSUME NEW f \in 0 .. M - 1, f # b
      PROVE  (f - c) % M < (f - b) % M
  <2>1. /\ (f - b) % M = IF b <= f THEN f - b ELSE f - b + M
        /\ (f - c) % M = IF c <= f THEN f - c ELSE f - c + M
    OBVIOUS
  <2> QED
    BY <1>3, <1>4, <2>1, SMTT(30)
<1> QED
  BY <1>1, <1>2, <1>3, <1>4 DEF Nearer

(* Each probe, of a lookup or of a resize, gets nearer to every empty      *)
(* slot, of which there is one: in tables of two slots or more no loop of  *)
(* probes goes round for ever, whatever the hashes.                        *)
THEOREM ProbesAlwaysAdvance ==
  ASSUME \A table_size \in TableSizes : FirstCapacity(table_size) >= 2
  PROVE  Spec => [][ProbesAdvance]_vars
<1>1. HashMapInv /\ EntriesCounted => ProbesAdvance
  <2> SUFFICES ASSUME HashMapInv, EntriesCounted PROVE ProbesAdvance
    OBVIOUS
  <2>1. ASSUME Probe PROVE Nearer(table, bucket, bucket')
    <3>1. pc = "probe" /\ ~IsEmpty(table[bucket]) /\ bucket' = NextProbe(bucket, mask)
      BY <2>1 DEF Probe, Probing
    <3>2. bucket \in 0 .. mask /\ Cardinality(Occupied(table)) < Capacity
      BY <3>1, ProbeInTable DEF EntriesCounted
    <3>3. PICK M \in Nat \ {0} : M = mask + 1
      BY TableFacts
    <3>4. M - 1 = mask /\ DOMAIN table = 0 .. M - 1 /\ Capacity = M
      BY <3>3, TableFacts
    <3> QED
      BY <3>1, <3>2, <3>4, NextIsNearer
  <2>2. ASSUME ProbeGrown PROVE Nearer(grown, bucket, bucket')
    <3>1. /\ pc = "resize" /\ ~IsEmpty(grown[bucket]) /\ from < Capacity
          /\ bucket' = NextProbe(bucket, SizeOf(grown) - 1)
      BY <2>2 DEF ProbeGrown, Moving
    <3>2. PICK M \in Nat \ {0} : M = Enlarged(mask + 1) /\ SizeOf(grown) = M
      BY <3>1, GrownFacts
    <3>3. DOMAIN grown = 0 .. M - 1 /\ bucket \in 0 .. M - 1
      BY <3>1, <3>2, GrownFacts, TableFacts DEF ResizeOK, TableOK, TableTyped
    <3>4. Cardinality(Occupied(grown)) < M
      BY <3>1, <3>2 DEF EntriesCounted
    <3> QED
      BY <3>1, <3>2, <3>3, <3>4, NextIsNearer
  <2> QED
    BY <2>1, <2>2 DEF ProbesAdvance
<1>2. Spec => []EntriesCounted
  BY EntriesStayCounted
<1> QED
  BY <1>1, <1>2, HashMapInvariant, PTL
=============================================================================
