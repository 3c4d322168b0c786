---------------------------- MODULE SearchProofs ----------------------------
(***************************************************************************)
(* The files give back the input, and a search finds what it should, for   *)
(* any input and thresholds and any order of the groups: what the writer   *)
(* writes value by value, column by column and term by term is what the    *)
(* reader cuts out of it.  The last theorem takes what the others assume   *)
(* of a run's ids back to the hashes.                                      *)
(***************************************************************************)
EXTENDS Search, IndexWriterProofs

-----------------------------------------------------------------------------
(* Numbers.                                                                *)

LEMMA DivMod ==
  ASSUME NEW a \in Nat, NEW t \in Nat \ {0}
  PROVE  /\ a \div t \in Nat /\ a % t \in 0 .. t - 1
         /\ a = t * (a \div t) + (a % t)
OBVIOUS

LEMMA DivIs ==
  ASSUME NEW q \in Nat, NEW t \in Nat \ {0}, NEW r \in 0 .. t - 1
  PROVE  (q * t + r) \div t = q
OBVIOUS

LEMMA DivLess ==
  ASSUME NEW a \in Nat, NEW n \in Nat, NEW t \in Nat \ {0}, a < n
  PROVE  (a \div t) + 1 \in 1 .. (n + t - 1) \div t
OBVIOUS

\* Sorting a set gives its elements.
LEMMA AscendingFacts ==
  ASSUME NEW S \in SUBSET Nat, IsFiniteSet(S)
  PROVE  /\ Cardinality(S) \in Nat
         /\ Ascending(S) \in Seq(S) /\ Len(Ascending(S)) = Cardinality(S)
         /\ \A x \in S : \E n \in 1 .. Len(Ascending(S)) : Ascending(S)[n] = x
<1> DEFINE N == Cardinality(S)
           UpTo(x) == {y \in S : y <= x}
           place == [x \in S |-> Cardinality(UpTo(x))]
<1>1. N \in Nat
  BY FS_CardinalityType
<1>2. ASSUME NEW x \in S
      PROVE  /\ IsFiniteSet(UpTo(x)) /\ Cardinality(UpTo(x)) \in 1 .. N
             /\ x \in UpTo(x)
  <2>1. UpTo(x) \in SUBSET S /\ x \in UpTo(x)
    OBVIOUS
  <2> HIDE DEF UpTo
  <2>2. IsFiniteSet(UpTo(x)) /\ Cardinality(UpTo(x)) <= N
    BY <2>1, FS_Subset
  <2>3. Cardinality(UpTo(x)) \in Nat /\ Cardinality(UpTo(x)) # 0
    BY <2>1, <2>2, FS_CardinalityType, FS_EmptySet
  <2> QED
    BY <1>1, <2>1, <2>2, <2>3
<1>3. ASSUME NEW x \in S, NEW y \in S, x < y
      PROVE  place[x] # place[y]
  <2>0. /\ x \in Nat /\ y \in Nat /\ \A z \in S : z \in Nat
        /\ ~(y <= x) /\ y <= y
    BY <1>3
  <2>1. UpTo(x) \in SUBSET UpTo(y) /\ y \in UpTo(y) /\ y \notin UpTo(x)
    <3>1. \A z \in S : z <= x => z <= y
      BY <1>3, <2>0
    <3> QED
      BY <2>0, <3>1
  <2> HIDE DEF UpTo
  <2>2. Cardinality(UpTo(x)) # Cardinality(UpTo(y))
    BY <1>2, <2>1, FS_Subset
  <2> QED
    BY <2>2
<1>4. ASSUME NEW x \in S, NEW y \in S, place[x] = place[y]
      PROVE  x = y
  <2>1. x < y \/ y < x \/ x = y
    OBVIOUS
  <2> HIDE DEF place
  <2> QED
    BY <1>3, <1>4, <2>1
<1>5. place \in Injection(S, 1 .. N)
  <2>1. place \in [S -> 1 .. N]
    <3> HIDE DEF UpTo
    <3> QED
      BY <1>2
  <2> HIDE DEF place
  <2> QED
    BY <1>4, <2>1 DEF Injection, IsInjective
<1>6. place \in Surjection(S, 1 .. N)
  <2>1. IsFiniteSet(1 .. N) /\ Cardinality(1 .. N) = N
    BY <1>1, FS_Interval
  <2> HIDE DEF place
  <2> QED
    BY <1>1, <1>5, <2>1, FS_Injection
<1>7. ASSUME NEW n \in 1 .. N
      PROVE  /\ Ascending(S)[n] \in S
             /\ \A x \in S : place[x] = n => x = Ascending(S)[n]
  <2>1. PICK x \in S : place[x] = n
    BY <1>6 DEF Surjection
  <2>2. Ascending(S)[n] = CHOOSE y \in S : Cardinality(UpTo(y)) = n
    BY DEF Ascending
  <2>3. Cardinality(UpTo(x)) = n
    BY <2>1
  <2>4. Ascending(S)[n] \in S /\ Cardinality(UpTo(Ascending(S)[n])) = n
    <3> HIDE DEF UpTo
    <3> QED
      BY <2>2, <2>3
  <2>5. place[Ascending(S)[n]] = n
    BY <2>4
  <2> HIDE DEF place
  <2> QED
    BY <1>4, <2>4, <2>5
<1>8. Ascending(S) \in [1 .. N -> S]
  <2>1. Ascending(S) = [n \in 1 .. N |-> Ascending(S)[n]]
    BY DEF Ascending
  <2> QED
    BY <1>7, <2>1
<1>9. Ascending(S) \in Seq(S) /\ Len(Ascending(S)) = N
  BY <1>1, <1>8, FunctionIsSeq
<1>10. ASSUME NEW x \in S
       PROVE  \E n \in 1 .. N : Ascending(S)[n] = x
  <2>1. place[x] \in 1 .. N
    BY <1>2
  <2> HIDE DEF place
  <2> QED
    BY <1>7, <2>1
<1> QED
  BY <1>1, <1>9, <1>10

\* Sequences of one length, one after the other.
LEMMA FlattenEven ==
  ASSUME NEW S, NEW seqs \in Seq(Seq(S)), NEW m \in Nat,
         \A i \in 1 .. Len(seqs) : Len(seqs[i]) = m
  PROVE  LET flat == FlattenSeq(seqs)
         IN  /\ flat \in Seq(S) /\ Len(flat) = Len(seqs) * m
             /\ \A i \in 1 .. Len(seqs) : \A j \in 1 .. m :
                  flat[(i - 1) * m + j] = seqs[i][j]
<1> DEFINE flat == FlattenSeq(seqs)
           N == Len(seqs)
<1>1. PICK ends : flat \in Seq(S) /\ IsFlat(flat, seqs, ends)
  BY FlattenIs
<1>2. N \in Nat
  OBVIOUS
<1> HIDE DEF flat, N
<1>3. /\ ends[0] = 0 /\ ends[N] = Len(flat)
      /\ \A i \in 1 .. N : ends[i] = ends[i - 1] + m
      /\ \A i \in 1 .. N : \A j \in 1 .. m : flat[ends[i - 1] + j] = seqs[i][j]
  BY <1>1 DEF IsFlat, N
<1> DEFINE Off == {i \in 0 .. N : ends[i] # i * m}
<1>4. Off = {}
  <2> SUFFICES ASSUME Off # {} PROVE FALSE
    OBVIOUS
  <2>1. PICK i \in Off : \A k \in Off : i <= k
    <3>1. Off \in SUBSET Nat
      OBVIOUS
    <3> HIDE DEF Off
    <3> QED
      BY <3>1, LeastElement
  <2>2. i \in 0 .. N /\ ends[i] # i * m
    OBVIOUS
  <2>3. i # 0
    BY <1>3, <2>2
  <2>4. i - 1 \in 0 .. N /\ i - 1 \notin Off
    <3>1. i - 1 \in 0 .. N /\ ~(i <= i - 1)
      BY <1>2, <2>2, <2>3
    <3> HIDE DEF Off
    <3> QED
      BY <2>1, <3>1
  <2>5. ends[i - 1] = (i - 1) * m /\ ends[i] = ends[i - 1] + m
    BY <1>2, <1>3, <2>2, <2>3, <2>4
  <2>6. (i - 1) * m + m = i * m
    BY <2>2
  <2> QED
    BY <2>2, <2>5, <2>6
<1>5. \A i \in 0 .. N : ends[i] = i * m
  BY <1>4
<1>6. Len(flat) = N * m
  BY <1>2, <1>3, <1>5
<1>7. \A i \in 1 .. N : ends[i - 1] = (i - 1) * m
  BY <1>2, <1>5
<1> QED
  BY <1>1, <1>3, <1>6, <1>7 DEF flat, N

-----------------------------------------------------------------------------
(* A block of values is read back as it was written.                       *)

Loads(read, data, m) ==
  read = [n \in 0 .. m |-> IF n = 0 THEN [vals |-> << >>, consumed |-> 1]
                                    ELSE LoadNext(data, read[n - 1])]

\* The recursion of Load has a solution.
LEMMA LoadExists ==
  ASSUME NEW data, NEW m \in Nat
  PROVE  \E read : Loads(read, data, m)
<1> DEFINE Without == {n \in 0 .. m : ~ \E read : Loads(read, data, n)}
<1> SUFFICES ASSUME ~ \E read : Loads(read, data, m) PROVE FALSE
  OBVIOUS
<1>1. PICK n \in Without : \A k \in Without : n <= k
  <2>1. Without \in SUBSET Nat /\ m \in Without
    OBVIOUS
  <2> HIDE DEF Without
  <2> QED
    BY <2>1, LeastElement
<1>2. n \in 0 .. m /\ ~ \E read : Loads(read, data, n)
  OBVIOUS
<1>3. n # 0
  <2>1. Loads([i \in 0 .. 0 |-> [vals |-> << >>, consumed |-> 1]], data, 0)
    BY DEF Loads
  <2> QED
    BY <1>2, <2>1
<1>4. PICK read : Loads(read, data, n - 1)
  <2>1. n - 1 \in 0 .. m /\ ~(n <= n - 1)
    BY <1>2, <1>3
  <2>2. n - 1 \notin Without
    <3> HIDE DEF Without
    <3> QED
      BY <1>1, <2>1
  <2> QED
    BY <2>1, <2>2
<1> DEFINE more == [i \in 0 .. n |-> IF i = n THEN LoadNext(data, read[n - 1]) ELSE read[i]]
<1>5. ASSUME NEW i \in 0 .. n
      PROVE  more[i] = IF i = 0 THEN [vals |-> << >>, consumed |-> 1]
                                ELSE LoadNext(data, more[i - 1])
  <2>1. i # n => i \in 0 .. n - 1
    BY <1>2
  <2>2. i # 0 => i - 1 \in 0 .. n /\ i - 1 # n
    BY <1>2
  <2>3. i # n => read[i] = IF i = 0 THEN [vals |-> << >>, consumed |-> 1]
                                    ELSE LoadNext(data, read[i - 1])
    BY <1>4, <2>1 DEF Loads
  <2>4. i # 0 => more[i - 1] = read[i - 1]
    BY <2>2
  <2>5. more[i] = IF i = n THEN LoadNext(data, read[n - 1]) ELSE read[i]
    OBVIOUS
  <2> HIDE DEF more
  <2> QED
    BY <1>3, <2>3, <2>4, <2>5
<1>6. Loads(more, data, n)
  <2>1. more = [i \in 0 .. n |-> more[i]]
    OBVIOUS
  <2> HIDE DEF more
  <2>2. [i \in 0 .. n |-> more[i]] =
          [i \in 0 .. n |-> IF i = 0 THEN [vals |-> << >>, consumed |-> 1]
                                     ELSE LoadNext(data, more[i - 1])]
    BY <1>5
  <2> QED
    BY <2>1, <2>2 DEF Loads
<1> QED
  BY <1>2, <1>6

\* The first values of a sequence.
LEMMA FirstOf ==
  ASSUME NEW seq, NEW n \in Nat
  PROVE  SubSeq(seq, 1, n) = [i \in 1 .. n |-> seq[i]]
<1>1. SubSeq(seq, 1, n) = [i \in 1 .. (1 + n) - 1 |-> seq[(1 + i) - 1]]
  OBVIOUS
<1>2. (1 + n) - 1 = n /\ \A i \in 1 .. n : (1 + i) - 1 = i
  OBVIOUS
<1> QED
  BY <1>1, <1>2

LEMMA FirstValues ==
  ASSUME NEW S, NEW vals \in Seq(S), NEW n \in 1 .. Len(vals)
  PROVE  Append(SubSeq(vals, 1, n - 1), vals[n]) = SubSeq(vals, 1, n)
<1> DEFINE old == SubSeq(vals, 1, n - 1)
<1>1. /\ Len(vals) \in Nat /\ n \in Nat /\ n - 1 \in Nat
      /\ n - 1 <= Len(vals) /\ n <= Len(vals)
  OBVIOUS
<1>2. old = [i \in 1 .. n - 1 |-> vals[i]] /\ SubSeq(vals, 1, n) = [i \in 1 .. n |-> vals[i]]
  BY <1>1, FirstOf
<1>3. Len(old) = n - 1
  BY <1>1, <1>2
<1>4. Append(old, vals[n]) =
        [i \in 1 .. n |-> IF i = n THEN vals[n] ELSE old[i]]
  BY <1>1, <1>2, <1>3 DEF Append
<1>5. \A i \in 1 .. n : i # n => i \in 1 .. n - 1
  BY <1>1
<1> QED
  BY <1>2, <1>4, <1>5

\* What one step of load finds behind the values read so far.
LEMMA LoadStep ==
  ASSUME NEW data, NEW value \in Seq(Nat), NEW vals, NEW at \in Nat,
         data[at + 2] = Len(value),
         \A j \in 1 .. Len(value) : data[at + 2 + j] = value[j]
  PROVE  LoadNext(data, [vals |-> vals, consumed |-> at + 1]) =
           [vals |-> Append(vals, value), consumed |-> at + 2 + Len(value)]
<1> DEFINE len == Len(value)
<1>1. len \in Nat /\ value = [j \in 1 .. len |-> value[j]]
  BY LenProperties
<1>2. (at + 1) + 1 = at + 2
  OBVIOUS
<1>3. SubSeq(data, at + 1 + 2, at + 1 + 1 + len) = value
  <2>1. SubSeq(data, at + 1 + 2, at + 1 + 1 + len) =
          [j \in 1 .. (1 + (at + 1 + 1 + len)) - (at + 1 + 2)
             |-> data[((at + 1 + 2) + j) - 1]]
    OBVIOUS
  <2>2. (1 + (at + 1 + 1 + len)) - (at + 1 + 2) = len
    BY <1>1
  <2>3. \A j \in 1 .. len : ((at + 1 + 2) + j) - 1 = at + 2 + j
    BY <1>1
  <2> HIDE DEF len
  <2>4. SubSeq(data, at + 1 + 2, at + 1 + 1 + len) = [j \in 1 .. len |-> data[at + 2 + j]]
    BY <2>1, <2>2, <2>3
  <2>5. \A j \in 1 .. len : data[at + 2 + j] = value[j]
    BY DEF len
  <2> QED
    BY <1>1, <2>4, <2>5
<1>4. at + 1 + 1 + len = at + 2 + len
  BY <1>1
<1> QED
  BY <1>2, <1>3, <1>4 DEF LoadNext

\* The lists of template ids survive the dictionary's value block.
LEMMA LoadsBack ==
  ASSUME NEW vals \in Seq(Seq(Nat))
  PROVE  Load(SerializeBlock(vals)).vals = vals
<1> DEFINE N == Len(vals)
           items == [i \in 1 .. N |-> <<Len(vals[i])>> \o vals[i]]
           flat == FlattenSeq(items)
           data == <<N>> \o flat
<1>1. N \in Nat /\ DOMAIN vals = 1 .. N /\ \A i \in 1 .. N : vals[i] \in Seq(Nat)
  BY LenProperties, ElementOfSeq
<1>2. SerializeBlock(vals) = data
  BY <1>1 DEF SerializeBlock
<1>3. ASSUME NEW i \in 1 .. N
      PROVE  /\ items[i] \in Seq(Nat) /\ Len(items[i]) = 1 + Len(vals[i])
             /\ items[i][1] = Len(vals[i])
             /\ \A j \in 1 .. Len(vals[i]) : items[i][1 + j] = vals[i][j]
  <2>1. vals[i] \in Seq(Nat) /\ Len(vals[i]) \in Nat
    BY <1>1, LenProperties
  <2>2. /\ <<Len(vals[i])>> \in Seq(Nat) /\ Len(<<Len(vals[i])>>) = 1
        /\ <<Len(vals[i])>>[1] = Len(vals[i])
    BY <2>1
  <2>3. items[i] = <<Len(vals[i])>> \o vals[i]
    OBVIOUS
  <2> HIDE DEF items
  <2>4. items[i] \in Seq(Nat) /\ IsConcat(items[i], <<Len(vals[i])>>, vals[i])
    BY <2>1, <2>2, <2>3, ConcatParts
  <2>5. 1 \in 1 .. 1
    OBVIOUS
  <2> QED
    BY <2>2, <2>4, <2>5 DEF IsConcat
<1>4. items \in Seq(Seq(Nat)) /\ Len(items) = N
  <2>1. items \in [1 .. N -> Seq(Nat)]
    BY <1>3
  <2> HIDE DEF items
  <2> QED
    BY <1>1, <2>1, FunctionIsSeq
<1> HIDE DEF items
<1>5. PICK ends : flat \in Seq(Nat) /\ IsFlat(flat, items, ends)
  BY <1>4, FlattenIs
<1> HIDE DEF flat
<1>6. /\ \A i \in 0 .. N : ends[i] \in Nat
      /\ ends[0] = 0
      /\ \A i \in 1 .. N :
           /\ ends[i] = ends[i - 1] + (1 + Len(vals[i])) /\ ends[i] <= Len(flat)
           /\ \A j \in 1 .. (1 + Len(vals[i])) : flat[ends[i - 1] + j] = items[i][j]
  BY <1>3, <1>4, <1>5 DEF IsFlat
<1>7. /\ data[1] = N /\ \A p \in 1 .. Len(flat) : data[1 + p] = flat[p]
  <2>1. <<N>> \in Seq(Nat) /\ Len(<<N>>) = 1 /\ <<N>>[1] = N /\ 1 \in 1 .. 1
    BY <1>1
  <2>2. IsConcat(data, <<N>>, flat)
    BY <1>5, <2>1, ConcatParts
  <2> HIDE DEF data
  <2> QED
    BY <2>1, <2>2 DEF IsConcat
<1> HIDE DEF data
<1> DEFINE read == CHOOSE r : Loads(r, data, N)
           Reads(n) == read[n] = [vals |-> SubSeq(vals, 1, n), consumed |-> ends[n] + 1]
           Wrong == {n \in 0 .. N : ~Reads(n)}
<1>8. Loads(read, data, N)
  BY <1>1, LoadExists
<1>9. Load(data) = read[N]
  BY <1>7 DEF Load, Loads
<1> HIDE DEF read
<1>10. Reads(0)
  <2>1. read[0] = [vals |-> << >>, consumed |-> 1]
    BY <1>1, <1>8 DEF Loads
  <2>2. SubSeq(vals, 1, 0) = << >>
    OBVIOUS
  <2> QED
    BY <1>6, <2>1, <2>2
<1>11. ASSUME NEW n \in 1 .. N, Reads(n - 1)
       PROVE  Reads(n)
  <2> DEFINE value == vals[n]
             at == ends[n - 1]
  <2>1. read[n] = LoadNext(data, [vals |-> SubSeq(vals, 1, n - 1), consumed |-> at + 1])
    <3>1. n \in 0 .. N /\ n # 0
      BY <1>1
    <3> QED
      BY <1>8, <1>11, <3>1 DEF Loads
  <2>2. /\ value \in Seq(Nat) /\ Len(value) \in Nat
        /\ at \in Nat /\ ends[n] = at + (1 + Len(value)) /\ ends[n] <= Len(flat)
        /\ Len(flat) \in Nat
        /\ \A j \in 1 .. (1 + Len(value)) : flat[at + j] = items[n][j]
        /\ items[n][1] = Len(value)
        /\ \A j \in 1 .. Len(value) : items[n][1 + j] = value[j]
    <3>1. n - 1 \in 0 .. N
      BY <1>1
    <3> QED
      BY <1>1, <1>3, <1>5, <1>6, <3>1, LenProperties
  <2> HIDE DEF value, at
  <2>3. ASSUME NEW j \in 1 .. (1 + Len(value))
        PROVE  data[at + 1 + j] = items[n][j]
    <3>1. at + j \in 1 .. Len(flat) /\ 1 + (at + j) = at + 1 + j
      BY <2>2
    <3> QED
      BY <1>7, <2>2, <3>1
  <2>4. data[at + 2] = Len(value)
    <3>1. 1 \in 1 .. (1 + Len(value)) /\ at + 1 + 1 = at + 2
      BY <2>2
    <3> QED
      BY <2>2, <2>3, <3>1
  <2>5. ASSUME NEW j \in 1 .. Len(value)
        PROVE  data[at + 2 + j] = value[j]
    <3>1. 1 + j \in 1 .. (1 + Len(value)) /\ at + 1 + (1 + j) = at + 2 + j
      BY <2>2
    <3> QED
      BY <2>2, <2>3, <3>1
  <2> DEFINE before == SubSeq(vals, 1, n - 1)
  <2>6. read[n] = [vals |-> Append(before, value), consumed |-> at + 2 + Len(value)]
    <3> HIDE DEF before, data, read
    <3>1. value \in Seq(Nat) /\ at \in Nat
      BY <2>2
    <3>2. LoadNext(data, [vals |-> before, consumed |-> at + 1])
            = [vals |-> Append(before, value), consumed |-> at + 2 + Len(value)]
      BY <2>4, <2>5, <3>1, LoadStep
    <3>3. read[n] = LoadNext(data, [vals |-> before, consumed |-> at + 1])
      BY <2>1 DEF before
    <3> QED
      BY <3>2, <3>3
  <2>7. Append(SubSeq(vals, 1, n - 1), value) = SubSeq(vals, 1, n)
    BY FirstValues DEF value
  <2>8. at + 2 + Len(value) = ends[n] + 1
    BY <2>2
  <2> QED
    BY <2>6, <2>7, <2>8
<1>12. Wrong = {}
  <2> SUFFICES ASSUME Wrong # {} PROVE FALSE
    OBVIOUS
  <2> HIDE DEF Reads
  <2>1. PICK n \in Wrong : \A k \in Wrong : n <= k
    <3>1. Wrong \in SUBSET Nat
      OBVIOUS
    <3> HIDE DEF Wrong
    <3> QED
      BY <3>1, LeastElement
  <2>2. n \in 0 .. N /\ ~Reads(n)
    OBVIOUS
  <2>3. n # 0
    BY <1>10, <2>2
  <2>4. n \in 1 .. N /\ n - 1 \in 0 .. N /\ ~(n <= n - 1)
    BY <1>1, <2>2, <2>3
  <2>5. Reads(n - 1)
    BY <2>1, <2>4
  <2> QED
    BY <1>11, <2>2, <2>4, <2>5
<1>13. read[N] = [vals |-> SubSeq(vals, 1, N), consumed |-> ends[N] + 1]
  <2>1. N \in 0 .. N
    BY <1>1
  <2> HIDE DEF N, Reads
  <2>2. Reads(N)
    BY <1>12, <2>1
  <2> QED
    BY <2>2 DEF Reads
<1>14. SubSeq(vals, 1, N) = vals
  <2>1. SubSeq(vals, 1, N) = [i \in 1 .. N |-> vals[i]]
    BY <1>1
  <2> QED
    BY <1>1, <2>1
<1> QED
  BY <1>2, <1>9, <1>13, <1>14

-----------------------------------------------------------------------------
(* What the reader finds in the files.                                     *)

LEMMA FinishedFacts ==
  ASSUME WriterInv, Finished
  PROVE  /\ stage = "done" /\ stage # "idle" /\ OrderOK /\ DictionaryOK
         /\ Len(order) \in Nat /\ Len(disk.dictionary) \in Nat
         /\ disk.dictionary \in Seq(Entries)
         /\ DOMAIN disk.dictionary = 1 .. Len(disk.dictionary)
         /\ DOMAIN disk.templates = 1 .. Len(order)
         /\ disk.values = ValueBlocks(disk.dictionary)
         /\ \A k \in 1 .. Len(order) :
              /\ disk.columns[k] = ColumnFile(Template(k))
              /\ disk.templates[k].num_docs = Template(k).num_docs
              /\ disk.templates[k].parts =
                   [i \in 1 .. Len(Template(k).tokens) |-> Part(Template(k).tokens[i])]
<1>1. /\ stage = "done" /\ OrderOK /\ DictionaryOK /\ FilesOK /\ written = Len(order)
      /\ disk.templates = WrittenTemplates /\ disk.values = ValueBlocks(disk.dictionary)
  BY DEF WriterInv, Finished
<1>2. disk.dictionary \in Seq(Entries) /\ Len(order) \in Nat
  BY <1>1 DEF DictionaryOK, OrderOK
<1>3. \A k \in 1 .. Len(order) : disk.columns[k] = ColumnFile(Template(k))
  BY <1>1 DEF FilesOK
<1>4. /\ DOMAIN disk.templates = 1 .. Len(order)
      /\ \A k \in 1 .. Len(order) :
           /\ disk.templates[k].num_docs = Template(k).num_docs
           /\ disk.templates[k].parts =
                [i \in 1 .. Len(Template(k).tokens) |-> Part(Template(k).tokens[i])]
  <2> DEFINE Row(k) ==
               [template_id |-> k - 1,
                num_docs    |-> Template(k).num_docs,
                parts       |-> [i \in 1 .. Len(Template(k).tokens) |->
                                   Part(Template(k).tokens[i])]]
  <2>1. WrittenTemplates = [k \in 1 .. Len(order) |-> Row(k)]
    BY DEF WrittenTemplates
  <2>2. \A k : /\ Row(k).num_docs = Template(k).num_docs
               /\ Row(k).parts =
                    [i \in 1 .. Len(Template(k).tokens) |-> Part(Template(k).tokens[i])]
    OBVIOUS
  <2> HIDE DEF Row
  <2>3. /\ DOMAIN WrittenTemplates = 1 .. Len(order)
        /\ \A k \in 1 .. Len(order) : WrittenTemplates[k] = Row(k)
    BY <2>1
  <2> QED
    BY <1>1, <2>2, <2>3
<1>5. Len(disk.dictionary) \in Nat /\ DOMAIN disk.dictionary = 1 .. Len(disk.dictionary)
  BY <1>2, LenProperties
<1> QED
  BY <1>1, <1>2, <1>3, <1>4, <1>5

\* The template ids of an entry, out of the block with its value.
LEMMA TemplateIdsAtIs ==
  ASSUME WriterInv, Finished, NEW d \in 1 .. Len(disk.dictionary)
  PROVE  TemplateIdsAt(d) = disk.dictionary[d].template_ids
<1> DEFINE entries == disk.dictionary
           D == Len(entries)
           T == TermsInBlock
           q == (d - 1) \div T
           i == ((d - 1) % T) + 1
           b == q + 1
           First == (b - 1) * T
           Ends == IF b * T < D THEN b * T ELSE D
           Value(n) == Ascending(entries[n].template_ids)
           vals == [n \in 1 .. Ends - First |-> Value(First + n)]
<1>1. /\ entries \in Seq(Entries) /\ D \in Nat /\ disk.values = ValueBlocks(entries)
      /\ OrderOK /\ DictionaryOK
  BY FinishedFacts
<1>2. T \in Nat \ {0} /\ d - 1 \in Nat /\ d - 1 < D /\ d \in Nat
  BY <1>1, RankAssumption
<1>3. /\ q \in Nat /\ i - 1 \in 0 .. T - 1 /\ i \in 1 .. T /\ d = T * q + i
  <2>1. q \in Nat /\ ((d - 1) % T) \in 0 .. T - 1 /\ d - 1 = T * q + ((d - 1) % T)
    BY <1>2, DivMod
  <2> DEFINE m == (d - 1) % T
  <2> HIDE DEF q, m
  <2>2. m \in 0 .. T - 1 /\ d - 1 = T * q + m
    BY <2>1 DEF m
  <2>3. T * q \in Nat
    BY <1>2, <2>1
  <2>4. d = T * q + (m + 1) /\ m + 1 \in 1 .. T /\ (m + 1) - 1 \in 0 .. T - 1
    BY <1>2, <2>2, <2>3
  <2> QED
    BY <2>1, <2>4 DEF m
<1>4. b \in 1 .. (D + T - 1) \div T
  BY <1>1, <1>2, DivLess
<1>5. /\ First \in Nat /\ Ends \in Nat /\ First + i = d /\ i \in 1 .. Ends - First
      /\ Ends <= D
  <2> HIDE DEF q, i, entries
  <2>1. b - 1 = q /\ T * q = q * T /\ b * T = q * T + T /\ q * T \in Nat
    BY <1>2, <1>3
  <2>2. First = q * T
    BY <2>1
  <2> DEFINE p == q * T
  <2>3. p \in Nat /\ d = p + i /\ d <= D /\ i \in 1 .. T /\ T \in Nat /\ D \in Nat
    BY <1>1, <1>2, <1>3, <2>1
  <2>4. Ends = IF p + T < D THEN p + T ELSE D
    BY <2>1
  <2> HIDE DEF p, First, Ends, b, D, T
  <2>5. i \in 1 .. Ends - p /\ Ends \in Nat /\ Ends <= D
    BY <2>3, <2>4
  <2> QED
    BY <2>2, <2>3, <2>5 DEF p
<1> HIDE DEF q, i, First, Ends
<1>6. ASSUME NEW n \in 1 .. D
      PROVE  /\ Value(n) \in Seq(Nat) /\ Len(Value(n)) \in Nat
             /\ Range(Value(n)) = entries[n].template_ids
  <2> DEFINE S == entries[n].template_ids
  <2>1. S \in SUBSET Nat
    <3>1. entries[n] \in Entries
      BY <1>1, ElementOfSeq
    <3> QED
      BY <3>1 DEF Entries
  <2>2. \A t \in S : t \in 0 .. Len(order)
    <3> TAKE t \in S
    <3>1. n \in 1 .. new_id
      BY <1>1 DEF DictionaryOK
    <3>2. PICK id \in Ids : ListedFor(n, t, id)
      BY <1>1, <3>1 DEF DictionaryOK
    <3>3. t + 1 \in 1 .. Len(order) /\ Len(order) \in Nat
      BY <1>1, <3>2, TemplateIdsAreNumbers DEF ListedFor, OrderOK
    <3> QED
      BY <2>1, <3>3
  <2>3. IsFiniteSet(S)
    <3>1. S \in SUBSET (0 .. Len(order)) /\ Len(order) \in Nat
      BY <1>1, <2>2 DEF OrderOK
    <3>2. IsFiniteSet(0 .. Len(order))
      BY <3>1, FS_Interval
    <3> HIDE DEF S
    <3> QED
      BY <3>1, <3>2, FS_Subset
  <2> HIDE DEF S
  <2>4. /\ Ascending(S) \in Seq(S)
        /\ \A x \in S : \E j \in 1 .. Len(Ascending(S)) : Ascending(S)[j] = x
    BY <2>1, <2>3, AscendingFacts
  <2> DEFINE s == Ascending(S)
  <2>5. s \in Seq(Nat) /\ Len(s) \in Nat /\ DOMAIN s = 1 .. Len(s)
    BY <2>1, <2>4, LenProperties, SeqMonotonic
  <2>6. \A j \in 1 .. Len(s) : s[j] \in S
    BY <2>4, ElementOfSeq
  <2>7. Range(s) = S
    <3> HIDE DEF s
    <3> QED
      BY <2>4, <2>5, <2>6 DEF Range, s
  <2> QED
    BY <2>5, <2>7 DEF S
<1>7. disk.values[b] = SerializeBlock(vals)
  BY <1>1, <1>4 DEF ValueBlocks, First, Ends
<1> HIDE DEF entries, Value
<1>8. vals \in Seq(Seq(Nat)) /\ vals[i] = Value(d)
  <2>1. \A n \in 1 .. Ends - First : First + n \in 1 .. D
    BY <1>1, <1>5
  <2>2. vals \in [1 .. Ends - First -> Seq(Nat)]
    BY <1>6, <2>1
  <2>3. Ends - First \in Nat
    BY <1>5
  <2> QED
    BY <1>5, <2>2, <2>3, FunctionIsSeq
<1>9. Load(disk.values[b]).vals = vals
  BY <1>7, <1>8, LoadsBack
<1>10. TemplateIdsAt(d) = Range(vals[i])
  BY <1>9 DEF TemplateIdsAt, q, i
<1> QED
  BY <1>6, <1>8, <1>10 DEF entries

\* A file of n columns of m cells each is cut back into those columns.
IsCut(columns, cells, m, n) ==
  /\ Len(columns) = n
  /\ \A c \in 1 .. n :
       /\ Len(columns[c]) = m
       /\ \A r \in 1 .. m : columns[c][r] = cells[(c - 1) * m + r]

LEMMA DecompressFacts ==
  ASSUME NEW S, NEW cells \in Seq(S), NEW m \in Nat \ {0}, NEW n \in Nat,
         Len(cells) = n * m
  PROVE  /\ DecompressColumn(cells, m) \in Seq(Seq(S))
         /\ IsCut(DecompressColumn(cells, m), cells, m, n)
<1> DEFINE columns == DecompressColumn(cells, m)
           Piece(c) == SubSeq(cells, (c - 1) * m + 1, c * m)
<1>1. Len(cells) \div m = n
  <2>1. 0 \in 0 .. m - 1 /\ n * m + 0 = n * m
    OBVIOUS
  <2> QED
    BY <2>1, DivIs
<1>2. columns = [c \in 1 .. n |-> Piece(c)]
  BY <1>1 DEF DecompressColumn
<1>3. ASSUME NEW c \in 1 .. n
      PROVE  /\ Piece(c) = [r \in 1 .. m |-> cells[(c - 1) * m + r]]
             /\ \A r \in 1 .. m : (c - 1) * m + r \in 1 .. Len(cells)
  <2> DEFINE a == (c - 1) * m
  <2>1. a \in Nat /\ c * m = a + m
    OBVIOUS
  <2>2. c * m <= n * m
    <3>1. n - c \in Nat /\ n * m = c * m + (n - c) * m
      OBVIOUS
    <3>2. (n - c) * m \in Nat /\ c * m \in Nat /\ n * m \in Nat
      BY <3>1
    <3> QED
      BY <3>1, <3>2
  <2> HIDE DEF a
  <2>3. Piece(c) = [r \in 1 .. (1 + c * m) - (a + 1) |-> cells[((a + 1) + r) - 1]]
    BY DEF a
  <2>4. (1 + c * m) - (a + 1) = m
    BY <2>1
  <2>5. \A r \in 1 .. m : ((a + 1) + r) - 1 = a + r /\ a + r \in 1 .. Len(cells)
    <3> DEFINE e == c * m
               l == n * m
    <3>1. e = a + m /\ e <= l /\ l \in Nat /\ Len(cells) = l
      BY <2>1, <2>2
    <3> HIDE DEF e, l
    <3> QED
      BY <2>1, <3>1
  <2> HIDE DEF Piece
  <2>6. Piece(c) = [r \in 1 .. m |-> cells[a + r]]
    BY <2>3, <2>4, <2>5
  <2> QED
    BY <2>5, <2>6 DEF a
<1> HIDE DEF Piece
<1>4. ASSUME NEW c \in 1 .. n
      PROVE  /\ Piece(c) \in Seq(S) /\ Len(Piece(c)) = m
             /\ \A r \in 1 .. m : Piece(c)[r] = cells[(c - 1) * m + r]
  <2> DEFINE at(r) == (c - 1) * m + r
  <2>1. \A r \in 1 .. m : at(r) \in 1 .. Len(cells)
    BY <1>3
  <2>2. Piece(c) = [r \in 1 .. m |-> cells[at(r)]]
    BY <1>3
  <2> HIDE DEF at
  <2>3. \A r \in 1 .. m : cells[at(r)] \in S
    BY <2>1, ElementOfSeq
  <2>4. Piece(c) \in [1 .. m -> S]
    BY <2>2, <2>3
  <2>5. Piece(c) \in Seq(S) /\ Len(Piece(c)) = m
    BY <2>4, FunctionIsSeq
  <2> QED
    BY <2>2, <2>5 DEF at
<1>5. columns \in [1 .. n -> Seq(S)]
  BY <1>2, <1>4
<1> HIDE DEF columns
<1>6. columns \in Seq(Seq(S)) /\ Len(columns) = n
  BY <1>5, FunctionIsSeq
<1> QED
  BY <1>2, <1>4, <1>6 DEF columns, IsCut

\* The reader's columns are the writer's, with new ids for old.
LEMMA ColumnsAre ==
  ASSUME WriterInv, Finished, NEW k \in 1 .. Len(order), Template(k).num_docs # 0
  PROVE  /\ ColumnsOf(k) \in Seq(Seq(Nat))
         /\ Len(ColumnsOf(k)) = NumVariables(Template(k))
         /\ \A n \in 1 .. NumVariables(Template(k)) :
              /\ Len(ColumnsOf(k)[n]) = Template(k).num_docs
              /\ \A r \in 1 .. Template(k).num_docs :
                   ColumnsOf(k)[n][r] = old_to_new[IterColumns(Template(k))[n][r]]
<1> DEFINE group == Template(k)
           m == group.num_docs
           N == NumVariables(group)
           columns == IterColumns(group)
           cells == FlattenSeq(columns)
           file == ColumnFile(group)
<1>1. /\ group \in Groups /\ ColumnsOwned(group) /\ m \in Nat \ {0} /\ stage # "idle"
      /\ disk.columns[k] = file /\ disk.templates[k].num_docs = m
  <2>1. group \in Groups /\ ColumnsOwned(group)
    BY FinishedFacts, MergedGroup DEF GroupOK
  <2> QED
    BY <2>1, FinishedFacts, GroupFields
<1>2. columns \in Seq(Seq(Nat)) /\ Len(columns) = N /\ N \in Nat
  BY <1>1, IterFacts, VariableAtFacts
<1>3. \A n \in 1 .. N : Len(columns[n]) = m
  <2> TAKE n \in 1 .. N
  <2>1. 1 \in 1 .. m
    BY <1>1
  <2> QED
    BY <1>1, <2>1, CellIsId
<1> HIDE DEF group, N, m, columns
<1>4. /\ cells \in Seq(Nat) /\ Len(cells) = N * m
      /\ \A n \in 1 .. N : \A r \in 1 .. m : cells[(n - 1) * m + r] = columns[n][r]
  <2>1. m \in Nat /\ \A n \in 1 .. Len(columns) : Len(columns[n]) = m
    BY <1>1, <1>2, <1>3
  <2>2. /\ FlattenSeq(columns) \in Seq(Nat) /\ Len(FlattenSeq(columns)) = Len(columns) * m
        /\ \A n \in 1 .. Len(columns) : \A r \in 1 .. m :
             FlattenSeq(columns)[(n - 1) * m + r] = columns[n][r]
    BY <1>2, <2>1, FlattenEven
  <2> QED
    BY <1>2, <2>2
<1>5. ASSUME NEW n \in 1 .. N, NEW r \in 1 .. m
      PROVE  (n - 1) * m + r \in 1 .. Len(cells)
  <2> DEFINE a == (n - 1) * m
  <2>1. a \in Nat /\ n * m = a + m
    BY <1>1, <1>2
  <2>2. n * m <= N * m
    <3>1. N - n \in Nat /\ N * m = n * m + (N - n) * m
      BY <1>1, <1>2
    <3>2. (N - n) * m \in Nat /\ n * m \in Nat
      BY <1>1, <1>2, <3>1
    <3> QED
      BY <3>1, <3>2
  <2> HIDE DEF a
  <2> DEFINE e == n * m
             l == N * m
  <2>3. e = a + m /\ e <= l /\ l \in Nat /\ Len(cells) = l
    BY <1>1, <1>2, <1>4, <2>1, <2>2
  <2> HIDE DEF e, l, cells
  <2>4. a + r \in 1 .. Len(cells)
    BY <1>1, <2>1, <2>3
  <2> QED
    BY <2>4 DEF a
<1>6. ASSUME NEW p \in 1 .. Len(cells)
      PROVE  old_to_new[cells[p]] \in Nat
  <2>1. PICK n \in 1 .. N : \E r \in 1 .. m : cells[p] = columns[n][r]
    BY <1>1, FileFacts DEF columns, N, m, group
  <2>2. PICK r \in 1 .. m : cells[p] = columns[n][r]
    BY <2>1
  <2>3. old_to_new[columns[n][r]] \in 0 .. Len(disk.dictionary) - 1
    BY FinishedFacts, CellIsMapped DEF columns, N, m, group
  <2> QED
    BY <2>2, <2>3
<1>7. file = [p \in 1 .. Len(cells) |-> old_to_new[cells[p]]]
  BY DEF ColumnFile, columns, group
<1> HIDE DEF cells, file
<1>8. file \in Seq(Nat) /\ Len(file) = N * m
  <2>1. file \in [1 .. Len(cells) -> Nat] /\ Len(cells) \in Nat
    BY <1>4, <1>6, <1>7, LenProperties
  <2> QED
    BY <1>4, <2>1, FunctionIsSeq
<1>9. ColumnsOf(k) = DecompressColumn(file, m)
  BY <1>1 DEF ColumnsOf
<1>10. /\ ColumnsOf(k) \in Seq(Seq(Nat)) /\ Len(ColumnsOf(k)) = N
       /\ \A n \in 1 .. N :
            /\ Len(ColumnsOf(k)[n]) = m
            /\ \A r \in 1 .. m : ColumnsOf(k)[n][r] = file[(n - 1) * m + r]
  <2>1. ColumnsOf(k) \in Seq(Seq(Nat)) /\ IsCut(ColumnsOf(k), file, m, N)
    BY <1>1, <1>2, <1>8, <1>9, DecompressFacts
  <2> QED
    BY <2>1 DEF IsCut
<1>11. \A n \in 1 .. N : \A r \in 1 .. m : file[(n - 1) * m + r] = old_to_new[columns[n][r]]
  BY <1>4, <1>5, <1>7
<1> QED
  BY <1>10, <1>11 DEF N, m, group, columns

-----------------------------------------------------------------------------
(* Hits.                                                                   *)

\* The rows of a list are rows with a matching cell, and all of them.
IsHits(hits, columns, matching) ==
  /\ \A n \in 1 .. Len(hits) :
       \E c \in 1 .. Len(columns) : \E r \in 1 .. Len(columns[c]) :
         hits[n] = r /\ columns[c][r] \in matching
  /\ \A c \in 1 .. Len(columns) : \A r \in 1 .. Len(columns[c]) :
       columns[c][r] \in matching => \E n \in 1 .. Len(hits) : hits[n] = r

LEMMA GetDocIdsFacts ==
  ASSUME NEW columns \in Seq(Seq(Nat)), NEW matching
  PROVE  /\ GetDocIds(columns, matching) \in Seq(Nat)
         /\ IsHits(GetDocIds(columns, matching), columns, matching)
<1> DEFINE N == Len(columns)
           InColumn(c) == {r \in 1 .. Len(columns[c]) : columns[c][r] \in matching}
           parts == [c \in 1 .. N |-> Ascending(InColumn(c))]
           hits == FlattenSeq(parts)
<1>1. N \in Nat /\ \A c \in 1 .. N : Len(columns[c]) \in Nat
  BY LenProperties, ElementOfSeq
<1>2. GetDocIds(columns, matching) = hits
  BY DEF GetDocIds
<1>3. ASSUME NEW c \in 1 .. N
      PROVE  /\ parts[c] \in Seq(Nat)
             /\ \A j \in 1 .. Len(parts[c]) : parts[c][j] \in InColumn(c)
             /\ \A r \in InColumn(c) : \E j \in 1 .. Len(parts[c]) : parts[c][j] = r
  <2>1. /\ InColumn(c) \in SUBSET (1 .. Len(columns[c])) /\ InColumn(c) \in SUBSET Nat
        /\ IsFiniteSet(1 .. Len(columns[c]))
    <3>1. Len(columns[c]) \in Nat
      BY <1>1
    <3>2. IsFiniteSet(1 .. Len(columns[c]))
      BY <3>1, FS_Interval
    <3> QED
      BY <3>1, <3>2
  <2>2. parts[c] = Ascending(InColumn(c))
    OBVIOUS
  <2> HIDE DEF InColumn, parts
  <2>3. IsFiniteSet(InColumn(c))
    BY <2>1, FS_Subset
  <2>4. /\ parts[c] \in Seq(InColumn(c))
        /\ \A r \in InColumn(c) : \E j \in 1 .. Len(parts[c]) : parts[c][j] = r
    BY <2>1, <2>2, <2>3, AscendingFacts
  <2>5. parts[c] \in Seq(Nat)
    BY <2>1, <2>4, SeqMonotonic
  <2>6. \A j \in 1 .. Len(parts[c]) : parts[c][j] \in InColumn(c)
    BY <2>4, ElementOfSeq
  <2> QED
    BY <2>4, <2>5, <2>6
<1>4. parts \in Seq(Seq(Nat)) /\ Len(parts) = N
  <2>1. parts \in [1 .. N -> Seq(Nat)]
    BY <1>3
  <2> HIDE DEF parts
  <2> QED
    BY <1>1, <2>1, FunctionIsSeq
<1> HIDE DEF parts
<1>5. PICK ends : hits \in Seq(Nat) /\ IsFlat(hits, parts, ends)
  BY <1>4, FlattenIs
<1> HIDE DEF hits
<1>6. /\ \A i \in 0 .. N : ends[i] \in Nat
      /\ \A i \in 1 .. N :
           /\ ends[i] = ends[i - 1] + Len(parts[i]) /\ ends[i] <= Len(hits)
           /\ \A j \in 1 .. Len(parts[i]) : hits[ends[i - 1] + j] = parts[i][j]
      /\ \A n \in 1 .. Len(hits) :
           \E i \in 1 .. N : \E j \in 1 .. Len(parts[i]) : n = ends[i - 1] + j
  BY <1>4, <1>5 DEF IsFlat
<1>7. ASSUME NEW n \in 1 .. Len(hits)
      PROVE  \E c \in 1 .. N : \E r \in 1 .. Len(columns[c]) :
               hits[n] = r /\ columns[c][r] \in matching
  <2>1. PICK c \in 1 .. N : \E j \in 1 .. Len(parts[c]) : n = ends[c - 1] + j
    BY <1>6
  <2>2. PICK j \in 1 .. Len(parts[c]) : n = ends[c - 1] + j
    BY <2>1
  <2>3. hits[n] = parts[c][j] /\ parts[c][j] \in InColumn(c)
    BY <1>3, <1>6, <2>2
  <2> QED
    BY <2>3
<1>8. ASSUME NEW c \in 1 .. N, NEW r \in 1 .. Len(columns[c]), columns[c][r] \in matching
      PROVE  \E n \in 1 .. Len(hits) : hits[n] = r
  <2>1. r \in InColumn(c)
    BY <1>8
  <2>2. PICK j \in 1 .. Len(parts[c]) : parts[c][j] = r
    BY <1>3, <2>1
  <2>3. /\ ends[c - 1] \in Nat /\ ends[c] \in Nat /\ Len(parts[c]) \in Nat /\ Len(hits) \in Nat
        /\ ends[c] = ends[c - 1] + Len(parts[c]) /\ ends[c] <= Len(hits)
        /\ hits[ends[c - 1] + j] = parts[c][j]
    <3>1. c - 1 \in 0 .. N /\ c \in 0 .. N
      BY <1>1
    <3> QED
      BY <1>3, <1>5, <1>6, <3>1, LenProperties
  <2>4. ends[c - 1] + j \in 1 .. Len(hits)
    <3> DEFINE a == ends[c - 1]
               b == ends[c]
               l == Len(parts[c])
    <3>1. a \in Nat /\ b \in Nat /\ l \in Nat /\ b = a + l /\ b <= Len(hits) /\ j \in Nat
          /\ 1 <= j /\ j <= l
      BY <2>3
    <3> HIDE DEF a, b, l
    <3>2. a + j <= Len(hits) /\ a + j >= 1
      BY <2>3, <3>1, Within
    <3>3. a + j \in Nat
      BY <3>1
    <3> QED
      BY <2>3, <3>2, <3>3 DEF a
  <2> QED
    BY <2>2, <2>3, <2>4
<1> QED
  BY <1>2, <1>5, <1>7, <1>8 DEF IsHits

\* A search stops at MaxHits and takes the hits in order until there.
LEMMA SearchInColumnFacts ==
  ASSUME NEW k, NEW matching, ColumnsOf(k) \in Seq(Seq(Nat))
  PROVE  LET hits == GetDocIds(ColumnsOf(k), matching)
             rows == SearchInColumn(k, matching)
         IN  /\ Len(rows) \in Nat /\ DOMAIN rows = 1 .. Len(rows) /\ Len(rows) <= Len(hits)
             /\ \A n \in 1 .. Len(rows) : rows[n] = hits[n]
             /\ Len(rows) < MaxHits => Len(rows) = Len(hits)
<1> DEFINE hits == GetDocIds(ColumnsOf(k), matching)
           rows == SearchInColumn(k, matching)
           upto == IF Len(hits) < MaxHits THEN Len(hits) ELSE MaxHits
<1>1. hits \in Seq(Nat) /\ Len(hits) \in Nat
  BY GetDocIdsFacts, LenProperties
<1>2. rows = SubSeq(hits, 1, upto)
  BY DEF SearchInColumn
<1> HIDE DEF hits, rows
<1>3. upto \in Nat /\ upto <= Len(hits) /\ (upto < MaxHits => upto = Len(hits))
  BY <1>1, MaxHitsAssumption
<1> HIDE DEF upto
<1>4. rows = [n \in 1 .. upto |-> hits[n]]
  BY <1>2, <1>3, FirstOf
<1>5. Len(rows) = upto /\ DOMAIN rows = 1 .. upto
  BY <1>3, <1>4
<1> QED
  BY <1>3, <1>4, <1>5 DEF hits, rows

-----------------------------------------------------------------------------
(* The documents.                                                          *)

\* Token i of a template that is a variable: its column, and what stands in
\* row r of it in memory and in the file.
VariableReads(k, i, n, r, id) ==
  /\ n \in 1 .. NumVariables(Template(k)) /\ VariableAt(Template(k), n) = i
  /\ id = IterColumns(Template(k))[n][r]
  /\ id = Template(k).columns[Template(k).tokens[i].column_index][r]
  /\ id \in Ids
  /\ ColumnsOf(k)[n][r] = old_to_new[id] /\ old_to_new[id] + 1 \in DOMAIN disk.dictionary
  /\ Retrieve(k, r)[i] = disk.dictionary[old_to_new[id] + 1].term
  /\ Stored(term_map, id, Retrieve(k, r)[i]) /\ Retrieve(k, r)[i] \in Texts
  /\ k - 1 \in disk.dictionary[old_to_new[id] + 1].template_ids

\* retrieve_doc gives the template's constants and the terms of the cells.
LEMMA RetrieveIs ==
  ASSUME WriterInv, Finished, NEW k \in 1 .. Len(order),
         NEW r \in 1 .. Template(k).num_docs
  PROVE  /\ DOMAIN Retrieve(k, r) = 1 .. Len(Template(k).tokens)
         /\ Len(Retrieve(k, r)) = Len(Template(k).tokens)
         /\ \A i \in 1 .. Len(Template(k).tokens) :
              IF IsConstant(Template(k).tokens[i])
              THEN Retrieve(k, r)[i] = Template(k).tokens[i].text
              ELSE IsVariable(Template(k).tokens[i]) /\ \E n, id : VariableReads(k, i, n, r, id)
<1> DEFINE group == Template(k)
           tokens == group.tokens
           parts == disk.templates[k].parts
           ids == GetTermIds(ColumnsOf(k), r)
           N == NumVariables(group)
           Upto(i) == Cardinality({j \in 1 .. i : IsVariable(tokens[j])})
<1>1. /\ group \in Groups /\ ColumnsOwned(group) /\ stage # "idle" /\ group.num_docs # 0
      /\ parts = [i \in 1 .. Len(tokens) |-> Part(tokens[i])]
  <2>1. group \in Groups /\ ColumnsOwned(group)
    BY FinishedFacts, MergedGroup DEF GroupOK
  <2>2. group.num_docs # 0
    OBVIOUS
  <2> QED
    BY <2>1, <2>2, FinishedFacts
<1>2. Len(tokens) \in Nat /\ \A i \in 1 .. Len(tokens) : tokens[i] \in TemplateTokens
  BY <1>1, GroupFields
<1> HIDE DEF tokens, parts
<1>3. /\ DOMAIN parts = 1 .. Len(tokens) /\ Len(parts) = Len(tokens)
      /\ \A i \in 1 .. Len(tokens) :
           /\ IsVariablePart(parts[i]) <=> IsVariable(tokens[i])
           /\ IsConstant(tokens[i]) => parts[i].text = tokens[i].text
           /\ IsConstant(tokens[i]) <=> ~IsVariable(tokens[i])
  <2>1. \A i \in 1 .. Len(tokens) : parts[i] = Part(tokens[i])
    BY <1>1
  <2>2. \A i \in 1 .. Len(tokens) : IsConstant(tokens[i]) <=> ~IsVariable(tokens[i])
    BY <1>2, TokenKinds
  <2>3. DOMAIN parts = 1 .. Len(tokens) /\ Len(parts) = Len(tokens)
    BY <1>1, <1>2
  <2> QED
    BY <2>1, <2>2, <2>3 DEF Part, IsVariablePart
<1>4. ASSUME NEW i \in 1 .. Len(tokens)
      PROVE  Cardinality({j \in 1 .. i : IsVariablePart(parts[j])}) = Upto(i)
  <2>1. \A j \in 1 .. i : j \in 1 .. Len(tokens)
    BY <1>2
  <2>2. {j \in 1 .. i : IsVariablePart(parts[j])} = {j \in 1 .. i : IsVariable(tokens[j])}
    BY <1>3, <2>1
  <2> QED
    BY <2>2
<1>5. Retrieve(k, r) =
        [i \in 1 .. Len(tokens) |->
           IF IsVariablePart(parts[i])
           THEN GetTermForOrd(ids[Cardinality({j \in 1 .. i : IsVariablePart(parts[j])})])
           ELSE parts[i].text]
  BY <1>3 DEF Retrieve, Reconstruct, parts
<1>6. ASSUME NEW i \in 1 .. Len(tokens)
      PROVE  Retrieve(k, r)[i] = IF IsVariable(tokens[i]) THEN GetTermForOrd(ids[Upto(i)])
                                                          ELSE parts[i].text
  <2> HIDE DEF ids, Upto
  <2> QED
    BY <1>3, <1>4, <1>5
<1>7. DOMAIN Retrieve(k, r) = 1 .. Len(tokens) /\ Len(Retrieve(k, r)) = Len(tokens)
  <2> HIDE DEF ids
  <2> QED
    BY <1>2, <1>5
<1>8. ASSUME NEW i \in 1 .. Len(tokens), IsVariable(tokens[i])
      PROVE  \E n, id : VariableReads(k, i, n, r, id)
  <2> DEFINE n == Upto(i)
             id == IterColumns(group)[n][r]
             column == group.columns[tokens[i].column_index]
  <2>1. n \in 1 .. N /\ VariableAt(group, n) = i
    BY <1>1, <1>8, VariableAtFacts DEF tokens
  <2>2. Retrieve(k, r)[i] = GetTermForOrd(ids[n])
    BY <1>6, <1>8
  <2> HIDE DEF n
  <2>3. /\ Len(ColumnsOf(k)) = N
        /\ ColumnsOf(k)[n][r] = old_to_new[id]
    BY <1>1, <2>1, ColumnsAre
  <2>4. ids[n] = old_to_new[id]
    <3>1. ids = [c \in 1 .. Len(ColumnsOf(k)) |-> ColumnsOf(k)[c][r]]
      BY DEF GetTermIds
    <3> HIDE DEF ids, id, N
    <3> QED
      BY <2>1, <2>3, <3>1
  <2>5. /\ id \in Ids /\ old_to_new[id] \in 0 .. Len(disk.dictionary) - 1
        /\ Stored(term_map, id, disk.dictionary[old_to_new[id] + 1].term)
        /\ k - 1 \in disk.dictionary[old_to_new[id] + 1].template_ids
    BY <2>1, FinishedFacts, CellIsMapped
  <2>6. IterColumns(group)[n] = column
    BY <1>1, <2>1, IterFacts DEF tokens
  <2> HIDE DEF id, ids, column
  <2> DEFINE d == old_to_new[id] + 1
  <2>7. d \in DOMAIN disk.dictionary /\ disk.dictionary[d].term \in Texts
    <3>1. d \in 1 .. Len(disk.dictionary)
      BY <2>5, FinishedFacts
    <3>2. disk.dictionary[d] \in Entries
      BY <3>1, FinishedFacts, ElementOfSeq
    <3> QED
      BY <3>1, <3>2, FinishedFacts DEF Entries
  <2>8. Retrieve(k, r)[i] = disk.dictionary[d].term
    BY <2>2, <2>4 DEF GetTermForOrd
  <2>9. id = column[r]
    BY <2>6 DEF id
  <2>10. VariableReads(k, i, n, r, id)
    BY <2>1, <2>3, <2>5, <2>7, <2>8, <2>9 DEF VariableReads, id, column, tokens
  <2> QED
    BY <2>10
<1> QED
  BY <1>3, <1>6, <1>7, <1>8 DEF tokens

-----------------------------------------------------------------------------
(* What a search returns.                                                  *)

LEMMA MatchFacts ==
  ASSUME WriterInv, Finished, NEW k \in 1 .. Len(order), NEW query \in Texts
  PROVE  LET tokens == Template(k).tokens
             match  == CheckMatch(disk.templates[k].parts, query)
             Says   == \E i \in 1 .. Len(tokens) :
                         IsConstant(tokens[i]) /\ tokens[i].text = query
         IN  /\ match = "Full" <=> Says
             /\ ~Says => (match = "VariableMayMatch" <=>
                            \E i \in 1 .. Len(tokens) : IsVariable(tokens[i]))
             /\ HasVariable(k) <=> \E i \in 1 .. Len(tokens) : IsVariable(tokens[i])
<1> DEFINE tokens == Template(k).tokens
           parts == disk.templates[k].parts
<1>1. /\ Template(k) \in Groups
      /\ parts = [i \in 1 .. Len(tokens) |-> Part(tokens[i])]
  BY FinishedFacts, MergedGroup DEF GroupOK
<1>2. \A i \in 1 .. Len(tokens) : IsConstant(tokens[i]) <=> ~IsVariable(tokens[i])
  BY <1>1, GroupFields, TokenKinds
<1> HIDE DEF tokens, parts
<1>3. /\ DOMAIN parts = 1 .. Len(tokens)
      /\ \A i \in 1 .. Len(tokens) :
           /\ IsVariablePart(parts[i]) <=> IsVariable(tokens[i])
           /\ IsConstant(tokens[i]) => parts[i].text = tokens[i].text
  BY <1>1, <1>2 DEF Part, IsVariablePart
<1>4. HasVariable(k) <=> \E i \in DOMAIN parts : IsVariablePart(parts[i])
  BY DEF HasVariable, parts
<1>5. CheckMatch(parts, query) =
        IF \E i \in DOMAIN parts : ~IsVariablePart(parts[i]) /\ parts[i].text = query
        THEN "Full"
        ELSE IF \E i \in DOMAIN parts : IsVariablePart(parts[i])
             THEN "VariableMayMatch" ELSE "NoMatch"
  BY DEF CheckMatch
<1>6. (\E i \in DOMAIN parts : ~IsVariablePart(parts[i]) /\ parts[i].text = query)
        <=> \E i \in 1 .. Len(tokens) : IsConstant(tokens[i]) /\ tokens[i].text = query
  BY <1>2, <1>3
<1>7. (\E i \in DOMAIN parts : IsVariablePart(parts[i]))
        <=> \E i \in 1 .. Len(tokens) : IsVariable(tokens[i])
  BY <1>3
<1> QED
  BY <1>4, <1>5, <1>6, <1>7 DEF tokens, parts

\* A dictionary entry is found under its term and nowhere else.
LEMMA TermFound ==
  ASSUME WriterInv, Finished, NEW query \in Texts
  PROVE  /\ \A d \in DOMAIN disk.dictionary : disk.dictionary[d].term = query =>
              SearchSingleTerm(query) =
                [term_id |-> d - 1, template_ids |-> disk.dictionary[d].template_ids]
         /\ \/ SearchSingleTerm(query).template_ids = {}
            \/ \E d \in DOMAIN disk.dictionary :
                 /\ disk.dictionary[d].term = query
                 /\ SearchSingleTerm(query).term_id = d - 1
<1> DEFINE Is(d) == d \in DOMAIN disk.dictionary /\ disk.dictionary[d].term = query
<1>1. DictionaryOK /\ DOMAIN disk.dictionary = 1 .. Len(disk.dictionary)
      /\ new_id = Len(disk.dictionary) /\ new_id \in Nat
  BY FinishedFacts DEF DictionaryOK
<1>2. ASSUME NEW c, NEW d, Is(c), Is(d)
      PROVE  c = d
  <2>1. c \in 1 .. new_id /\ d \in 1 .. new_id
    BY <1>1, <1>2
  <2>2. Rank[query] \in Nat /\ ~(Rank[query] < Rank[query])
    BY RankAssumption
  <2>3. ~(c < d) /\ ~(d < c)
    BY <1>1, <1>2, <2>1, <2>2 DEF DictionaryOK
  <2> QED
    BY <1>1, <2>1, <2>3
<1>3. ASSUME NEW d, Is(d)
      PROVE  SearchSingleTerm(query) =
               [term_id |-> d - 1, template_ids |-> disk.dictionary[d].template_ids]
  <2> DEFINE found == CHOOSE c \in DOMAIN disk.dictionary : disk.dictionary[c].term = query
  <2>1. Is(found)
    BY <1>3
  <2> HIDE DEF Is
  <2>2. found = d
    BY <1>2, <1>3, <2>1
  <2>3. SearchSingleTerm(query) = [term_id |-> found - 1, template_ids |-> TemplateIdsAt(found)]
    BY <1>3 DEF SearchSingleTerm, Is
  <2>4. TemplateIdsAt(d) = disk.dictionary[d].template_ids
    BY <1>1, <1>3, TemplateIdsAtIs DEF Is
  <2> HIDE DEF found
  <2> QED
    BY <2>2, <2>3, <2>4
<1>4. ASSUME ~ \E d : Is(d)
      PROVE  SearchSingleTerm(query).template_ids = {}
  <2>1. SearchSingleTerm(query) = NotFound
    BY <1>4 DEF SearchSingleTerm
  <2> QED
    BY <2>1 DEF NotFound
<1>5. ASSUME NEW d, Is(d)
      PROVE  SearchSingleTerm(query).term_id = d - 1
  BY <1>3, <1>5
<1> QED
  BY <1>3, <1>4, <1>5

\* A row that a search takes from a column file is a row of the template.
LEMMA HitIsRow ==
  ASSUME WriterInv, Finished, NEW k \in 1 .. Len(order), NEW matching,
         NEW n \in DOMAIN SearchInColumn(k, matching)
  PROVE  /\ SearchInColumn(k, matching)[n] \in 1 .. Template(k).num_docs
         /\ \E c \in 1 .. NumVariables(Template(k)) :
              ColumnsOf(k)[c][SearchInColumn(k, matching)[n]] \in matching
<1> DEFINE rows == SearchInColumn(k, matching)
           hits == GetDocIds(ColumnsOf(k), matching)
<1>1. disk.templates[k].num_docs = Template(k).num_docs
  BY FinishedFacts
<1>2. CASE Template(k).num_docs = 0
  <2>1. ColumnsOf(k) = << >>
    BY <1>1, <1>2 DEF ColumnsOf, DecompressColumn
  <2>2. ColumnsOf(k) \in Seq(Seq(Nat)) /\ Len(ColumnsOf(k)) = 0
    BY <2>1
  <2>3. n \in 1 .. Len(hits) /\ rows[n] = hits[n]
    <3>1. /\ Len(rows) \in Nat /\ DOMAIN rows = 1 .. Len(rows) /\ Len(rows) <= Len(hits)
          /\ \A j \in 1 .. Len(rows) : rows[j] = hits[j]
      BY <2>2, SearchInColumnFacts
    <3>2. Len(hits) \in Nat
      BY <2>2, GetDocIdsFacts, LenProperties
    <3> HIDE DEF rows, hits
    <3>3. n \in 1 .. Len(rows)
      BY <3>1 DEF rows
    <3> QED
      BY <3>1, <3>2, <3>3
  <2>4. \E c \in 1 .. Len(ColumnsOf(k)) : TRUE
    <3>1. IsHits(hits, ColumnsOf(k), matching)
      BY <2>2, GetDocIdsFacts
    <3> HIDE DEF hits
    <3> QED
      BY <2>3, <3>1 DEF IsHits
  <2> QED
    BY <2>2, <2>4
<1>3. CASE Template(k).num_docs # 0
  <2>1. /\ ColumnsOf(k) \in Seq(Seq(Nat)) /\ Len(ColumnsOf(k)) = NumVariables(Template(k))
        /\ \A c \in 1 .. NumVariables(Template(k)) :
             Len(ColumnsOf(k)[c]) = Template(k).num_docs
    BY <1>3, ColumnsAre
  <2>2. n \in 1 .. Len(hits) /\ rows[n] = hits[n]
    <3>1. /\ Len(rows) \in Nat /\ DOMAIN rows = 1 .. Len(rows) /\ Len(rows) <= Len(hits)
          /\ \A j \in 1 .. Len(rows) : rows[j] = hits[j]
      BY <2>1, SearchInColumnFacts
    <3>2. Len(hits) \in Nat
      BY <2>1, GetDocIdsFacts, LenProperties
    <3> HIDE DEF rows, hits
    <3>3. n \in 1 .. Len(rows)
      BY <3>1 DEF rows
    <3> QED
      BY <3>1, <3>2, <3>3
  <2>3. \E c \in 1 .. Len(ColumnsOf(k)) : \E r \in 1 .. Len(ColumnsOf(k)[c]) :
          hits[n] = r /\ ColumnsOf(k)[c][r] \in matching
    <3>1. IsHits(hits, ColumnsOf(k), matching)
      BY <2>1, GetDocIdsFacts
    <3> HIDE DEF hits, rows
    <3> QED
      BY <2>2, <3>1 DEF IsHits
  <2> HIDE DEF hits, rows
  <2> QED
    BY <2>1, <2>2, <2>3 DEF rows
<1> QED
  BY <1>2, <1>3

\* A row with a matching cell is found by a search that does not stop early.
LEMMA RowIsHit ==
  ASSUME WriterInv, Finished, NEW k \in 1 .. Len(order), NEW matching,
         Len(SearchInColumn(k, matching)) < MaxHits,
         NEW c \in 1 .. NumVariables(Template(k)), NEW r \in 1 .. Template(k).num_docs,
         ColumnsOf(k)[c][r] \in matching
  PROVE  r \in Range(SearchInColumn(k, matching))
<1> DEFINE rows == SearchInColumn(k, matching)
           hits == GetDocIds(ColumnsOf(k), matching)
<1>1. Template(k).num_docs # 0
  OBVIOUS
<1>2. /\ ColumnsOf(k) \in Seq(Seq(Nat)) /\ Len(ColumnsOf(k)) = NumVariables(Template(k))
      /\ Len(ColumnsOf(k)[c]) = Template(k).num_docs
  BY <1>1, ColumnsAre
<1>3. PICK n \in 1 .. Len(hits) : hits[n] = r
  <2>1. c \in 1 .. Len(ColumnsOf(k)) /\ r \in 1 .. Len(ColumnsOf(k)[c])
    BY <1>2
  <2>2. IsHits(hits, ColumnsOf(k), matching)
    BY <1>2, GetDocIdsFacts
  <2> HIDE DEF hits
  <2> QED
    BY <2>1, <2>2 DEF IsHits
<1>4. /\ DOMAIN rows = 1 .. Len(rows) /\ Len(rows) = Len(hits)
      /\ \A j \in 1 .. Len(rows) : rows[j] = hits[j]
  BY <1>2, SearchInColumnFacts
<1> HIDE DEF rows, hits
<1> QED
  BY <1>3, <1>4 DEF Range, rows

(* A document that a search returns contains the term searched for: a row  *)
(* of a template whose constants match, or one with the term's ordinal in  *)
(* a cell, whose variable reads as that dictionary entry.                  *)
THEOREM SearchStaysSound == WriterSpec /\ []NewIdsFresh => []SearchSound
<1>1. WriterInv => SearchSound
  <2> SUFFICES ASSUME WriterInv, Finished, NEW query \in Texts,
                      NEW k \in DOMAIN disk.templates, NEW n \in DOMAIN HitRows(query, k)
               PROVE  Contains(Retrieve(k, HitRows(query, k)[n]), query)
    BY DEF SearchSound
  <2> DEFINE tokens == Template(k).tokens
             match == CheckMatch(disk.templates[k].parts, query)
             found == SearchSingleTerm(query)
             Says == \E i \in 1 .. Len(tokens) : IsConstant(tokens[i]) /\ tokens[i].text = query
             r == HitRows(query, k)[n]
  <2>2. k \in 1 .. Len(order) /\ Template(k) \in Groups /\ (match = "Full" <=> Says)
    <3>1. k \in 1 .. Len(order) /\ stage # "idle"
      BY FinishedFacts
    <3> QED
      BY <3>1, MatchFacts, MergedGroup DEF GroupOK
  <2>3. \A i \in 1 .. Len(tokens) : IsConstant(tokens[i]) <=> ~IsVariable(tokens[i])
    BY <2>2, GroupFields, TokenKinds
  <2>4. SUFFICES \E i \in 1 .. Len(tokens) :
          r \in 1 .. Template(k).num_docs /\ Retrieve(k, r)[i] = query
    BY <2>2, RetrieveIs DEF Contains
  <2> HIDE DEF tokens
  <2>5. CASE match = "Full"
    <3>1. HitRows(query, k) = SearchInColumn(k, Nat)
      BY <2>5 DEF HitRows
    <3>2. r \in 1 .. Template(k).num_docs
      BY <2>2, <3>1, HitIsRow
    <3>3. PICK i \in 1 .. Len(tokens) : IsConstant(tokens[i]) /\ tokens[i].text = query
      BY <2>2, <2>5
    <3>4. Retrieve(k, r)[i] = query
      BY <2>2, <3>2, <3>3, RetrieveIs DEF tokens
    <3> QED
      BY <3>2, <3>3, <3>4
  <2>6. CASE match # "Full"
    <3>1. /\ HitRows(query, k) = SearchInColumn(k, {found.term_id})
          /\ k - 1 \in found.template_ids
      BY <2>6 DEF HitRows
    <3>2. /\ r \in 1 .. Template(k).num_docs
          /\ \E c \in 1 .. NumVariables(Template(k)) : ColumnsOf(k)[c][r] = found.term_id
      <4> DEFINE matching == {found.term_id}
      <4> HIDE DEF found, matching
      <4>1. HitRows(query, k) = SearchInColumn(k, matching)
        BY <3>1 DEF matching
      <4>2. /\ r \in 1 .. Template(k).num_docs
            /\ \E c \in 1 .. NumVariables(Template(k)) : ColumnsOf(k)[c][r] \in matching
        BY <2>2, <4>1, HitIsRow
      <4> QED
        BY <4>2 DEF matching
    <3>3. PICK c \in 1 .. NumVariables(Template(k)) : ColumnsOf(k)[c][r] = found.term_id
      BY <3>2
    <3>4. PICK d \in DOMAIN disk.dictionary :
            disk.dictionary[d].term = query /\ found.term_id = d - 1
      BY <3>1, TermFound
    <3> DEFINE i == VariableAt(Template(k), c)
    <3>5. /\ i \in 1 .. Len(tokens) /\ IsVariable(tokens[i])
          /\ Cardinality({j \in 1 .. i : IsVariable(Template(k).tokens[j])}) = c
      BY <2>2, VariableAtFacts DEF tokens
    <3> HIDE DEF i
    <3>6. PICK m : \E id : VariableReads(k, i, m, r, id)
      BY <2>2, <2>3, <3>2, <3>5, RetrieveIs DEF tokens
    <3>7. PICK id : VariableReads(k, i, m, r, id)
      BY <3>6
    <3>8. m = c
      <4>1. m \in 1 .. NumVariables(Template(k)) /\ VariableAt(Template(k), m) = i
        BY <3>7 DEF VariableReads
      <4>2. Cardinality({j \in 1 .. i : IsVariable(Template(k).tokens[j])}) = m
        BY <2>2, <4>1, VariableAtFacts
      <4> QED
        BY <3>5, <4>2
    <3>9. /\ old_to_new[id] = d - 1
          /\ Retrieve(k, r)[i] = disk.dictionary[old_to_new[id] + 1].term
      BY <3>3, <3>4, <3>7, <3>8 DEF VariableReads
    <3>10. (d - 1) + 1 = d
      BY FinishedFacts
    <3>11. Retrieve(k, r)[i] = query
      BY <3>4, <3>9, <3>10
    <3> QED
      BY <3>2, <3>5, <3>11
  <2> QED
    BY <2>5, <2>6
<1> QED
  BY <1>1, WriterInvariant, PTL

(* In a template with a variable a search that does not stop at MaxHits    *)
(* misses no document with the term: the dictionary lists the template,    *)
(* and the cell holds the ordinal that the dictionary gives the term.      *)
THEOREM SearchStaysComplete == WriterSpec /\ []NewIdsFresh => []SearchComplete
<1>1. WriterInv => SearchComplete
  <2> SUFFICES ASSUME WriterInv, Finished, NEW query \in Texts,
                      NEW k \in DOMAIN disk.templates, HasVariable(k),
                      Len(HitRows(query, k)) < MaxHits, NEW r \in RowsWithTerm(query, k)
               PROVE  r \in Range(HitRows(query, k))
    BY DEF SearchComplete
  <2> DEFINE tokens == Template(k).tokens
             match == CheckMatch(disk.templates[k].parts, query)
             found == SearchSingleTerm(query)
             Says == \E i \in 1 .. Len(tokens) : IsConstant(tokens[i]) /\ tokens[i].text = query
  <2>1. k \in 1 .. Len(order) /\ stage # "idle"
    BY FinishedFacts
  <2>2. r \in 1 .. Template(k).num_docs /\ Contains(Retrieve(k, r), query)
    BY <2>1, FinishedFacts DEF RowsWithTerm
  <2>3. /\ match = "Full" <=> Says
        /\ ~Says => (match = "VariableMayMatch" <=>
                       \E i \in 1 .. Len(tokens) : IsVariable(tokens[i]))
        /\ \E i \in 1 .. Len(tokens) : IsVariable(tokens[i])
    BY <2>1, MatchFacts
  <2>4. Template(k) \in Groups
    BY <2>1, MergedGroup DEF GroupOK
  <2>5. \A i \in 1 .. Len(tokens) : IsConstant(tokens[i]) <=> ~IsVariable(tokens[i])
    BY <2>4, GroupFields, TokenKinds
  <2>6. ASSUME NEW i \in 1 .. Len(tokens), IsVariable(tokens[i])
        PROVE  \E n, id : VariableReads(k, i, n, r, id)
    BY <2>1, <2>2, <2>5, <2>6, RetrieveIs
  <2>7. PICK i \in 1 .. Len(tokens) : Retrieve(k, r)[i] = query
    BY <2>1, <2>2, RetrieveIs DEF Contains
  <2> HIDE DEF tokens
  <2>8. CASE match = "Full"
    <3>1. HitRows(query, k) = SearchInColumn(k, Nat)
      BY <2>8 DEF HitRows
    <3>2. PICK j \in 1 .. Len(tokens) : IsVariable(tokens[j])
      BY <2>3
    <3>3. PICK n : \E id : VariableReads(k, j, n, r, id)
      BY <2>6, <3>2
    <3>4. n \in 1 .. NumVariables(Template(k))
      BY <3>3 DEF VariableReads
    <3>5. ColumnsOf(k)[n][r] \in Nat
      <4>1. PICK id : VariableReads(k, j, n, r, id)
        BY <3>3
      <4>2. /\ ColumnsOf(k)[n][r] = old_to_new[id]
            /\ id = IterColumns(Template(k))[n][r]
        BY <4>1 DEF VariableReads
      <4>3. old_to_new[id] \in 0 .. Len(disk.dictionary) - 1
        BY <2>1, <2>2, <3>4, <4>2, FinishedFacts, CellIsMapped
      <4> QED
        BY <4>2, <4>3
    <3> QED
      BY <2>1, <2>2, <3>1, <3>4, <3>5, RowIsHit
  <2>9. CASE match # "Full"
    <3>1. match = "VariableMayMatch" /\ ~Says
      BY <2>3, <2>9
    <3>2. IsVariable(tokens[i])
      <4>1. IsConstant(tokens[i]) => tokens[i].text = query
        BY <2>1, <2>2, <2>7, RetrieveIs DEF tokens
      <4> QED
        BY <2>5, <3>1, <4>1
    <3>3. PICK n : \E id : VariableReads(k, i, n, r, id)
      BY <2>6, <3>2
    <3>4. PICK id : VariableReads(k, i, n, r, id)
      BY <3>3
    <3> DEFINE d == old_to_new[id] + 1
    <3>5. /\ n \in 1 .. NumVariables(Template(k)) /\ ColumnsOf(k)[n][r] = old_to_new[id]
          /\ d \in DOMAIN disk.dictionary /\ disk.dictionary[d].term = query
          /\ k - 1 \in disk.dictionary[d].template_ids
          /\ id = IterColumns(Template(k))[n][r]
      BY <2>7, <3>4 DEF VariableReads
    <3>6. found = [term_id |-> d - 1, template_ids |-> disk.dictionary[d].template_ids]
      BY <3>5, TermFound
    <3>7. d - 1 = old_to_new[id]
      <4>1. old_to_new[id] \in 0 .. Len(disk.dictionary) - 1
        BY <2>1, <2>2, <3>5, FinishedFacts, CellIsMapped
      <4> QED
        BY <4>1
    <3> HIDE DEF d
    <3>8. k - 1 \in found.template_ids /\ found.term_id = old_to_new[id]
      BY <3>5, <3>6, <3>7
    <3> HIDE DEF found
    <3>9. HitRows(query, k) = SearchInColumn(k, {found.term_id})
      BY <3>1, <3>8 DEF HitRows, found
    <3> QED
      BY <2>1, <2>2, <3>5, <3>8, <3>9, RowIsHit
  <2> QED
    BY <2>8, <2>9
<1> QED
  BY <1>1, WriterInvariant, PTL

-----------------------------------------------------------------------------
(* The files and the input.                                                *)

\* What is read back of a row is its line, up to the cap.
LEMMA RowIsLine ==
  ASSUME WriterInv, Finished, NEW k \in 1 .. Len(order),
         NEW r \in 1 .. Template(k).num_docs
  PROVE  CapLine(Retrieve(k, r)) = CapLine(lines[origin[order[k]][r]])
<1> DEFINE group == Template(k)
           tokens == group.tokens
           h == <<"map", order[k]>>
<1>1. /\ StoreInv /\ stage # "idle" /\ order[k] \in DOMAIN groups
  BY FinishedFacts DEF WriterInv, OrderOK
<1>2. h \in Holders /\ Held(h) = group /\ HeldRows(h) = origin[order[k]]
  BY <1>1 DEF Holders, Held, HeldRows, Template
<1>3. DocText(group, r) = CapLine(lines[origin[order[k]][r]])
  BY <1>1, <1>2, HeldText
<1>4. /\ DOMAIN Retrieve(k, r) = 1 .. Len(tokens) /\ Len(Retrieve(k, r)) = Len(tokens)
  BY RetrieveIs
<1>5. ASSUME NEW i \in 1 .. Len(tokens)
      PROVE  Capped[Retrieve(k, r)[i]] = CellText(group, i, r)
  <2>1. CASE IsConstant(tokens[i])
    <3>1. Retrieve(k, r)[i] = tokens[i].text
      BY <2>1, RetrieveIs
    <3> QED
      BY <2>1, <3>1 DEF CellText
  <2>2. CASE ~IsConstant(tokens[i])
    <3>1. PICK n : \E id : VariableReads(k, i, n, r, id)
      BY <2>2, RetrieveIs
    <3>2. PICK id : VariableReads(k, i, n, r, id)
      BY <3>1
    <3> DEFINE text == Retrieve(k, r)[i]
               cell == group.columns[tokens[i].column_index][r]
    <3>3. id \in Ids /\ id = cell /\ text \in Texts /\ Stored(term_map, id, text)
      BY <3>2 DEF VariableReads
    <3> HIDE DEF text, cell
    <3>4. \A s \in Texts : Stored(term_map, cell, s) => s = text
      BY <1>1, <3>3, MergedTerms
    <3>5. (CHOOSE s \in Texts : Stored(term_map, cell, s)) = text
      BY <3>3, <3>4
    <3> QED
      BY <2>2, <3>5 DEF CellText, text, cell
  <2> QED
    BY <2>1, <2>2
<1>6. CapLine(Retrieve(k, r)) = [i \in 1 .. Len(tokens) |-> Capped[Retrieve(k, r)[i]]]
  BY <1>4 DEF CapLine
<1>7. DocText(group, r) = [i \in 1 .. Len(tokens) |-> CellText(group, i, r)]
  BY DEF DocText
<1> HIDE DEF group, tokens
<1> QED
  BY <1>3, <1>5, <1>6, <1>7

\* Each row of each template comes from a line of its own, and every line
\* has a row.
LEMMA RowsAreLines ==
  ASSUME WriterInv, Finished
  PROVE  LET from == [row \in Rows |-> origin[order[row[1]]][row[2]]]
         IN  /\ \A row \in Rows : /\ row[1] \in 1 .. Len(order)
                                  /\ row[2] \in 1 .. Template(row[1]).num_docs
                                  /\ from[row] \in DOMAIN lines
             /\ \A a, b \in Rows : from[a] = from[b] => a = b
             /\ \A n \in DOMAIN lines : \E row \in Rows : from[row] = n
<1> DEFINE from == [row \in Rows |-> origin[order[row[1]]][row[2]]]
           H(k) == <<"map", order[k]>>
<1>1. /\ StoreInv /\ OrderOK /\ phase = "merged" /\ lines \in Seq(Lines)
      /\ Len(order) \in Nat /\ DOMAIN disk.templates = 1 .. Len(order)
      /\ \A k \in 1 .. Len(order) : disk.templates[k].num_docs = Template(k).num_docs
  BY FinishedFacts DEF WriterInv, StoreInv
<1>2. /\ DOMAIN lines = 1 .. Len(lines) /\ aside = << >>
      /\ Once(RowsByHolder, Len(lines))
  <2>1. aside = << >>
    BY <1>1 DEF StoreInv, PatternsInv
  <2>2. Once(RowsByHolder, Len(lines))
    BY <1>1 DEF StoreInv, RowsOnceInv
  <2> QED
    BY <1>1, <2>1, <2>2, LenProperties
<1>3. ASSUME NEW k \in 1 .. Len(order)
      PROVE  /\ H(k) \in Holders /\ RowsByHolder[H(k)] = origin[order[k]]
             /\ Template(k).num_docs = Len(origin[order[k]])
  <2>1. H(k) \in Holders /\ HeldRows(H(k)) = origin[order[k]] /\ Held(H(k)) = Template(k)
    BY <1>1 DEF OrderOK, Holders, Held, HeldRows, Template
  <2>2. Held(H(k)).num_docs = Len(HeldRows(H(k)))
    BY <1>1, <2>1, HeldText
  <2> QED
    BY <2>1, <2>2 DEF RowsByHolder
<1>4. ASSUME NEW row \in Rows
      PROVE  /\ row = <<row[1], row[2]>> /\ row[1] \in 1 .. Len(order)
             /\ row[2] \in 1 .. Template(row[1]).num_docs
  <2>1. PICK k \in DOMAIN disk.templates :
          \E r \in 1 .. disk.templates[k].num_docs : row = <<k, r>>
    BY DEF Rows
  <2>2. PICK r \in 1 .. disk.templates[k].num_docs : row = <<k, r>>
    BY <2>1
  <2> QED
    BY <1>1, <2>2
<1>5. \A k \in 1 .. Len(order) : \A r \in 1 .. Template(k).num_docs : <<k, r>> \in Rows
  BY <1>1 DEF Rows
<1>6. DOMAIN RowsByHolder = Holders
  BY DEF RowsByHolder
<1>7. \A h \in Holders : \E k \in 1 .. Len(order) : h = H(k)
  BY <1>1, <1>2 DEF Holders, OrderOK
<1> HIDE DEF H
<1>8. ASSUME NEW row \in Rows
      PROVE  /\ row[1] \in 1 .. Len(order) /\ row[2] \in 1 .. Len(origin[order[row[1]]])
             /\ from[row] = origin[order[row[1]]][row[2]]
             /\ from[row] \in LinesIn(RowsByHolder[H(row[1])]) /\ from[row] \in 1 .. Len(lines)
  <2>1. /\ row[1] \in 1 .. Len(order) /\ row[2] \in 1 .. Len(origin[order[row[1]]])
        /\ from[row] = origin[order[row[1]]][row[2]]
    BY <1>3, <1>4
  <2>2. from[row] \in LinesIn(RowsByHolder[H(row[1])])
    BY <1>3, <2>1 DEF LinesIn
  <2>3. from[row] \in 1 .. Len(lines)
    BY <1>2, <1>3, <1>6, <2>1, <2>2 DEF Once
  <2> QED
    BY <2>1, <2>2, <2>3
<1> HIDE DEF from
<1>9. ASSUME NEW a \in Rows, NEW b \in Rows, from[a] = from[b]
      PROVE  a = b
  <2>1. H(a[1]) = H(b[1])
    BY <1>2, <1>3, <1>6, <1>8, <1>9 DEF Once
  <2>2. a[1] = b[1]
    <3>1. order[a[1]] = order[b[1]]
      BY <2>1 DEF H
    <3> QED
      BY <1>1, <1>8, <3>1 DEF OrderOK
  <2>3. EachOnce(origin[order[a[1]]])
    BY <1>2, <1>3, <1>6, <1>8 DEF Once
  <2>4. origin[order[a[1]]][a[2]] = origin[order[a[1]]][b[2]]
    BY <1>8, <1>9, <2>2
  <2>5. a[2] = b[2]
    BY <1>8, <2>2, <2>3, <2>4 DEF EachOnce
  <2> QED
    BY <1>4, <2>2, <2>5
<1>10. ASSUME NEW n \in 1 .. Len(lines)
       PROVE  \E row \in Rows : from[row] = n
  <2>1. n \in UNION {LinesIn(RowsByHolder[h]) : h \in DOMAIN RowsByHolder}
    BY <1>2 DEF Once
  <2>2. PICK h \in Holders : n \in LinesIn(RowsByHolder[h])
    BY <1>6, <2>1
  <2>3. PICK k \in 1 .. Len(order) : h = H(k)
    BY <1>7
  <2>4. PICK r \in 1 .. Len(origin[order[k]]) : origin[order[k]][r] = n
    BY <1>3, <2>2, <2>3 DEF LinesIn
  <2>5. <<k, r>> \in Rows
    BY <1>3, <1>5
  <2>6. from[<<k, r>>] = n
    BY <2>4, <2>5 DEF from
  <2> QED
    BY <2>5, <2>6
<1> QED
  BY <1>2, <1>4, <1>8, <1>9, <1>10 DEF from

(* The files give back the input: the documents that reconstruct() makes   *)
(* of all rows of all templates are the lines that were indexed, as often  *)
(* as they were, up to the cap on the length of a term.                    *)
THEOREM FilesKeepInput == WriterSpec /\ []NewIdsFresh => []FilesHoldInput
<1>1. WriterInv => FilesHoldInput
  <2> SUFFICES ASSUME WriterInv, Finished PROVE FilesHoldInput
    BY DEF FilesHoldInput
  <2> DEFINE text == [row \in Rows |-> CapLine(Retrieve(row[1], row[2]))]
             from == [row \in Rows |-> origin[order[row[1]]][row[2]]]
             Read(doc) == {row \in Rows : text[row] = doc}
             Said(doc) == {n \in DOMAIN lines : CapLine(lines[n]) = doc}
  <2>1. /\ \A row \in Rows : /\ row[1] \in 1 .. Len(order)
                             /\ row[2] \in 1 .. Template(row[1]).num_docs
                             /\ from[row] \in DOMAIN lines
        /\ \A a, b \in Rows : from[a] = from[b] => a = b
        /\ \A n \in DOMAIN lines : \E row \in Rows : from[row] = n
    BY RowsAreLines
  <2>2. DOMAIN lines = 1 .. Len(lines) /\ Len(lines) \in Nat
    BY LenProperties DEF WriterInv, StoreInv
  <2>3. IsFiniteSet(DOMAIN lines) /\ Cardinality(DOMAIN lines) = Len(lines)
    <3> DEFINE N == Len(lines)
    <3>1. N \in Nat
      BY <2>2
    <3> HIDE DEF N
    <3>2. IsFiniteSet(1 .. N) /\ Cardinality(1 .. N) = N
      BY <3>1, FS_Interval
    <3> QED
      BY <2>2, <3>2 DEF N
  <2>4. \A row \in Rows : text[row] = CapLine(lines[from[row]])
    BY <2>1, RowIsLine, SMTT(30)
  <2>5. DOMAIN from = Rows
    OBVIOUS
  <2> HIDE DEF text, from
  <2>6. Cardinality(Rows) = Len(lines)
    <3>1. from \in [Rows -> DOMAIN lines]
      BY <2>1 DEF from
    <3> QED
      BY <2>1, <2>3, <3>1, SameCount
  <2>7. ASSUME NEW doc
        PROVE  Cardinality(Read(doc)) = Cardinality(Said(doc))
    <3> DEFINE f == [row \in Read(doc) |-> from[row]]
    <3>1. f \in [Read(doc) -> Said(doc)]
      BY <2>1, <2>4
    <3>2. \A a, b \in Read(doc) : f[a] = f[b] => a = b
      BY <2>1
    <3>3. \A n \in Said(doc) : \E row \in Read(doc) : f[row] = n
      <4> TAKE n \in Said(doc)
      <4>1. PICK row \in Rows : from[row] = n
        BY <2>1
      <4>2. row \in Read(doc)
        BY <2>4, <4>1
      <4> QED
        BY <4>1, <4>2
    <3>4. IsFiniteSet(Said(doc))
      <4>1. Said(doc) \in SUBSET (DOMAIN lines)
        OBVIOUS
      <4> QED
        BY <2>3, <4>1, FS_Subset
    <3> HIDE DEF f, Read, Said
    <3> QED
      BY <3>1, <3>2, <3>3, <3>4, SameCount
  <2> QED
    BY <2>6, <2>7 DEF FilesHoldInput, text
<1> QED
  BY <1>1, WriterInvariant, PTL

(* If the hashes keep the types of the run's groups and lines apart, its   *)
(* files give back the lines that went in, a search returns no line        *)
(* without the text, and misses none of those that it promises to find.    *)
THEOREM IndexIsFaithful ==
  WriterSpec /\ []HashesApart => []FilesHoldInput /\ []SearchSound /\ []SearchComplete
BY WriterIdsStayFresh, FilesKeepInput, SearchStaysSound, SearchStaysComplete, PTL
=============================================================================
