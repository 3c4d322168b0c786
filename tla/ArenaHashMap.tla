---------------------------- MODULE ArenaHashMap ----------------------------
(***************************************************************************)
(* The hash map under the term map (stacker: shared_arena_hashmap.rs,      *)
(* memory_arena.rs): open addressing with linear probing in a table that   *)
(* doubles when it is half full, keys in an arena of pages that are filled *)
(* one after the other.  One step is one probe, of a call or of a resize.  *)
(***************************************************************************)
EXTENDS FastBytes, FiniteSets

CONSTANTS
  Keys,        (* The keys of calls, sequences of bytes.                   *)
  MaxKeyLen,   (* Keys are cut to this length: u16::MAX in the code.       *)
  Hash,        (* Hash[k]: murmurhash2 of k.                               *)
  Values,
  NoValue,     (* None.                                                    *)
  TableSizes,  (* Arguments of with_capacity; 4 in default().              *)
  PageSize,    (* Bytes of a page: 2^20 in the code.                       *)
  MaxPages     (* Page ids are below this: 4096 in the code.               *)

Byte == 0 .. 255

\* The bytes of a key that are stored.
Capped(key) == SubSeq(key, 1, IF Len(key) < MaxKeyLen THEN Len(key) ELSE MaxKeyLen)

ASSUME ArenaHashMapAssumption ==
  /\ \A k \in Keys : k \in Seq(Byte) /\ Capped(k) \in Keys
  /\ MaxKeyLen \in Nat
  /\ Hash \in [Keys -> Nat]
  /\ NoValue \notin Values
  /\ TableSizes \subseteq Nat
  /\ PageSize \in Nat \ {0} /\ MaxPages \in Nat \ {0}
  /\ MaxKeyLen + 2 <= PageSize

VARIABLES
  table,     (* The slots, from 0.                                         *)
  mask,      (* Its size less one, to cut a hash to a bucket.              *)
  len,
  pages,     (* pages[p]: the bytes in use of the page with id p - 1.      *)
  contents,  (* The bytes of the key that was written to an address.       *)
  call,      (* The last call.                                             *)
  pc,        (* Where it is.                                               *)
  bucket,    (* The cursor of the loop in progress.                        *)
  grown,     (* new_table of a resize, and the slot of the old table that  *)
  from,      (* is next.                                                   *)
  answer     (* What the updater saw and left, or what get found.          *)

tableVars == <<table, mask, len>>
arenaVars == <<pages, contents>>
resizeVars == <<grown, from>>
vars == <<tableVars, arenaVars, resizeVars, call, pc, bucket, answer>>

-----------------------------------------------------------------------------
(* Addresses and the arena.  An address is page id and place in one        *)
(* number; the greatest one is the null pointer.                           *)

Null == MaxPages * PageSize - 1

Addr(page_id, local_addr) == page_id * PageSize + local_addr

(* Mutant of NumBytes: the length is not counted.                          *)
KeyBytesOnly(key) == Len(key)

(* Two bytes of length and the key.                                        *)
NumBytes(key) == 2 + Len(key)

IsAvailable(n) == n + pages[Len(pages)] <= PageSize

(* allocate_space, add_page.                                               *)
Allocated(n) ==
  IF IsAvailable(n) THEN Addr(Len(pages) - 1, pages[Len(pages)])
                    ELSE Addr(Len(pages), 0)

PagesAfter(n) ==
  IF IsAvailable(n) THEN [pages EXCEPT ![Len(pages)] = @ + n]
                    ELSE Append(pages, n)

(* Page::new asserts that the page id has twelve bits.                     *)
ArenaFull(n) == ~IsAvailable(n) /\ Len(pages) >= MaxPages

-----------------------------------------------------------------------------
(* The table.                                                              *)

Slots == [key_addr : 0 .. Null, hash : Nat, value : Values \cup {NoValue}]

EmptySlot == [key_addr |-> Null, hash |-> 0, value |-> NoValue]

IsEmpty(slot) == slot.key_addr = Null

EmptyTable(capacity) == [b \in 0 .. capacity - 1 |-> EmptySlot]

SizeOf(t) == Cardinality(DOMAIN t)

Capacity == SizeOf(table)

Occupied(t) == {b \in DOMAIN t : ~IsEmpty(t[b])}

(* compute_previous_power_of_two.                                          *)
PreviousPowerOfTwo(n) ==
  CHOOSE p \in {2 ^ k : k \in 0 .. n} : p <= n /\ n < 2 * p

(* with_capacity.  That this is a power of two is arithmetic.              *)
FirstCapacity(table_size) ==
  PreviousPowerOfTwo(IF table_size > 1 THEN table_size ELSE 1)

\* Its only odd divisor is 1.
IsPowerOfTwo(n) ==
  n \in Nat \ {0} /\ \A d \in 1 .. n : n % d = 0 => d = 1 \/ d % 2 = 0

ASSUME FirstCapacityAssumption ==
  \A table_size \in TableSizes : IsPowerOfTwo(FirstCapacity(table_size))

(* LinearProbing.  Sizes are powers of two, so that & mask is a modulus.   *)
FirstProbe(hash, m) == (hash + 1) % (m + 1)

NextProbe(b, m) == (b + 1) % (m + 1)

(* Mutant of IsSaturated: a full table.                                    *)
OnlyWhenFull(capacity) == capacity <= len

IsSaturated(capacity) == capacity <= len * 2

(* Mutant of NewLen: half as much again.                                   *)
HalfMore == Capacity + (Capacity + 1) \div 2

NewLen == IF Capacity * 2 > 8 THEN Capacity * 2 ELSE 8

(* Mutant of MaskAfterResize: the mask is left as it is.                   *)
OldMask == mask

MaskAfterResize == SizeOf(grown) - 1

(* Mutant of LenAfterCreate: a new entry is not counted.                   *)
OldLen == len

LenAfterCreate == len + 1

(* The key that is looked for.  get does not cap it.                       *)
SearchKey == IF call.op = "get" THEN call.key ELSE Capped(call.key)

(* Mutant of KeyMatches: equal hashes are equal keys.                      *)
HashMatches(slot, key) == slot.hash = Hash[key]

KeyMatches(slot, key) ==
  slot.hash = Hash[key] /\ FastShortSliceCompare(contents[slot.key_addr], key)

(* The arena's pages are zeroed before a key is copied there.              *)
StoredBytes(key) == FastShortSliceCopy(key, [i \in 1 .. Len(key) |-> 0])

-----------------------------------------------------------------------------

Init ==
  /\ \E table_size \in TableSizes : table = EmptyTable(FirstCapacity(table_size))
  /\ mask = SizeOf(table) - 1
  /\ len = 0
  /\ pages = <<0>>
  /\ contents = << >>
  /\ call = [op |-> "none", key |-> << >>]
  /\ pc = "idle"
  /\ bucket = 0
  /\ grown = << >>
  /\ from = 0
  /\ answer = [old |-> NoValue, new |-> NoValue]

Start(op, key) ==
  /\ pc = "idle"
  /\ call' = [op |-> op, key |-> key]
  /\ answer' = [old |-> NoValue, new |-> NoValue]

CallGet(key) ==
  /\ Start("get", key)
  /\ pc' = "probe"
  /\ bucket' = FirstProbe(Hash[key], mask)
  /\ UNCHANGED <<tableVars, arenaVars, resizeVars>>

(* The table grows before the key is looked up, also if it is there.       *)
CallMutateOrCreate(key) ==
  /\ Start("mutate_or_create", key)
  /\ IF IsSaturated(Capacity)
     THEN /\ pc' = "resize"
          /\ grown' = EmptyTable(NewLen)
          /\ bucket' = FirstProbe(table[0].hash, NewLen - 1)
     ELSE /\ pc' = "probe"
          /\ bucket' = FirstProbe(Hash[Capped(key)], mask)
          /\ UNCHANGED grown
  /\ from' = 0
  /\ UNCHANGED <<tableVars, arenaVars>>

-----------------------------------------------------------------------------
(* resize: the entries in the order of their slots.                        *)

Moving == pc = "resize" /\ from < Capacity

AdvanceFrom ==
  /\ from' = from + 1
  /\ bucket' = IF from' < Capacity
               THEN FirstProbe(table[from'].hash, SizeOf(grown) - 1)
               ELSE 0

SkipEmptySlot ==
  /\ Moving
  /\ IsEmpty(table[from])
  /\ AdvanceFrom
  /\ UNCHANGED <<tableVars, arenaVars, grown, call, pc, answer>>

ProbeGrown ==
  /\ Moving
  /\ ~IsEmpty(table[from])
  /\ ~IsEmpty(grown[bucket])
  /\ bucket' = NextProbe(bucket, SizeOf(grown) - 1)
  /\ UNCHANGED <<tableVars, arenaVars, resizeVars, call, pc, answer>>

MoveEntry ==
  /\ Moving
  /\ ~IsEmpty(table[from])
  /\ IsEmpty(grown[bucket])
  /\ grown' = [grown EXCEPT ![bucket] = table[from]]
  /\ AdvanceFrom
  /\ UNCHANGED <<tableVars, arenaVars, call, pc, answer>>

EndResize ==
  /\ pc = "resize"
  /\ from = Capacity
  /\ table' = grown
  /\ mask' = MaskAfterResize
  /\ grown' = << >>
  /\ pc' = "probe"
  /\ bucket' = FirstProbe(Hash[SearchKey], mask')
  /\ UNCHANGED <<len, arenaVars, from, call, answer>>

-----------------------------------------------------------------------------
(* The loop of get and of mutate_or_create.                                *)

Probing == pc = "probe"

Return(old, new) ==
  /\ answer' = [old |-> old, new |-> new]
  /\ pc' = "idle"
  /\ UNCHANGED <<call, bucket, resizeVars, mask>>

Probe ==
  /\ Probing
  /\ ~IsEmpty(table[bucket])
  /\ ~KeyMatches(table[bucket], SearchKey)
  /\ bucket' = NextProbe(bucket, mask)
  /\ UNCHANGED <<tableVars, arenaVars, resizeVars, call, pc, answer>>

GetAbsent ==
  /\ Probing
  /\ call.op = "get"
  /\ IsEmpty(table[bucket])
  /\ Return(NoValue, NoValue)
  /\ UNCHANGED <<table, len, arenaVars>>

GetFound ==
  /\ Probing
  /\ call.op = "get"
  /\ ~IsEmpty(table[bucket])
  /\ KeyMatches(table[bucket], SearchKey)
  /\ Return(table[bucket].value, table[bucket].value)
  /\ UNCHANGED <<table, len, arenaVars>>

MutateFound(value) ==
  /\ Probing
  /\ call.op = "mutate_or_create"
  /\ ~IsEmpty(table[bucket])
  /\ KeyMatches(table[bucket], SearchKey)
  /\ table' = [table EXCEPT ![bucket].value = value]
  /\ Return(table[bucket].value, value)
  /\ UNCHANGED <<len, arenaVars>>

Create(value) ==
  LET n == NumBytes(SearchKey)
  IN  /\ Probing
      /\ call.op = "mutate_or_create"
      /\ IsEmpty(table[bucket])
      /\ ~ArenaFull(n)
      /\ pages' = PagesAfter(n)
      /\ contents' = [a \in DOMAIN contents \cup {Allocated(n)} |->
                        IF a = Allocated(n) THEN StoredBytes(SearchKey)
                        ELSE contents[a]]
      /\ table' = [table EXCEPT ![bucket] =
                     [key_addr |-> Allocated(n), hash |-> Hash[SearchKey],
                      value |-> value]]
      /\ len' = LenAfterCreate
      /\ Return(NoValue, value)

(* The assertion on the page id fails.                                     *)
Panic ==
  /\ Probing
  /\ call.op = "mutate_or_create"
  /\ IsEmpty(table[bucket])
  /\ ArenaFull(NumBytes(SearchKey))
  /\ pc' = "panicked"
  /\ UNCHANGED <<tableVars, arenaVars, resizeVars, call, bucket, answer>>

Panicked == pc = "panicked" /\ UNCHANGED vars

-----------------------------------------------------------------------------

(* The steps of a call under way.                                          *)
Work ==
  \/ SkipEmptySlot
  \/ ProbeGrown
  \/ MoveEntry
  \/ EndResize
  \/ Probe
  \/ GetAbsent
  \/ GetFound
  \/ \E value \in Values : MutateFound(value) \/ Create(value)
  \/ Panic

Next ==
  \/ \E key \in Keys : CallGet(key) \/ CallMutateOrCreate(key)
  \/ Work
  \/ Panicked

(* A call is a loop of the caller's thread, which runs on.                 *)
Spec == Init /\ [][Next]_vars /\ WF_vars(Work)

-----------------------------------------------------------------------------

IsTable(t) ==
  /\ IsPowerOfTwo(SizeOf(t))
  /\ t \in [0 .. SizeOf(t) - 1 -> Slots]

HashMapTypeOK ==
  /\ IsTable(table)
  /\ pc = "resize" => IsTable(grown) /\ SizeOf(grown) >= 2 * Capacity
  /\ len \in Nat
  /\ pages \in Seq(0 .. PageSize)
  /\ Len(pages) \in 1 .. MaxPages
  /\ contents \in [DOMAIN contents -> Seq(Byte)]
  /\ pc \in {"idle", "resize", "probe", "panicked"}
  /\ bucket \in Nat
  /\ from \in 0 .. Capacity

(***************************************************************************)
(* The probe sequence of no entry is broken: all buckets from the first    *)
(* probe of its hash to its own are taken, in the table and in the one     *)
(* that a resize fills, whose entries come in another order than that of   *)
(* their insertion.                                                        *)
(***************************************************************************)
Unbroken(t, m) ==
  LET Steps(b) == (b - FirstProbe(t[b].hash, m)) % (m + 1)
  IN  \A b \in Occupied(t) : \A n \in 0 .. Steps(b) :
        ~IsEmpty(t[(FirstProbe(t[b].hash, m) + n) % (m + 1)])

NoGaps == Unbroken(table, mask) /\ Unbroken(grown, SizeOf(grown) - 1)

(***************************************************************************)
(* len counts the entries, no key has two of them, and there is a bucket   *)
(* left at which the probes of a key that is not there end: tables double  *)
(* early enough.                                                           *)
(***************************************************************************)
EntriesCounted ==
  /\ len = Cardinality(Occupied(table))
  /\ \A b, c \in Occupied(table) :
       contents[table[b].key_addr] = contents[table[c].key_addr] => b = c
  /\ len < Capacity
  /\ pc = "resize" => Cardinality(Occupied(grown)) < SizeOf(grown)

(***************************************************************************)
(* Keys do not overlap in the arena, none runs over the end of its page,   *)
(* and none is at the address that stands for an empty slot.  This is also *)
(* what lets `contents` stand for the bytes.                               *)
(***************************************************************************)
KeysIntact ==
  \A a \in DOMAIN contents :
    /\ a # Null
    /\ (a % PageSize) + 2 + Len(contents[a]) <= pages[(a \div PageSize) + 1]
    /\ \A b \in DOMAIN contents : a < b => a + 2 + Len(contents[a]) <= b

(* The map that the table stands for.                                      *)
Content ==
  [k \in Keys |->
     IF \E b \in Occupied(table) : contents[table[b].key_addr] = k
     THEN table[CHOOSE b \in Occupied(table) : contents[table[b].key_addr] = k].value
     ELSE NoValue]

Map == INSTANCE KeyValueMap WITH
         map      <- Content,
         busy     <- pc # "idle",
         StoredAs <- [k \in Keys |-> Capped(k)]

(***************************************************************************)
(* The hash map implements a map: whatever the hashes of the keys, a call  *)
(* sees the value that the last update of its key left, and neither a      *)
(* collision nor a resize makes, loses or mixes up an entry.               *)
(***************************************************************************)
ImplementsMap == Map!Spec

(***************************************************************************)
(* A call returns (or the arena is full): no loop of probes goes round a   *)
(* table for ever.                                                         *)
(***************************************************************************)
CallsReturn == pc \in {"resize", "probe"} ~> pc \in {"idle", "panicked"}

-----------------------------------------------------------------------------
(* What a comment says and the code does not do.                           *)

(***************************************************************************)
(* with_capacity: capacity is "(minimum 1)", which a table of one item     *)
(* fills: a lookup of another key does not return.                         *)
(***************************************************************************)
LookupsReturn == (pc = "probe" /\ call.op = "get") ~> pc = "idle"
=============================================================================
