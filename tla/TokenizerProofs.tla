--------------------------- MODULE TokenizerProofs --------------------------
(***************************************************************************)
(* Tokens tile every input, cut no character and are maximal, addresses    *)
(* are dotted quads, for strings of any length.  What a token promises     *)
(* follows from where the run of bytes that it is made of ends; what it    *)
(* may start with, from the order of the matchers.                         *)
(***************************************************************************)
EXTENDS Tokenizer, SequenceTheorems, WellFoundedInduction, TLAPS

-----------------------------------------------------------------------------
(* Runs of bytes.                                                          *)

(* A set of natural numbers has a least element.                           *)
LEMMA LeastElement ==
  ASSUME NEW T \in SUBSET Nat, T # {}
  PROVE  \E x \in T : \A y \in T : x <= y
<1> DEFINE Less == {p \in Nat \X Nat : p[1] < p[2]}
<1>1. IsWellFoundedOn(OpToRel(<, Nat), Nat)
  BY NatLessThanWellFounded, Zenon
<1>2. OpToRel(<, Nat) = Less
  BY Zenon DEF OpToRel
<1>3. IsWellFoundedOn(Less, Nat)
  BY <1>1, <1>2
<1>4. PICK x \in T : \A y \in T : ~(<<y, x>> \in Less)
  <2> HIDE DEF Less
  <2> QED
    BY <1>3, WFMin
<1>5. \A y \in T : ~(y < x)
  BY <1>4
<1> QED
  BY <1>5

(* What RunEnd chooses exists: the run ends at the first byte that is not  *)
(* of the class, or at the end of the string.                              *)
LEMMA RunEndFacts ==
  ASSUME NEW s \in Seq(Byte), NEW p \in 0 .. Len(s), NEW class
  PROVE  /\ RunEnd(s, p, class) \in p .. Len(s)
         /\ \A i \in p + 1 .. RunEnd(s, p, class) : s[i] \in class
         /\ RunEnd(s, p, class) < Len(s) => s[RunEnd(s, p, class) + 1] \notin class
         /\ p < Len(s) /\ s[p + 1] \in class => p < RunEnd(s, p, class)
<1> DEFINE T == {e \in p .. Len(s) : e < Len(s) => s[e + 1] \notin class}
           Ends(e) == /\ \A i \in p + 1 .. e : s[i] \in class
                      /\ e < Len(s) => s[e + 1] \notin class
<1>1. Len(s) \in Nat
  OBVIOUS
<1>2. T \in SUBSET Nat /\ T # {}
  <2>1. Len(s) \in T
    BY <1>1
  <2> QED
    BY <2>1
<1>3. PICK x \in T : \A y \in T : x <= y
  BY <1>2, LeastElement
<1>4. ASSUME NEW i \in p + 1 .. x
      PROVE  s[i] \in class
  <2>1. i - 1 \in p .. Len(s) /\ i - 1 < Len(s) /\ ~(x <= i - 1) /\ (i - 1) + 1 = i
    BY <1>1, <1>3
  <2> QED
    BY <1>3, <2>1
<1>5. x \in p .. Len(s) /\ Ends(x)
  BY <1>3, <1>4
<1>6. RunEnd(s, p, class) \in p .. Len(s) /\ Ends(RunEnd(s, p, class))
  BY <1>5 DEF RunEnd
<1> QED
  BY <1>1, <1>6

-----------------------------------------------------------------------------
(* The tables.                                                             *)

(* No byte is in neither table: what does not start punctuation is part of *)
(* a word.                                                                 *)
LEMMA Tables ==
  /\ WordDelimiter \subseteq Punctuation
  /\ Punctuation \intersect NonAscii = {}
  /\ Digit \intersect NonAscii = {}
  /\ HexDigit \intersect NonAscii = {}
  /\ Digit \intersect Punctuation = {}
  /\ Continuation \subseteq NonAscii
  BY DEF WordDelimiter, Punctuation, AsciiPunctuation, AsciiWhitespace, NonAscii,
         Continuation, Digit, HexDigit, Dot, Dash, Underscore, Percent

-----------------------------------------------------------------------------
(* The matchers.                                                           *)

\* What the end of a run of digits looks like.
DigitsEnd(s, e) == s[e] \in Digit /\ (e < Len(s) => s[e + 1] \notin Digit)

LEMMA OctetEndsFacts ==
  ASSUME NEW s \in Seq(Byte), NEW p \in 0 .. Len(s),
         NEW starts \in SUBSET (p .. Len(s)),
         NEW e \in OctetEnds(s, starts)
  PROVE  e \in p + 1 .. Len(s) /\ DigitsEnd(s, e)
<1>1. PICK q \in starts : OctetAt(s, q) /\ e = RunEnd(s, q, Digit)
  BY DEF OctetEnds
<1>2. q \in 0 .. Len(s) /\ p <= q
  OBVIOUS
<1>3. e - q \in 1 .. 3
  BY <1>1 DEF OctetAt
<1>4. /\ e \in q .. Len(s)
      /\ \A i \in q + 1 .. e : s[i] \in Digit
      /\ e < Len(s) => s[e + 1] \notin Digit
  BY <1>1, <1>2, RunEndFacts
<1> QED
  BY <1>2, <1>3, <1>4 DEF DigitsEnd

LEMMA Ipv4Facts ==
  ASSUME NEW s \in Seq(Byte), NEW p \in 0 .. Len(s), p < Len(s),
         NEW e \in IsIpv4(s, p)
  PROVE  e \in p + 1 .. Len(s) /\ DigitsEnd(s, e) /\ s[p + 1] \in Digit
<1> DEFINE second == AfterDot(s, OctetEnds(s, {p}))
           third  == AfterDot(s, OctetEnds(s, second))
           fourth == AfterDot(s, OctetEnds(s, third))
<1>1. ASSUME NEW starts \in SUBSET (p .. Len(s))
      PROVE  AfterDot(s, OctetEnds(s, starts)) \in SUBSET (p .. Len(s))
  <2>1. OctetEnds(s, starts) \subseteq p + 1 .. Len(s)
    BY OctetEndsFacts
  <2> QED
    BY <2>1 DEF AfterDot
<1>2. {p} \in SUBSET (p .. Len(s))
  OBVIOUS
<1>3. second \in SUBSET (p .. Len(s))
  BY <1>1, <1>2
<1>4. third \in SUBSET (p .. Len(s))
  BY <1>1, <1>3
<1>5. fourth \in SUBSET (p .. Len(s))
  BY <1>1, <1>4
<1>6. IsIpv4(s, p) = OctetEnds(s, fourth)
  BY DEF IsIpv4
<1>7. e \in p + 1 .. Len(s) /\ DigitsEnd(s, e)
  BY <1>5, <1>6, OctetEndsFacts
<1>8. OctetEnds(s, {p}) # {}
  BY <1>6 DEF OctetEnds, AfterDot
<1>9. RunEnd(s, p, Digit) - p \in 1 .. 3
  BY <1>8 DEF OctetEnds, OctetAt
<1>10. s[p + 1] \in Digit
  BY <1>9, RunEndFacts
<1> QED
  BY <1>7, <1>10

LEMMA NumberFacts ==
  ASSUME NEW s \in Seq(Byte), NEW p \in 0 .. Len(s), p < Len(s),
         NEW e \in IsNumber(s, p)
  PROVE  e \in p + 1 .. Len(s) /\ DigitsEnd(s, e) /\ s[p + 1] \in Digit
<1>1. s[p + 1] \in Digit /\ e = RunEnd(s, p, Digit)
  BY DEF IsNumber
<1> QED
  BY <1>1, RunEndFacts DEF DigitsEnd

LEMMA UuidFacts ==
  ASSUME NEW s \in Seq(Byte), NEW p \in 0 .. Len(s), NEW e \in IsUuidV4(s, p)
  PROVE  e \in p + 1 .. Len(s) /\ s[e] \in HexDigit
<1>1. /\ e = p + UuidLen /\ e <= Len(s)
      /\ \A k \in 0 .. UuidLen - 1 :
           s[p + k + 1] \in IF k \in UuidDashes THEN {Dash} ELSE HexDigit
  BY DEF IsUuidV4
<1>2. 35 \in 0 .. UuidLen - 1 /\ 35 \notin UuidDashes /\ p + 35 + 1 = e
  BY <1>1 DEF UuidLen, UuidDashes
<1>3. s[p + 35 + 1] \in HexDigit
  BY <1>1, <1>2
<1> QED
  BY <1>1, <1>2, <1>3 DEF UuidLen

LEMMA WordFacts ==
  ASSUME NEW s \in Seq(Byte), NEW p \in 0 .. Len(s), p < Len(s),
         s[p + 1] \notin Punctuation
  PROVE  /\ WordEnd(s, p) \in p + 1 .. Len(s)
         /\ WordEnd(s, p) < Len(s) => s[WordEnd(s, p) + 1] \in WordDelimiter
<1>1. s[p + 1] \in Byte \ WordDelimiter
  BY Tables
<1>2. /\ WordEnd(s, p) \in p .. Len(s) /\ p < WordEnd(s, p)
      /\ WordEnd(s, p) < Len(s) => s[WordEnd(s, p) + 1] \notin Byte \ WordDelimiter
  BY <1>1, RunEndFacts DEF WordEnd
<1>3. WordEnd(s, p) < Len(s) => s[WordEnd(s, p) + 1] \in Byte
  BY <1>2
<1> QED
  BY <1>2, <1>3

-----------------------------------------------------------------------------
(* One token.                                                              *)

TokenSet == [type : TokenTypes, start : Nat, end : Nat]

\* A token that starts at p: its place, and the byte it starts with.
Placed(s, p, token) ==
  /\ token \in TokenSet
  /\ token.start = p
  /\ token.end \in p + 1 .. Len(s)
  /\ token.type = "Punctuation" <=> s[p + 1] \in Punctuation
  /\ token.type \in {"IPv4", "Number"} => s[p + 1] \in Digit

\* What a token says of the byte that follows it.
Follow(s, token) ==
  token.end < Len(s) =>
    /\ token.type = "Punctuation" => s[token.end + 1] \notin Punctuation
    /\ token.type \in {"IPv4", "Number"} => s[token.end + 1] \notin Digit
    /\ token.type = "Word" => s[token.end + 1] \in Punctuation

\* A token ends with an ASCII byte or in front of one.
EndsAtAscii(s, token) ==
  \/ s[token.end] \notin NonAscii
  \/ token.end < Len(s) /\ s[token.end + 1] \notin NonAscii
  \/ token.end = Len(s)

TokenOK(s, p, token) ==
  Placed(s, p, token) /\ Follow(s, token) /\ EndsAtAscii(s, token)

(* next() returns a token of one of the types, which is not empty and says *)
(* of its neighbourhood what its matcher looked for.                       *)
LEMMA TokenFacts ==
  ASSUME NEW s \in Seq(Byte), NEW p \in 0 .. Len(s), p < Len(s)
  PROVE  TokenOK(s, p, TokenAt(s, p))
<1> DEFINE Token(type, end) == [type |-> type, start |-> p, end |-> end]
<1>1. p \in Nat /\ Len(s) \in Nat /\ \A e \in p + 1 .. Len(s) : e \in Nat
  OBVIOUS
<1>2. \A type \in TokenTypes, e \in p + 1 .. Len(s) : Token(type, e) \in TokenSet
  BY <1>1 DEF TokenSet
<1>3. CASE s[p + 1] \in Punctuation
  <2> DEFINE e == RunEnd(s, p, Punctuation)
  <2>1. /\ e \in p + 1 .. Len(s)
        /\ s[e] \in Punctuation
        /\ e < Len(s) => s[e + 1] \notin Punctuation
    <3>1. /\ e \in p .. Len(s) /\ p < e
          /\ \A i \in p + 1 .. e : s[i] \in Punctuation
          /\ e < Len(s) => s[e + 1] \notin Punctuation
      BY <1>3, RunEndFacts
    <3> HIDE DEF e
    <3>2. e \in p + 1 .. e
      BY <3>1
    <3> QED
      BY <3>1, <3>2
  <2>2. TokenAt(s, p) = Token("Punctuation", e)
    BY <1>3 DEF TokenAt
  <2> HIDE DEF e
  <2>3. Token("Punctuation", e) \in TokenSet
    BY <1>2, <2>1 DEF TokenTypes
  <2>4. s[e] \notin NonAscii
    BY <2>1, Tables
  <2> QED
    BY <1>3, <2>1, <2>2, <2>3, <2>4 DEF TokenOK, Placed, Follow, EndsAtAscii
<1>4. ASSUME NEW type \in {"IPv4", "Number"}, NEW e \in p + 1 .. Len(s),
             DigitsEnd(s, e), s[p + 1] \in Digit, TokenAt(s, p) = Token(type, e)
      PROVE  TokenOK(s, p, TokenAt(s, p))
  <2>1. Token(type, e) \in TokenSet
    BY <1>2, <1>4 DEF TokenTypes
  <2>2. s[e] \notin NonAscii /\ s[p + 1] \notin Punctuation
    BY <1>4, Tables DEF DigitsEnd
  <2> QED
    BY <1>4, <2>1, <2>2 DEF TokenOK, Placed, Follow, EndsAtAscii, DigitsEnd
<1>5. CASE s[p + 1] \notin Punctuation /\ IsIpv4(s, p) # {}
  <2>1. PICK e \in IsIpv4(s, p) : TokenAt(s, p) = Token("IPv4", e)
    BY <1>5 DEF TokenAt
  <2>2. e \in p + 1 .. Len(s) /\ DigitsEnd(s, e) /\ s[p + 1] \in Digit
    BY Ipv4Facts
  <2> QED
    BY <1>4, <2>1, <2>2
<1>6. CASE s[p + 1] \notin Punctuation /\ IsIpv4(s, p) = {} /\ IsNumber(s, p) # {}
  <2>1. PICK e \in IsNumber(s, p) : TokenAt(s, p) = Token("Number", e)
    BY <1>6 DEF TokenAt
  <2>2. e \in p + 1 .. Len(s) /\ DigitsEnd(s, e) /\ s[p + 1] \in Digit
    BY NumberFacts
  <2> QED
    BY <1>4, <2>1, <2>2
<1>7. CASE /\ s[p + 1] \notin Punctuation /\ IsIpv4(s, p) = {} /\ IsNumber(s, p) = {}
           /\ IsUuidV4(s, p) # {}
  <2>1. PICK e \in IsUuidV4(s, p) : TokenAt(s, p) = Token("Uuid", e)
    BY <1>7 DEF TokenAt
  <2>2. e \in p + 1 .. Len(s) /\ s[e] \in HexDigit
    BY UuidFacts
  <2>3. Token("Uuid", e) \in TokenSet /\ s[e] \notin NonAscii
    BY <1>2, <2>2, Tables DEF TokenTypes
  <2> QED
    BY <1>7, <2>1, <2>2, <2>3 DEF TokenOK, Placed, Follow, EndsAtAscii
<1>8. CASE /\ s[p + 1] \notin Punctuation /\ IsIpv4(s, p) = {} /\ IsNumber(s, p) = {}
           /\ IsUuidV4(s, p) = {}
  <2> DEFINE e == WordEnd(s, p)
  <2>1. e \in p + 1 .. Len(s) /\ (e < Len(s) => s[e + 1] \in WordDelimiter)
    BY <1>8, WordFacts
  <2>2. TokenAt(s, p) = Token("Word", e)
    BY <1>8 DEF TokenAt
  <2> HIDE DEF e
  <2>3. Token("Word", e) \in TokenSet
    BY <1>2, <2>1 DEF TokenTypes
  <2>4. e < Len(s) => s[e + 1] \in Punctuation /\ s[e + 1] \notin NonAscii
    BY <2>1, Tables
  <2>5. e < Len(s) \/ e = Len(s)
    BY <2>1
  <2> QED
    BY <1>8, <2>1, <2>2, <2>3, <2>4, <2>5 DEF TokenOK, Placed, Follow, EndsAtAscii
<1> QED
  BY <1>3, <1>5, <1>6, <1>7, <1>8

-----------------------------------------------------------------------------
(* A token's text on its own.                                              *)

\* The text between two offsets.
Text(s, p, e) == SubSeq(s, p + 1, e)

(* The bytes of a text are those of the string it was taken from.          *)
LEMMA TextFacts ==
  ASSUME NEW s \in Seq(Byte), NEW p \in 0 .. Len(s), NEW e \in p .. Len(s)
  PROVE  /\ Text(s, p, e) \in Seq(Byte)
         /\ Len(Text(s, p, e)) = e - p
         /\ \A i \in 1 .. e - p : Text(s, p, e)[i] = s[p + i]
<1>1. p + 1 \in 1 .. Len(s) + 1 /\ e \in (p + 1) - 1 .. Len(s) /\ Len(s) \in Nat
  OBVIOUS
<1>2. /\ Text(s, p, e) \in Seq(Byte)
      /\ Len(Text(s, p, e)) = IF p + 1 <= e THEN e - (p + 1) + 1 ELSE 0
      /\ \A i \in 1 .. e - (p + 1) + 1 : Text(s, p, e)[i] = s[(p + 1) + i - 1]
  BY <1>1, SubSeqProperties DEF Text
<1>3. e - (p + 1) + 1 = e - p /\ \A i \in 1 .. e - p : (p + 1) + i - 1 = p + i
  BY <1>1
<1> QED
  BY <1>1, <1>2, <1>3

(* A run of bytes has one end.                                             *)
LEMMA RunEndUnique ==
  ASSUME NEW s \in Seq(Byte), NEW p \in 0 .. Len(s), NEW class,
         NEW e \in p .. Len(s),
         \A i \in p + 1 .. e : s[i] \in class,
         e < Len(s) => s[e + 1] \notin class
  PROVE  RunEnd(s, p, class) = e
<1> DEFINE f == RunEnd(s, p, class)
<1>1. /\ f \in p .. Len(s)
      /\ \A i \in p + 1 .. f : s[i] \in class
      /\ f < Len(s) => s[f + 1] \notin class
  BY RunEndFacts
<1> HIDE DEF f
<1>2. Len(s) \in Nat
  OBVIOUS
<1>3. ~(f < e)
  <2>1. f < e => f + 1 \in p + 1 .. e /\ f < Len(s)
    BY <1>1, <1>2
  <2> QED
    BY <1>1, <2>1
<1>4. ~(e < f)
  <2>1. e < f => e + 1 \in p + 1 .. f /\ e < Len(s)
    BY <1>1, <1>2
  <2> QED
    BY <1>1, <2>1
<1> QED
  BY <1>1, <1>2, <1>3, <1>4 DEF f

(* A run that ends within a text ends at the same byte of the text.        *)
LEMMA RunEndInText ==
  ASSUME NEW s \in Seq(Byte), NEW p \in 0 .. Len(s), NEW e \in p .. Len(s),
         NEW q \in p .. e, NEW class, RunEnd(s, q, class) <= e
  PROVE  RunEnd(Text(s, p, e), q - p, class) = RunEnd(s, q, class) - p
<1> DEFINE f == RunEnd(s, q, class)
           t == Text(s, p, e)
<1>1. Len(s) \in Nat /\ q \in 0 .. Len(s)
  OBVIOUS
<1>2. /\ f \in q .. Len(s) /\ f <= e
      /\ \A i \in q + 1 .. f : s[i] \in class
      /\ f < Len(s) => s[f + 1] \notin class
  BY <1>1, RunEndFacts
<1>3. t \in Seq(Byte) /\ Len(t) = e - p /\ \A i \in 1 .. e - p : t[i] = s[p + i]
  BY TextFacts
<1> HIDE DEF f, t
<1>4. q - p \in 0 .. Len(t) /\ f - p \in q - p .. Len(t)
  BY <1>1, <1>2, <1>3
<1>5. ASSUME NEW i \in (q - p) + 1 .. f - p PROVE t[i] \in class
  <2>1. i \in 1 .. e - p /\ p + i \in q + 1 .. f
    BY <1>1, <1>2
  <2> QED
    BY <1>2, <1>3, <2>1
<1>6. ASSUME f - p < Len(t) PROVE t[(f - p) + 1] \notin class
  <2>1. f < Len(s) /\ (f - p) + 1 \in 1 .. e - p /\ p + ((f - p) + 1) = f + 1
    BY <1>1, <1>2, <1>3, <1>6
  <2> QED
    BY <1>2, <1>3, <2>1
<1>7. RunEnd(t, q - p, class) = f - p
  BY <1>3, <1>4, <1>5, <1>6, RunEndUnique
<1> QED
  BY <1>7 DEF f, t

(* An octet within a text is an octet of the text.                         *)
LEMMA OctetInText ==
  ASSUME NEW s \in Seq(Byte), NEW p \in 0 .. Len(s), NEW e \in p .. Len(s),
         NEW q \in p .. e, RunEnd(s, q, Digit) <= e, OctetAt(s, q)
  PROVE  OctetAt(Text(s, p, e), q - p)
<1> DEFINE f == RunEnd(s, q, Digit)
           t == Text(s, p, e)
<1>1. Len(s) \in Nat /\ q \in 0 .. Len(s)
  OBVIOUS
<1>2. f \in q .. Len(s) /\ f <= e
  BY <1>1, RunEndFacts
<1>3. t \in Seq(Byte) /\ Len(t) = e - p /\ \A i \in 1 .. e - p : t[i] = s[p + i]
  BY TextFacts
<1>4. RunEnd(t, q - p, Digit) = f - p
  BY RunEndInText
<1>5. f - q \in 1 .. 3 /\ ValueOf(Text(s, q, f)) <= 255 /\ (f - q > 1 => s[q + 1] # Zero)
  BY DEF OctetAt, Text
<1> HIDE DEF f, t
<1>6. (f - p) - (q - p) = f - q /\ q - p \in 0 .. Len(t) /\ f - p \in q - p .. Len(t)
  BY <1>1, <1>2, <1>3
<1>7. t[(q - p) + 1] = s[q + 1]
  <2>1. (q - p) + 1 \in 1 .. e - p /\ p + ((q - p) + 1) = q + 1
    BY <1>1, <1>2, <1>5
  <2> QED
    BY <1>3, <2>1
<1>8. Text(t, q - p, f - p) = Text(s, q, f)
  <2>1. /\ Text(s, q, f) \in Seq(Byte) /\ Len(Text(s, q, f)) = f - q
        /\ \A i \in 1 .. f - q : Text(s, q, f)[i] = s[q + i]
    BY <1>1, <1>2, TextFacts
  <2>2. /\ Text(t, q - p, f - p) \in Seq(Byte)
        /\ Len(Text(t, q - p, f - p)) = (f - p) - (q - p)
        /\ \A i \in 1 .. (f - p) - (q - p) : Text(t, q - p, f - p)[i] = t[(q - p) + i]
    BY <1>3, <1>6, TextFacts
  <2>3. ASSUME NEW i \in 1 .. f - q PROVE t[(q - p) + i] = s[q + i]
    <3>1. (q - p) + i \in 1 .. e - p /\ p + ((q - p) + i) = q + i
      BY <1>1, <1>2
    <3> QED
      BY <1>3, <3>1
  <2> QED
    BY <1>6, <2>1, <2>2, <2>3, SeqEqual
<1>9. OctetAt(t, q - p)
  BY <1>4, <1>5, <1>6, <1>7, <1>8 DEF OctetAt, Text
<1> QED
  BY <1>9 DEF t

\* Where the octet that starts at q ends, with a dot after it.
DotAfter(s, q) ==
  /\ OctetAt(s, q)
  /\ RunEnd(s, q, Digit) < Len(s)
  /\ s[RunEnd(s, q, Digit) + 1] = Dot

\* Where the octet after that starts.
NextOctet(s, q) == RunEnd(s, q, Digit) + 1

(* is_ipv4 goes one way: the address that starts at an offset is four      *)
(* octets, each behind the dot that ends the one before.                   *)
LEMMA Ipv4Chain ==
  ASSUME NEW s, NEW p, NEW e
  PROVE  e \in IsIpv4(s, p) <=>
           LET second == NextOctet(s, p)
               third == NextOctet(s, second)
               fourth == NextOctet(s, third)
           IN  /\ DotAfter(s, p) /\ DotAfter(s, second) /\ DotAfter(s, third)
               /\ OctetAt(s, fourth)
               /\ e = RunEnd(s, fourth, Digit)
<1>1. ASSUME NEW q, NEW f
      PROVE  f \in OctetEnds(s, {q}) <=> OctetAt(s, q) /\ f = RunEnd(s, q, Digit)
  BY DEF OctetEnds
<1>2. ASSUME NEW q
      PROVE  AfterDot(s, OctetEnds(s, {q}))
               = IF DotAfter(s, q) THEN {NextOctet(s, q)} ELSE {}
  BY DEF OctetEnds, AfterDot, DotAfter, NextOctet
<1>3. OctetEnds(s, {}) = {} /\ AfterDot(s, {}) = {}
  BY DEF OctetEnds, AfterDot
<1> DEFINE q2 == NextOctet(s, p)
           q3 == NextOctet(s, q2)
           q4 == NextOctet(s, q3)
           second == AfterDot(s, OctetEnds(s, {p}))
           third  == AfterDot(s, OctetEnds(s, second))
           fourth == AfterDot(s, OctetEnds(s, third))
<1>4. second = IF DotAfter(s, p) THEN {q2} ELSE {}
  BY <1>2
<1>5. third = IF DotAfter(s, p) /\ DotAfter(s, q2) THEN {q3} ELSE {}
  <2> HIDE DEF second, q2
  <2> QED
    BY <1>2, <1>3, <1>4
<1>6. fourth = IF DotAfter(s, p) /\ DotAfter(s, q2) /\ DotAfter(s, q3) THEN {q4} ELSE {}
  <2> HIDE DEF third, q2, q3
  <2> QED
    BY <1>2, <1>3, <1>5
<1>7. IsIpv4(s, p) = OctetEnds(s, fourth)
  BY DEF IsIpv4
<1> HIDE DEF second, third, fourth, q2, q3, q4
<1>8. e \in IsIpv4(s, p) <=>
        /\ DotAfter(s, p) /\ DotAfter(s, q2) /\ DotAfter(s, q3)
        /\ OctetAt(s, q4) /\ e = RunEnd(s, q4, Digit)
  BY <1>1, <1>3, <1>6, <1>7
<1> QED
  BY <1>8 DEF q2, q3, q4

(* The text of an address is an address.                                   *)
LEMMA Ipv4InText ==
  ASSUME NEW s \in Seq(Byte), NEW p \in 0 .. Len(s), p < Len(s),
         NEW e \in IsIpv4(s, p)
  PROVE  IsIpv4(Text(s, p, e), 0) = {e - p}
<1> DEFINE t == Text(s, p, e)
           q2 == NextOctet(s, p)
           q3 == NextOctet(s, q2)
           q4 == NextOctet(s, q3)
<1>1. Len(s) \in Nat /\ p \in Nat
  OBVIOUS
<1>2. /\ DotAfter(s, p) /\ DotAfter(s, q2) /\ DotAfter(s, q3)
      /\ OctetAt(s, q4) /\ e = RunEnd(s, q4, Digit)
  BY Ipv4Chain
<1>3. ASSUME NEW q \in 0 .. Len(s), DotAfter(s, q)
      PROVE  /\ RunEnd(s, q, Digit) \in Nat /\ q < RunEnd(s, q, Digit)
             /\ NextOctet(s, q) = RunEnd(s, q, Digit) + 1
             /\ NextOctet(s, q) \in 0 .. Len(s) /\ q < NextOctet(s, q)
             /\ s[NextOctet(s, q)] = Dot
  <2>1. RunEnd(s, q, Digit) \in q .. Len(s) /\ RunEnd(s, q, Digit) - q \in 1 .. 3
    BY <1>3, RunEndFacts DEF DotAfter, OctetAt
  <2> QED
    BY <1>1, <1>3, <2>1 DEF DotAfter, NextOctet
<1>4. q2 \in 0 .. Len(s) /\ p < q2
  BY <1>2, <1>3
<1>5. q3 \in 0 .. Len(s) /\ q2 < q3
  <2> HIDE DEF q2
  <2> QED
    BY <1>2, <1>3, <1>4
<1>6. q4 \in 0 .. Len(s) /\ q3 < q4
  <2> HIDE DEF q2, q3
  <2> QED
    BY <1>2, <1>3, <1>5
<1>7. e \in q4 .. Len(s)
  BY <1>2, <1>6, RunEndFacts
<1>8. e \in p .. Len(s)
  BY <1>1, <1>4, <1>5, <1>6, <1>7
<1>9. t \in Seq(Byte) /\ Len(t) = e - p /\ \A i \in 1 .. e - p : t[i] = s[p + i]
  BY <1>8, TextFacts
<1>10. ASSUME NEW q \in p .. Len(s), DotAfter(s, q), NextOctet(s, q) <= e
       PROVE  DotAfter(t, q - p) /\ NextOctet(t, q - p) = NextOctet(s, q) - p
  <2> DEFINE f == RunEnd(s, q, Digit)
  <2>1. /\ f \in Nat /\ q < f /\ f < e /\ q \in p .. e
        /\ NextOctet(s, q) = f + 1 /\ s[f + 1] = Dot
    <3>1. q \in 0 .. Len(s)
      BY <1>1
    <3>2. /\ f \in Nat /\ q < f /\ NextOctet(s, q) = f + 1 /\ s[f + 1] = Dot
      BY <1>3, <1>10, <3>1
    <3> QED
      BY <1>8, <1>10, <3>2
  <2>2. RunEnd(t, q - p, Digit) = f - p
    BY <1>8, <2>1, RunEndInText
  <2>3. OctetAt(t, q - p)
    BY <1>8, <1>10, <2>1, OctetInText DEF DotAfter
  <2> HIDE DEF f, t
  <2>4. (f - p) + 1 \in 1 .. e - p /\ p + ((f - p) + 1) = f + 1 /\ (f - p) + 1 = (f + 1) - p
    BY <1>1, <1>8, <2>1
  <2>5. t[(f - p) + 1] = Dot
    BY <1>9, <2>1, <2>4
  <2>6. f - p < Len(t)
    BY <1>1, <1>8, <1>9, <2>1
  <2> QED
    BY <2>1, <2>2, <2>3, <2>4, <2>5, <2>6 DEF DotAfter, NextOctet
<1>11. DotAfter(t, 0) /\ NextOctet(t, 0) = q2 - p
  <2>1. p \in p .. Len(s) /\ q2 <= e /\ p - p = 0
    BY <1>1, <1>4, <1>5, <1>6, <1>7
  <2> QED
    BY <1>2, <1>10, <2>1
<1>12. DotAfter(t, q2 - p) /\ NextOctet(t, q2 - p) = q3 - p
  <2> HIDE DEF q2, t
  <2>1. q2 \in p .. Len(s) /\ q3 <= e
    BY <1>1, <1>4, <1>5, <1>6, <1>7
  <2> QED
    BY <1>2, <1>10, <2>1
<1>13. DotAfter(t, q3 - p) /\ NextOctet(t, q3 - p) = q4 - p
  <2> HIDE DEF q2, q3, t
  <2>1. q3 \in p .. Len(s) /\ q4 <= e
    BY <1>1, <1>4, <1>5, <1>6, <1>7
  <2> QED
    BY <1>2, <1>10, <2>1
<1>14. OctetAt(t, q4 - p) /\ RunEnd(t, q4 - p, Digit) = e - p
  <2> HIDE DEF q2, q3, q4
  <2>1. q4 \in p .. e /\ RunEnd(s, q4, Digit) <= e
    BY <1>1, <1>2, <1>4, <1>5, <1>6, <1>7
  <2> QED
    BY <1>2, <1>8, <2>1, OctetInText, RunEndInText
<1> HIDE DEF t, q2, q3, q4
<1>15. \A f : f \in IsIpv4(t, 0) <=> f = e - p
  BY <1>11, <1>12, <1>13, <1>14, Ipv4Chain
<1>16. IsIpv4(t, 0) = {e - p}
  BY <1>15
<1> QED
  BY <1>16 DEF t

(* No address starts with anything but a digit, or in digits alone.        *)
LEMMA NoIpv4InText ==
  ASSUME NEW t \in Seq(Byte), Len(t) > 0,
         t[1] \notin Digit \/ \A i \in 1 .. Len(t) : t[i] \in Digit
  PROVE  IsIpv4(t, 0) = {}
<1> SUFFICES ASSUME NEW f \in IsIpv4(t, 0) PROVE FALSE
  OBVIOUS
<1>1. Len(t) \in Nat /\ 0 \in 0 .. Len(t) /\ 0 < Len(t) /\ 0 + 1 = 1
  OBVIOUS
<1>2. t[1] \in Digit
  BY <1>1, Ipv4Facts
<1>3. DotAfter(t, 0)
  BY Ipv4Chain
<1>4. /\ RunEnd(t, 0, Digit) \in 0 .. Len(t) /\ RunEnd(t, 0, Digit) < Len(t)
      /\ t[RunEnd(t, 0, Digit) + 1] = Dot
  BY <1>1, <1>3, RunEndFacts DEF DotAfter
<1>5. RunEnd(t, 0, Digit) + 1 \in 1 .. Len(t)
  BY <1>1, <1>4
<1>6. Dot \notin Digit
  BY DEF Dot, Digit
<1> QED
  BY <1>2, <1>4, <1>5, <1>6

(* The text of a token, tokenized on its own, is one token of its type.    *)
LEMMA TokenInText ==
  ASSUME NEW s \in Seq(Byte), NEW p \in 0 .. Len(s), p < Len(s)
  PROVE  TokenAt(Text(s, p, TokenAt(s, p).end), 0)
           = [type |-> TokenAt(s, p).type, start |-> 0,
              end |-> TokenAt(s, p).end - p]
<1> DEFINE e == TokenAt(s, p).end
           t == Text(s, p, e)
           Alone(type) == [type |-> type, start |-> 0, end |-> e - p]
<1>1. e \in p + 1 .. Len(s) /\ Len(s) \in Nat /\ p \in Nat
  BY TokenFacts DEF TokenOK, Placed
<1>2. e \in p .. Len(s) /\ p \in p .. e /\ p - p = 0 /\ e - p > 0 /\ 0 + 1 = 1
  <2> HIDE DEF e
  <2> QED
    BY <1>1
<1>3. t \in Seq(Byte) /\ Len(t) = e - p /\ \A i \in 1 .. e - p : t[i] = s[p + i]
  <2> HIDE DEF e
  <2> QED
    BY <1>2, TextFacts
<1>4. t[1] = s[p + 1] /\ Len(t) > 0 /\ 1 \in 1 .. Len(t)
  <2> HIDE DEF e, t
  <2> QED
    BY <1>2, <1>3
<1>5. ASSUME NEW class, RunEnd(s, p, class) = e
      PROVE  RunEnd(t, 0, class) = e - p
  <2> HIDE DEF e
  <2>1. RunEnd(s, p, class) <= e
    BY <1>2, <1>5
  <2> QED
    BY <1>2, <1>5, <2>1, RunEndInText
<1>6. CASE s[p + 1] \in Punctuation
  <2>1. TokenAt(s, p).type = "Punctuation" /\ RunEnd(s, p, Punctuation) = e
    BY <1>6 DEF TokenAt
  <2>2. RunEnd(t, 0, Punctuation) = e - p
    BY <1>5, <2>1
  <2> HIDE DEF e, t
  <2>3. TokenAt(t, 0) = Alone("Punctuation")
    BY <1>2, <1>4, <1>6, <2>2 DEF TokenAt
  <2> QED
    BY <2>1, <2>3 DEF e, t
<1>7. CASE s[p + 1] \notin Punctuation /\ IsIpv4(s, p) # {}
  <2>1. TokenAt(s, p).type = "IPv4" /\ e \in IsIpv4(s, p)
    BY <1>7 DEF TokenAt
  <2> HIDE DEF e
  <2>2. IsIpv4(t, 0) = {e - p}
    BY <2>1, Ipv4InText
  <2> HIDE DEF t
  <2>3. TokenAt(t, 0) = Alone("IPv4")
    BY <1>2, <1>4, <1>7, <2>2 DEF TokenAt
  <2> QED
    BY <2>1, <2>3 DEF e, t
<1>8. CASE s[p + 1] \notin Punctuation /\ IsIpv4(s, p) = {} /\ IsNumber(s, p) # {}
  <2>1. TokenAt(s, p).type = "Number" /\ e \in IsNumber(s, p)
    BY <1>8 DEF TokenAt
  <2> HIDE DEF e
  <2>2. s[p + 1] \in Digit /\ e = RunEnd(s, p, Digit)
    BY <2>1 DEF IsNumber
  <2>3. RunEnd(t, 0, Digit) = e - p
    BY <1>5, <2>2
  <2>4. \A i \in p + 1 .. e : s[i] \in Digit
    BY <2>2, RunEndFacts
  <2> HIDE DEF t
  <2>5. \A i \in 1 .. Len(t) : t[i] \in Digit
    <3>1. \A i \in 1 .. e - p : p + i \in p + 1 .. e
      BY <1>1
    <3> QED
      BY <1>3, <2>4, <3>1
  <2>6. IsIpv4(t, 0) = {}
    BY <1>3, <1>4, <2>5, NoIpv4InText
  <2>7. IsNumber(t, 0) = {e - p}
    BY <1>2, <1>4, <2>2, <2>3 DEF IsNumber
  <2>8. TokenAt(t, 0) = Alone("Number")
    BY <1>2, <1>4, <1>8, <2>6, <2>7 DEF TokenAt
  <2> QED
    BY <2>1, <2>8 DEF e, t
<1>9. ASSUME s[p + 1] \notin Punctuation, IsIpv4(s, p) = {}, IsNumber(s, p) = {}
      PROVE  t[1] \notin Punctuation /\ IsIpv4(t, 0) = {} /\ IsNumber(t, 0) = {}
  <2>1. s[p + 1] \notin Digit
    BY <1>9 DEF IsNumber
  <2> HIDE DEF e, t
  <2>2. IsIpv4(t, 0) = {}
    BY <1>3, <1>4, <2>1, NoIpv4InText
  <2>3. IsNumber(t, 0) = {}
    BY <1>2, <1>4, <2>1 DEF IsNumber
  <2> QED
    BY <1>4, <1>9, <2>2, <2>3
<1>10. ASSUME NEW k \in 0 .. UuidLen - 1, UuidLen <= e - p
       PROVE  t[0 + k + 1] = s[p + k + 1]
  <2> HIDE DEF e, t
  <2>1. 0 + k + 1 \in 1 .. e - p /\ p + (0 + k + 1) = p + k + 1
    BY <1>1, <1>10 DEF UuidLen
  <2> QED
    BY <1>3, <2>1
<1>11. CASE /\ s[p + 1] \notin Punctuation /\ IsIpv4(s, p) = {} /\ IsNumber(s, p) = {}
            /\ IsUuidV4(s, p) # {}
  <2>1. TokenAt(s, p).type = "Uuid" /\ e \in IsUuidV4(s, p)
    BY <1>11 DEF TokenAt
  <2> HIDE DEF e, t
  <2>2. e = p + UuidLen
        /\ \A k \in 0 .. UuidLen - 1 :
             s[p + k + 1] \in IF k \in UuidDashes THEN {Dash} ELSE HexDigit
    BY <2>1 DEF IsUuidV4
  <2>3. e - p = UuidLen /\ UuidLen <= e - p /\ 0 + UuidLen = e - p /\ e - p <= Len(t)
    BY <1>1, <1>3, <2>2 DEF UuidLen
  <2>4. \A k \in 0 .. UuidLen - 1 :
          t[0 + k + 1] \in IF k \in UuidDashes THEN {Dash} ELSE HexDigit
    BY <1>10, <2>2, <2>3
  <2>5. IsUuidV4(t, 0) = {e - p}
    BY <2>3, <2>4 DEF IsUuidV4
  <2>6. TokenAt(t, 0) = Alone("Uuid")
    BY <1>2, <1>9, <1>11, <2>5 DEF TokenAt
  <2> QED
    BY <2>1, <2>6 DEF e, t
<1>12. CASE /\ s[p + 1] \notin Punctuation /\ IsIpv4(s, p) = {} /\ IsNumber(s, p) = {}
            /\ IsUuidV4(s, p) = {}
  <2>1. TokenAt(s, p).type = "Word" /\ e = WordEnd(s, p)
    BY <1>12 DEF TokenAt
  <2> HIDE DEF e
  <2>2. WordEnd(t, 0) = e - p
    BY <1>5, <2>1 DEF WordEnd
  <2> HIDE DEF t
  <2>3. IsUuidV4(t, 0) = {}
    <3> SUFFICES ASSUME NEW f \in IsUuidV4(t, 0) PROVE FALSE
      OBVIOUS
    <3>1. /\ UuidLen <= e - p
          /\ \A k \in 0 .. UuidLen - 1 :
               t[0 + k + 1] \in IF k \in UuidDashes THEN {Dash} ELSE HexDigit
      BY <1>3 DEF IsUuidV4, UuidLen
    <3>2. \A k \in 0 .. UuidLen - 1 :
            s[p + k + 1] \in IF k \in UuidDashes THEN {Dash} ELSE HexDigit
      BY <1>10, <3>1
    <3>3. p + UuidLen <= Len(s)
      BY <1>1, <3>1 DEF UuidLen
    <3> QED
      BY <1>12, <3>2, <3>3 DEF IsUuidV4
  <2>4. TokenAt(t, 0) = Alone("Word")
    BY <1>2, <1>9, <1>12, <2>2, <2>3 DEF TokenAt
  <2> QED
    BY <2>1, <2>4 DEF e, t
<1> QED
  BY <1>6, <1>7, <1>8, <1>11, <1>12

-----------------------------------------------------------------------------
(* The iterator.                                                           *)

(* The inductive invariant: beside the tiling, that each token is what a   *)
(* call of next() at its start returns, wherever the iterator is now.      *)
TokenizerInv ==
  /\ input \in Inputs
  /\ TokenizerTypeOK
  /\ TokensTileInput
  /\ \A i \in DOMAIN tokens :
       /\ tokens[i].start \in 0 .. Len(input) - 1
       /\ tokens[i] = TokenAt(input, tokens[i].start)

(* Hence each token says of the bytes around it what its matcher saw.      *)
LEMMA EachTokenOK ==
  ASSUME TokenizerInv, NEW i \in DOMAIN tokens
  PROVE  TokenOK(input, tokens[i].start, tokens[i])
<1>1. input \in Seq(Byte) /\ Len(input) \in Nat
  BY DEF TokenizerInv, TokenizerTypeOK
<1>2. /\ tokens[i].start \in 0 .. Len(input) - 1
      /\ tokens[i] = TokenAt(input, tokens[i].start)
  BY DEF TokenizerInv
<1>3. tokens[i].start \in 0 .. Len(input) /\ tokens[i].start < Len(input)
  BY <1>1, <1>2
<1> QED
  BY <1>1, <1>2, <1>3, TokenFacts

(* The iterator starts with no tokens.                                     *)
LEMMA InitInv == Init => TokenizerInv
<1> SUFFICES ASSUME Init PROVE TokenizerInv
  OBVIOUS
<1>1. input \in Seq(Byte)
  BY InputsAreStrings DEF Init
<1>2. TokenizerTypeOK
  BY <1>1 DEF Init, TokenizerTypeOK
<1>3. DOMAIN tokens = {}
  BY DEF Init
<1>4. TokensTileInput
  BY <1>3 DEF Init, TokensTileInput
<1> QED
  BY <1>2, <1>3, <1>4 DEF Init, TokenizerInv

(* A call of next() keeps the invariant.                                   *)
LEMMA NextTokenInv ==
  ASSUME TokenizerInv, NextToken
  PROVE  TokenizerInv'
<1> DEFINE token == TokenAt(input, pos)
           n == Len(tokens)
<1>1. /\ input \in Inputs /\ input \in Seq(Byte) /\ input' = input
      /\ pos \in 0 .. Len(input) /\ pos < Len(input)
      /\ pos' = token.end /\ tokens' = Append(tokens, token)
      /\ tokens \in Seq(TokenSet)
  BY DEF TokenizerInv, TokenizerTypeOK, NextToken, TokenSet
<1>2. TokenOK(input, pos, token)
  BY <1>1, TokenFacts
<1>3. /\ token \in TokenSet /\ token.start = pos
      /\ token.end \in pos + 1 .. Len(input)
  BY <1>2 DEF TokenOK, Placed
<1> HIDE DEF token
<1>4. /\ n \in Nat /\ Len(tokens') = n + 1
      /\ DOMAIN tokens = 1 .. n /\ DOMAIN tokens' = 1 .. n + 1
      /\ \A i \in 1 .. n : tokens'[i] = tokens[i]
      /\ tokens'[n + 1] = token
  BY <1>1, <1>3
<1>5. TokenizerTypeOK'
  <2>1. tokens' \in Seq(TokenSet)
    BY <1>1, <1>3
  <2>2. pos' \in 0 .. Len(input)
    BY <1>1, <1>3
  <2> QED
    BY <1>1, <2>1, <2>2 DEF TokenizerTypeOK, TokenSet
<1>6. pos = IF n = 0 THEN 0 ELSE tokens[n].end
  BY <1>1, <1>4 DEF TokenizerInv, TokensTileInput
<1>7. TokensTileInput'
  <2>1. pos' = tokens'[n + 1].end /\ tokens' # <<>>
    BY <1>1, <1>4
  <2>2. ASSUME NEW i \in 1 .. n
        PROVE  /\ tokens'[i].start = IF i = 1 THEN 0 ELSE tokens'[i - 1].end
               /\ tokens'[i].start < tokens'[i].end
    <3>1. i = 1 \/ i - 1 \in 1 .. n
      BY <1>4
    <3> QED
      BY <1>4, <3>1 DEF TokenizerInv, TokensTileInput
  <2>3. /\ tokens'[n + 1].start = IF n + 1 = 1 THEN 0 ELSE tokens'[n].end
        /\ tokens'[n + 1].start < tokens'[n + 1].end
    <3>1. n = 0 \/ n \in 1 .. n
      BY <1>4
    <3>2. token.start < token.end
      BY <1>1, <1>3
    <3> QED
      BY <1>3, <1>4, <1>6, <3>1, <3>2
  <2>4. \A i \in 1 .. n + 1 : i \in 1 .. n \/ (i = n + 1 /\ i - 1 = n)
    BY <1>4
  <2> QED
    BY <1>4, <2>1, <2>2, <2>3, <2>4 DEF TokensTileInput
<1>8. ASSUME NEW i \in 1 .. n + 1
      PROVE  /\ tokens'[i].start \in 0 .. Len(input) - 1
             /\ tokens'[i] = TokenAt(input, tokens'[i].start)
  <2>1. i \in 1 .. n \/ i = n + 1
    BY <1>4
  <2>2. pos \in 0 .. Len(input) - 1
    BY <1>1
  <2>3. token = TokenAt(input, token.start)
    BY <1>3 DEF token
  <2> QED
    BY <1>3, <1>4, <2>1, <2>2, <2>3 DEF TokenizerInv
<1> QED
  BY <1>1, <1>4, <1>5, <1>7, <1>8 DEF TokenizerInv

(* The invariant of the iterator: it is inductive as it stands.            *)
THEOREM TokenizerInvariant == Spec => []TokenizerInv
<1>1. TokenizerInv /\ [Next]_vars => TokenizerInv'
  <2> SUFFICES ASSUME TokenizerInv, [Next]_vars PROVE TokenizerInv'
    OBVIOUS
  <2>1. CASE NextToken
    BY <2>1, NextTokenInv
  <2>2. CASE UNCHANGED vars
    BY <2>2 DEF vars, TokenizerInv, TokenizerTypeOK, TokensTileInput
  <2> QED
    BY <2>1, <2>2 DEF Next, EndOfInput
<1> QED
  BY <1>1, InitInv, PTL DEF Spec

(* The tokenizer's position and its tokens keep their types: no token      *)
(* reaches beyond the end of the input.                                    *)
THEOREM TokenizerTypeCorrect == Spec => []TokenizerTypeOK
<1>1. TokenizerInv => TokenizerTypeOK
  BY DEF TokenizerInv
<1> QED
  BY <1>1, TokenizerInvariant, PTL

(* For every string the tokens, put one after the other, are the string,   *)
(* and none is empty: draining the iterator ends.                          *)
THEOREM TokensAlwaysTile == Spec => []TokensTileInput
<1>1. TokenizerInv => TokensTileInput
  BY DEF TokenizerInv
<1> QED
  BY <1>1, TokenizerInvariant, PTL

(* For every valid UTF-8 string, taking the text of a token slices the     *)
(* string between characters.                                              *)
THEOREM TokensNeverCutCharacters == Spec => []TokensEndAtCharacters
<1>1. TokenizerInv => TokensEndAtCharacters
  <2> SUFFICES ASSUME TokenizerInv PROVE TokensEndAtCharacters
    OBVIOUS
  <2>1. input \in Seq(Byte) /\ Utf8(input) /\ Len(input) \in Nat
    BY InputsAreStrings DEF TokenizerInv
  <2>2. ASSUME NEW i \in DOMAIN tokens, tokens[i].end < Len(input)
        PROVE  input[tokens[i].end + 1] \notin Continuation
    <3> DEFINE e == tokens[i].end
    <3>1. tokens[i].start \in Nat /\ e \in tokens[i].start + 1 .. Len(input)
      BY EachTokenOK DEF TokenOK, Placed, TokenSet
    <3>2. \/ input[e] \notin NonAscii
          \/ input[e + 1] \notin NonAscii
      BY <2>1, <2>2, <3>1, EachTokenOK DEF TokenOK, EndsAtAscii
    <3> HIDE DEF e
    <3>3. e + 1 \in 1 .. Len(input) /\ (e + 1) - 1 = e
      BY <2>1, <2>2, <3>1 DEF e
    <3>4. input[e + 1] \in Continuation => input[e] \in NonAscii
      BY <2>1, <3>3 DEF Utf8
    <3> QED
      BY <3>2, <3>4, Tables DEF e
  <2>3. ASSUME NEW i \in DOMAIN tokens, tokens[i].start < Len(input)
        PROVE  input[tokens[i].start + 1] \notin Continuation
    <3>1. tokens \in Seq(TokenSet)
      BY DEF TokenizerInv, TokenizerTypeOK, TokenSet
    <3>2. i = 1 \/ i - 1 \in DOMAIN tokens
      BY <3>1
    <3>3. CASE tokens[i].start = 0
      <4>1. 1 \in 1 .. Len(input)
        BY <2>1, <2>3, <3>3
      <4> QED
        BY <2>1, <3>3, <4>1 DEF Utf8
    <3>4. CASE i - 1 \in DOMAIN tokens /\ tokens[i].start = tokens[i - 1].end
      BY <2>2, <2>3, <3>4
    <3> QED
      BY <3>2, <3>3, <3>4 DEF TokenizerInv, TokensTileInput
  <2> QED
    BY <2>2, <2>3 DEF TokensEndAtCharacters
<1> QED
  BY <1>1, TokenizerInvariant, PTL

(* Words, numbers and punctuation extend as far as they can, whatever      *)
(* stands next to them.                                                    *)
THEOREM TokensStayMaximal == Spec => []TokensMaximal
<1>1. TokenizerInv => TokensMaximal
  <2> SUFFICES ASSUME TokenizerInv, NEW i \in DOMAIN tokens, i > 1
               PROVE  LET left == tokens[i - 1].type
                          right == tokens[i].type
                      IN  /\ left = right => left = "Uuid"
                          /\ left \in {"IPv4", "Number"}
                               => right \notin {"IPv4", "Number"}
                          /\ left = "Word" => right = "Punctuation"
    BY DEF TokensMaximal
  <2> DEFINE left == tokens[i - 1]
             right == tokens[i]
  <2>1. tokens \in Seq(TokenSet)
    BY DEF TokenizerInv, TokenizerTypeOK, TokenSet
  <2>2. i - 1 \in DOMAIN tokens /\ i # 1
    BY <2>1
  <2>3. left \in TokenSet /\ right \in TokenSet
    BY <2>1, <2>2
  <2>4. right.start = left.end
    BY <2>2 DEF TokenizerInv, TokensTileInput
  <2>5. Placed(input, right.start, right)
    BY EachTokenOK DEF TokenOK
  <2>6. right.start < Len(input)
    BY <2>3, <2>5 DEF Placed, TokenSet
  <2>7. Follow(input, left)
    BY <2>2, EachTokenOK DEF TokenOK
  <2>8. /\ left.type = "Punctuation" => input[right.start + 1] \notin Punctuation
        /\ left.type \in {"IPv4", "Number"} => input[right.start + 1] \notin Digit
        /\ left.type = "Word" => input[right.start + 1] \in Punctuation
    BY <2>4, <2>6, <2>7 DEF Follow
  <2>9. /\ right.type = "Punctuation" <=> input[right.start + 1] \in Punctuation
        /\ right.type \in {"IPv4", "Number"} => input[right.start + 1] \in Digit
    BY <2>5 DEF Placed
  <2>10. left.type \in TokenTypes
    BY <2>3 DEF TokenSet
  <2> HIDE DEF left, right
  <2>11. /\ left.type = right.type => left.type = "Uuid"
         /\ left.type \in {"IPv4", "Number"} => right.type \notin {"IPv4", "Number"}
         /\ left.type = "Word" => right.type = "Punctuation"
    BY <2>8, <2>9, <2>10 DEF TokenTypes
  <2> QED
    BY <2>11 DEF left, right
<1> QED
  BY <1>1, TokenizerInvariant, PTL

(* The text of any token is one token of the same type when it stands      *)
(* alone: what the indexer stores under a type is what a search for that   *)
(* text looks for.                                                         *)
THEOREM TokensAlwaysStandAlone == Spec => []TokensStandAlone
<1>1. TokenizerInv => TokensStandAlone
  <2> SUFFICES ASSUME TokenizerInv, NEW i \in DOMAIN tokens
               PROVE  TokenAt(TextOf(tokens[i]), 0)
                        = [type  |-> tokens[i].type, start |-> 0,
                           end   |-> tokens[i].end - tokens[i].start]
    BY DEF TokensStandAlone
  <2> DEFINE p == tokens[i].start
  <2>1. input \in Seq(Byte) /\ Len(input) \in Nat
    BY DEF TokenizerInv, TokenizerTypeOK
  <2>2. p \in 0 .. Len(input) - 1 /\ tokens[i] = TokenAt(input, p)
    BY DEF TokenizerInv
  <2>3. p \in 0 .. Len(input) /\ p < Len(input)
    BY <2>1, <2>2
  <2>4. TokenAt(Text(input, p, tokens[i].end), 0)
          = [type |-> tokens[i].type, start |-> 0, end |-> tokens[i].end - p]
    <3> HIDE DEF p
    <3> QED
      BY <2>1, <2>2, <2>3, TokenInText
  <2> QED
    BY <2>4 DEF Text, TextOf
<1> QED
  BY <1>1, TokenizerInvariant, PTL
-----------------------------------------------------------------------------
(* The number that an octet writes.                                        *)

\* What the loop over the digits makes of all but the last, and of the last.
Shifted(val, b) == val * 10 + b - Zero

\* A set without its last element.
Earlier(x) == x \ {Max(x)}

(* Up to three places, taken away from the last to the first.              *)
LEMMA Places ==
  ASSUME NEW n \in 1 .. 3, NEW x \in SUBSET (1 .. n), x # {}
  PROVE  /\ Max(x) \in x /\ Earlier(x) \in SUBSET (1 .. n)
         /\ \A k \in 0 .. 2 : x \subseteq 1 .. k + 1 => Earlier(x) \subseteq 1 .. k
<1>1. \E m \in x : \A y \in x : m >= y
  <2>1. x \subseteq {1, 2, 3}
    OBVIOUS
  <2>2. CASE 3 \in x
    BY <2>1, <2>2
  <2>3. CASE 3 \notin x /\ 2 \in x
    BY <2>1, <2>3
  <2>4. CASE 3 \notin x /\ 2 \notin x
    <3>1. x = {1}
      BY <2>1, <2>4
    <3> QED
      BY <3>1
  <2> QED
    BY <2>2, <2>3, <2>4
<1>2. Max(x) \in x /\ \A y \in x : Max(x) >= y
  BY <1>1 DEF Max
<1>3. ASSUME NEW k \in 0 .. 2, x \subseteq 1 .. k + 1
      PROVE  Earlier(x) \subseteq 1 .. k
  <2> PICK m \in x : m = Max(x) /\ \A y \in x : m >= y
    BY <1>2
  <2>1. m \in 1 .. k + 1
    BY <1>3
  <2>2. ASSUME NEW y \in Earlier(x)
        PROVE  y \in 1 .. k
    <3>1. y \in x /\ y \in 1 .. k + 1 /\ y # m
      BY <1>3 DEF Earlier
    <3>2. m >= y
      BY <3>1
    <3> QED
      BY <2>1, <3>1, <3>2
  <2> QED
    BY <2>2
<1> QED
  BY <1>2, <1>3 DEF Earlier

\* One turn of the recursion behind the loop.
Folded(d, g, x) == IF x = {} THEN 0 ELSE Shifted(g[Earlier(x)], d[Max(x)])

Refined(d, n, g) == [x \in SUBSET (1 .. n) |-> Folded(d, g, x)]

AgreeUpTo(n, k, g, h) == \A x \in SUBSET (1 .. n) : x \subseteq 1 .. k => g[x] = h[x]

LEMMA RefinedAgree ==
  ASSUME NEW n \in 1 .. 3, NEW k \in 0 .. 2, NEW d, NEW g, NEW h, AgreeUpTo(n, k, g, h)
  PROVE  AgreeUpTo(n, k + 1, Refined(d, n, g), Refined(d, n, h))
<1> SUFFICES ASSUME NEW x \in SUBSET (1 .. n), x \subseteq 1 .. k + 1
             PROVE  Folded(d, g, x) = Folded(d, h, x)
  BY DEF AgreeUpTo, Refined
<1>1. ASSUME x # {} PROVE g[Earlier(x)] = h[Earlier(x)]
  <2>1. Earlier(x) \in SUBSET (1 .. n) /\ Earlier(x) \subseteq 1 .. k
    BY <1>1, Places
  <2> QED
    BY <2>1 DEF AgreeUpTo
<1> QED
  BY <1>1 DEF Folded

(* The recursion has a solution for three digits, and computes this.       *)
LEMMA FoldSolved ==
  ASSUME NEW n \in 1 .. 3, NEW d
  PROVE  \E g : g = Refined(d, n, g)
<1> DEFINE g0 == [x \in SUBSET (1 .. n) |-> 0]
           g1 == Refined(d, n, g0)
           g2 == Refined(d, n, g1)
           g3 == Refined(d, n, g2)
           g4 == Refined(d, n, g3)
<1>1. AgreeUpTo(n, 0, g0, g1)
  <2> SUFFICES ASSUME NEW x \in SUBSET (1 .. n), x \subseteq 1 .. 0
               PROVE  g0[x] = g1[x]
    BY DEF AgreeUpTo
  <2>1. x = {}
    OBVIOUS
  <2> QED
    BY <2>1 DEF Refined, Folded
<1> HIDE DEF g0
<1>2. AgreeUpTo(n, 0 + 1, g1, g2)
  <2> HIDE DEF g1
  <2> QED
    BY <1>1, RefinedAgree, 0 \in 0 .. 2 DEF g1
<1>3. AgreeUpTo(n, 1 + 1, g2, g3)
  <2>1. AgreeUpTo(n, 1, g1, g2)
    BY <1>2
  <2> HIDE DEF g1
  <2> QED
    BY <2>1, RefinedAgree, 1 \in 0 .. 2
<1>4. AgreeUpTo(n, 2 + 1, g3, g4)
  <2>1. AgreeUpTo(n, 2, g2, g3)
    BY <1>3
  <2> HIDE DEF g2
  <2> QED
    BY <2>1, RefinedAgree, 2 \in 0 .. 2
<1>5. \A x \in SUBSET (1 .. n) : g3[x] = g4[x]
  <2>1. \A x \in SUBSET (1 .. n) : x \subseteq 1 .. 2 + 1
    OBVIOUS
  <2> HIDE DEF g3, g4
  <2> QED
    BY <1>4, <2>1 DEF AgreeUpTo
<1>6. g3 = g4
  <2> DEFINE a(x) == Folded(d, g2, x)
             b(x) == Folded(d, g3, x)
  <2>1. g3 = [x \in SUBSET (1 .. n) |-> a(x)] /\ g4 = [x \in SUBSET (1 .. n) |-> b(x)]
    BY DEF Refined
  <2> HIDE DEF a, b, g2, g3, g4
  <2> QED
    BY <1>5, <2>1
<1> QED
  BY <1>6

LEMMA UpToFacts ==
  ASSUME NEW n \in 1 .. 3, NEW m \in 1 .. n
  PROVE  /\ 1 .. m \in SUBSET (1 .. n) /\ 1 .. m # {}
         /\ Max(1 .. m) = m /\ Earlier(1 .. m) = 1 .. m - 1
<1>1. 1 .. m \in SUBSET (1 .. n) /\ 1 .. m # {} /\ m \in 1 .. m
  OBVIOUS
<1>2. Max(1 .. m) = m
  <2>1. \A x \in 1 .. m : (\A y \in 1 .. m : x >= y) <=> x = m
    OBVIOUS
  <2> QED
    BY <1>1, <2>1 DEF Max
<1>3. Earlier(1 .. m) = 1 .. m - 1
  BY <1>2 DEF Earlier
<1> QED
  BY <1>1, <1>2, <1>3

LEMMA ValueUnfolds ==
  ASSUME NEW n \in 1 .. 3, NEW d \in Seq(Byte), Len(d) = n
  PROVE  /\ n = 1 => ValueOf(d) = Shifted(0, d[1])
         /\ n = 2 => ValueOf(d) = Shifted(Shifted(0, d[1]), d[2])
         /\ n = 3 => ValueOf(d) = Shifted(Shifted(Shifted(0, d[1]), d[2]), d[3])
<1> DEFINE Solves(g) == g = Refined(d, n, g)
<1>1. DOMAIN d = 1 .. n
  OBVIOUS
<1>2. ValueOf(d) = (CHOOSE g : Solves(g))[1 .. n]
  BY <1>1 DEF ValueOf, FoldLeft, MapThenFoldSet, Shifted, Earlier, Refined, Folded
<1>3. PICK g : Solves(g) /\ ValueOf(d) = g[1 .. n]
  <2>1. \E g : Solves(g)
    BY FoldSolved
  <2> HIDE DEF Solves
  <2> QED
    BY <1>2, <2>1
<1>4. \A x \in SUBSET (1 .. n) : g[x] = Folded(d, g, x)
  BY <1>3 DEF Refined
<1>5. g[1 .. 0] = 0
  <2>1. 1 .. 0 = {}
    OBVIOUS
  <2> QED
    BY <1>4, <2>1 DEF Folded
<1>6. ASSUME NEW m \in 1 .. n
      PROVE  g[1 .. m] = Shifted(g[1 .. m - 1], d[m])
  BY <1>4, UpToFacts DEF Folded
<1> HIDE DEF Solves
<1>7. g[1 .. 1] = Shifted(0, d[1])
  <2>1. 1 \in 1 .. n /\ 1 - 1 = 0
    OBVIOUS
  <2>2. g[1 .. 1] = Shifted(g[1 .. 1 - 1], d[1])
    BY <1>6, <2>1, Zenon
  <2> QED
    BY <1>5, <2>1, <2>2
<1>8. n >= 2 => g[1 .. 2] = Shifted(g[1 .. 1], d[2])
  <2>1. n >= 2 => 2 \in 1 .. n /\ 2 - 1 = 1
    OBVIOUS
  <2>2. 2 \in 1 .. n => g[1 .. 2] = Shifted(g[1 .. 2 - 1], d[2])
    BY <1>6, Zenon
  <2> QED
    BY <2>1, <2>2
<1>9. n >= 3 => g[1 .. 3] = Shifted(g[1 .. 2], d[3])
  <2>1. n >= 3 => 3 \in 1 .. n /\ 3 - 1 = 2
    OBVIOUS
  <2>2. 3 \in 1 .. n => g[1 .. 3] = Shifted(g[1 .. 3 - 1], d[3])
    BY <1>6, Zenon
  <2> QED
    BY <2>1, <2>2
<1>10. n = 1 => ValueOf(d) = Shifted(0, d[1])
  BY <1>3, <1>7, Zenon
<1>11. n = 2 => ValueOf(d) = g[1 .. 2] /\ n >= 2
  BY <1>3
<1>12. n = 3 => ValueOf(d) = g[1 .. 3] /\ n >= 3 /\ n >= 2
  BY <1>3
<1> QED
  BY <1>7, <1>8, <1>9, <1>10, <1>11, <1>12, Zenon

\* The digits by their places, and what they write.
LEMMA FewDigits ==
  ASSUME NEW d \in Seq(Byte)
  PROVE  /\ Len(d) = 1 => /\ d = <<d[1]>> /\ d[1] \in Int
                          /\ ValueOf(d) = d[1] - 48
         /\ Len(d) = 2 => /\ d = <<d[1], d[2]>> /\ d[1] \in Int /\ d[2] \in Int
                          /\ ValueOf(d) = (d[1] - 48) * 10 + (d[2] - 48)
         /\ Len(d) = 3 => /\ d = <<d[1], d[2], d[3]>>
                          /\ d[1] \in Int /\ d[2] \in Int /\ d[3] \in Int
                          /\ ValueOf(d) = ((d[1] - 48) * 10 + (d[2] - 48)) * 10 + (d[3] - 48)
<1>1. \A i \in 1 .. Len(d) : d[i] \in Byte
  OBVIOUS
<1>2. ASSUME Len(d) = 1
      PROVE  d = <<d[1]>> /\ d[1] \in Int /\ ValueOf(d) = d[1] - 48
  <2>1. d[1] \in Byte
    BY <1>1, <1>2
  <2>2. d = <<d[1]>>
    <3>1. <<d[1]>> \in Seq(Byte) /\ Len(<<d[1]>>) = 1
      BY <2>1
    <3>2. \A i \in 1 .. 1 : d[i] = <<d[1]>>[i]
      OBVIOUS
    <3> QED
      BY <1>2, <3>1, <3>2, SeqEqual
  <2>3. ValueOf(d) = Shifted(0, d[1])
    BY <1>2, ValueUnfolds
  <2>4. \A v \in Byte : v \in Int
    BY DEF Byte
  <2>6. ValueOf(d) = d[1] - 48
    BY <2>1, <2>3, <2>4 DEF Shifted, Zero
  <2> QED
    BY <2>1, <2>2, <2>4, <2>6, Zenon
<1>3. ASSUME Len(d) = 2
      PROVE  /\ d = <<d[1], d[2]>> /\ d[1] \in Int /\ d[2] \in Int
             /\ ValueOf(d) = (d[1] - 48) * 10 + (d[2] - 48)
  <2>1. d[1] \in Byte /\ d[2] \in Byte
    BY <1>1, <1>3
  <2>2. d = <<d[1], d[2]>>
    <3>1. <<d[1], d[2]>> \in Seq(Byte) /\ Len(<<d[1], d[2]>>) = 2
      BY <2>1
    <3>2. \A i \in 1 .. 2 : d[i] = <<d[1], d[2]>>[i]
      OBVIOUS
    <3> QED
      BY <1>3, <3>1, <3>2, SeqEqual
  <2>3. ValueOf(d) = Shifted(Shifted(0, d[1]), d[2])
    BY <1>3, ValueUnfolds
  <2>4. \A v \in Byte : v \in Int
    BY DEF Byte
  <2>6. ValueOf(d) = (d[1] - 48) * 10 + (d[2] - 48)
    BY <2>1, <2>3, <2>4 DEF Shifted, Zero
  <2> QED
    BY <2>1, <2>2, <2>4, <2>6, Zenon
<1>4. ASSUME Len(d) = 3
      PROVE  /\ d = <<d[1], d[2], d[3]>> /\ d[1] \in Int /\ d[2] \in Int /\ d[3] \in Int
             /\ ValueOf(d) = ((d[1] - 48) * 10 + (d[2] - 48)) * 10 + (d[3] - 48)
  <2>1. d[1] \in Byte /\ d[2] \in Byte /\ d[3] \in Byte
    BY <1>1, <1>4
  <2>2. d = <<d[1], d[2], d[3]>>
    <3>1. <<d[1], d[2], d[3]>> \in Seq(Byte) /\ Len(<<d[1], d[2], d[3]>>) = 3
      BY <2>1
    <3>2. \A i \in 1 .. 3 : d[i] = <<d[1], d[2], d[3]>>[i]
      OBVIOUS
    <3> QED
      BY <1>4, <3>1, <3>2, SeqEqual
  <2>3. ValueOf(d) = Shifted(Shifted(Shifted(0, d[1]), d[2]), d[3])
    BY <1>4, ValueUnfolds
  <2>4. \A v \in Byte : v \in Int
    BY DEF Byte
  <2>6. ValueOf(d) = ((d[1] - 48) * 10 + (d[2] - 48)) * 10 + (d[3] - 48)
    BY <2>1, <2>3, <2>4 DEF Shifted, Zero
  <2> QED
    BY <2>1, <2>2, <2>4, <2>6, Zenon
<1> QED
  BY <1>2, <1>3, <1>4

(* Three digits or fewer write the octets, without a leading zero if they  *)
(* are more than one and stay below 256.                                   *)
LEMMA OctetIsNumber ==
  ASSUME NEW d \in Seq(Byte)
  PROVE  d \in Octets <=>
           /\ Len(d) \in 1 .. 3
           /\ \A i \in 1 .. Len(d) : d[i] \in Digit
           /\ ValueOf(d) <= 255
           /\ Len(d) > 1 => d[1] # Zero
<1> DEFINE D(v) == Zero + v
           Ones == {<<D(v)>> : v \in 0 .. 9}
           Tens == {<<D(v \div 10), D(v % 10)>> : v \in 10 .. 99}
           Hundreds == {<<D(v \div 100), D((v \div 10) % 10), D(v % 10)>> : v \in 100 .. 255}
           OK == /\ \A i \in 1 .. Len(d) : d[i] \in Digit
                 /\ ValueOf(d) <= 255
                 /\ Len(d) > 1 => d[1] # Zero
<1>1. d \in Octets <=> d \in Ones \/ d \in Tens \/ d \in Hundreds
  BY DEF Octets
<1>0. /\ d \in Ones => Len(d) = 1
      /\ d \in Tens => Len(d) = 2
      /\ d \in Hundreds => Len(d) = 3
  <2>1. \A a, b, c : Len(<<a>>) = 1 /\ Len(<<a, b>>) = 2 /\ Len(<<a, b, c>>) = 3
    OBVIOUS
  <2>2. ASSUME d \in Ones PROVE Len(d) = 1
    <3> PICK v : d = <<D(v)>>
      BY <2>2
    <3> HIDE DEF D
    <3> QED
      BY <2>1
  <2>3. ASSUME d \in Tens PROVE Len(d) = 2
    <3> PICK v : d = <<D(v \div 10), D(v % 10)>>
      BY <2>3
    <3> HIDE DEF D
    <3> QED
      BY <2>1
  <2>4. ASSUME d \in Hundreds PROVE Len(d) = 3
    <3> PICK v : d = <<D(v \div 100), D((v \div 10) % 10), D(v % 10)>>
      BY <2>4
    <3> HIDE DEF D
    <3> QED
      BY <2>1
  <2> QED
    BY <2>2, <2>3, <2>4
<1>2. CASE Len(d) = 1
  <2>1. d \notin Tens /\ d \notin Hundreds
    <3> HIDE DEF Ones, Tens, Hundreds
    <3> QED
      BY <1>0, <1>2
  <2>2. d = <<d[1]>> /\ d[1] \in Int /\ ValueOf(d) = d[1] - 48
    BY <1>2, FewDigits
  <2>3. d \in Ones <=> d[1] \in Digit
    <3>1. d[1] \in Digit => d[1] - 48 \in 0 .. 9 /\ d[1] = D(d[1] - 48)
      BY <2>2 DEF Digit, Zero
    <3>2. ASSUME d \in Ones PROVE d[1] \in Digit
      BY <3>2 DEF Digit, Zero
    <3> QED
      BY <2>2, <3>1, <3>2
  <2>4. OK <=> d[1] \in Digit
    BY <1>2, <2>2 DEF Digit
  <2> HIDE DEF Ones, Tens, Hundreds
  <2> QED
    BY <1>1, <1>2, <2>1, <2>3, <2>4
<1>3. CASE Len(d) = 2
  <2>1. d \notin Ones /\ d \notin Hundreds
    <3> HIDE DEF Ones, Tens, Hundreds
    <3> QED
      BY <1>0, <1>3
  <2>2. d = <<d[1], d[2]>> /\ d[1] \in Int /\ d[2] \in Int
    BY <1>3, FewDigits
  <2>3. PICK a \in Int, b \in Int : a = d[1] - 48 /\ b = d[2] - 48 /\ d = <<D(a), D(b)>>
    BY <2>2 DEF Zero
  <2>4. ValueOf(d) = a * 10 + b
    BY <1>3, <2>3, FewDigits
  <2>5. OK <=> a \in 1 .. 9 /\ b \in 0 .. 9
    <3>1. /\ d[1] \in Digit <=> a \in 0 .. 9
          /\ d[2] \in Digit <=> b \in 0 .. 9
          /\ d[1] = Zero <=> a = 0
      BY <2>2, <2>3 DEF Digit, Zero
    <3>2. a \in 1 .. 9 /\ b \in 0 .. 9 => a * 10 + b <= 255
      OBVIOUS
    <3>3. (\A i \in 1 .. Len(d) : d[i] \in Digit) <=> d[1] \in Digit /\ d[2] \in Digit
      BY <1>3
    <3>4. a \in 1 .. 9 <=> a \in 0 .. 9 /\ a # 0
      OBVIOUS
    <3> QED
      BY <1>3, <2>4, <3>1, <3>2, <3>3, <3>4
  <2>6. d \in Tens <=> \E v \in 10 .. 99 : a = v \div 10 /\ b = v % 10
    <3>1. \A v \in 10 .. 99 : d = <<D(v \div 10), D(v % 10)>>
                              <=> a = v \div 10 /\ b = v % 10
      BY <2>2, <2>3 DEF Zero
    <3> QED
      BY <3>1
  <2>7. (\E v \in 10 .. 99 : a = v \div 10 /\ b = v % 10) <=> a \in 1 .. 9 /\ b \in 0 .. 9
    <3>1. a \in 1 .. 9 /\ b \in 0 .. 9 =>
            /\ a * 10 + b \in 10 .. 99
            /\ a = (a * 10 + b) \div 10 /\ b = (a * 10 + b) % 10
      OBVIOUS
    <3>2. \A v \in 10 .. 99 : v \div 10 \in 1 .. 9 /\ v % 10 \in 0 .. 9
      OBVIOUS
    <3> QED
      BY <3>1, <3>2
  <2> HIDE DEF Ones, Tens, Hundreds
  <2> QED
    BY <1>1, <1>3, <2>1, <2>5, <2>6, <2>7
<1>4. CASE Len(d) = 3
  <2>1. d \notin Ones /\ d \notin Tens
    <3> HIDE DEF Ones, Tens, Hundreds
    <3> QED
      BY <1>0, <1>4
  <2>2. d = <<d[1], d[2], d[3]>> /\ d[1] \in Int /\ d[2] \in Int /\ d[3] \in Int
    BY <1>4, FewDigits
  <2>3. PICK a \in Int, b \in Int, c \in Int :
          a = d[1] - 48 /\ b = d[2] - 48 /\ c = d[3] - 48 /\ d = <<D(a), D(b), D(c)>>
    BY <2>2 DEF Zero
  <2>4. ValueOf(d) = (a * 10 + b) * 10 + c
    BY <1>4, <2>3, FewDigits
  <2> DEFINE Fits == /\ a \in 1 .. 9 /\ b \in 0 .. 9 /\ c \in 0 .. 9
                     /\ (a * 10 + b) * 10 + c <= 255
  <2>5. OK <=> Fits
    <3>1. /\ d[1] \in Digit <=> a \in 0 .. 9
          /\ d[2] \in Digit <=> b \in 0 .. 9
          /\ d[3] \in Digit <=> c \in 0 .. 9
          /\ d[1] = Zero <=> a = 0
      BY <2>2, <2>3 DEF Digit, Zero
    <3>2. (\A i \in 1 .. Len(d) : d[i] \in Digit)
          <=> d[1] \in Digit /\ d[2] \in Digit /\ d[3] \in Digit
      BY <1>4
    <3>3. a \in 1 .. 9 <=> a \in 0 .. 9 /\ a # 0
      OBVIOUS
    <3> QED
      BY <1>4, <2>4, <3>1, <3>2, <3>3
  <2>6. d \in Hundreds
        <=> \E v \in 100 .. 255 : a = v \div 100 /\ b = (v \div 10) % 10 /\ c = v % 10
    <3>1. \A v \in 100 .. 255 :
            d = <<D(v \div 100), D((v \div 10) % 10), D(v % 10)>>
              <=> a = v \div 100 /\ b = (v \div 10) % 10 /\ c = v % 10
      BY <2>2, <2>3 DEF Zero
    <3> QED
      BY <3>1
  <2>7. (\E v \in 100 .. 255 : a = v \div 100 /\ b = (v \div 10) % 10 /\ c = v % 10) <=> Fits
    <3>1. Fits =>
            /\ (a * 10 + b) * 10 + c \in 100 .. 255
            /\ a = ((a * 10 + b) * 10 + c) \div 100
            /\ b = (((a * 10 + b) * 10 + c) \div 10) % 10
            /\ c = ((a * 10 + b) * 10 + c) % 10
      OBVIOUS
    <3>2. \A v \in 100 .. 255 :
            /\ v \div 100 \in 1 .. 9 /\ (v \div 10) % 10 \in 0 .. 9 /\ v % 10 \in 0 .. 9
            /\ ((v \div 100) * 10 + ((v \div 10) % 10)) * 10 + (v % 10) = v
      OBVIOUS
    <3> QED
      BY <3>1, <3>2
  <2> HIDE DEF Ones, Tens, Hundreds
  <2> QED
    BY <1>1, <1>4, <2>1, <2>5, <2>6, <2>7
<1>5. CASE Len(d) \notin 1 .. 3
  <2> HIDE DEF Ones, Tens, Hundreds
  <2>1. ~(Len(d) = 1) /\ ~(Len(d) = 2) /\ ~(Len(d) = 3)
    BY <1>5
  <2> QED
    BY <1>0, <1>1, <1>5, <2>1
<1> QED
  BY <1>2, <1>3, <1>4, <1>5

-----------------------------------------------------------------------------
(* Addresses and dotted quads.                                             *)

LEMMA TextOfText ==
  ASSUME NEW s \in Seq(Byte), NEW p \in 0 .. Len(s), NEW e \in p .. Len(s),
         NEW x \in 0 .. e - p, NEW y \in x .. e - p
  PROVE  Text(Text(s, p, e), x, y) = Text(s, p + x, p + y)
<1> DEFINE t == Text(s, p, e)
<1>1. Len(s) \in Nat
  OBVIOUS
<1>2. t \in Seq(Byte) /\ Len(t) = e - p /\ \A i \in 1 .. e - p : t[i] = s[p + i]
  BY TextFacts
<1> HIDE DEF t
<1>3. /\ x \in 0 .. Len(t) /\ y \in x .. Len(t)
      /\ p + x \in 0 .. Len(s) /\ p + y \in p + x .. Len(s)
      /\ (p + y) - (p + x) = y - x
  BY <1>1, <1>2
<1>4. /\ Text(t, x, y) \in Seq(Byte) /\ Len(Text(t, x, y)) = y - x
      /\ \A i \in 1 .. y - x : Text(t, x, y)[i] = t[x + i]
  BY <1>2, <1>3, TextFacts
<1>5. /\ Text(s, p + x, p + y) \in Seq(Byte) /\ Len(Text(s, p + x, p + y)) = y - x
      /\ \A i \in 1 .. y - x : Text(s, p + x, p + y)[i] = s[(p + x) + i]
  <2>1. /\ Text(s, p + x, p + y) \in Seq(Byte)
        /\ Len(Text(s, p + x, p + y)) = (p + y) - (p + x)
        /\ \A i \in 1 .. (p + y) - (p + x) : Text(s, p + x, p + y)[i] = s[(p + x) + i]
    BY <1>3, TextFacts
  <2> QED
    BY <1>3, <2>1
<1>6. ASSUME NEW i \in 1 .. y - x PROVE t[x + i] = s[(p + x) + i]
  <2>1. x + i \in 1 .. e - p /\ p + (x + i) = (p + x) + i
    BY <1>1
  <2> QED
    BY <1>2, <2>1
<1>7. Text(t, x, y) = Text(s, p + x, p + y)
  <2>1. \A i \in 1 .. y - x : Text(t, x, y)[i] = Text(s, p + x, p + y)[i]
    BY <1>4, <1>5, <1>6
  <2> DEFINE a == Text(t, x, y)
             b == Text(s, p + x, p + y)
  <2>2. /\ a \in Seq(Byte) /\ b \in Seq(Byte) /\ Len(a) = Len(b)
        /\ \A i \in 1 .. Len(a) : a[i] = b[i]
    BY <1>4, <1>5, <2>1
  <2> HIDE DEF a, b
  <2>3. a = b
    BY <2>2, SeqEqual
  <2> QED
    BY <2>3 DEF a, b
<1> QED
  BY <1>7 DEF t

(* is_ipv4 accepts a run of digits as an octet exactly if it writes one.   *)
LEMMA OctetAtWrites ==
  ASSUME NEW s \in Seq(Byte), NEW q \in 0 .. Len(s)
  PROVE  OctetAt(s, q) <=> Text(s, q, RunEnd(s, q, Digit)) \in Octets
<1> DEFINE e == RunEnd(s, q, Digit)
           d == Text(s, q, e)
<1>1. e \in q .. Len(s) /\ \A i \in q + 1 .. e : s[i] \in Digit
  BY RunEndFacts
<1>2. OctetAt(s, q) <=> e - q \in 1 .. 3 /\ ValueOf(d) <= 255 /\ (e - q > 1 => s[q + 1] # Zero)
  BY DEF OctetAt, Text
<1> HIDE DEF e
<1>3. d \in Seq(Byte) /\ Len(d) = e - q /\ \A i \in 1 .. e - q : d[i] = s[q + i]
  BY <1>1, TextFacts
<1> HIDE DEF d
<1>4. \A i \in 1 .. Len(d) : d[i] \in Digit
  <2> SUFFICES ASSUME NEW i \in 1 .. e - q PROVE s[q + i] \in Digit
    BY <1>3
  <2>1. q + i \in q + 1 .. e
    BY <1>1
  <2> QED
    BY <1>1, <2>1
<1>5. e - q > 1 => d[1] = s[q + 1]
  BY <1>1, <1>3
<1>6. d \in Octets <=> Len(d) \in 1 .. 3 /\ ValueOf(d) <= 255 /\ (Len(d) > 1 => d[1] # Zero)
  BY <1>3, <1>4, OctetIsNumber
<1>7. OctetAt(s, q) <=> d \in Octets
  BY <1>2, <1>3, <1>5, <1>6
<1> QED
  BY <1>7 DEF d, e

(* A text that writes an octet and that no digit follows is a run.         *)
LEMMA OctetTextIsRun ==
  ASSUME NEW s \in Seq(Byte), NEW q \in 0 .. Len(s), NEW e \in q .. Len(s),
         Text(s, q, e) \in Octets, e < Len(s) => s[e + 1] \notin Digit
  PROVE  RunEnd(s, q, Digit) = e /\ OctetAt(s, q) /\ q < e
<1>1. /\ Text(s, q, e) \in Seq(Byte) /\ Len(Text(s, q, e)) = e - q
      /\ \A i \in 1 .. e - q : Text(s, q, e)[i] = s[q + i]
  BY TextFacts
<1>2. e - q \in 1 .. 3 /\ \A i \in 1 .. e - q : Text(s, q, e)[i] \in Digit
  BY <1>1, OctetIsNumber
<1>3. ASSUME NEW i \in q + 1 .. e PROVE s[i] \in Digit
  <2>1. i - q \in 1 .. e - q /\ q + (i - q) = i
    OBVIOUS
  <2> QED
    BY <1>1, <1>2, <2>1
<1>4. RunEnd(s, q, Digit) = e
  BY <1>3, RunEndUnique
<1> QED
  BY <1>2, <1>4, OctetAtWrites

LEMMA DotIsNoDigit == Dot \notin Digit
  BY DEF Dot, Digit

(* The octet after a dot, and the dot after it.                            *)
LEMMA DotAfterFacts ==
  ASSUME NEW s \in Seq(Byte), NEW q \in 0 .. Len(s), DotAfter(s, q)
  PROVE  /\ NextOctet(s, q) \in q + 2 .. Len(s) /\ s[NextOctet(s, q)] = Dot
         /\ RunEnd(s, q, Digit) = NextOctet(s, q) - 1
         /\ \A i \in q + 1 .. NextOctet(s, q) - 1 : s[i] # Dot
         /\ Text(s, q, NextOctet(s, q) - 1) \in Octets
<1> DEFINE e == RunEnd(s, q, Digit)
<1>1. e \in q .. Len(s) /\ \A i \in q + 1 .. e : s[i] \in Digit
  BY RunEndFacts
<1>2. e - q \in 1 .. 3 /\ e < Len(s) /\ s[e + 1] = Dot /\ NextOctet(s, q) = e + 1
  BY DEF DotAfter, OctetAt, NextOctet
<1>3. Text(s, q, e) \in Octets
  BY OctetAtWrites DEF DotAfter
<1> HIDE DEF e
<1>4. e \in Nat /\ (e + 1) - 1 = e /\ Len(s) \in Nat
  BY <1>1
<1>5. e + 1 \in q + 2 .. Len(s)
  BY <1>1, <1>2, <1>4
<1>6. RunEnd(s, q, Digit) = NextOctet(s, q) - 1
  BY <1>2, <1>4 DEF e
<1> QED
  BY <1>1, <1>2, <1>3, <1>4, <1>5, <1>6, DotIsNoDigit

(* What is_ipv4 finds is a dotted quad.                                    *)
LEMMA Ipv4IsQuad ==
  ASSUME NEW s \in Seq(Byte), NEW p \in 0 .. Len(s), NEW e \in IsIpv4(s, p)
  PROVE  /\ e \in p + 7 .. Len(s) /\ (e < Len(s) => s[e + 1] \notin Digit)
         /\ DottedQuad(Text(s, p, e))
<1> DEFINE q2 == NextOctet(s, p)
           q3 == NextOctet(s, q2)
           q4 == NextOctet(s, q3)
           t == Text(s, p, e)
<1>1. /\ DotAfter(s, p) /\ DotAfter(s, q2) /\ DotAfter(s, q3)
      /\ OctetAt(s, q4) /\ e = RunEnd(s, q4, Digit)
  BY Ipv4Chain
<1>2. Len(s) \in Nat /\ p \in Nat
  OBVIOUS
<1>3. /\ q2 \in p + 2 .. Len(s) /\ s[q2] = Dot /\ Text(s, p, q2 - 1) \in Octets
      /\ \A i \in p + 1 .. q2 - 1 : s[i] # Dot
  BY <1>1, DotAfterFacts
<1> HIDE DEF q2
<1>4. q2 \in 0 .. Len(s)
  BY <1>2, <1>3
<1>5. /\ q3 \in q2 + 2 .. Len(s) /\ s[q3] = Dot /\ Text(s, q2, q3 - 1) \in Octets
      /\ \A i \in q2 + 1 .. q3 - 1 : s[i] # Dot
  BY <1>1, <1>4, DotAfterFacts
<1> HIDE DEF q3
<1>6. q3 \in 0 .. Len(s)
  BY <1>4, <1>5
<1>7. /\ q4 \in q3 + 2 .. Len(s) /\ s[q4] = Dot /\ Text(s, q3, q4 - 1) \in Octets
      /\ \A i \in q3 + 1 .. q4 - 1 : s[i] # Dot
  BY <1>1, <1>6, DotAfterFacts
<1> HIDE DEF q4
<1>8. q4 \in 0 .. Len(s)
  BY <1>6, <1>7
<1>9. /\ e \in q4 .. Len(s) /\ e - q4 \in 1 .. 3
      /\ \A i \in q4 + 1 .. e : s[i] # Dot
      /\ e < Len(s) => s[e + 1] \notin Digit
      /\ Text(s, q4, e) \in Octets
  <2>1. /\ e \in q4 .. Len(s) /\ \A i \in q4 + 1 .. e : s[i] \in Digit
        /\ e < Len(s) => s[e + 1] \notin Digit
    BY <1>1, <1>8, RunEndFacts
  <2>2. e - q4 \in 1 .. 3 /\ Text(s, q4, e) \in Octets
    BY <1>1, <1>8, OctetAtWrites DEF OctetAt
  <2> QED
    BY <2>1, <2>2, DotIsNoDigit
<1>10. e \in p + 7 .. Len(s) /\ e \in p .. Len(s)
  BY <1>2, <1>3, <1>5, <1>7, <1>9
<1>11. t \in Seq(Byte) /\ Len(t) = e - p /\ \A i \in 1 .. e - p : t[i] = s[p + i]
  BY <1>10, TextFacts
<1>12. PICK a \in 1 .. e - p, b \in 1 .. e - p, c \in 1 .. e - p :
         /\ a < b /\ b < c /\ q2 = p + a /\ q3 = p + b /\ q4 = p + c
  <2>1. /\ q2 - p \in 1 .. e - p /\ q3 - p \in 1 .. e - p /\ q4 - p \in 1 .. e - p
        /\ q2 - p < q3 - p /\ q3 - p < q4 - p
        /\ q2 = p + (q2 - p) /\ q3 = p + (q3 - p) /\ q4 = p + (q4 - p)
    BY <1>2, <1>3, <1>5, <1>7, <1>9
  <2> QED
    BY <2>1
<1> HIDE DEF t
<1>13. {i \in DOMAIN t : t[i] = Dot} = {a, b, c}
  <2>1. DOMAIN t = 1 .. e - p
    BY <1>11
  <2>2. t[a] = Dot /\ t[b] = Dot /\ t[c] = Dot
    BY <1>3, <1>5, <1>7, <1>11, <1>12
  <2>3. ASSUME NEW i \in 1 .. e - p, i # a, i # b, i # c
        PROVE  t[i] # Dot
    <3>1. \/ p + i \in p + 1 .. q2 - 1 \/ p + i \in q2 + 1 .. q3 - 1
          \/ p + i \in q3 + 1 .. q4 - 1 \/ p + i \in q4 + 1 .. e
      BY <1>2, <1>3, <1>5, <1>7, <1>9, <1>10, <1>12, <2>3
    <3>2. s[p + i] # Dot
      BY <1>3, <1>5, <1>7, <1>9, <3>1
    <3> QED
      BY <1>11, <3>2
  <2> QED
    BY <2>1, <2>2, <2>3
<1>14. ASSUME NEW x \in 0 .. e - p, NEW y \in x + 1 .. (e - p) + 1,
              Text(s, p + x, (p + y) - 1) \in Octets
       PROVE  SubSeq(t, x + 1, y - 1) \in Octets
  <2>1. y - 1 \in x .. e - p /\ p + (y - 1) = (p + y) - 1
    BY <1>2, <1>10
  <2>2. Text(t, x, y - 1) = Text(s, p + x, p + (y - 1))
    BY <1>10, <2>1, TextOfText DEF t
  <2> QED
    BY <1>14, <2>1, <2>2 DEF Text
<1>15. SubSeq(t, 0 + 1, a - 1) \in Octets
  <2>1. p + 0 = p /\ (p + a) - 1 = q2 - 1 /\ 0 \in 0 .. e - p /\ a \in 0 + 1 .. (e - p) + 1
    BY <1>2, <1>10, <1>12
  <2> QED
    BY <1>3, <1>14, <2>1
<1>16. SubSeq(t, a + 1, b - 1) \in Octets
  <2>1. p + a = q2 /\ (p + b) - 1 = q3 - 1 /\ a \in 0 .. e - p /\ b \in a + 1 .. (e - p) + 1
    BY <1>2, <1>10, <1>12
  <2> QED
    BY <1>5, <1>14, <2>1
<1>17. SubSeq(t, b + 1, c - 1) \in Octets
  <2>1. p + b = q3 /\ (p + c) - 1 = q4 - 1 /\ b \in 0 .. e - p /\ c \in b + 1 .. (e - p) + 1
    BY <1>2, <1>10, <1>12
  <2> QED
    BY <1>7, <1>14, <2>1
<1>18. SubSeq(t, c + 1, (Len(t) + 1) - 1) \in Octets
  <2>1. /\ p + c = q4 /\ (p + ((e - p) + 1)) - 1 = e /\ c \in 0 .. e - p
        /\ (e - p) + 1 \in c + 1 .. (e - p) + 1
    BY <1>2, <1>10, <1>12
  <2> QED
    BY <1>9, <1>11, <1>14, <2>1
<1>19. a \in {a, b, c} /\ b \in {a, b, c} /\ c \in {a, b, c}
  OBVIOUS
<1>20. DottedQuad(t)
  BY <1>12, <1>13, <1>15, <1>16, <1>17, <1>18, <1>19 DEF DottedQuad
<1> QED
  BY <1>9, <1>10, <1>20 DEF t

(* A dotted quad that no digit follows is what is_ipv4 finds.              *)
LEMMA QuadIsIpv4 ==
  ASSUME NEW s \in Seq(Byte), NEW p \in 0 .. Len(s), NEW e \in p .. Len(s),
         e < Len(s) => s[e + 1] \notin Digit, DottedQuad(Text(s, p, e))
  PROVE  e \in IsIpv4(s, p)
<1> DEFINE t == Text(s, p, e)
<1>1. Len(s) \in Nat /\ p \in Nat /\ e \in Nat
  OBVIOUS
<1>2. t \in Seq(Byte) /\ Len(t) = e - p /\ \A i \in 1 .. e - p : t[i] = s[p + i]
  BY TextFacts
<1>3. PICK a, b, c : /\ {a, b, c} = {i \in DOMAIN t : t[i] = Dot}
                     /\ a < b /\ b < c
                     /\ SubSeq(t, 0 + 1, a - 1) \in Octets
                     /\ SubSeq(t, a + 1, b - 1) \in Octets
                     /\ SubSeq(t, b + 1, c - 1) \in Octets
                     /\ SubSeq(t, c + 1, (Len(t) + 1) - 1) \in Octets
  BY DEF DottedQuad
<1> HIDE DEF t
<1>4. /\ a \in 1 .. e - p /\ b \in 1 .. e - p /\ c \in 1 .. e - p
      /\ t[a] = Dot /\ t[b] = Dot /\ t[c] = Dot
  <2>1. DOMAIN t = 1 .. e - p
    BY <1>2
  <2> QED
    BY <1>3, <2>1
<1>5. s[p + a] = Dot /\ s[p + b] = Dot /\ s[p + c] = Dot
  BY <1>2, <1>4
<1>6. ASSUME NEW x \in 0 .. e - p, NEW y \in 0 .. e - p, x <= y,
             SubSeq(t, x + 1, y) \in Octets
      PROVE  Text(s, p + x, p + y) \in Octets
  <2>1. Text(t, x, y) = Text(s, p + x, p + y)
    BY <1>6, TextOfText DEF t
  <2> QED
    BY <1>6, <2>1 DEF Text
<1>7. ASSUME NEW x \in 0 .. e - p, NEW y \in 1 .. e - p, x < y, s[p + y] = Dot,
             SubSeq(t, x + 1, y - 1) \in Octets
      PROVE  DotAfter(s, p + x) /\ NextOctet(s, p + x) = p + y
  <2>1. /\ y - 1 \in 0 .. e - p /\ x <= y - 1 /\ p + x \in 0 .. Len(s)
        /\ p + (y - 1) \in p + x .. Len(s) /\ p + (y - 1) < Len(s)
        /\ (p + (y - 1)) + 1 = p + y
    BY <1>1, <1>7
  <2>2. Text(s, p + x, p + (y - 1)) \in Octets
    BY <1>6, <1>7, <2>1
  <2>3. RunEnd(s, p + x, Digit) = p + (y - 1) /\ OctetAt(s, p + x)
    BY <1>7, <2>1, <2>2, OctetTextIsRun, DotIsNoDigit
  <2> QED
    BY <1>7, <2>1, <2>3 DEF DotAfter, NextOctet
<1>8. DotAfter(s, p) /\ NextOctet(s, p) = p + a
  <2>1. DotAfter(s, p + 0) /\ NextOctet(s, p + 0) = p + a
    <3>1. 0 \in 0 .. e - p /\ 0 < a
      BY <1>1, <1>4
    <3> QED
      BY <1>3, <1>4, <1>5, <1>7, <3>1
  <2>2. p + 0 = p
    BY <1>1
  <2> QED
    BY <2>1, <2>2
<1>9. DotAfter(s, p + a) /\ NextOctet(s, p + a) = p + b
  <2>1. a \in 0 .. e - p
    BY <1>4
  <2> QED
    BY <1>3, <1>4, <1>5, <1>7, <2>1
<1>10. DotAfter(s, p + b) /\ NextOctet(s, p + b) = p + c
  <2>1. b \in 0 .. e - p
    BY <1>4
  <2> QED
    BY <1>3, <1>4, <1>5, <1>7, <2>1
<1>11. OctetAt(s, p + c) /\ RunEnd(s, p + c, Digit) = e
  <2>1. /\ c \in 0 .. e - p /\ e - p \in 0 .. e - p /\ c <= e - p /\ p + (e - p) = e
        /\ (Len(t) + 1) - 1 = e - p /\ p + c \in 0 .. Len(s) /\ e \in p + c .. Len(s)
    BY <1>1, <1>2, <1>4
  <2>2. Text(s, p + c, e) \in Octets
    BY <1>3, <1>6, <2>1
  <2> QED
    BY <2>1, <2>2, OctetTextIsRun
<1> QED
  BY <1>8, <1>9, <1>10, <1>11, Ipv4Chain

(* At every digit that a token starts with, is_ipv4 finds an address       *)
(* exactly if a dotted quad of octets stands there that no further digit   *)
(* follows, in strings of any length.                                      *)
THEOREM Ipv4sAlwaysQuads == Spec => []Ipv4sAreDottedQuads
<1>1. TokenizerInv => Ipv4sAreDottedQuads
  <2> SUFFICES ASSUME TokenizerInv, NEW i \in DOMAIN tokens,
                      input[tokens[i].start + 1] \in Digit
               PROVE  tokens[i].type = "IPv4"
                        <=> \E end \in tokens[i].start + 7 .. Len(input) :
                              /\ end < Len(input) => input[end + 1] \notin Digit
                              /\ DottedQuad(SubSeq(input, tokens[i].start + 1, end))
    BY DEF Ipv4sAreDottedQuads
  <2>1. input \in Seq(Byte) /\ Len(input) \in Nat
    BY DEF TokenizerInv, TokenizerTypeOK
  <2>2. PICK p \in 0 .. Len(input) - 1 : p = tokens[i].start /\ tokens[i] = TokenAt(input, p)
    BY DEF TokenizerInv
  <2>3. p \in 0 .. Len(input) /\ input[p + 1] \notin Punctuation
    BY <2>1, <2>2, Tables
  <2>4. tokens[i].type = "IPv4" <=> IsIpv4(input, p) # {}
    BY <2>2, <2>3 DEF TokenAt
  <2>5. ASSUME NEW e \in IsIpv4(input, p)
        PROVE  \E end \in p + 7 .. Len(input) :
                 /\ end < Len(input) => input[end + 1] \notin Digit
                 /\ DottedQuad(SubSeq(input, p + 1, end))
    BY <2>1, <2>3, Ipv4IsQuad DEF Text
  <2>6. ASSUME NEW end \in p + 7 .. Len(input),
               end < Len(input) => input[end + 1] \notin Digit,
               DottedQuad(SubSeq(input, p + 1, end))
        PROVE  end \in IsIpv4(input, p)
    <3>1. end \in p .. Len(input)
      BY <2>1
    <3> QED
      BY <2>1, <2>3, <2>6, <3>1, QuadIsIpv4 DEF Text
  <2> QED
    BY <2>2, <2>4, <2>5, <2>6
<1> QED
  BY <1>1, TokenizerInvariant, PTL
=============================================================================
