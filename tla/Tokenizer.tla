------------------------------ MODULE Tokenizer -----------------------------
(***************************************************************************)
(* The tokenizer (src/tokenizer/): an iterator over a string that returns  *)
(* the typed byte ranges the indexer stores.  Each call of next() is one   *)
(* step.  A string is the sequence of its bytes; offsets count bytes from  *)
(* 0, as in the code, so that the byte at offset i is input[i + 1].        *)
(***************************************************************************)
EXTENDS Integers, Sequences, SequencesExt

CONSTANT Inputs  (* The strings to tokenize.                               *)

Byte == 0 .. 255

\* The bytes that continue a character in UTF-8, and those beyond ASCII.
Continuation == 128 .. 191
NonAscii == 128 .. 255

(* A &str is valid UTF-8.  What the tokenizer depends on: a continuation   *)
(* byte follows a byte of the same character, never an ASCII byte.         *)
Utf8(s) == \A i \in 1 .. Len(s) :
             s[i] \in Continuation => i > 1 /\ s[i - 1] \in NonAscii

ASSUME InputsAreStrings == \A s \in Inputs : s \in Seq(Byte) /\ Utf8(s)

VARIABLES
  input,   (* The string being tokenized.                                  *)
  pos,     (* Where the next token starts.                                 *)
  tokens   (* History: the tokens returned so far.                         *)

vars == <<input, pos, tokens>>

-----------------------------------------------------------------------------
(* The lookup tables, as sets of bytes.                                    *)

Dot == 46
Zero == 48
Dash == 45
Underscore == 95
Percent == 37

\* Mutant: char::is_whitespace of the byte, true of 0x85 and 0xA0 as well.
MutAsciiWhitespace == {9, 10, 12, 13, 32, 133, 160}

AsciiWhitespace == {9, 10, 12, 13, 32}
AsciiPunctuation == (33 .. 47) \union (58 .. 64) \union (91 .. 96)
                      \union (123 .. 126)

Digit == 48 .. 57
HexDigit == Digit \union (65 .. 70) \union (97 .. 102)
WordDelimiter == AsciiWhitespace
                   \union (AsciiPunctuation \ {Dot, Dash, Underscore, Percent})
\* Mutant: the table leaves whitespace out, which words leave out too.
MutPunctuation == AsciiPunctuation \ {Percent}

Punctuation == (AsciiPunctuation \union AsciiWhitespace) \ {Percent}

-----------------------------------------------------------------------------
(* The matchers.  Each looks at s from offset p on and returns the offset  *)
(* where its match ends: an Option, kept as a set with one element or none. *)

\* take_while: the end of the run of bytes of a class that starts at p.
RunEnd(s, p, class) ==
  CHOOSE e \in p .. Len(s) :
    /\ \A i \in p + 1 .. e : s[i] \in class
    /\ e < Len(s) => s[e + 1] \notin class

\* The number that digits write.
ValueOf(digits) == FoldLeft(LAMBDA val, b : val * 10 + b - Zero, 0, digits)

\* Mutant: leading zeros are accepted.
MutOctetAt(s, p) ==
  LET e == RunEnd(s, p, Digit)
  IN  e - p \in 1 .. 3 /\ ValueOf(SubSeq(s, p + 1, e)) <= 255

\* One octet: up to three digits, at most 255, without a leading zero.
OctetAt(s, p) ==
  LET e == RunEnd(s, p, Digit)
  IN  /\ e - p \in 1 .. 3
      /\ ValueOf(SubSeq(s, p + 1, e)) <= 255
      /\ e - p > 1 => s[p + 1] # Zero

\* Mutant: an octet of more than three digits ends after the third.
MutOctetEnds(s, starts) ==
  {p + 3 : p \in {q \in starts : RunEnd(s, q, Digit) - q > 3}}
    \union {RunEnd(s, p, Digit) : p \in {q \in starts : OctetAt(s, q)}}

OctetEnds(s, starts) ==
  {RunEnd(s, p, Digit) : p \in {q \in starts : OctetAt(s, q)}}

\* Where the next octet starts: after the dot that the first three expect.
AfterDot(s, ends) ==
  {e + 1 : e \in {f \in ends : f < Len(s) /\ s[f + 1] = Dot}}

IsIpv4(s, p) ==
  LET second == AfterDot(s, OctetEnds(s, {p}))
      third  == AfterDot(s, OctetEnds(s, second))
      fourth == AfterDot(s, OctetEnds(s, third))
  IN  OctetEnds(s, fourth)

\* Mutant: the byte after the digits is counted.
MutIsNumber(s, p) ==
  {RunEnd(s, q, Digit) + 1 : q \in {r \in {p} : s[r + 1] \in Digit}}

IsNumber(s, p) ==
  {RunEnd(s, q, Digit) : q \in {r \in {p} : s[r + 1] \in Digit}}

UuidLen == 36
UuidDashes == {8, 13, 18, 23}

\* Mutant: a UUID at the very end of the text is found too short.
MutIsUuidV4(s, p) ==
  {e \in {p + UuidLen} :
     /\ e < Len(s)
     /\ \A k \in 0 .. UuidLen - 1 :
          s[p + k + 1] \in IF k \in UuidDashes THEN {Dash} ELSE HexDigit}

IsUuidV4(s, p) ==
  {e \in {p + UuidLen} :
     /\ e <= Len(s)
     /\ \A k \in 0 .. UuidLen - 1 :
          s[p + k + 1] \in IF k \in UuidDashes THEN {Dash} ELSE HexDigit}

WordEnd(s, p) == RunEnd(s, p, Byte \ WordDelimiter)

-----------------------------------------------------------------------------
(* The iterator.                                                           *)

TokenTypes == {"Word", "Number", "IPv4", "Uuid", "Punctuation"}

\* next(): punctuation first, then the first matcher that finds something,
\* then a word.
TokenAt(s, p) ==
  LET Token(type, end) == [type |-> type, start |-> p, end |-> end]
      Matched(type, ends) == Token(type, CHOOSE e \in ends : TRUE)
  IN  IF s[p + 1] \in Punctuation THEN
        Token("Punctuation", RunEnd(s, p, Punctuation))
      ELSE IF IsIpv4(s, p) # {} THEN Matched("IPv4", IsIpv4(s, p))
      ELSE IF IsNumber(s, p) # {} THEN Matched("Number", IsNumber(s, p))
      ELSE IF IsUuidV4(s, p) # {} THEN Matched("Uuid", IsUuidV4(s, p))
      ELSE Token("Word", WordEnd(s, p))

\* The text of a token; with number_as_string, of numbers as well.
TextOf(token) == SubSeq(input, token.start + 1, token.end)

Init ==
  /\ input \in Inputs
  /\ pos = 0
  /\ tokens = <<>>

NextToken ==
  /\ pos < Len(input)
  /\ LET token == TokenAt(input, pos)
     IN  /\ pos' = token.end
         /\ tokens' = Append(tokens, token)
  /\ UNCHANGED input

\* next() at the end of the input returns None, however often it is called.
EndOfInput ==
  /\ pos >= Len(input)
  /\ UNCHANGED vars

Next == NextToken \/ EndOfInput

Spec == Init /\ [][Next]_vars

-----------------------------------------------------------------------------
(* Properties.                                                             *)

\* The tokenizer keeps a position in its input and typed byte ranges.
TokenizerTypeOK ==
  /\ input \in Seq(Byte)
  /\ pos \in 0 .. Len(input)
  /\ tokens \in Seq([type : TokenTypes, start : Nat, end : Nat])

(* The tokens tile the input: each is non-empty and starts where the one   *)
(* before it ends, so the texts of a document's tokens in order are the    *)
(* document, and an iterator that is drained ends.  Needs every byte that  *)
(* cannot start a word to be punctuation: the two tables are computed      *)
(* apart.                                                                  *)
TokensTileInput ==
  /\ pos = IF tokens = <<>> THEN 0 ELSE tokens[Len(tokens)].end
  /\ \A i \in DOMAIN tokens :
       /\ tokens[i].start = IF i = 1 THEN 0 ELSE tokens[i - 1].end
       /\ tokens[i].start < tokens[i].end

(* No token starts or ends inside a character of more than one byte, where *)
(* slicing the string to take the token's text would panic.                *)
TokensEndAtCharacters ==
  \A i \in DOMAIN tokens : \A cut \in {tokens[i].start, tokens[i].end} :
    cut < Len(input) => input[cut + 1] \notin Continuation

(* A token's text on its own is one token of the same type.  The indexer   *)
(* keeps texts by type and a search finds a document by the text of a      *)
(* token: neither sees what stood around it.                               *)
TokensStandAlone ==
  \A i \in DOMAIN tokens :
    TokenAt(TextOf(tokens[i]), 0)
      = [type  |-> tokens[i].type, start |-> 0,
         end   |-> tokens[i].end - tokens[i].start]

(* Words, numbers and punctuation are maximal: two tokens of such a type   *)
(* are never neighbours, and no digit follows an IPv4 address.             *)
TokensMaximal ==
  \A i \in DOMAIN tokens : i > 1 =>
    LET left == tokens[i - 1].type
        right == tokens[i].type
    IN  /\ left = right => left = "Uuid"
        /\ left \in {"IPv4", "Number"} => right \notin {"IPv4", "Number"}
        /\ left = "Word" => right = "Punctuation"

\* The texts of the octets 0 to 255, without leading zeros.
Octets ==
  LET D(n) == Zero + n
  IN  {<<D(n)>> : n \in 0 .. 9}
        \union {<<D(n \div 10), D(n % 10)>> : n \in 10 .. 99}
        \union {<<D(n \div 100), D((n \div 10) % 10), D(n % 10)>> :
                n \in 100 .. 255}

\* The reference definition of an address: four octets, dots in between.
DottedQuad(s) ==
  LET Dots == {i \in DOMAIN s : s[i] = Dot}
      Octet(from, to) == SubSeq(s, from + 1, to - 1) \in Octets
  IN  \E a, b, c \in Dots :
        /\ a < b /\ b < c /\ Dots = {a, b, c}
        /\ Octet(0, a) /\ Octet(a, b) /\ Octet(b, c) /\ Octet(c, Len(s) + 1)

(* A token that starts with a digit is an IPv4 address exactly when a      *)
(* dotted quad that no further digit follows stands there.                 *)
Ipv4sAreDottedQuads ==
  \A i \in DOMAIN tokens :
    LET start == tokens[i].start
    IN  input[start + 1] \in Digit =>
          (tokens[i].type = "IPv4"
             <=> \E end \in start + 7 .. Len(input) :
                   /\ end < Len(input) => input[end + 1] \notin Digit
                   /\ DottedQuad(SubSeq(input, start + 1, end)))

(* What the comment on is_uuid_v4 promises: eight, four, four, four and    *)
(* twelve hexadecimal digits with dashes in between are a Uuid.            *)
UuidsRecognised ==
  \A i \in DOMAIN tokens :
    IsUuidV4(input, tokens[i].start) # {} => tokens[i].type = "Uuid"
=============================================================================
