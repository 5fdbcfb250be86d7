------------------------------- MODULE Strings -------------------------------
(***************************************************************************)
(* The builtins that cut, search and encode texts.                         *)
(*                                                                         *)
(* As in Lists the state is the value that the last of a nest of calls has *)
(* returned, here always a text: a sequence of bytes, none of them 0.      *)
(* Positions are counted from 0, as in the code.                           *)
(***************************************************************************)
EXTENDS Integers, SequencesExt

CONSTANTS
  Bytes,    \* of the literals in the program
  MaxText   \* bound: a text that another call takes is no longer, and made of Bytes

ASSUME StringsAssumption ==
  /\ Bytes \subseteq 1 .. 255
  /\ MaxText \in Nat

VARIABLE text

\* A byte 0 ends a text.
UpToNul(bytes) ==
  LET nuls == {k \in DOMAIN bytes : bytes[k] = 0}
  IN  IF nuls = {} THEN bytes ELSE SubSeq(bytes, 1, Min(nuls) - 1)

\* Its bytes that are in a set, in their order.
Only(bytes, set) ==
  LET some[k \in 0 .. Len(bytes)] ==
        IF k = 0 THEN <<>> ELSE IF bytes[k] \in set THEN Append(some[k - 1], bytes[k]) ELSE some[k - 1]
  IN  some[Len(bytes)]

UpperLetters == 65 .. 90
LowerLetters == 97 .. 122
Numerals == 48 .. 57
Alphanumeric == UpperLetters \cup LowerLetters \cup Numerals

----------------------------------------------------------------------------
(* Cutting and searching *)

\* norm_idx
Norm(i, len) == Max({0, Min({len, IF i < 0 THEN i + len ELSE i})})

GetSubString_exclusive(t, i, j) == SubSeq(t, Norm(i, Len(t)) + 1, Norm(j, Len(t)))
\* llGetSubString: from i to the end and from the beginning to j, if they are crossed
GetSubString(t, i, j) ==
  LET first == Norm(i, Len(t))
      last == Min({Norm(j, Len(t)) + 1, Len(t)})
  IN  IF Norm(j, Len(t)) < first
      THEN SubSeq(t, first + 1, Len(t)) \o SubSeq(t, 1, last)
      ELSE SubSeq(t, first + 1, last)

\* llDeleteSubString.  With an end beyond the last character it copies a length of -1;
\* crossed indices delete one character.
Deletes(t, j) == Norm(j, Len(t)) < Len(t)
DeleteSubString(t, i, j) ==
  LET last == Norm(j, Len(t))
      first == Min({Norm(i, Len(t)), last})
  IN  SubSeq(t, 1, first) \o SubSeq(t, last + 2, Len(t))

\* llInsertString
InsertString(t, i, s) ==
  LET pos == Norm(i, Len(t)) IN SubSeq(t, 1, pos) \o s \o SubSeq(t, pos + 1, Len(t))

\* llSubStringIndex: strstr
SubStringIndex(t, s) ==
  LET places == {p \in 0 .. (Len(t) - Len(s)) : SubSeq(t, p + 1, p + Len(s)) = s}
  IN  IF places = {} THEN -1 ELSE Min(places)

\* llStringTrim
Blanks == {32} \cup 9 .. 13
StringTrim(t, head, tail) ==
  LET kept == {k \in DOMAIN t : t[k] \notin Blanks}
      first == IF head THEN Min(kept \cup {Len(t) + 1}) ELSE 1
      last == IF tail THEN Max(kept \cup {first - 1}) ELSE Len(t)
  IN  SubSeq(t, first, last)

\* llToUpper, llToLower
ToUpper(t) == [k \in DOMAIN t |-> IF t[k] \in LowerLetters THEN t[k] - 32 ELSE t[k]]
ToLower(t) == [k \in DOMAIN t |-> IF t[k] \in UpperLetters THEN t[k] + 32 ELSE t[k]]

\* llChar, llOrd
Char(c) == UpToNul(<<IF c \in 0 .. 127 THEN c ELSE 63>>)
Ord(t, i) == IF i \in 0 .. (Len(t) - 1) THEN t[i + 1] ELSE 0

----------------------------------------------------------------------------
(* Base64 *)

Pad == 61
B64 ==
  [n \in 0 .. 63 |->
     CASE n \in 0 .. 25 -> n + 65
       [] n \in 26 .. 51 -> n + 71
       [] n \in 52 .. 61 -> n - 4
       [] n = 62 -> 43
       [] n = 63 -> 47]
B64Letters == {B64[n] : n \in 0 .. 63}
B64Value(c) == CHOOSE n \in 0 .. 63 : B64[n] = c

ByteAt(t, k) == IF k \in DOMAIN t THEN t[k] ELSE 0
\* llStringToBase64: four letters for every three bytes, padded at the end.
Quartet(t, k) ==
  LET a == ByteAt(t, k)  b == ByteAt(t, k + 1)  c == ByteAt(t, k + 2)
  IN  << B64[a \div 4],
         B64[16 * (a % 4) + b \div 16],
         IF k + 1 \in DOMAIN t THEN B64[4 * (b % 16) + c \div 64] ELSE Pad,
         IF k + 2 \in DOMAIN t THEN B64[c % 64] ELSE Pad >>
StringToBase64(t) == FlattenSeq([q \in 1 .. ((Len(t) + 2) \div 3) |-> Quartet(t, 3 * q - 2)])

\* llBase64ToString: what is no letter is skipped, and bits that do not fill a byte.
Base64ToString(t) ==
  LET letters == Only(t, B64Letters)
      n == [k \in DOMAIN letters |-> B64Value(letters[k])]
      Decoded(k) ==
        LET q == 4 * ((k - 1) \div 3)
        IN  CASE k % 3 = 1 -> 4 * n[q + 1] + n[q + 2] \div 16
              [] k % 3 = 2 -> 16 * (n[q + 2] % 16) + n[q + 3] \div 4
              [] k % 3 = 0 -> 64 * (n[q + 3] % 4) + n[q + 4]
  IN  UpToNul([k \in 1 .. ((6 * Len(n)) \div 8) |-> Decoded(k)])

\* llIntegerToBase64 and llBase64ToInteger, of the last 32 bits of an integer, the
\* first byte first: they go by way of a text.
IntegerToBase64(bytes) == StringToBase64(UpToNul(bytes))
Base64ToInteger(t) ==
  LET decoded == Base64ToString(t) IN IF Len(decoded) < 4 THEN <<0, 0, 0, 0>> ELSE SubSeq(decoded, 1, 4)

----------------------------------------------------------------------------
(* URLs *)

Percent == 37
Unescaped == Alphanumeric \cup {45, 46, 95, 126}
UpperHex(n) == IF n < 10 THEN n + 48 ELSE n + 55
HexValue(c) ==
  CASE c \in Numerals -> c - 48
    [] c \in 97 .. 102 -> c - 87
    [] c \in 65 .. 70 -> c - 55
    [] OTHER -> -1

\* llEscapeURL
EscapeURL(t) ==
  FlattenSeq([k \in DOMAIN t |->
    IF t[k] \in Unescaped THEN <<t[k]>> ELSE <<Percent, UpperHex(t[k] \div 16), UpperHex(t[k] % 16)>>])

Coded_inside(t, k) ==
  /\ t[k] = Percent
  /\ k + 3 <= Len(t)
  /\ HexValue(t[k + 1]) >= 0
  /\ HexValue(t[k + 2]) >= 0
\* Two digits follow.
Coded(t, k) ==
  /\ t[k] = Percent
  /\ k + 2 <= Len(t)
  /\ HexValue(t[k + 1]) >= 0
  /\ HexValue(t[k + 2]) >= 0
\* llUnescapeURL
Decode(t) ==
  LET decode[k \in 1 .. Len(t) + 1] ==
        IF k > Len(t) THEN <<>>
        ELSE IF Coded(t, k) THEN <<16 * HexValue(t[k + 1]) + HexValue(t[k + 2])>> \o decode[k + 3]
        ELSE <<t[k]>> \o decode[k + 1]
  IN  decode[1]
UnescapeURL(t) == UpToNul(Decode(t))

----------------------------------------------------------------------------
(* An expression *)

Passed == Len(text) <= MaxText /\ \A k \in DOMAIN text : text[k] \in Bytes
Yields(t) == Passed /\ text' = t
Offsets == -(MaxText + 1) .. (MaxText + 1)

StringsInit == text = <<>>

\* Another literal, or one more character: llInsertString, +
Extend ==
  \/ text' = <<>>
  \/ Len(text) < MaxText /\ \E i \in Offsets, c \in Bytes : Yields(InsertString(text, i, <<c>>))
CutOut ==
  \E i, j \in Offsets :
    \/ Yields(GetSubString(text, i, j))
    \/ Deletes(text, j) /\ Yields(DeleteSubString(text, i, j))
Trim == \E head, tail \in BOOLEAN : Yields(StringTrim(text, head, tail))
ChangeCase == Yields(ToUpper(text)) \/ Yields(ToLower(text))
Encode == Yields(StringToBase64(text)) \/ Yields(EscapeURL(text))
Unencode == Yields(Base64ToString(text)) \/ Yields(UnescapeURL(text))

StringsNext == Extend \/ CutOut \/ Trim \/ ChangeCase \/ Encode \/ Unencode

StringsSpec == StringsInit /\ [][StringsNext]_text

----------------------------------------------------------------------------
(* What they promise *)

\* What llGetSubString gets llDeleteSubString removes, if the indices are in the text
\* and in order, and llInsertString puts back; llSubStringIndex finds it there or
\* earlier.  Crossed, they get both ends of the text and remove one character.
\* llStringTrim takes both ends at once as one after the other, and nothing else.
PiecesFit ==
  /\ \A i, j \in Offsets :
       LET first == Norm(i, Len(text))
           last == Norm(j, Len(text))
           piece == GetSubString(text, i, j)
           found == SubStringIndex(text, piece)
       IN  /\ first <= last /\ last < Len(text) =>
                InsertString(DeleteSubString(text, i, j), first, piece) = text
           /\ first <= last =>
                found \in 0 .. first /\ SubSeq(text, found + 1, found + Len(piece)) = piece
           /\ first > last =>
                /\ piece = SubSeq(text, first + 1, Len(text)) \o SubSeq(text, 1, last + 1)
                /\ DeleteSubString(text, i, j) = DeleteSubString(text, j, j)
  /\ LET trimmed == StringTrim(text, TRUE, TRUE)
         start == SubStringIndex(text, trimmed)
     IN  /\ trimmed = StringTrim(StringTrim(text, TRUE, FALSE), FALSE, TRUE)
         /\ trimmed = StringTrim(StringTrim(text, FALSE, TRUE), TRUE, FALSE)
         /\ \A k \in DOMAIN text : text[k] \notin Blanks => k \in (start + 1) .. (start + Len(trimmed))

\* Decoding gives back what was encoded, Base64 also when lines are broken and padding
\* is cut off; a URL escaped and unescaped is the same, and unescaping leaves a text
\* alone that has no escapes.  An integer comes back if none of its bytes is 0, and is
\* 0 otherwise.
WithBreak(t, k) == SubSeq(t, 1, k) \o <<10>> \o SubSeq(t, k + 1, Len(t))
DecodingInverts ==
  LET coded == StringToBase64(text)
      escaped == EscapeURL(text)
  IN  /\ Base64ToString(coded) = text
      /\ \A k \in 0 .. Len(coded) : Base64ToString(WithBreak(coded, k)) = text
      /\ Base64ToString(Only(coded, (1 .. 255) \ {Pad})) = text
      /\ UnescapeURL(escaped) = text
      /\ \A k \in DOMAIN escaped : escaped[k] \in Unescaped \cup {Percent}
      /\ (\A k \in DOMAIN text : text[k] # Percent) => UnescapeURL(text) = text
      /\ Len(text) = 4 =>
           /\ Base64ToInteger(IntegerToBase64(text)) = text
           /\ \A k \in 1 .. 4 : Base64ToInteger(IntegerToBase64([text EXCEPT ![k] = 0])) = <<0, 0, 0, 0>>

=============================================================================
