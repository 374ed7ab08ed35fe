------------------------------- MODULE Bytes -------------------------------
(***************************************************************************)
(* Texts byte by byte, and the helpers of detail.hpp and detail.cpp that   *)
(* look at single bytes.  A byte is its ASCII code; the other modules      *)
(* speak of texts in larger pieces (tokens, segments, numbers).            *)
(***************************************************************************)
EXTENDS Naturals, Sequences, FiniteSetsExt

Byte == 0 .. 255

UpperCase == 65 .. 90
LowerCase == 97 .. 122
DecimalDigit == 48 .. 57

\* " \t\n\v\f\r"
AsciiSpace == {32} \cup 9 .. 13

\* Letters, digits and -._~!$&'()*+,;=@/
NssByte ==
  UpperCase \cup LowerCase \cup DecimalDigit
  \cup {33, 36, 59, 61, 64, 95, 126} \cup 38 .. 47

AsciiLower(c) == IF c \in UpperCase THEN c + 32 ELSE c

ToLower(s) == [i \in DOMAIN s |-> AsciiLower(s[i])]

Solid(s) == {i \in DOMAIN s : s[i] \notin AsciiSpace}

TrimRight(s) == IF Solid(s) = {} THEN <<>> ELSE SubSeq(s, 1, Max(Solid(s)))

TrimBytes(s) ==
  IF Solid(s) = {} THEN <<>> ELSE SubSeq(s, Min(Solid(s)), Max(Solid(s)))

HasPrefixFold(s, prefix) ==
  /\ Len(s) >= Len(prefix)
  /\ ToLower(SubSeq(s, 1, Len(prefix))) = ToLower(prefix)

\* '?' and '#'
RqfMarks(s) == {i \in DOMAIN s : s[i] \in {63, 35}}

StripRqfBytes(s) ==
  IF RqfMarks(s) = {} THEN s ELSE SubSeq(s, 1, Min(RqfMarks(s)) - 1)

-----------------------------------------------------------------------------
(* quote: a text as an error message shows it *)

HexChar(n) == IF n < 10 THEN 48 + n ELSE 87 + n

\* Mutant: the backslash is left alone.
EscapedQuoteOnly(b) ==
  CASE b = 34         -> <<92, b>>
    [] b = 10         -> <<92, 110>>
    [] b = 13         -> <<92, 114>>
    [] b = 9          -> <<92, 116>>
    [] b \notin {9, 10, 13} /\ b \notin 32 .. 126 ->
         <<92, 120, HexChar(b \div 16), HexChar(b % 16)>>
    [] OTHER          -> <<b>>

\* '"' and '\' get a backslash, \n \r \t their letters, and every other control
\* or non-ASCII byte is \xNN.
Escaped(b) ==
  CASE b \in {34, 92} -> <<92, b>>
    [] b = 10         -> <<92, 110>>
    [] b = 13         -> <<92, 114>>
    [] b = 9          -> <<92, 116>>
    [] b \notin {9, 10, 13} /\ b \notin 32 .. 126 ->
         <<92, 120, HexChar(b \div 16), HexChar(b % 16)>>
    [] OTHER          -> <<b>>

Quote(s) ==
  LET Body[i \in 0 .. Len(s)] ==
        IF i = 0 THEN <<>> ELSE Body[i - 1] \o Escaped(s[i])
  IN <<34>> \o Body[Len(s)] \o <<34>>

=============================================================================
