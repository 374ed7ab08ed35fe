------------------------------- MODULE Digits -------------------------------
(***************************************************************************)
(* Numbers read digit by digit: parse_uint32 for coins, parse_uint31_dec   *)
(* and parse_segment for the levels of a path.  The loop they share holds  *)
(* the number in an accumulator of a fixed width and looks before it       *)
(* multiplies; which numbers a parser takes is decided afterwards.         *)
(***************************************************************************)
EXTENDS PathGrammar, Bytes

CONSTANTS
  AccLimit,   \* 2^64 in the code: the accumulator holds what is below it
  Texts       \* texts passed to the parsers

ASSUME AccLimitAssumption == AccLimit \in Nat /\ AccLimit > 2 * IndexLimit
ASSUME TextsAssumption == Texts \subseteq Seq(Byte)

VARIABLES
  parser,    \* the function called
  text,      \* its argument
  body,      \* the digits of text, without prefix or marker
  base,      \* 10 or 16
  pos,       \* how many digits were read
  value,     \* the accumulator
  pc,        \* "start", "loop", "done"
  outcome,   \* "running", "accepted" or "rejected"
  total      \* what was read, of no width: the code has no such variable

vars == <<parser, text, body, base, pos, value, pc, outcome, total>>

Parsers == {"uint32", "uint31", "segment"}

Init ==
  /\ parser \in Parsers
  /\ text \in Texts
  /\ body = text
  /\ base = 10
  /\ pos = 0
  /\ value = 0
  /\ pc = "start"
  /\ outcome = "running"
  /\ total = 0

End(verdict) == outcome' = verdict /\ pc' = "done"

-----------------------------------------------------------------------------
(* Before the loop *)

HasHexPrefix(s) == Len(s) >= 2 /\ s[1] = 48 /\ s[2] \in {120, 88}

\* "'", 'h' and 'H'
HasMarker(s) == s # <<>> /\ s[Len(s)] \in {39, 104, 72}

\* parse_uint32 takes 0x off, parse_segment the hardening marker.
Start ==
  /\ pc = "start"
  /\ \/ /\ parser = "uint32" /\ HasHexPrefix(text)
        /\ base' = 16
        /\ body' = SubSeq(text, 3, Len(text))
     \/ /\ parser = "segment" /\ HasMarker(text)
        /\ body' = SubSeq(text, 1, Len(text) - 1)
        /\ UNCHANGED base
     \/ /\ ~ (parser = "uint32" /\ HasHexPrefix(text))
        /\ ~ (parser = "segment" /\ HasMarker(text))
        /\ UNCHANGED <<body, base>>
  /\ IF body' = <<>> THEN End("rejected")
     ELSE pc' = "loop" /\ UNCHANGED outcome
  /\ UNCHANGED <<parser, text, pos, value, total>>

-----------------------------------------------------------------------------
(* parse_in_base *)

\* The digit a byte stands for; 16, which is in no base, for any other byte.
DigitOf(c, b) ==
  IF c \in DecimalDigit THEN c - 48
  ELSE IF b = 16 /\ c \in 97 .. 102 THEN c - 87
  ELSE IF b = 16 /\ c \in 65 .. 70 THEN c - 55
  ELSE 16

\* Mutants: the test forgets the digit; there is no test.
OverflowsWithoutDigit(v, d, b) == v > (AccLimit - 1) \div b
OverflowsNever(v, d, b) == FALSE

Overflows(v, d, b) == v > (AccLimit - 1 - d) \div b

\* One turn of the loop.
ReadDigit ==
  /\ pc = "loop"
  /\ pos < Len(body)
  /\ LET d == DigitOf(body[pos + 1], base)
     IN IF d >= base \/ Overflows(value, d, base)
          THEN End("rejected") /\ UNCHANGED <<pos, value, total>>
        ELSE /\ value' = (value * base + d) % AccLimit
             /\ total' = total * base + d
             /\ pos' = pos + 1
             /\ UNCHANGED <<pc, outcome>>
  /\ UNCHANGED <<parser, text, body, base>>

-----------------------------------------------------------------------------
(* After the loop *)

\* Mutant: one number too many.
FitsLoosely(p, v) ==
  IF p = "uint32" THEN v <= 2 * IndexLimit ELSE v <= IndexLimit

\* A coin has 32 bits, a level 31.
Fits(p, v) == IF p = "uint32" THEN v < 2 * IndexLimit ELSE v < IndexLimit

Conclude ==
  /\ pc = "loop"
  /\ pos = Len(body)
  /\ End(IF Fits(parser, value) THEN "accepted" ELSE "rejected")
  /\ UNCHANGED <<parser, text, body, base, pos, value, total>>

Next == Start \/ ReadDigit \/ Conclude

Spec == Init /\ [][Next]_vars

\* parse_segment: the level is spelled with a literal's digits.
Exact == Len(body) = 1 \/ body[1] # 48

\* Mutant: zero has no digit.
DecimalPositive(n) ==
  LET Digit[k \in Nat] ==
        IF k = 0 THEN <<>> ELSE Append(Digit[k \div 10], 48 + (k % 10))
  IN Digit[n]

\* append_uint32
Decimal(n) ==
  LET Digit[k \in Nat] ==
        IF k < 10 THEN <<48 + k>> ELSE Append(Digit[k \div 10], 48 + (k % 10))
  IN Digit[n]

-----------------------------------------------------------------------------
(* Properties *)

\* The variables keep their types, and what is accepted fits the uint32_t that
\* it is cast to.
TypeOK ==
  /\ parser \in Parsers
  /\ text \in Seq(Byte) /\ body \in Seq(Byte)
  /\ base \in {10, 16}
  /\ pos \in 0 .. Len(body)
  /\ value \in 0 .. AccLimit - 1
  /\ pc \in {"start", "loop", "done"}
  /\ outcome \in {"running", "accepted", "rejected"}
  /\ total \in Nat
  /\ outcome = "accepted" => value \in Uint32

\* No digit read is lost to the width of the accumulator, in either base: the
\* test of parse_in_base comes early enough, for the last digit too.
NothingWraps == value = total

\* The number a digit string spells, whatever its length.
Spells(s, b) ==
  LET Sum[i \in 0 .. Len(s)] ==
        IF i = 0 THEN 0 ELSE Sum[i - 1] * b + DigitOf(s[i], b)
  IN Sum[Len(s)]

\* Exactly the texts that spell a number below the parser's bound are taken, and
\* the value is that number: the early refusal of a number that outgrows the
\* accumulator refuses nothing that the bound would let pass (detail.hpp:
\* parse_uint32, parse_uint31_dec).
TakesExactlyNumbers ==
  pc = "done" =>
    /\ outcome = "accepted" <=>
         /\ body # <<>>
         /\ \A i \in DOMAIN body : DigitOf(body[i], base) < base
         /\ Spells(body, base) <
              IF parser = "uint32" THEN 2 * IndexLimit ELSE IndexLimit
    /\ outcome = "accepted" => value = Spells(body, base)

\* A level is exact when, and only when, its digits are the ones str() writes
\* for it: what the validators compare with a literal has one spelling.
ExactIsPrinted ==
  (outcome = "accepted" /\ parser # "uint32") =>
    (Exact <=> body = Decimal(value))

\* What the models of paths make of a segment is what this parser makes of it.
SegmentOf ==
  LET marked == HasMarker(text)
      digits == IF marked THEN SubSeq(text, 1, Len(text) - 1) ELSE text
      isNumber == digits # <<>> /\ \A i \in DOMAIN digits : digits[i] \in DecimalDigit
  IN [digits |-> isNumber,
      val    |-> IF isNumber THEN Spells(digits, 10) ELSE 0,
      pad    |-> isNumber /\ Len(digits) > 1 /\ digits[1] = 48,
      mark   |-> IF ~ marked THEN ""
                 ELSE CASE text[Len(text)] = 39  -> "'"
                        [] text[Len(text)] = 104 -> "h"
                        [] OTHER                 -> "H"]

LevelAsModelled ==
  (pc = "done" /\ parser = "segment") =>
    /\ outcome = "accepted" <=> ParseSegmentOk(SegmentOf)
    /\ outcome = "accepted" =>
         RawLevel(SegmentOf) =
           [index |-> value, hard |-> HasMarker(text), exact |-> Exact]

=============================================================================
