------------------------------ MODULE MCDigits ------------------------------
(***************************************************************************)
(* Instance of Digits for TLC: every number around a bound, in decimal and *)
(* in hexadecimal, plain, padded, marked and misspelt.                     *)
(***************************************************************************)
EXTENDS Digits

\* The bounds of the parsers and of the accumulator, the last number that may
\* still be multiplied by either base, and what wraps to a small number.
Numbers ==
  0 .. 130 \cup
  UNION {n - 3 .. n + 3 :
           n \in {IndexLimit, 2 * IndexLimit, AccLimit, 2 * AccLimit,
                  10 * AccLimit, 16 * AccLimit, AccLimit \div 10,
                  10 * (AccLimit \div 10), AccLimit \div 16,
                  10 * (AccLimit \div 10) + 20, 100 * AccLimit}}

Hex(n) ==
  LET Digit[k \in Nat] ==
        IF k < 16 THEN <<HexChar(k)>>
        ELSE Append(Digit[k \div 16], HexChar(k % 16))
  IN Digit[n]

ToUpper(s) == [i \in DOMAIN s |-> IF s[i] \in LowerCase THEN s[i] - 32 ELSE s[i]]

Zeros == {<<>>, <<48>>, <<48, 48>>}

Decimals == {z \o Decimal(n) : z \in Zeros, n \in Numbers}

Hexes ==
  LET digits == {z \o Hex(n) : z \in Zeros, n \in Numbers}
  IN {<<48, x>> \o d : x \in {88, 120}, d \in digits \cup {ToUpper(d) : d \in digits}}

\* Signs, a space, an underscore, a letter beyond the base, another script.
Misspelt ==
  LET junk == {43, 45, 32, 95, 103, 97, 120, 39, 200}
  IN {<<>>} \cup {<<c>> : c \in junk}
     \cup {s \o <<c>> \o t : c \in junk, s \in Zeros, t \in {<<>>, <<49>>}}

Marked == {s \o <<m>> : s \in Decimals \cup Misspelt, m \in {39, 104, 72}}

TextsArg == Decimals \cup Hexes \cup Misspelt \cup Marked

=============================================================================
