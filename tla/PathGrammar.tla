---------------------------- MODULE PathGrammar ----------------------------
(***************************************************************************)
(* The grammar of derivation paths: the recogniser derivation_path.cpp     *)
(* runs on a text before anything of it is stored.  A text is kept as far  *)
(* as the recogniser looks at it: what stands before the first '/', and    *)
(* for every segment after it whether its body is a decimal number, its    *)
(* value, whether it carries a leading zero, and its hardening marker.     *)
(***************************************************************************)
EXTENDS Naturals, Sequences

CONSTANTS
  IndexLimit,   \* 2^31 in the code: the hardened bit of a BIP-32 child number
  MaxDepth      \* 255 in the code: the deepest SLIP-10 path

\* Every purpose and fixed coin is an index below the hardened bit.
ASSUME IndexLimitAssumption == IndexLimit \in Nat /\ IndexLimit > 1852

ASSUME MaxDepthAssumption == MaxDepth \in Nat \ {0}

-----------------------------------------------------------------------------
(* Data *)

Bip44Family == {"bip44", "bip49", "bip54", "bip74", "bip84", "bip86"}

DerivationTypes ==
  {"root", "bip32", "slip10", "cip11", "cip1852", "zip32"} \cup Bip44Family

\* A std::uint32_t: exactly one bit more than a level index may use.
Uint32 == 0 .. (2 * IndexLimit - 1)

\* address_index
Level == [index : Uint32, hard : BOOLEAN]

HardeningMarkers == {"'", "h", "H"}

\* digits: the body (the segment without its marker) is one or more digits.
\* An empty segment, a sign, a second marker or a letter makes it FALSE.
\* pad: the digits are more than one and start with '0'.
Segment == [digits : BOOLEAN, val : Nat, pad : BOOLEAN,
            mark : {""} \cup HardeningMarkers]

\* head is the text before the first '/', segs what stands between the rest.
Heads == {"", "m", "M", "other"}

Text == [head : Heads, segs : Seq(Segment)]

EmptyText == [head |-> "", segs |-> <<>>]

-----------------------------------------------------------------------------
(* The parser of levels *)

\* Mutant: the bound of the integer instead of the bound of the index.
ParseSegment32Bit(s) == s.digits /\ s.val < 2 * IndexLimit

ParseSegmentOk(s) == s.digits /\ s.val < IndexLimit

\* A leading zero is accepted here and remembered: only a variable level may
\* be spelled with one.
RawLevel(s) ==
  [index |-> s.val, hard |-> s.mark \in HardeningMarkers, exact |-> ~ s.pad]

ParseLevelsOk(text) ==
  /\ text.head = "m"
  /\ \A i \in DOMAIN text.segs : ParseSegmentOk(text.segs[i])

RawLevels(text) == [i \in DOMAIN text.segs |-> RawLevel(text.segs[i])]

-----------------------------------------------------------------------------
(* The validators, one per shape *)

Fixed(l, n) == l.index = n /\ l.hard /\ l.exact

\* Mutant: any soft charge, as in the CIP formats.
AnySoftCharge(l) == ~ l.hard /\ l.exact

BinaryCharge(l) == ~ l.hard /\ l.index <= 1 /\ l.exact

Purpose(t) ==
  CASE t = "bip44"   -> 44
    [] t = "bip49"   -> 49
    [] t = "bip54"   -> 54
    [] t = "bip74"   -> 74
    [] t = "bip84"   -> 84
    [] t = "bip86"   -> 86
    [] OTHER         -> 0

ValidateBip44Family(lvls, purpose) ==
  /\ Len(lvls) = 5
  /\ Fixed(lvls[1], purpose)
  /\ lvls[2].hard
  /\ lvls[3].hard
  /\ BinaryCharge(lvls[4])

ValidateBip32(lvls) ==
  /\ Len(lvls) = 3
  /\ lvls[1].hard
  /\ BinaryCharge(lvls[2])

\* Mutant: no upper bound on the depth.
ValidateSlip10AnyDepth(lvls) == Len(lvls) >= 1

ValidateSlip10(lvls) == Len(lvls) \in 1 .. MaxDepth

\* The charge of CIP-11 and the role of CIP-1852 are any soft index.
ValidateCip(lvls, purpose, coin) ==
  /\ Len(lvls) = 5
  /\ Fixed(lvls[1], purpose)
  /\ Fixed(lvls[2], coin)
  /\ lvls[3].hard
  /\ ~ lvls[4].hard

ValidateZip32(lvls) ==
  /\ Len(lvls) \in {3, 4}
  /\ Fixed(lvls[1], 32)
  /\ Fixed(lvls[2], 133)
  /\ lvls[3].hard

ValidateLevelsFor(t, lvls) ==
  \/ t = "root"    /\ lvls = <<>>
  \/ t = "bip32"   /\ ValidateBip32(lvls)
  \/ t \in Bip44Family /\ ValidateBip44Family(lvls, Purpose(t))
  \/ t = "slip10"  /\ ValidateSlip10(lvls)
  \/ t = "cip11"   /\ ValidateCip(lvls, 44, 118)
  \/ t = "cip1852" /\ ValidateCip(lvls, 1852, 1815)
  \/ t = "zip32"   /\ ValidateZip32(lvls)

\* validate_derivation_path, and the guard of parse_fresh: a root path is the
\* empty text, any other path is "m" followed by levels of its shape.
Accepts(t, text) ==
  \/ t = "root" /\ text = EmptyText
  \/ /\ t \in DerivationTypes \ {"root"}
     /\ ParseLevelsOk(text)
     /\ ValidateLevelsFor(t, RawLevels(text))

=============================================================================
