--------------------------- MODULE PathTemplates ---------------------------
(***************************************************************************)
(* What a derivation path of each type may be, as the documents put it: a  *)
(* table of templates such as  m/44'/coin'/account'/charge/index['] .      *)
(* Written level by level and without any of the code's validators, to be  *)
(* compared with them.                                                     *)
(***************************************************************************)
EXTENDS PathGrammar

\* A template level: the indexes and the hardening it stands for, and whether
\* it is a literal of the template, which a text must spell exactly.
Literal(n)  == [low |-> n, high |-> n, hard |-> {TRUE}, literal |-> TRUE]
BinaryDigit == [low |-> 0, high |-> 1, hard |-> {FALSE}, literal |-> TRUE]

Variable(hard) == [low |-> 0, high |-> IndexLimit - 1, hard |-> hard,
                   literal |-> FALSE]
HardenedAny == Variable({TRUE})
SoftAny     == Variable({FALSE})
Leaf        == Variable(BOOLEAN)

BipTemplate(purpose) ==
  <<Literal(purpose), HardenedAny, HardenedAny, BinaryDigit, Leaf>>

Templates(t) ==
  CASE t = "root"    -> {<<>>}
    [] t = "bip32"   -> {<<HardenedAny, BinaryDigit, Leaf>>}
    [] t = "bip44"   -> {BipTemplate(44)}
    [] t = "bip49"   -> {BipTemplate(49)}
    [] t = "bip54"   -> {BipTemplate(54)}
    [] t = "bip74"   -> {BipTemplate(74)}
    [] t = "bip84"   -> {BipTemplate(84)}
    [] t = "bip86"   -> {BipTemplate(86)}
    [] t = "slip10"  -> {[i \in 1 .. n |-> Leaf] : n \in 1 .. MaxDepth}
    [] t = "cip11"   ->
         {<<Literal(44), Literal(118), HardenedAny, SoftAny, Leaf>>}
    [] t = "cip1852" ->
         {<<Literal(1852), Literal(1815), HardenedAny, SoftAny, Leaf>>}
    [] t = "zip32"   ->
         {<<Literal(32), Literal(133), HardenedAny>>,
          <<Literal(32), Literal(133), HardenedAny, Leaf>>}
    [] OTHER         -> {}

Fits(l, c) == l.index \in c.low .. c.high /\ l.hard \in c.hard

Instantiates(levels, template) ==
  /\ Len(levels) = Len(template)
  /\ \A i \in 1 .. Len(levels) : Fits(levels[i], template[i])

\* levels is a path of type t.
ValidPath(t, levels) == \E s \in Templates(t) : Instantiates(levels, s)

\* text spells a path of type t: numbers with at most one marker each, leading
\* zeros in variable levels only.
SpellsPath(t, text) ==
  /\ IF t = "root" THEN text.head = "" ELSE text.head = "m"
  /\ \A i \in 1 .. Len(text.segs) : text.segs[i].digits
  /\ \E s \in Templates(t) :
       /\ Instantiates([i \in 1 .. Len(text.segs) |->
                          [index |-> text.segs[i].val,
                           hard  |-> text.segs[i].mark # ""]], s)
       /\ \A i \in 1 .. Len(text.segs) :
            s[i].literal => ~ text.segs[i].pad

=============================================================================
