----------------------------- MODULE PathLemmas -----------------------------
(***************************************************************************)
(* Facts about the parser and the renderer as functions: what an accepted  *)
(* text is stored as, and that rendering the stored path gives it back.    *)
(***************************************************************************)
EXTENDS PathObject, PathTemplates, SequenceTheorems, TLAPS

\* A sequence of some length is not the empty one (path levels and the flag
\* "no path was committed" are told apart by it).
LEMMA EmptyHasNoLength ==
  ASSUME NEW s, Len(s) # 0
  PROVE  s # <<>>
<1>1. Len(<<>>) = 0
  OBVIOUS
<1> QED
  BY <1>1, Zenon

\* A sequence is the tuple of its elements: a shape is read off a length.
LEMMA TupleOf3 ==
  ASSUME NEW S, NEW s \in Seq(S), Len(s) = 3
  PROVE  s = <<s[1], s[2], s[3]>> /\ \A i \in 1 .. 3 : s[i] \in S
<1>1. \A i \in 1 .. 3 : s[i] \in S
  BY ElementOfSeq
<1>2. <<s[1], s[2], s[3]>> \in Seq(S) /\ Len(<<s[1], s[2], s[3]>>) = 3
  BY <1>1
<1>3. \A i \in 1 .. 3 : s[i] = <<s[1], s[2], s[3]>>[i]
  OBVIOUS
<1>4. s = <<s[1], s[2], s[3]>>
  BY <1>2, <1>3, SeqEqual
<1> QED
  BY <1>1, <1>4

\* A sequence of length four is the tuple of its elements.
LEMMA TupleOf4 ==
  ASSUME NEW S, NEW s \in Seq(S), Len(s) = 4
  PROVE  s = <<s[1], s[2], s[3], s[4]>> /\ \A i \in 1 .. 4 : s[i] \in S
<1>1. \A i \in 1 .. 4 : s[i] \in S
  BY ElementOfSeq
<1>2. <<s[1], s[2], s[3], s[4]>> \in Seq(S) /\ Len(<<s[1], s[2], s[3], s[4]>>) = 4
  BY <1>1
<1>3. \A i \in 1 .. 4 : s[i] = <<s[1], s[2], s[3], s[4]>>[i]
  OBVIOUS
<1>4. s = <<s[1], s[2], s[3], s[4]>>
  BY <1>2, <1>3, SeqEqual
<1> QED
  BY <1>1, <1>4

\* The same of length five.
LEMMA TupleOf5 ==
  ASSUME NEW S, NEW s \in Seq(S), Len(s) = 5
  PROVE  s = <<s[1], s[2], s[3], s[4], s[5]>> /\ \A i \in 1 .. 5 : s[i] \in S
<1>1. \A i \in 1 .. 5 : s[i] \in S
  BY ElementOfSeq
<1>2. <<s[1], s[2], s[3], s[4], s[5]>> \in Seq(S) /\ Len(<<s[1], s[2], s[3], s[4], s[5]>>) = 5
  BY <1>1
<1>3. \A i \in 1 .. 5 : s[i] = <<s[1], s[2], s[3], s[4], s[5]>>[i]
  OBVIOUS
<1>4. s = <<s[1], s[2], s[3], s[4], s[5]>>
  BY <1>2, <1>3, SeqEqual
<1> QED
  BY <1>1, <1>4

\* A raw level keeps a 31-bit index and two flags.
LEMMA RawLevelTyped ==
  ASSUME NEW s \in Segment
  PROVE  RawLevel(s) \in [index : Nat, hard : BOOLEAN, exact : BOOLEAN]
<1>1. s.val \in Nat /\ s.pad \in BOOLEAN
  BY DEF Segment
<1>2. (s.mark \in HardeningMarkers) \in BOOLEAN /\ (~ s.pad) \in BOOLEAN
  OBVIOUS
<1>3. ASSUME NEW a \in Nat, NEW b \in BOOLEAN, NEW c \in BOOLEAN
      PROVE  [index |-> a, hard |-> b, exact |-> c]
               \in [index : Nat, hard : BOOLEAN, exact : BOOLEAN]
  OBVIOUS
<1> QED
  BY <1>1, <1>2, <1>3, Zenon DEF RawLevel

\* The parser (split_path, parse_segment) hands out levels of 31-bit indexes.
LEMMA TextLevelsTyped ==
  ASSUME NEW text \in Text, ParseLevelsOk(text)
  PROVE  /\ TextLevels(text) \in Seq(Level)
         /\ Len(TextLevels(text)) = Len(text.segs)
         /\ Len(RawLevels(text)) = Len(text.segs)
         /\ \A i \in 1 .. Len(text.segs) :
              /\ RawLevels(text)[i]
                   \in [index : Nat, hard : BOOLEAN, exact : BOOLEAN]
              /\ TextLevels(text)[i].index = RawLevels(text)[i].index
              /\ TextLevels(text)[i].hard = RawLevels(text)[i].hard
              /\ TextLevels(text)[i].index < IndexLimit
<1> DEFINE n == Len(text.segs)
           Raw == [index : Nat, hard : BOOLEAN, exact : BOOLEAN]
<1>1. /\ text.segs \in Seq(Segment)
      /\ n \in Nat
      /\ DOMAIN text.segs = 1 .. n
  BY DEF Text
<1>2. ASSUME NEW i \in 1 .. n
      PROVE  /\ RawLevels(text)[i] \in Raw
             /\ TextLevels(text)[i].index = RawLevels(text)[i].index
             /\ TextLevels(text)[i].hard = RawLevels(text)[i].hard
             /\ TextLevels(text)[i] \in Level
             /\ TextLevels(text)[i].index < IndexLimit
  <2>1. text.segs[i] \in Segment /\ text.segs[i].val < IndexLimit
    BY <1>1 DEF ParseLevelsOk, ParseSegmentOk
  <2>2. RawLevels(text)[i] = RawLevel(text.segs[i])
    BY <1>1, Zenon DEF RawLevels
  <2>3. RawLevels(text)[i].index = text.segs[i].val
    BY <2>2 DEF RawLevel
  <2>4. RawLevels(text)[i] \in Raw
    BY <2>1, <2>2, RawLevelTyped
  <2>5. TextLevels(text)[i] = [index |-> RawLevels(text)[i].index,
                               hard  |-> RawLevels(text)[i].hard]
    BY <1>1, Zenon DEF TextLevels
  <2>6. text.segs[i].val \in Nat
    BY <2>1 DEF Segment
  <2>7. RawLevels(text)[i].index \in Uint32
    BY <2>1, <2>3, <2>6, IndexLimitAssumption DEF Uint32
  <2>8. TextLevels(text)[i] \in Level
    BY <2>4, <2>5, <2>7 DEF Level
  <2> QED
    BY <2>1, <2>3, <2>4, <2>5, <2>8
<1>3. TextLevels(text) \in [1 .. n -> Level]
  BY <1>1, <1>2, Zenon DEF TextLevels
<1>4. RawLevels(text) \in [1 .. n -> Raw]
  BY <1>1, <1>2, Zenon DEF RawLevels
<1> QED
  BY <1>1, <1>2, <1>3, <1>4

\* What is rendered is a text, one segment a level.
LEMMA FormatTyped ==
  ASSUME NEW lvls \in Seq(Level)
  PROVE  /\ FormatLevels(lvls) \in Text
         /\ FormatLevels(lvls).head = "m"
         /\ FormatLevels(lvls).segs \in Seq(Segment)
         /\ Len(FormatLevels(lvls).segs) = Len(lvls)
         /\ \A i \in 1 .. Len(lvls) : FormatLevels(lvls).segs[i] = Spell(lvls[i])
<1> DEFINE n == Len(lvls)
           text == FormatLevels(lvls)
<1>1. lvls \in [1 .. n -> Level] /\ n \in Nat
  OBVIOUS
<1>2. ASSUME NEW i \in 1 .. n
      PROVE  text.segs[i] = Spell(lvls[i]) /\ Spell(lvls[i]) \in Segment
  <2>1. lvls[i].index \in Nat /\ lvls[i].hard \in BOOLEAN
    BY <1>1, IndexLimitAssumption DEF Level, Uint32
  <2>2. text.segs[i] = Spell(lvls[i])
    BY <1>1, Zenon DEF FormatLevels
  <2>3. Spell(lvls[i]) \in Segment
    BY <2>1 DEF Spell, Segment, HardeningMarkers
  <2> QED
    BY <2>2, <2>3
<1>3. /\ text.head = "m"
      /\ text = [head |-> "m", segs |-> text.segs]
      /\ DOMAIN text.segs = 1 .. n
      /\ text.segs = [i \in 1 .. n |-> text.segs[i]]
  BY <1>1, Zenon DEF FormatLevels
<1>4. text.segs \in Seq(Segment) /\ Len(text.segs) = n
  <2>1. text.segs \in [1 .. n -> Segment]
    BY <1>2, <1>3, Zenon
  <2> QED
    BY <1>1, <2>1
<1>5. text \in Text
  <2>1. "m" \in Heads
    BY DEF Heads
  <2> HIDE DEF text
  <2> QED
    BY <1>3, <1>4, <2>1, Zenon DEF Text
<1> QED
  BY <1>2, <1>3, <1>4, <1>5

\* Rendering levels and reading the text back gives the levels: append_uint32
\* writes what parse_segment reads, and the marker survives.
LEMMA FormatRoundTrip ==
  ASSUME NEW lvls \in Seq(Level),
         \A i \in 1 .. Len(lvls) : lvls[i].index < IndexLimit
  PROVE  /\ ParseLevelsOk(FormatLevels(lvls))
         /\ TextLevels(FormatLevels(lvls)) = lvls
         /\ \A i \in 1 .. Len(lvls) : RawLevels(FormatLevels(lvls))[i].exact
<1> DEFINE n == Len(lvls)
           text == FormatLevels(lvls)
<1>1. lvls \in [1 .. n -> Level] /\ n \in Nat
  OBVIOUS
<1>2. ASSUME NEW i \in 1 .. n
      PROVE  /\ ParseSegmentOk(Spell(lvls[i]))
             /\ RawLevel(Spell(lvls[i])).index = lvls[i].index
             /\ RawLevel(Spell(lvls[i])).hard = lvls[i].hard
             /\ RawLevel(Spell(lvls[i])).exact
  <2>1. lvls[i].hard \in BOOLEAN
    BY <1>1 DEF Level
  <2>2. Spell(lvls[i]) \in Segment
    BY FormatTyped
  <2>3. ParseSegmentOk(Spell(lvls[i]))
    BY DEF Spell, ParseSegmentOk
  <2>4. /\ RawLevel(Spell(lvls[i])).index = lvls[i].index
        /\ RawLevel(Spell(lvls[i])).exact
    BY DEF RawLevel, Spell
  <2>5. RawLevel(Spell(lvls[i])).hard = (Spell(lvls[i]).mark \in HardeningMarkers)
    BY DEF RawLevel
  <2>6. CASE lvls[i].hard
    BY <2>1, <2>2, <2>3, <2>4, <2>5, <2>6 DEF Spell, HardeningMarkers
  <2>7. CASE ~ lvls[i].hard
    <3>1. Spell(lvls[i]).mark = ""
      BY <2>7 DEF Spell
    <3>2. "" \notin HardeningMarkers
      BY DEF HardeningMarkers
    <3>3. ~ RawLevel(Spell(lvls[i])).hard
      BY <2>5, <3>1, <3>2
    <3>4. RawLevel(Spell(lvls[i])).hard = lvls[i].hard
      BY <2>1, <2>2, <2>7, <3>3, RawLevelTyped
    <3> QED
      BY <2>3, <2>4, <3>4
  <2> QED
    BY <2>6, <2>7
<1>3. DOMAIN text.segs = 1 .. n
  BY <1>1, Zenon DEF FormatLevels
<1>4. ParseLevelsOk(text)
  BY <1>2, <1>3, FormatTyped DEF ParseLevelsOk
<1>5. \A i \in 1 .. n : RawLevels(text)[i] = RawLevel(Spell(lvls[i]))
  BY <1>3, FormatTyped, Zenon DEF RawLevels
<1>6. /\ TextLevels(text) \in Seq(Level)
      /\ Len(TextLevels(text)) = n
      /\ \A i \in 1 .. n :
           /\ TextLevels(text)[i].index = lvls[i].index
           /\ TextLevels(text)[i].hard = lvls[i].hard
  <2>1. text \in Text /\ Len(text.segs) = n
    BY FormatTyped
  <2>2. /\ TextLevels(text) \in Seq(Level)
        /\ Len(TextLevels(text)) = n
        /\ \A i \in 1 .. n :
             /\ TextLevels(text)[i].index = RawLevels(text)[i].index
             /\ TextLevels(text)[i].hard = RawLevels(text)[i].hard
    BY <1>4, <2>1, TextLevelsTyped
  <2> HIDE DEF text
  <2> QED
    BY <1>2, <1>5, <2>2, Zenon
<1>7. ASSUME NEW i \in 1 .. n PROVE TextLevels(text)[i] = lvls[i]
  <2>1. TextLevels(text)[i] \in Level /\ lvls[i] \in Level
    BY <1>1, <1>6
  <2> QED
    BY <1>6, <2>1 DEF Level
<1>8. TextLevels(text) = lvls
  BY <1>6, <1>7, SeqEqual
<1> QED
  BY <1>2, <1>4, <1>5, <1>8

-----------------------------------------------------------------------------
(* The shapes *)

\* What the validators establish about the levels they let through, in the
\* terms the rest of the class uses.
ShapedBip32(l) ==
  /\ Len(l) = 3
  /\ l[1] = Hard(l[1].index)
  /\ l[2] = Soft(l[2].index)
  /\ l[2].index <= 1

ShapedBip44(l, purpose) ==
  /\ Len(l) = 5
  /\ l[1] = Hard(purpose)
  /\ l[2] = Hard(l[2].index)
  /\ l[3] = Hard(l[3].index)
  /\ l[4] = Soft(l[4].index)
  /\ l[4].index <= 1

ShapedCip(l, purpose, coin) ==
  /\ Len(l) = 5
  /\ l[1] = Hard(purpose)
  /\ l[2] = Hard(coin)
  /\ l[3] = Hard(l[3].index)
  /\ l[4] = Soft(l[4].index)

ShapedZip32(l) ==
  /\ Len(l) \in {3, 4}
  /\ l[1] = Hard(32)
  /\ l[2] = Hard(133)
  /\ l[3] = Hard(l[3].index)

Shaped(t, l) ==
  \/ t = "root"    /\ l = <<>>
  \/ t = "bip32"   /\ ShapedBip32(l)
  \/ t \in Bip44Family /\ ShapedBip44(l, PrefixPurpose(t))
  \/ t = "slip10"  /\ Len(l) \in 1 .. MaxDepth
  \/ t = "cip11"   /\ ShapedCip(l, 44, 118)
  \/ t = "cip1852" /\ ShapedCip(l, 1852, 1815)
  \/ t = "zip32"   /\ ShapedZip32(l)

Bounded(l) == l \in Seq(Level) /\ \A i \in 1 .. Len(l) : l[i].index < IndexLimit

\* A level is its index and its flag.
LEMMA LevelIsPair ==
  ASSUME NEW x \in Level
  PROVE  /\ x.hard => x = Hard(x.index)
         /\ ~ x.hard => x = Soft(x.index)
         /\ x.hard \in BOOLEAN
         /\ x.index \in Uint32
  BY DEF Level, Hard, Soft

\* An accepted text has levels of the shape of its type.
LEMMA AcceptedIsShaped ==
  ASSUME NEW t \in DerivationTypes, NEW text \in Text, Accepts(t, text)
  PROVE  Shaped(t, TextLevels(text)) /\ Bounded(TextLevels(text))
<1> DEFINE l == TextLevels(text)
           r == RawLevels(text)
<1>1. CASE t = "root"
  <2>1. text = EmptyText
    BY <1>1 DEF Accepts
  <2>2. text.segs = <<>>
    BY <2>1, Zenon DEF EmptyText
  <2>3. l = <<>>
    BY <2>2 DEF TextLevels
  <2> QED
    BY <1>1, <2>3 DEF Shaped, Bounded
<1>2. CASE t # "root"
  <2>1. ParseLevelsOk(text) /\ ValidateLevelsFor(t, r)
    BY <1>2 DEF Accepts
  <2>2. Bounded(l) /\ Len(l) = Len(r)
    BY <2>1, TextLevelsTyped DEF Bounded
  <2>3. \A i \in 1 .. Len(l) :
          /\ l[i] \in Level
          /\ l[i].index = r[i].index
          /\ l[i].hard = r[i].hard
    BY <2>1, <2>2, TextLevelsTyped DEF Bounded
  <2>4. \A i \in 1 .. Len(l) :
          /\ r[i].hard => l[i] = Hard(r[i].index)
          /\ ~ r[i].hard => l[i] = Soft(r[i].index)
    BY <2>3, LevelIsPair
  <2> SUFFICES Shaped(t, l)
    BY <2>2
  <2> HIDE DEF l, r
  <2>5. CASE t = "bip32"
    <3>1. ValidateBip32(r)
      BY <2>1, <2>5 DEF ValidateLevelsFor, Bip44Family
    <3>2. ShapedBip32(l)
      BY <2>2, <2>3, <2>4, <3>1 DEF ValidateBip32, BinaryCharge, ShapedBip32
    <3> QED
      BY <2>5, <3>2 DEF Shaped
  <2>6. CASE t \in Bip44Family
    <3>1. ValidateBip44Family(r, Purpose(t))
      BY <2>1, <2>6 DEF ValidateLevelsFor, Bip44Family
    <3>2. Purpose(t) = PrefixPurpose(t)
      BY <2>6 DEF Purpose, PrefixPurpose, Bip44Family
    <3>3. ShapedBip44(l, PrefixPurpose(t))
      BY <2>2, <2>3, <2>4, <3>1, <3>2
      DEF ValidateBip44Family, Fixed, BinaryCharge, ShapedBip44
    <3> QED
      BY <2>6, <3>3 DEF Shaped
  <2>7. CASE t = "slip10"
    <3>1. ValidateSlip10(r)
      BY <2>1, <2>7 DEF ValidateLevelsFor, Bip44Family
    <3> QED
      BY <2>2, <2>7, <3>1 DEF ValidateSlip10, Shaped
  <2>8. CASE t = "cip11"
    <3>1. ValidateCip(r, 44, 118)
      BY <2>1, <2>8 DEF ValidateLevelsFor, Bip44Family
    <3>2. ShapedCip(l, 44, 118)
      BY <2>2, <2>3, <2>4, <3>1 DEF ValidateCip, Fixed, ShapedCip
    <3> QED
      BY <2>8, <3>2 DEF Shaped
  <2>9. CASE t = "cip1852"
    <3>1. ValidateCip(r, 1852, 1815)
      BY <2>1, <2>9 DEF ValidateLevelsFor, Bip44Family
    <3>2. ShapedCip(l, 1852, 1815)
      BY <2>2, <2>3, <2>4, <3>1 DEF ValidateCip, Fixed, ShapedCip
    <3> QED
      BY <2>9, <3>2 DEF Shaped
  <2>10. CASE t = "zip32"
    <3>1. ValidateZip32(r)
      BY <2>1, <2>10 DEF ValidateLevelsFor, Bip44Family
    <3>2. ShapedZip32(l)
      BY <2>2, <2>3, <2>4, <3>1 DEF ValidateZip32, Fixed, ShapedZip32
    <3> QED
      BY <2>10, <3>2 DEF Shaped
  <2> QED
    BY <1>2, <2>5, <2>6, <2>7, <2>8, <2>9, <2>10 DEF DerivationTypes
<1> QED
  BY <1>1, <1>2

\* The shape is all the validators ask for, when nothing is misspelt.
LEMMA ShapedIsAccepted ==
  ASSUME NEW t \in DerivationTypes \ {"root"}, NEW l, Shaped(t, l), Bounded(l)
  PROVE  Accepts(t, FormatLevels(l))
<1> DEFINE r == RawLevels(FormatLevels(l))
<1>1. /\ ParseLevelsOk(FormatLevels(l))
      /\ Len(r) = Len(l)
      /\ \A i \in 1 .. Len(l) :
           r[i].index = l[i].index /\ r[i].hard = l[i].hard /\ r[i].exact
  BY FormatRoundTrip, FormatTyped, TextLevelsTyped DEF Bounded
<1> HIDE DEF r
<1>2. CASE t = "bip32"
  BY <1>1, <1>2
  DEF Shaped, ShapedBip32, ValidateLevelsFor, ValidateBip32, BinaryCharge, Hard, Soft,
      Accepts, r, Bip44Family
<1>3. CASE t \in Bip44Family
  <2>1. Purpose(t) = PrefixPurpose(t)
    BY <1>3 DEF Purpose, PrefixPurpose, Bip44Family
  <2>2. ValidateBip44Family(r, Purpose(t))
    BY <1>1, <1>3, <2>1
    DEF Shaped, ShapedBip44, ValidateBip44Family, Fixed, BinaryCharge, Hard, Soft,
        Bip44Family
  <2> QED
    BY <1>1, <1>3, <2>2 DEF Accepts, ValidateLevelsFor, r
<1>4. CASE t = "slip10"
  BY <1>1, <1>4
  DEF Shaped, ValidateLevelsFor, ValidateSlip10, Accepts, r, Bip44Family
<1>5. CASE t = "cip11"
  BY <1>1, <1>5
  DEF Shaped, ShapedCip, ValidateLevelsFor, ValidateCip, Fixed, Hard, Soft,
      Accepts, r, Bip44Family
<1>6. CASE t = "cip1852"
  BY <1>1, <1>6
  DEF Shaped, ShapedCip, ValidateLevelsFor, ValidateCip, Fixed, Hard, Soft,
      Accepts, r, Bip44Family
<1>7. CASE t = "zip32"
  BY <1>1, <1>7
  DEF Shaped, ShapedZip32, ValidateLevelsFor, ValidateZip32, Fixed, Hard,
      Accepts, r, Bip44Family
<1> QED
  BY <1>2, <1>3, <1>4, <1>5, <1>6, <1>7 DEF DerivationTypes

-----------------------------------------------------------------------------
(* The stored path *)

\* What parse_path stores for an accepted text: its levels, unchanged, under
\* shortcuts that render the same text again.
LEMMA ParsedFacts ==
  ASSUME NEW t \in DerivationTypes, NEW l, Shaped(t, l), Bounded(l),
         NEW p, p = RebuildLevels(Fill(t, l))
  PROVE  /\ p \in Path
         /\ Fill(t, l) \in Path
         /\ t \in {"root", "slip10"} => p = Fill(t, l)
         /\ p.type = t
         /\ p.levels = l
         /\ t = "root" => l = <<>> /\ p = EmptyPath("root")
         /\ t # "root" => l # <<>> /\ Str(p) = FormatLevels(l)
<1>1. /\ l \in Seq(Level)
      /\ \A i \in 1 .. Len(l) : l[i].index \in Uint32 /\ l[i] \in Level
  BY LevelIsPair DEF Bounded
<1>2. /\ 0 \in Uint32 /\ 118 \in Uint32 /\ 133 \in Uint32
      /\ 1815 \in Uint32 /\ ZeroIndex \in Level
  <2>1. /\ 0 \in Uint32 /\ 118 \in Uint32 /\ 133 \in Uint32
        /\ 1815 \in Uint32
    BY IndexLimitAssumption DEF Uint32
  <2> QED
    BY <2>1 DEF Level, ZeroIndex
<1>3. CASE t = "root"
  <2>1. l = <<>>
    BY <1>3 DEF Shaped, Bip44Family
  <2>2. Fill(t, l) = EmptyPath("root")
    BY <1>3 DEF Fill, Bip44Family
  <2>3. p = WithLevels(EmptyPath("root"), <<>>)
    <3>1. EmptyPath("root").type = "root"
      BY DEF EmptyPath, WithoutIndex
    <3> QED
      BY <2>2, <3>1 DEF RebuildLevels, HasFixedPrefix, Bip44Family
  <2>4. p = EmptyPath("root")
    BY <2>3 DEF WithLevels, EmptyPath, WithoutIndex
  <2>5. p \in Path
    BY <1>2, <2>4 DEF EmptyPath, WithoutIndex, Path, DerivationTypes
  <2>6. p.type = "root" /\ p.levels = <<>>
    BY <2>4 DEF EmptyPath, WithoutIndex
  <2> QED
    BY <1>3, <2>1, <2>2, <2>4, <2>5, <2>6
<1>4. CASE t = "slip10"
  <2>1. Len(l) >= 1 /\ l # <<>>
    BY <1>1, <1>4 DEF Shaped, Bip44Family
  <2>2. Fill(t, l) = WithIndex(t, 0, 0, 0, ZeroIndex, l)
    BY <1>4, <2>1 DEF Fill, Bip44Family
  <2>3. p = WithIndex(t, 0, 0, 0, ZeroIndex, l)
    <3>1. Fill(t, l).type = "slip10"
      BY <1>4, <2>2 DEF WithIndex
    <3> QED
      BY <2>2, <3>1 DEF RebuildLevels, HasFixedPrefix, Bip44Family
  <2>4. p.type = t /\ p.levels = l
    BY <2>3 DEF WithIndex
  <2>5. Str(p) = FormatLevels(l)
    BY <1>4, <2>1, <2>4 DEF Str, HasFixedPrefix, Bip44Family
  <2>6. p \in Path
    BY <1>1, <1>2, <2>3 DEF WithIndex, Path
  <2> QED
    BY <1>4, <2>1, <2>2, <2>3, <2>4, <2>5, <2>6
<1>5. CASE t = "bip32"
  <2>1. Len(l) = 3 /\ l[1] = Hard(l[1].index) /\ l[2] = Soft(l[2].index)
    BY <1>1, <1>5 DEF Shaped, ShapedBip32, Bip44Family
  <2>2. l = <<Hard(l[1].index), Soft(l[2].index), l[3]>>
    BY <1>1, <2>1, TupleOf3
  <2> DEFINE f == WithIndex(t, 0, l[1].index, l[2].index,
                         l[3], <<>>)
  <2>3. Fill(t, l) = f
    BY <1>5 DEF Fill, Bip44Family
  <2>4. ShortcutLevels(f) = l
    BY <1>5, <2>2
    DEF ShortcutLevels, PrefixPurpose, PrefixCoin, Bip44Family, WithIndex
  <2>5. f.type = t
    BY DEF WithIndex
  <2> HIDE DEF f
  <2>6. p = WithLevels(f, l)
    BY <1>5, <2>3, <2>4, <2>5
    DEF RebuildLevels, HasFixedPrefix, Bip44Family
  <2>7. p = WithIndex(t, 0, l[1].index, l[2].index,
                         l[3], l)
    BY <2>6 DEF f, WithIndex, WithLevels
  <2>8. ShortcutLevels(p) = l
    BY <1>5, <2>2, <2>7
    DEF ShortcutLevels, PrefixPurpose, PrefixCoin, Bip44Family, WithIndex
  <2>9. p.type = t /\ p.levels = l
    BY <2>7 DEF WithIndex
  <2>10. l # <<>>
    <3>1. Len(l) # 0
      BY <2>1
    <3> QED
      BY <3>1, EmptyHasNoLength
  <2>11. Str(p) = FormatLevels(l)
    BY <1>5, <2>8, <2>9, <2>10 DEF Str, HasFixedPrefix, Bip44Family
  <2>12. p \in Path
    BY <1>1, <1>2, <2>1, <2>7 DEF WithIndex, Path
  <2>13. f \in Path
    BY <1>1, <1>2, <2>1 DEF f, WithIndex, Path
  <2> QED
    BY <1>5, <2>3, <2>9, <2>10, <2>11, <2>12, <2>13 DEF Bip44Family
<1>6. CASE t \in Bip44Family
  <2>1. /\ Len(l) = 5
        /\ l[1] = Hard(PrefixPurpose(t)) /\ l[2] = Hard(l[2].index)
        /\ l[3] = Hard(l[3].index) /\ l[4] = Soft(l[4].index)
    BY <1>1, <1>6 DEF Shaped, ShapedBip44, Bip44Family
  <2>2. l = <<Hard(PrefixPurpose(t)), Hard(l[2].index), Hard(l[3].index),
             Soft(l[4].index), l[5]>>
    BY <1>1, <2>1, TupleOf5
  <2> DEFINE f == WithIndex(t, l[2].index, l[3].index, l[4].index,
                         l[5], <<>>)
  <2>3. Fill(t, l) = f
    BY <1>6 DEF Fill, Bip44Family
  <2>4. ShortcutLevels(f) = l
    BY <1>6, <2>2
    DEF ShortcutLevels, PrefixPurpose, PrefixCoin, Bip44Family, WithIndex
  <2>5. f.type = t
    BY DEF WithIndex
  <2> HIDE DEF f
  <2>6. p = WithLevels(f, l)
    BY <1>6, <2>3, <2>4, <2>5
    DEF RebuildLevels, HasFixedPrefix, Bip44Family
  <2>7. p = WithIndex(t, l[2].index, l[3].index, l[4].index,
                         l[5], l)
    BY <2>6 DEF f, WithIndex, WithLevels
  <2>8. ShortcutLevels(p) = l
    BY <1>6, <2>2, <2>7
    DEF ShortcutLevels, PrefixPurpose, PrefixCoin, Bip44Family, WithIndex
  <2>9. p.type = t /\ p.levels = l
    BY <2>7 DEF WithIndex
  <2>10. l # <<>>
    <3>1. Len(l) # 0
      BY <2>1
    <3> QED
      BY <3>1, EmptyHasNoLength
  <2>11. Str(p) = FormatLevels(l)
    BY <1>6, <2>8, <2>9, <2>10 DEF Str, HasFixedPrefix, Bip44Family
  <2>12. p \in Path
    BY <1>1, <1>2, <2>1, <2>7 DEF WithIndex, Path
  <2>13. f \in Path
    BY <1>1, <1>2, <2>1 DEF f, WithIndex, Path
  <2> QED
    BY <1>6, <2>3, <2>9, <2>10, <2>11, <2>12, <2>13 DEF Bip44Family
<1>7. CASE t = "cip11"
  <2>1. /\ Len(l) = 5
        /\ l[1] = Hard(44) /\ l[2] = Hard(118)
        /\ l[3] = Hard(l[3].index) /\ l[4] = Soft(l[4].index)
    BY <1>1, <1>7 DEF Shaped, ShapedCip, Bip44Family
  <2>2. l = <<Hard(44), Hard(118), Hard(l[3].index),
             Soft(l[4].index), l[5]>>
    BY <1>1, <2>1, TupleOf5
  <2> DEFINE f == WithIndex(t, 118, l[3].index, l[4].index,
                         l[5], <<>>)
  <2>3. Fill(t, l) = f
    BY <1>7 DEF Fill, Bip44Family
  <2>4. ShortcutLevels(f) = l
    BY <1>7, <2>2
    DEF ShortcutLevels, PrefixPurpose, PrefixCoin, Bip44Family, WithIndex
  <2>5. f.type = t
    BY DEF WithIndex
  <2> HIDE DEF f
  <2>6. p = WithLevels(f, l)
    BY <1>7, <2>3, <2>4, <2>5
    DEF RebuildLevels, HasFixedPrefix, Bip44Family
  <2>7. p = WithIndex(t, 118, l[3].index, l[4].index,
                         l[5], l)
    BY <2>6 DEF f, WithIndex, WithLevels
  <2>8. ShortcutLevels(p) = l
    BY <1>7, <2>2, <2>7
    DEF ShortcutLevels, PrefixPurpose, PrefixCoin, Bip44Family, WithIndex
  <2>9. p.type = t /\ p.levels = l
    BY <2>7 DEF WithIndex
  <2>10. l # <<>>
    <3>1. Len(l) # 0
      BY <2>1
    <3> QED
      BY <3>1, EmptyHasNoLength
  <2>11. Str(p) = FormatLevels(l)
    BY <1>7, <2>8, <2>9, <2>10 DEF Str, HasFixedPrefix, Bip44Family
  <2>12. p \in Path
    BY <1>1, <1>2, <2>1, <2>7 DEF WithIndex, Path
  <2>13. f \in Path
    BY <1>1, <1>2, <2>1 DEF f, WithIndex, Path
  <2> QED
    BY <1>7, <2>3, <2>9, <2>10, <2>11, <2>12, <2>13 DEF Bip44Family
<1>8. CASE t = "cip1852"
  <2>1. /\ Len(l) = 5
        /\ l[1] = Hard(1852) /\ l[2] = Hard(1815)
        /\ l[3] = Hard(l[3].index) /\ l[4] = Soft(l[4].index)
    BY <1>1, <1>8 DEF Shaped, ShapedCip, Bip44Family
  <2>2. l = <<Hard(1852), Hard(1815), Hard(l[3].index),
             Soft(l[4].index), l[5]>>
    BY <1>1, <2>1, TupleOf5
  <2> DEFINE f == WithIndex(t, 1815, l[3].index, l[4].index,
                         l[5], <<>>)
  <2>3. Fill(t, l) = f
    BY <1>8 DEF Fill, Bip44Family
  <2>4. ShortcutLevels(f) = l
    BY <1>8, <2>2
    DEF ShortcutLevels, PrefixPurpose, PrefixCoin, Bip44Family, WithIndex
  <2>5. f.type = t
    BY DEF WithIndex
  <2> HIDE DEF f
  <2>6. p = WithLevels(f, l)
    BY <1>8, <2>3, <2>4, <2>5
    DEF RebuildLevels, HasFixedPrefix, Bip44Family
  <2>7. p = WithIndex(t, 1815, l[3].index, l[4].index,
                         l[5], l)
    BY <2>6 DEF f, WithIndex, WithLevels
  <2>8. ShortcutLevels(p) = l
    BY <1>8, <2>2, <2>7
    DEF ShortcutLevels, PrefixPurpose, PrefixCoin, Bip44Family, WithIndex
  <2>9. p.type = t /\ p.levels = l
    BY <2>7 DEF WithIndex
  <2>10. l # <<>>
    <3>1. Len(l) # 0
      BY <2>1
    <3> QED
      BY <3>1, EmptyHasNoLength
  <2>11. Str(p) = FormatLevels(l)
    BY <1>8, <2>8, <2>9, <2>10 DEF Str, HasFixedPrefix, Bip44Family
  <2>12. p \in Path
    BY <1>1, <1>2, <2>1, <2>7 DEF WithIndex, Path
  <2>13. f \in Path
    BY <1>1, <1>2, <2>1 DEF f, WithIndex, Path
  <2> QED
    BY <1>8, <2>3, <2>9, <2>10, <2>11, <2>12, <2>13 DEF Bip44Family
<1>9. CASE t = "zip32" /\ Len(l) = 3
  <2>1. /\ Len(l) = 3 /\ l[1] = Hard(32) /\ l[2] = Hard(133)
        /\ l[3] = Hard(l[3].index)
    BY <1>1, <1>9 DEF Shaped, ShapedZip32, Bip44Family
  <2>2. l = <<Hard(32), Hard(133), Hard(l[3].index)>>
    BY <1>1, <2>1, TupleOf3
  <2> DEFINE f == WithoutIndex(t, 133, l[3].index, <<>>)
  <2>3. Fill(t, l) = f
    BY <1>9, <2>1 DEF Fill, Bip44Family
  <2>4. ShortcutLevels(f) = l
    BY <1>9, <2>2
    DEF ShortcutLevels, PrefixPurpose, PrefixCoin, Bip44Family, WithoutIndex
  <2>5. f.type = t
    BY DEF WithoutIndex
  <2> HIDE DEF f
  <2>6. p = WithLevels(f, l)
    BY <1>9, <2>3, <2>4, <2>5
    DEF RebuildLevels, HasFixedPrefix, Bip44Family
  <2>7. p = WithoutIndex(t, 133, l[3].index, l)
    BY <2>6 DEF f, WithoutIndex, WithLevels
  <2>8. ShortcutLevels(p) = l
    BY <1>9, <2>2, <2>7
    DEF ShortcutLevels, PrefixPurpose, PrefixCoin, Bip44Family, WithoutIndex
  <2>9. p.type = t /\ p.levels = l
    BY <2>7 DEF WithoutIndex
  <2>10. l # <<>>
    <3>1. Len(l) # 0
      BY <2>1
    <3> QED
      BY <3>1, EmptyHasNoLength
  <2>11. Str(p) = FormatLevels(l)
    BY <1>9, <2>8, <2>9, <2>10 DEF Str, HasFixedPrefix, Bip44Family
  <2>12. p \in Path
    BY <1>1, <1>2, <2>1, <2>7 DEF WithoutIndex, Path
  <2>13. f \in Path
    BY <1>1, <1>2, <2>1 DEF f, WithoutIndex, Path
  <2> QED
    BY <1>9, <2>3, <2>9, <2>10, <2>11, <2>12, <2>13 DEF Bip44Family
<1>10. CASE t = "zip32" /\ Len(l) = 4
  <2>1. /\ Len(l) = 4 /\ l[1] = Hard(32) /\ l[2] = Hard(133)
        /\ l[3] = Hard(l[3].index)
    BY <1>1, <1>10 DEF Shaped, ShapedZip32, Bip44Family
  <2>2. l = <<Hard(32), Hard(133), Hard(l[3].index), l[4]>>
    BY <1>1, <2>1, TupleOf4
  <2> DEFINE f == WithIndex(t, 133, l[3].index, 0,
                         l[4], <<>>)
  <2>3. Fill(t, l) = f
    BY <1>10, <2>1 DEF Fill, Bip44Family
  <2>4. ShortcutLevels(f) = l
    BY <1>10, <2>2
    DEF ShortcutLevels, PrefixPurpose, PrefixCoin, Bip44Family, WithIndex
  <2>5. f.type = t
    BY DEF WithIndex
  <2> HIDE DEF f
  <2>6. p = WithLevels(f, l)
    BY <1>10, <2>3, <2>4, <2>5
    DEF RebuildLevels, HasFixedPrefix, Bip44Family
  <2>7. p = WithIndex(t, 133, l[3].index, 0,
                         l[4], l)
    BY <2>6 DEF f, WithIndex, WithLevels
  <2>8. ShortcutLevels(p) = l
    BY <1>10, <2>2, <2>7
    DEF ShortcutLevels, PrefixPurpose, PrefixCoin, Bip44Family, WithIndex
  <2>9. p.type = t /\ p.levels = l
    BY <2>7 DEF WithIndex
  <2>10. l # <<>>
    <3>1. Len(l) # 0
      BY <2>1
    <3> QED
      BY <3>1, EmptyHasNoLength
  <2>11. Str(p) = FormatLevels(l)
    BY <1>10, <2>8, <2>9, <2>10 DEF Str, HasFixedPrefix, Bip44Family
  <2>12. p \in Path
    BY <1>1, <1>2, <2>1, <2>7 DEF WithIndex, Path
  <2>13. f \in Path
    BY <1>1, <1>2, <2>1 DEF f, WithIndex, Path
  <2> QED
    BY <1>10, <2>3, <2>9, <2>10, <2>11, <2>12, <2>13 DEF Bip44Family
<1>11. t = "zip32" => Len(l) \in {3, 4}
  BY DEF Shaped, ShapedZip32, Bip44Family
<1> QED
  BY <1>3, <1>4, <1>5, <1>6, <1>7, <1>8, <1>9, <1>10, <1>11
  DEF DerivationTypes

\* Reading an accepted text: everything the machine needs to know of the result.
LEMMA ParsedPathFacts ==
  ASSUME NEW t \in DerivationTypes, NEW text \in Text, Accepts(t, text),
         NEW p, p = ParsedPath(t, text)
  PROVE  /\ p \in Path
         /\ Fill(t, TextLevels(text)) \in Path
         /\ t \in {"root", "slip10"} => p = Fill(t, TextLevels(text))
         /\ p.type = t
         /\ p.levels = TextLevels(text)
         /\ Shaped(t, p.levels)
         /\ Bounded(p.levels)
         /\ p = RebuildLevels(Fill(t, p.levels))
<1>1. Shaped(t, TextLevels(text)) /\ Bounded(TextLevels(text))
  BY AcceptedIsShaped
<1>2. p = RebuildLevels(Fill(t, TextLevels(text)))
  BY DEF ParsedPath
<1> QED
  BY <1>1, <1>2, ParsedFacts

\* The text of a path read back gives the path: str() loses nothing.
LEMMA StoredRoundTrip ==
  ASSUME NEW t \in DerivationTypes \ {"root"}, NEW p,
         p.type = t, Shaped(t, p.levels), Bounded(p.levels),
         p = RebuildLevels(Fill(t, p.levels))
  PROVE  /\ p.levels # <<>>
         /\ Str(p) = FormatLevels(p.levels)
         /\ Accepts(t, Str(p))
         /\ p = ParsedPath(t, Str(p))
<1>1. p.levels # <<>> /\ Str(p) = FormatLevels(p.levels)
  BY ParsedFacts
<1>2. Accepts(t, Str(p))
  BY <1>1, ShapedIsAccepted
<1>3. TextLevels(Str(p)) = p.levels
  BY <1>1, FormatRoundTrip DEF Bounded
<1> QED
  BY <1>1, <1>2, <1>3 DEF ParsedPath

-----------------------------------------------------------------------------
(* Types of the intermediate objects *)

\* Small constants of the formats are 32-bit integers.
LEMMA SmallConstants ==
  /\ \A n \in 0 .. 1852 : n \in Uint32
  /\ ZeroIndex \in Level
<1>1. \A n \in 0 .. 1852 : n \in Uint32
  BY IndexLimitAssumption DEF Uint32
<1> QED
  BY <1>1 DEF ZeroIndex, Level

\* The levels spelled from the shortcuts are levels.
LEMMA ShortcutLevelsTyped ==
  ASSUME NEW p \in Path, p.type = "bip32" \/ HasFixedPrefix(p.type)
  PROVE  ShortcutLevels(p) \in Seq(Level)
<1>1. /\ p.account \in Uint32 /\ p.charge \in Uint32 /\ p.coin \in Uint32
      /\ p.index \in Level
  BY DEF Path
<1>2. \A n \in Uint32 : Hard(n) \in Level /\ Soft(n) \in Level
  BY DEF Hard, Soft, Level
<1>3. ASSUME HasFixedPrefix(p.type)
      PROVE  PrefixPurpose(p.type) \in Uint32 /\ PrefixCoin(p) \in Uint32
  BY <1>1, <1>3, SmallConstants
  DEF HasFixedPrefix, PrefixPurpose, PrefixCoin, Bip44Family
<1>4. CASE p.type = "bip32"
  <2>1. ShortcutLevels(p) = <<Hard(p.account), Soft(p.charge), p.index>>
    BY <1>4 DEF ShortcutLevels
  <2> QED
    BY <1>1, <1>2, <2>1
<1>5. CASE HasFixedPrefix(p.type)
  <2> DEFINE a == Hard(PrefixPurpose(p.type))
             b == Hard(PrefixCoin(p))
             c == Hard(p.account)
             d == Soft(p.charge)
  <2>1. a \in Level /\ b \in Level /\ c \in Level /\ d \in Level
    BY <1>1, <1>2, <1>3, <1>5
  <2>2. \/ ShortcutLevels(p) = <<a, b, c, p.index>>
        \/ ShortcutLevels(p) = <<a, b, c>>
        \/ ShortcutLevels(p) = <<a, b, c, d, p.index>>
    BY <1>5 DEF ShortcutLevels, HasFixedPrefix, Bip44Family
  <2>3. p.index \in Level
    BY <1>1
  <2> HIDE DEF a, b, c, d
  <2>4. /\ <<a, b, c>> \in Seq(Level)
        /\ <<a, b, c, p.index>> \in Seq(Level)
        /\ <<a, b, c, d, p.index>> \in Seq(Level)
    BY <2>1, <2>3
  <2> QED
    BY <2>2, <2>4
<1> QED
  BY <1>4, <1>5

\* rebuild_levels keeps an object well typed.
LEMMA RebuildTyped ==
  ASSUME NEW p \in Path, p.type \in DerivationTypes
  PROVE  /\ RebuildLevels(p) \in Path
         /\ RebuildLevels(p).type = p.type
<1>1. CASE p.type = "root"
  BY <1>1 DEF RebuildLevels, WithLevels, Path, HasFixedPrefix, Bip44Family
<1>2. CASE p.type = "slip10"
  BY <1>2 DEF RebuildLevels, HasFixedPrefix, Bip44Family
<1>3. CASE p.type = "bip32" \/ HasFixedPrefix(p.type)
  <2>1. RebuildLevels(p) = WithLevels(p, ShortcutLevels(p))
    BY <1>3 DEF RebuildLevels, HasFixedPrefix, Bip44Family
  <2>2. ShortcutLevels(p) \in Seq(Level)
    BY <1>3, ShortcutLevelsTyped
  <2> QED
    BY <2>1, <2>2 DEF WithLevels, Path
<1> QED
  BY <1>1, <1>2, <1>3 DEF DerivationTypes, HasFixedPrefix

\* str() renders a text.
LEMMA StrTyped ==
  ASSUME NEW p \in Path
  PROVE  Str(p) \in Text
<1>1. EmptyText \in Text
  BY DEF EmptyText, Text, Heads
<1>2. p.levels \in Seq(Level)
  BY DEF Path
<1>3. CASE p.levels = <<>>
  BY <1>1, <1>3, Zenon DEF Str
<1>4. CASE p.levels # <<>> /\ p.type = "slip10"
  <2>1. Str(p) = FormatLevels(p.levels)
    BY <1>4 DEF Str, HasFixedPrefix, Bip44Family
  <2> QED
    BY <1>2, <2>1, FormatTyped
<1>5. CASE p.levels # <<>> /\ (p.type = "bip32" \/ HasFixedPrefix(p.type))
  <2>1. Str(p) = FormatLevels(ShortcutLevels(p))
    BY <1>5 DEF Str, HasFixedPrefix, Bip44Family
  <2> QED
    BY <1>5, <2>1, FormatTyped, ShortcutLevelsTyped
<1>6. CASE /\ p.levels # <<>>
           /\ ~ (p.type = "bip32" \/ HasFixedPrefix(p.type))
           /\ p.type # "slip10"
  BY <1>1, <1>6 DEF Str
<1> QED
  BY <1>3, <1>4, <1>5, <1>6

\* An object without levels is well typed, whatever its type.
LEMMA EmptyTyped ==
  ASSUME NEW t \in DerivationTypes \cup {NoType}
  PROVE  /\ EmptyPath(t) \in Path
         /\ EmptyPath(t).type = t
         /\ EmptyPath(t).levels = <<>>
<1>1. 0 \in Uint32 /\ ZeroIndex \in Level
  BY SmallConstants
<1> QED
  BY <1>1 DEF EmptyPath, WithoutIndex, Path

\* populate_shortcuts_from_levels keeps an object well typed.
LEMMA PopulateTyped ==
  ASSUME NEW t \in DerivationTypes, NEW l \in Seq(Level)
  PROVE  PopulateShortcuts(t, l) \in Path
<1>1. \A i \in 1 .. Len(l) : l[i] \in Level /\ l[i].index \in Uint32
  BY LevelIsPair
<1>2. 0 \in Uint32 /\ ZeroIndex \in Level
  BY SmallConstants
<1>3. CASE t = "bip32" /\ Len(l) >= 3
  BY <1>1, <1>2, <1>3 DEF PopulateShortcuts, WithIndex, Path, Bip44Family
<1>4. CASE t \in Bip44Family \cup {"cip11", "cip1852"} /\ Len(l) >= 5
  BY <1>1, <1>2, <1>4 DEF PopulateShortcuts, WithIndex, Path, Bip44Family
<1>5. CASE t = "zip32" /\ Len(l) = 3
  BY <1>1, <1>2, <1>5 DEF PopulateShortcuts, WithoutIndex, Path, Bip44Family
<1>6. CASE t = "zip32" /\ Len(l) >= 4
  BY <1>1, <1>2, <1>6 DEF PopulateShortcuts, WithIndex, Path, Bip44Family
<1>7. CASE t = "slip10" /\ l # <<>>
  BY <1>1, <1>2, <1>7 DEF PopulateShortcuts, WithIndex, Path, Bip44Family
<1>8. CASE /\ ~ (t = "bip32" /\ Len(l) >= 3)
           /\ ~ (t \in Bip44Family \cup {"cip11", "cip1852"} /\ Len(l) >= 5)
           /\ ~ (t = "zip32" /\ Len(l) = 3)
           /\ ~ (t = "zip32" /\ Len(l) >= 4)
           /\ ~ (t = "slip10" /\ l # <<>>)
  <2>1. PopulateShortcuts(t, l) = WithoutIndex(t, 0, 0, l)
    BY <1>8 DEF PopulateShortcuts
  <2> QED
    BY <1>2, <2>1 DEF WithoutIndex, Path
<1> QED
  BY <1>3, <1>4, <1>5, <1>6, <1>7, <1>8

-----------------------------------------------------------------------------
(* The documented templates *)

\* Levels of the shape the validators accept instantiate a documented template.
LEMMA ShapedIsValid ==
  ASSUME NEW t \in DerivationTypes, NEW l, Shaped(t, l), Bounded(l)
  PROVE  ValidPath(t, l)
<1>1. /\ l \in Seq(Level)
      /\ \A i \in 1 .. Len(l) :
           l[i].index \in 0 .. IndexLimit - 1 /\ l[i].hard \in BOOLEAN
  BY LevelIsPair, IndexLimitAssumption DEF Bounded, Uint32
<1>2. ASSUME NEW s, s \in Templates(t), Len(s) = Len(l),
             \A i \in 1 .. Len(l) : Fits(l[i], s[i])
      PROVE  ValidPath(t, l)
  BY <1>2 DEF ValidPath, Instantiates
<1>3. \A n : Hard(n).index = n /\ Hard(n).hard /\ Soft(n).index = n /\ ~ Soft(n).hard
  BY DEF Hard, Soft
<1>4. \A x : (x.index \in 0 .. IndexLimit - 1 /\ x.hard \in BOOLEAN) =>
        /\ Fits(x, Leaf)
        /\ x.hard => Fits(x, HardenedAny)
        /\ ~ x.hard => Fits(x, SoftAny)
  BY DEF Fits, Leaf, HardenedAny, SoftAny, Variable
<1>5. \A n \in Nat : Fits(Hard(n), Literal(n))
  BY DEF Fits, Literal, Hard
<1>6. \A x : (x.index \in Nat /\ x.index <= 1 /\ x.hard = FALSE) => Fits(x, BinaryDigit)
  <2>1. BinaryDigit.low = 0 /\ BinaryDigit.high = 1 /\ BinaryDigit.hard = {FALSE}
    BY Zenon DEF BinaryDigit
  <2>2. \A x : x.hard = FALSE => x.hard \in BinaryDigit.hard
    BY <2>1, Zenon
  <2>3. \A x : (x.index \in Nat /\ x.index <= 1)
                => x.index \in BinaryDigit.low .. BinaryDigit.high
    BY <2>1
  <2> QED
    BY <2>2, <2>3, Zenon DEF Fits
<1>7. CASE t = "root"
  <2>1. l = <<>> /\ <<>> \in Templates(t)
    BY <1>7 DEF Shaped, Bip44Family, Templates
  <2> QED
    BY <1>2, <2>1
<1>8. CASE t = "bip32"
  <2> DEFINE s == <<HardenedAny, BinaryDigit, Leaf>>
  <2>1. s \in Templates(t) /\ Len(s) = 3
    BY <1>8 DEF Templates
  <2>2. ShapedBip32(l)
    BY <1>8 DEF Shaped, Bip44Family
  <2>3. /\ Len(l) = 3 /\ l[1].hard /\ l[2].hard = FALSE /\ l[2].index <= 1
    BY <1>1, <1>3, <2>2 DEF ShapedBip32
  <2>4. Fits(l[1], s[1]) /\ Fits(l[2], s[2]) /\ Fits(l[3], s[3])
    BY <1>1, <1>4, <1>6, <2>3
  <2> HIDE DEF s
  <2> QED
    BY <1>2, <2>1, <2>3, <2>4
<1>9. CASE t \in Bip44Family
  <2> DEFINE s == BipTemplate(PrefixPurpose(t))
  <2>1. s \in Templates(t)
    BY <1>9 DEF Templates, PrefixPurpose, Bip44Family
  <2>2. /\ Len(s) = 5 /\ s[1] = Literal(PrefixPurpose(t)) /\ s[2] = HardenedAny
        /\ s[3] = HardenedAny /\ s[4] = BinaryDigit /\ s[5] = Leaf
    BY DEF BipTemplate
  <2>3. PrefixPurpose(t) \in Nat
    BY <1>9 DEF PrefixPurpose, Bip44Family
  <2>4. /\ Len(l) = 5 /\ l[1] = Hard(PrefixPurpose(t)) /\ l[2].hard /\ l[3].hard
        /\ l[4].hard = FALSE /\ l[4].index <= 1
    BY <1>1, <1>3, <1>9 DEF Shaped, ShapedBip44, Bip44Family
  <2>5. /\ Fits(l[1], s[1]) /\ Fits(l[2], s[2]) /\ Fits(l[3], s[3])
        /\ Fits(l[4], s[4]) /\ Fits(l[5], s[5])
    BY <1>1, <1>4, <1>5, <1>6, <2>2, <2>3, <2>4
  <2> HIDE DEF s
  <2> QED
    BY <1>2, <2>1, <2>2, <2>4, <2>5
<1>10. CASE t = "slip10"
  <2> DEFINE s == [i \in 1 .. Len(l) |-> Leaf]
  <2>1. Len(l) \in 1 .. MaxDepth
    BY <1>10 DEF Shaped, Bip44Family
  <2>2. s \in Templates(t)
    BY <1>10, <2>1 DEF Templates
  <2>3. Len(s) = Len(l)
    BY <1>1
  <2>4. \A i \in 1 .. Len(l) : s[i] = Leaf
    OBVIOUS
  <2> HIDE DEF s
  <2>5. \A i \in 1 .. Len(l) : Fits(l[i], s[i])
    BY <1>1, <1>4, <2>4
  <2> QED
    BY <1>2, <2>2, <2>3, <2>5
<1>11. CASE t \in {"cip11", "cip1852"}
  <2>1. PICK a \in {44, 1852}, b \in {118, 1815} :
          /\ <<Literal(a), Literal(b), HardenedAny, SoftAny, Leaf>> \in Templates(t)
          /\ ShapedCip(l, a, b)
    BY <1>11 DEF Shaped, Templates, Bip44Family
  <2> DEFINE s == <<Literal(a), Literal(b), HardenedAny, SoftAny, Leaf>>
  <2>2. /\ Len(s) = 5 /\ s[1] = Literal(a) /\ s[2] = Literal(b)
        /\ s[3] = HardenedAny /\ s[4] = SoftAny /\ s[5] = Leaf
    OBVIOUS
  <2>3. /\ Len(l) = 5 /\ l[1] = Hard(a) /\ l[2] = Hard(b) /\ l[3].hard
        /\ ~ l[4].hard
    BY <1>3, <2>1 DEF ShapedCip
  <2>4. s \in Templates(t)
    BY <2>1
  <2> HIDE DEF s
  <2>5. /\ Fits(l[1], s[1]) /\ Fits(l[2], s[2]) /\ Fits(l[3], s[3])
        /\ Fits(l[4], s[4]) /\ Fits(l[5], s[5])
    BY <1>1, <1>4, <1>5, <2>2, <2>3
  <2> QED
    BY <1>2, <2>2, <2>3, <2>4, <2>5
<1>12. CASE t = "zip32"
  <2>1. /\ Len(l) \in {3, 4} /\ l[1] = Hard(32) /\ l[2] = Hard(133) /\ l[3].hard
    BY <1>3, <1>12 DEF Shaped, ShapedZip32, Bip44Family
  <2>2. /\ Fits(l[1], Literal(32)) /\ Fits(l[2], Literal(133))
        /\ Fits(l[3], HardenedAny)
    BY <1>1, <1>4, <1>5, <2>1
  <2>3. Len(l) = 4 => Fits(l[4], Leaf)
    BY <1>1, <1>4
  <2> DEFINE s3 == <<Literal(32), Literal(133), HardenedAny>>
             s4 == <<Literal(32), Literal(133), HardenedAny, Leaf>>
  <2>4. s3 \in Templates(t) /\ s4 \in Templates(t)
    BY <1>12 DEF Templates
  <2>5. /\ Len(s3) = 3 /\ s3[1] = Literal(32) /\ s3[2] = Literal(133)
        /\ s3[3] = HardenedAny
        /\ Len(s4) = 4 /\ s4[1] = Literal(32) /\ s4[2] = Literal(133)
        /\ s4[3] = HardenedAny /\ s4[4] = Leaf
    OBVIOUS
  <2> HIDE DEF s3, s4
  <2>6. CASE Len(l) = 3
    BY <1>2, <2>2, <2>4, <2>5, <2>6
  <2>7. CASE Len(l) = 4
    BY <1>2, <2>2, <2>3, <2>4, <2>5, <2>7
  <2> QED
    BY <2>1, <2>6, <2>7
<1> QED
  BY <1>7, <1>8, <1>9, <1>10, <1>11, <1>12 DEF DerivationTypes

=============================================================================
