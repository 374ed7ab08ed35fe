------------------------ MODULE DerivationPathProofs ------------------------
(***************************************************************************)
(* Theorems about DerivationPath, for every width of the index, every      *)
(* depth limit and every set of arguments.  The invariant of one object    *)
(* says where it can be between two steps: empty, or the whole result of   *)
(* reading a text; and how far the object under construction has come.     *)
(***************************************************************************)
EXTENDS DerivationPath, PathLemmas

\* The object a client holds: no levels at all, or levels of the shape of its
\* type under the shortcuts that spell them.
Whole(p) ==
  \/ p = EmptyPath(p.type)
  \/ /\ p.type \in DerivationTypes
     /\ Shaped(p.type, p.levels)
     /\ Bounded(p.levels)
     /\ p = RebuildLevels(Fill(p.type, p.levels))

\* The object under construction is as far as pc says.
Underway ==
  /\ pc \in {"rebuild", "commit"} =>
       /\ call.type \in DerivationTypes
       /\ Accepts(call.type, call.text)
  /\ pc = "rebuild" => fresh = Fill(call.type, TextLevels(call.text))
  /\ pc = "commit" => fresh = ParsedPath(call.type, call.text)

\* A construction is checked against the levels its arguments spell.
WantIsBuilt ==
  (pc # "idle" /\ call.op = "construct") =>
    /\ call.type \in DerivationTypes \ {"slip10"}
    /\ call.want = RebuildLevels(
                     FromShortcuts(call.type, call.args.coin, call.args.account,
                                   call.args.charge, call.args.index)).levels

IInv == TypeOK /\ Whole(dp) /\ Underway /\ WantIsBuilt

-----------------------------------------------------------------------------
(* The ways a step can end *)

\* Nothing of a call that threw, or of one that has not begun, is kept.
LEMMA RestTyped ==
  /\ NoCall \in CallType
  /\ EmptyPath(NoType) \in Path
<1>1. 0 \in Uint32 /\ ZeroIndex \in Level
  BY SmallConstants
<1>2. EmptyText \in Text
  BY DEF EmptyText, Text, Heads
<1>3. NoArgs \in [coin : Uint32, account : Uint32, charge : Uint32, index : Level]
  BY <1>1 DEF NoArgs
<1>4. NoCall \in CallType
  BY <1>2, <1>3 DEF NoCall, CallType
<1> QED
  BY <1>4, EmptyTyped

\* A call that throws leaves the caller's object, and the invariant.
LEMMA ThrowKeepsInv ==
  ASSUME IInv, NEW code \in Outcomes, Throw(code)
  PROVE  IInv'
<1>1. /\ dp' = dp /\ fresh' = EmptyPath(NoType) /\ call' = NoCall
      /\ pc' = "idle" /\ outcome' = code
  BY DEF Throw
<1>2. TypeOK'
  BY <1>1, RestTyped DEF IInv, TypeOK
<1>3. Whole(dp)'
  BY <1>1 DEF IInv, Whole
<1>4. Underway' /\ WantIsBuilt'
  BY <1>1 DEF Underway, WantIsBuilt
<1> QED
  BY <1>2, <1>3, <1>4 DEF IInv

\* A call that returns a whole path keeps the invariant.
LEMMA ReturnKeepsInv ==
  ASSUME IInv, NEW path \in Path, Whole(path), Return(path)
  PROVE  IInv'
<1>1. /\ dp' = path /\ fresh' = EmptyPath(NoType) /\ call' = NoCall
      /\ pc' = "idle" /\ outcome' = "ok"
  BY DEF Return
<1>2. TypeOK'
  BY <1>1, RestTyped DEF IInv, TypeOK, Outcomes
<1>3. Whole(dp)'
  BY <1>1 DEF Whole
<1>4. Underway' /\ WantIsBuilt'
  BY <1>1 DEF Underway, WantIsBuilt
<1> QED
  BY <1>2, <1>3, <1>4 DEF IInv

\* A call that starts to parse: what it was asked for is well typed.
LEMMA BeginKeepsInv ==
  ASSUME IInv,
         NEW op \in {"construct", "from_levels", "parse", "parse_path"},
         NEW t \in DerivationTypes \cup {NoType},
         NEW text \in Text, NEW want \in Seq(Level),
         NEW args \in [coin : Uint32, account : Uint32, charge : Uint32,
                       index : Level],
         op = "construct" =>
           /\ t \in DerivationTypes \ {"slip10"}
           /\ want = RebuildLevels(FromShortcuts(t, args.coin, args.account,
                                                 args.charge, args.index)).levels,
         BeginParse(op, t, text, want, args)
  PROVE  IInv'
<1>1. /\ call' = [op |-> op, type |-> t, text |-> text, want |-> want,
                  args |-> args]
      /\ dp' = dp /\ fresh' = EmptyPath(t) /\ pc' = "parse"
      /\ outcome' = outcome
  BY DEF BeginParse
<1>2. call' \in CallType
  BY <1>1 DEF CallType
<1>3. TypeOK'
  BY <1>1, <1>2, EmptyTyped DEF IInv, TypeOK
<1>4. Whole(dp)' /\ Underway'
  BY <1>1 DEF IInv, Whole, Underway
<1>5. WantIsBuilt'
  BY <1>1 DEF WantIsBuilt
<1> QED
  BY <1>3, <1>4, <1>5 DEF IInv

-----------------------------------------------------------------------------
(* The invariant *)

\* The object of no calls yet satisfies it.
LEMMA InitInv == Init => IInv
<1> SUFFICES ASSUME Init PROVE IInv
  OBVIOUS
<1>1. TypeOK
  BY RestTyped DEF Init, TypeOK, Outcomes
<1>2. Whole(dp)
  BY EmptyTyped DEF Init, Whole
<1>3. Underway /\ WantIsBuilt
  BY DEF Init, Underway, WantIsBuilt
<1> QED
  BY <1>1, <1>2, <1>3 DEF IInv

\* An object without levels is whole.
LEMMA EmptyIsWhole ==
  ASSUME NEW t \in DerivationTypes \cup {NoType}
  PROVE  EmptyPath(t) \in Path /\ Whole(EmptyPath(t))
  BY EmptyTyped DEF Whole

\* The calls of a client: each ends at once or starts to parse a text.
LEMMA CallKeepsInv == IInv /\ pc = "idle" /\ Call => IInv'
<1> SUFFICES ASSUME IInv, Call PROVE IInv'
  OBVIOUS
<1>1. /\ dp \in Path /\ Whole(dp)
      /\ dp.type \in DerivationTypes \cup {NoType}
  BY DEF IInv, TypeOK, Path
<1>2. {"invalid_argument", "invalid_derivation_type"} \subseteq Outcomes
  BY DEF Outcomes
<1>3. 0 \in Uint32 /\ ZeroIndex \in Level
  BY SmallConstants
<1>4. NoArgs \in [coin : Uint32, account : Uint32, charge : Uint32,
                  index : Level]
  BY <1>3 DEF NoArgs
<1>5. ASSUME NEW t, Refused(t) PROVE IInv'
  BY <1>2, <1>5, ThrowKeepsInv DEF Refused
<1>6. CASE Reset
  BY <1>6, EmptyIsWhole, ReturnKeepsInv DEF Reset
<1>7. ASSUME NEW t \in DtArgs, SetType(t) PROVE IInv'
  <2>1. CASE t \in DerivationTypes /\ t = dp.type /\ Return(dp)
    BY <1>1, <2>1, ReturnKeepsInv
  <2>2. CASE t \in DerivationTypes /\ t # dp.type /\ Return(EmptyPath(t))
    BY <2>2, EmptyIsWhole, ReturnKeepsInv
  <2> QED
    BY <1>5, <1>7, <2>1, <2>2 DEF SetType
<1>8. ASSUME NEW t \in DtArgs, NEW lvls \in LevelArgs, FromLevels(t, lvls)
      PROVE  IInv'
  <2>1. CASE Refused(t)
    BY <1>5, <2>1
  <2>2. CASE ~ Refused(t)
    <3>1. /\ t \in DerivationTypes
          /\ BeginParse("from_levels", t, Str(PopulateShortcuts(t, lvls)),
                        lvls, NoArgs)
      BY <1>8, <2>2 DEF FromLevels
    <3>2. lvls \in Seq(Level)
      BY LevelArgsAssumption
    <3>3. Str(PopulateShortcuts(t, lvls)) \in Text
      BY <3>1, <3>2, PopulateTyped, StrTyped
    <3> QED
      BY <1>4, <3>1, <3>2, <3>3, BeginKeepsInv
  <2> QED
    BY <2>1, <2>2
<1>9. ASSUME NEW t \in DtArgs, NEW text \in TextArgs, Parse(t, text)
      PROVE  IInv'
  <2>1. CASE Refused(t)
    BY <1>5, <2>1
  <2>2. CASE ~ Refused(t)
    <3>1. /\ t \in DerivationTypes
          /\ BeginParse("parse", t, text, <<>>, NoArgs)
      BY <1>9, <2>2 DEF Parse
    <3>2. text \in Text /\ <<>> \in Seq(Level)
      BY TextArgsAssumption
    <3> QED
      BY <1>4, <3>1, <3>2, BeginKeepsInv
  <2> QED
    BY <2>1, <2>2
<1>10. ASSUME NEW t \in DtArgs, NEW coin \in CoinArgs,
              NEW account \in AccountArgs, NEW charge \in ChargeArgs,
              NEW index \in IndexArgs,
              Construct(t, coin, account, charge, index)
       PROVE  IInv'
  <2> DEFINE raw == FromShortcuts(t, coin, account, charge, index)
             built == RebuildLevels(raw)
             args == [coin |-> coin, account |-> account, charge |-> charge,
                      index |-> index]
  <2>1. CASE Refused(t)
    BY <1>5, <2>1
  <2>2. CASE t = "slip10" /\ Throw("invalid_argument")
    BY <1>2, <2>2, ThrowKeepsInv
  <2>3. CASE /\ t \in DerivationTypes \ {"slip10"}
             /\ BeginParse("construct", t, Str(built), built.levels, args)
    <3>1. args \in [coin : Uint32, account : Uint32, charge : Uint32,
                    index : Level]
      BY ShortcutArgsAssumption
    <3>2. raw \in Path /\ raw.type = t
      <4>1. (t # "root") \in BOOLEAN
        OBVIOUS
      <4>2. ASSUME NEW b \in BOOLEAN
            PROVE  [type |-> t, coin |-> coin, account |-> account,
                    charge |-> charge, index |-> index, hasIndex |-> b,
                    levels |-> <<>>] \in Path
        BY <2>3, ShortcutArgsAssumption DEF Path
      <4> QED
        BY <4>1, <4>2, Zenon DEF FromShortcuts
    <3>3. built \in Path
      BY <2>3, <3>2, RebuildTyped
    <3>4. Str(built) \in Text /\ built.levels \in Seq(Level)
      BY <3>3, StrTyped DEF Path
    <3>5. /\ args.coin = coin /\ args.account = account
          /\ args.charge = charge /\ args.index = index
      OBVIOUS
    <3> HIDE DEF args
    <3>6. built.levels = RebuildLevels(FromShortcuts(t, args.coin,
                            args.account, args.charge, args.index)).levels
      BY <3>5, Zenon
    <3> HIDE DEF built, raw
    <3> QED
      BY <2>3, <3>1, <3>4, <3>6, BeginKeepsInv
  <2> QED
    BY <1>10, <2>1, <2>2, <2>3, Zenon DEF Construct
<1>11. ASSUME NEW text \in TextArgs, ParsePath(text) PROVE IInv'
  <2>1. text \in Text /\ <<>> \in Seq(Level)
    BY TextArgsAssumption
  <2>2. BeginParse("parse_path", dp.type, text, <<>>, NoArgs)
    BY <1>11 DEF ParsePath
  <2> QED
    BY <1>1, <1>4, <2>1, <2>2, BeginKeepsInv
<1> QED
  BY <1>6, <1>7, <1>8, <1>9, <1>10, <1>11 DEF Call

\* The steps of a running call.
LEMMA NextKeepsInv == IInv /\ [Next]_vars => IInv'
<1> SUFFICES ASSUME IInv, [Next]_vars PROVE IInv'
  OBVIOUS
<1>1. CASE pc = "idle" /\ Call
  BY <1>1, CallKeepsInv
<1>2. CASE RejectText
  <2>1. {"invalid_derivation_path", "invalid_derivation_type"} \subseteq Outcomes
    BY DEF Outcomes
  <2>2. \/ Throw("invalid_derivation_path")
        \/ Throw("invalid_derivation_type")
    <3>1. Throw(IF call.type \in DerivationTypes THEN "invalid_derivation_path"
                                                 ELSE "invalid_derivation_type")
      BY <1>2 DEF RejectText
    <3> QED
      BY <3>1, Zenon
  <2> QED
    BY <2>1, <2>2, ThrowKeepsInv
<1>3. CASE AcceptText
  <2> DEFINE t == call.type
             text == call.text
  <2>1. /\ pc = "parse" /\ Accepts(t, text)
        /\ fresh' = Fill(t, TextLevels(text))
        /\ pc' = IF t \in {"root", "slip10"} THEN "commit" ELSE "rebuild"
        /\ dp' = dp /\ call' = call /\ outcome' = outcome
    BY <1>3 DEF AcceptText
  <2>2. t \in DerivationTypes /\ text \in Text
    <3>1. "root" \in DerivationTypes
      BY DEF DerivationTypes
    <3>2. t \in DerivationTypes
      BY <2>1, <3>1, Zenon DEF Accepts
    <3> QED
      BY <3>2 DEF IInv, TypeOK, CallType
  <2>3. /\ fresh' \in Path
        /\ t \in {"root", "slip10"} => fresh' = ParsedPath(t, text)
    BY <2>1, <2>2, ParsedPathFacts
  <2>4. TypeOK'
    BY <2>1, <2>3 DEF IInv, TypeOK
  <2>5. Whole(dp)'
    BY <2>1 DEF IInv, Whole
  <2>6. Underway'
    BY <2>1, <2>2, <2>3 DEF Underway
  <2>7. WantIsBuilt'
    BY <2>1 DEF IInv, WantIsBuilt
  <2> QED
    BY <2>4, <2>5, <2>6, <2>7 DEF IInv
<1>4. CASE Rebuild
  <2>1. /\ pc = "rebuild" /\ fresh' = RebuildLevels(fresh) /\ pc' = "commit"
        /\ dp' = dp /\ call' = call /\ outcome' = outcome
    BY <1>4 DEF Rebuild
  <2>2. /\ call.type \in DerivationTypes
        /\ Accepts(call.type, call.text)
        /\ call.text \in Text
        /\ fresh = Fill(call.type, TextLevels(call.text))
    BY <2>1 DEF IInv, Underway, TypeOK, CallType
  <2>3. fresh' = ParsedPath(call.type, call.text)
    BY <2>1, <2>2 DEF ParsedPath
  <2>4. fresh' \in Path
    BY <2>2, <2>3, ParsedPathFacts
  <2>5. TypeOK'
    BY <2>1, <2>4 DEF IInv, TypeOK
  <2>6. Whole(dp)'
    BY <2>1 DEF IInv, Whole
  <2>7. Underway'
    BY <2>1, <2>2, <2>3 DEF Underway
  <2>8. WantIsBuilt'
    BY <2>1 DEF IInv, WantIsBuilt
  <2> QED
    BY <2>5, <2>6, <2>7, <2>8 DEF IInv
<1>5. CASE Commit
  <2>1. /\ call.type \in DerivationTypes
        /\ call.text \in Text
        /\ Accepts(call.type, call.text)
        /\ fresh = ParsedPath(call.type, call.text)
    BY <1>5 DEF Commit, IInv, Underway, TypeOK, CallType
  <2>2. fresh \in Path /\ Whole(fresh)
    BY <2>1, ParsedPathFacts DEF Whole
  <2>3. "invalid_derivation_path" \in Outcomes
    BY DEF Outcomes
  <2> QED
    BY <1>5, <2>2, <2>3, ThrowKeepsInv, ReturnKeepsInv DEF Commit
<1>6. CASE OutOfMemory
  <2>1. "bad_alloc" \in Outcomes
    BY DEF Outcomes
  <2> QED
    BY <1>6, <2>1, ThrowKeepsInv DEF OutOfMemory
<1>7. CASE UNCHANGED vars
  BY <1>7 DEF vars, IInv, TypeOK, Whole, Underway, WantIsBuilt
<1> QED
  BY <1>1, <1>2, <1>3, <1>4, <1>5, <1>6, <1>7 DEF Next

\* Every reachable state satisfies the inductive invariant.
THEOREM Invariance == Spec => []IInv
<1> QED
  BY InitInv, NextKeepsInv, PTL DEF Spec

-----------------------------------------------------------------------------
(* What a client sees *)

\* Type correctness: no call puts an unregistered type into a path.
THEOREM TypeCorrect == Spec => []TypeOK
<1>1. IInv => TypeOK
  BY DEF IInv
<1> QED
  BY <1>1, Invariance, PTL

\* Nothing of an earlier path survives in the object: it is empty or what the
\* parser makes of its own text (NoStaleState).
THEOREM NothingStale == Spec => []NoStaleState
<1>1. ASSUME IInv PROVE NoStaleState
  <2>1. CASE dp = EmptyPath(dp.type)
    BY <2>1 DEF NoStaleState, Sound
  <2>2. CASE dp # EmptyPath(dp.type)
    <3>1. /\ dp.type \in DerivationTypes
          /\ Shaped(dp.type, dp.levels)
          /\ Bounded(dp.levels)
          /\ dp = RebuildLevels(Fill(dp.type, dp.levels))
      BY <1>1, <2>2 DEF IInv, Whole
    <3>2. dp.type # "root"
      BY <2>2, <3>1, ParsedFacts
    <3>3. Accepts(dp.type, Str(dp)) /\ dp = ParsedPath(dp.type, Str(dp))
      BY <3>1, <3>2, StoredRoundTrip
    <3> QED
      BY <3>3 DEF NoStaleState, Sound
  <2> QED
    BY <2>1, <2>2
<1> QED
  BY <1>1, Invariance, PTL

\* The levels of an object have indexes below the hardened bit, and str()
\* spells them.
LEMMA SeenLevels ==
  ASSUME IInv
  PROVE  /\ Bounded(dp.levels)
         /\ dp.levels # <<>> => Str(dp) = FormatLevels(dp.levels)
<1>1. CASE dp = EmptyPath(dp.type)
  <2>1. dp.levels = <<>>
    BY <1>1 DEF EmptyPath, WithoutIndex
  <2> QED
    BY <2>1 DEF Bounded
<1>2. CASE dp # EmptyPath(dp.type)
  <2>1. /\ dp.type \in DerivationTypes
        /\ Shaped(dp.type, dp.levels)
        /\ Bounded(dp.levels)
        /\ dp = RebuildLevels(Fill(dp.type, dp.levels))
    BY <1>2 DEF IInv, Whole
  <2> QED
    BY <2>1, ParsedFacts
<1> QED
  BY <1>1, <1>2

\* A level and its child number determine each other (NoKeyAliasing).
THEOREM NoAliasing == Spec => []NoKeyAliasing
<1>1. ASSUME IInv, NEW i \in DOMAIN dp.levels
      PROVE  dp.levels[i] = [index |-> ChildNumber(dp.levels[i]) % IndexLimit,
                             hard  |-> ChildNumber(dp.levels[i]) >= IndexLimit]
  <2> DEFINE l == dp.levels[i]
  <2>1. l \in Level /\ l.index < IndexLimit
    BY <1>1, SeenLevels DEF Bounded
  <2>2. l.index \in 0 .. IndexLimit - 1 /\ l.hard \in BOOLEAN
    BY <2>1, IndexLimitAssumption DEF Level, Uint32
  <2>3. ASSUME NEW n \in 0 .. IndexLimit - 1
        PROVE  n % IndexLimit = n /\ (IndexLimit + n) % IndexLimit = n
    BY IndexLimitAssumption
  <2>4. l = [index |-> l.index, hard |-> l.hard]
    BY <2>1 DEF Level
  <2> HIDE DEF l
  <2>5. CASE l.hard
    <3>1. ChildNumber(l) = IndexLimit + l.index
      BY <2>2, <2>3, <2>5 DEF ChildNumber
    <3>2. /\ ChildNumber(l) % IndexLimit = l.index
          /\ ChildNumber(l) >= IndexLimit
      BY <2>2, <2>3, <3>1, IndexLimitAssumption
    <3>3. (ChildNumber(l) >= IndexLimit) = l.hard
      BY <2>2, <2>5, <3>2
    <3> QED
      BY <2>4, <3>2, <3>3, Zenon DEF l
  <2>6. CASE ~ l.hard
    <3>1. ChildNumber(l) = l.index
      BY <2>6 DEF ChildNumber
    <3>2. /\ ChildNumber(l) % IndexLimit = l.index
          /\ ~ (ChildNumber(l) >= IndexLimit)
      BY <2>2, <2>3, <3>1, IndexLimitAssumption
    <3>3. (ChildNumber(l) >= IndexLimit) = l.hard
      BY <2>2, <2>6, <3>1, <3>2, IndexLimitAssumption
    <3> QED
      BY <2>4, <3>2, <3>3, Zenon DEF l
  <2> QED
    BY <2>2, <2>5, <2>6
<1>2. IInv => NoKeyAliasing
  BY <1>1, Zenon DEF NoKeyAliasing
<1> QED
  BY <1>2, Invariance, PTL

\* levels() and str() spell the same path (LevelsMatchText).
THEOREM LevelsAndTextAgree == Spec => []LevelsMatchText
<1>1. ASSUME IInv, dp.levels # <<>>
      PROVE  /\ Len(Str(dp).segs) = Len(dp.levels)
             /\ \A i \in DOMAIN dp.levels :
                  Str(dp).segs[i] = Spell(dp.levels[i])
  <2>1. dp.levels \in Seq(Level) /\ Str(dp) = FormatLevels(dp.levels)
    BY <1>1, SeenLevels DEF Bounded
  <2> QED
    BY <2>1, FormatTyped
<1>2. IInv => LevelsMatchText
  BY <1>1 DEF LevelsMatchText
<1> QED
  BY <1>2, Invariance, PTL

\* The object changes only in the step that ends a call well
\* (FailureKeepsPath).
THEOREM FailuresKeepPath == Spec => FailureKeepsPath
<1>1. ASSUME [Next]_vars, dp' # dp PROVE outcome' = "ok" /\ pc' = "idle"
  BY <1>1
  DEF Next, Call, vars, Throw, Return, BeginParse, Refused, Reset, Construct,
      FromLevels, Parse, ParsePath, SetType, RejectText, AcceptText, Rebuild,
      Commit, OutOfMemory
<1> QED
  BY <1>1, PTL DEF Spec, FailureKeepsPath

-----------------------------------------------------------------------------
(* What a call was asked for *)

\* Reading the levels a constructor spelled from its arguments gives the
\* arguments back.
LEMMA ArgumentsSurvive ==
  ASSUME NEW t \in DerivationTypes \ {"root", "slip10"},
         NEW coin, NEW account, NEW charge, NEW index,
         NEW l, l = RebuildLevels(FromShortcuts(t, coin, account, charge,
                                                index)).levels,
         NEW p, p = RebuildLevels(Fill(t, l))
  PROVE  /\ p.account = account
         /\ HasCharge(t) => p.charge = charge
         /\ p.index = index
         /\ t \in Bip44Family => p.coin = coin
<1> DEFINE raw == FromShortcuts(t, coin, account, charge, index)
           f == Fill(t, l)
<1>1. /\ raw.type = t /\ raw.coin = coin /\ raw.account = account
      /\ raw.charge = charge /\ raw.index = index
      /\ raw.hasIndex = (t # "root")
  BY DEF FromShortcuts
<1>2. t = "bip32" \/ HasFixedPrefix(t)
  BY DEF DerivationTypes, HasFixedPrefix
<1>3. l = ShortcutLevels(raw)
  <2>1. RebuildLevels(raw) = WithLevels(raw, ShortcutLevels(raw))
    BY <1>1, <1>2 DEF RebuildLevels, HasFixedPrefix, Bip44Family
  <2> QED
    BY <2>1 DEF WithLevels
<1> HIDE DEF raw
<1>4. CASE t = "bip32"
  <2>1. l = <<Hard(account), Soft(charge), index>>
    BY <1>1, <1>3, <1>4 DEF ShortcutLevels
  <2>2. f = WithIndex(t, 0, account, charge, index, <<>>)
    BY <1>4, <2>1 DEF Fill, Bip44Family, Hard, Soft
  <2>3. f.type = t
    BY <2>2 DEF WithIndex
  <2>4. p = WithLevels(f, ShortcutLevels(f))
    BY <1>4, <2>3 DEF RebuildLevels, HasFixedPrefix, Bip44Family
  <2> QED
    BY <1>4, <2>2, <2>4 DEF WithLevels, WithIndex, Bip44Family
<1>5. CASE t \in Bip44Family
  <2>1. l = <<Hard(PrefixPurpose(t)), Hard(coin), Hard(account),
              Soft(charge), index>>
    BY <1>1, <1>3, <1>5 DEF ShortcutLevels, PrefixCoin, Bip44Family
  <2>2. f = WithIndex(t, coin, account, charge, index, <<>>)
    BY <1>5, <2>1 DEF Fill, Bip44Family, Hard, Soft
  <2>3. f.type = t
    BY <2>2 DEF WithIndex
  <2>4. p = WithLevels(f, ShortcutLevels(f))
    BY <1>5, <2>3 DEF RebuildLevels, HasFixedPrefix, Bip44Family
  <2> QED
    BY <2>2, <2>4 DEF WithLevels, WithIndex
<1>6. CASE t \in {"cip11", "cip1852"}
  <2>1. /\ Len(l) = 5 /\ l[3] = Hard(account) /\ l[4] = Soft(charge)
        /\ l[5] = index
    BY <1>1, <1>3, <1>6 DEF ShortcutLevels
  <2>2. \E c \in {118, 1815} :
          f = WithIndex(t, c, account, charge, index, <<>>)
    BY <1>6, <2>1 DEF Fill, Bip44Family, Hard, Soft
  <2>3. f.type = t
    BY <2>2 DEF WithIndex
  <2>4. p = WithLevels(f, ShortcutLevels(f))
    BY <1>6, <2>3 DEF RebuildLevels, HasFixedPrefix, Bip44Family
  <2> QED
    BY <1>6, <2>2, <2>4 DEF WithLevels, WithIndex, Bip44Family
<1>7. CASE t = "zip32"
  <2>1. /\ Len(l) = 4 /\ l[3] = Hard(account) /\ l[4] = index
    <3>1. raw.hasIndex /\ raw.type = "zip32"
      BY <1>1, <1>7
    <3>2. l = <<Hard(PrefixPurpose(t)), Hard(PrefixCoin(raw)), Hard(account),
                index>>
      BY <1>1, <1>3, <1>7, <3>1 DEF ShortcutLevels
    <3> QED
      BY <3>2
  <2>2. f = WithIndex(t, 133, account, 0, index, <<>>)
    BY <1>7, <2>1 DEF Fill, Bip44Family, Hard
  <2>3. f.type = t
    BY <2>2 DEF WithIndex
  <2>4. p = WithLevels(f, ShortcutLevels(f))
    BY <1>7, <2>3 DEF RebuildLevels, HasFixedPrefix, Bip44Family
  <2> QED
    BY <1>7, <2>2, <2>4 DEF WithLevels, WithIndex, HasCharge, Bip44Family
<1> QED
  BY <1>2, <1>4, <1>5, <1>6, <1>7 DEF HasFixedPrefix

\* A call that succeeds stores the levels its text spells, from_levels those it
\* was given, the checked constructor the arguments its type uses
\* (CommittedAsAsked).
THEOREM AskedIsCommitted == Spec => CommittedAsAsked
<1>1. ASSUME IInv, [Next]_vars, pc = "commit", outcome' = "ok", pc' = "idle"
      PROVE  AsAsked(call, dp')
  <2>1. Commit
    BY <1>1
    DEF Next, vars, RejectText, AcceptText, Rebuild, OutOfMemory
  <2>2. /\ Checked => fresh.levels = call.want
        /\ dp' = fresh
    BY <1>1, <2>1 DEF Commit, Throw, Return
  <2>3. /\ call.type \in DerivationTypes
        /\ call.text \in Text
        /\ Accepts(call.type, call.text)
        /\ fresh = ParsedPath(call.type, call.text)
    BY <1>1 DEF IInv, Underway, TypeOK, CallType
  <2>4. /\ dp'.type = call.type
        /\ dp'.levels = TextLevels(call.text)
        /\ dp' = RebuildLevels(Fill(call.type, dp'.levels))
    BY <2>2, <2>3, ParsedPathFacts
  <2>5. call.op = "from_levels" => dp'.levels = call.want
    BY <2>2 DEF Checked
  <2>6. ASSUME call.op = "construct", call.type # "root"
        PROVE  /\ dp'.account = call.args.account
               /\ HasCharge(call.type) => dp'.charge = call.args.charge
               /\ dp'.index = call.args.index
               /\ call.type \in Bip44Family => dp'.coin = call.args.coin
    <3>1. /\ call.type \in DerivationTypes \ {"slip10"}
          /\ call.want = RebuildLevels(
               FromShortcuts(call.type, call.args.coin, call.args.account,
                             call.args.charge, call.args.index)).levels
      BY <1>1, <2>6 DEF IInv, WantIsBuilt
    <3>2. dp'.levels = call.want
      BY <2>2, <2>6 DEF Checked
    <3> QED
      BY <2>4, <2>6, <3>1, <3>2, ArgumentsSurvive
  <2> QED
    BY <2>4, <2>5, <2>6 DEF AsAsked
<1> QED
  BY <1>1, Invariance, PTL DEF Spec, CommittedAsAsked

-----------------------------------------------------------------------------
(* The abstract promise *)

\* The templates are the same operators inside the abstract specification.
LEMMA PromisedTemplates ==
  ASSUME NEW t, NEW l
  PROVE  /\ ValidPath(t, l) <=> Promise!ValidPath(t, l)
         /\ DerivationTypes = Promise!DerivationTypes
         /\ Level = Promise!Level
  BY DEF ValidPath, Templates, Instantiates, Fits, BipTemplate, Literal,
         BinaryDigit, Variable, HardenedAny, SoftAny, Leaf, DerivationTypes,
         Bip44Family, Level, Uint32,
         Promise!ValidPath, Promise!Templates, Promise!Instantiates,
         Promise!Fits, Promise!BipTemplate, Promise!Literal,
         Promise!BinaryDigit, Promise!Variable, Promise!HardenedAny,
         Promise!SoftAny, Promise!Leaf, Promise!DerivationTypes,
         Promise!Bip44Family, Promise!Level, Promise!Uint32

\* Every step of the object is a step of the promise or changes neither the
\* type nor the levels (ImplementsHDPath).
THEOREM Implementation == Spec => ImplementsHDPath
<1>1. Init => Promise!Init
  <2>1. Init => dp.type = NoType /\ dp.levels = <<>>
    BY EmptyTyped DEF Init
  <2> QED
    BY <2>1 DEF Promise!Init, NoType
<1>2. ASSUME IInv, [Next]_vars
      PROVE  [Promise!Next]_(Promise!absVars)
  <2> SUFFICES ASSUME dp' # dp PROVE [Promise!Next]_(Promise!absVars)
    BY DEF Promise!absVars
  <2>1. \/ Commit /\ dp' = fresh
        \/ dp' = EmptyPath(NoType)
        \/ \E t \in DerivationTypes : t # dp.type /\ dp' = EmptyPath(t)
    BY <1>2
    DEF Next, Call, vars, Throw, Return, BeginParse, Refused, Reset, Construct,
        FromLevels, Parse, ParsePath, SetType, RejectText, AcceptText, Rebuild,
        Commit, OutOfMemory
  <2>2. CASE Commit /\ dp' = fresh
    <3>1. /\ call.type \in DerivationTypes
          /\ call.text \in Text
          /\ Accepts(call.type, call.text)
          /\ fresh = ParsedPath(call.type, call.text)
      BY <1>2, <2>2 DEF Commit, IInv, Underway, TypeOK, CallType
    <3>2. /\ dp'.type \in DerivationTypes
          /\ Bounded(dp'.levels)
          /\ ValidPath(dp'.type, dp'.levels)
      BY <2>2, <3>1, ParsedPathFacts, ShapedIsValid
    <3>3. Promise!Assign
      BY <3>2, PromisedTemplates DEF Promise!Assign, Bounded
    <3> QED
      BY <3>3 DEF Promise!Next
  <2>3. CASE dp' = EmptyPath(NoType)
    BY <2>3
    DEF Promise!Next, Promise!Renew, EmptyPath, WithoutIndex, NoType
  <2>4. ASSUME NEW t \in DerivationTypes, t # dp.type, dp' = EmptyPath(t)
        PROVE  Promise!SwitchType
    <3>1. dp'.type = t /\ dp'.levels = <<>>
      BY <2>4 DEF EmptyPath, WithoutIndex
    <3> QED
      BY <2>4, <3>1, PromisedTemplates DEF Promise!SwitchType
  <2> QED
    BY <2>1, <2>2, <2>3, <2>4 DEF Promise!Next
<1> QED
  BY <1>1, <1>2, Invariance, PTL DEF Spec, ImplementsHDPath, Promise!Spec


-----------------------------------------------------------------------------
(* The grammar: what the recogniser accepts is what the templates spell *)

\* Segment s spells level c of a template.
SpellsLevel(s, c) ==
  /\ s.digits
  /\ Fits([index |-> s.val, hard |-> s.mark # ""], c)
  /\ c.literal => ~ s.pad

\* The segments of a text spell a template, one by one.
SpellsTemplate(segs, template) ==
  /\ Len(segs) = Len(template)
  /\ \A i \in 1 .. Len(segs) : SpellsLevel(segs[i], template[i])

\* What a validator asks of a level is what its template level stands for.
LEMMA LevelsSpelled ==
  ASSUME NEW s \in Segment
  PROVE  /\ \A n \in Nat :
              n < IndexLimit =>
                (SpellsLevel(s, Literal(n))
                   <=> (ParseSegmentOk(s) /\ Fixed(RawLevel(s), n)))
         /\ SpellsLevel(s, HardenedAny)
              <=> (ParseSegmentOk(s) /\ RawLevel(s).hard)
         /\ SpellsLevel(s, SoftAny)
              <=> (ParseSegmentOk(s) /\ ~ RawLevel(s).hard)
         /\ SpellsLevel(s, BinaryDigit)
              <=> (ParseSegmentOk(s) /\ BinaryCharge(RawLevel(s)))
         /\ SpellsLevel(s, Leaf) <=> ParseSegmentOk(s)
<1> DEFINE h == s.mark # ""
           x == [index |-> s.val, hard |-> h]
<1>1. /\ x.index = s.val /\ x.hard = h /\ h \in BOOLEAN
      /\ s.val \in Nat /\ s.digits \in BOOLEAN /\ s.pad \in BOOLEAN
  <2>1. s.val \in Nat /\ s.digits \in BOOLEAN /\ s.pad \in BOOLEAN
    BY DEF Segment
  <2>2. h \in BOOLEAN
    OBVIOUS
  <2> HIDE DEF h
  <2> QED
    BY <2>1, <2>2
<1>2. /\ RawLevel(s).index = s.val /\ RawLevel(s).hard = h
      /\ RawLevel(s).exact = ~ s.pad
  <2> DEFINE k == s.mark \in HardeningMarkers
  <2>1. k <=> h
    BY DEF Segment, HardeningMarkers
  <2>2. k \in BOOLEAN
    OBVIOUS
  <2>3. RawLevel(s) = [index |-> s.val, hard |-> k, exact |-> ~ s.pad]
    BY Zenon DEF RawLevel
  <2> HIDE DEF h, k
  <2>4. k = h
    BY <1>1, <2>1, <2>2
  <2> QED
    BY <2>3, <2>4
<1> HIDE DEF x, h
<1>3. \A c : SpellsLevel(s, c)
               <=> (s.digits /\ Fits(x, c) /\ (c.literal => ~ s.pad))
  BY Zenon DEF SpellsLevel, x, h
<1>4. ParseSegmentOk(s) <=> (s.digits /\ s.val < IndexLimit)
  BY Zenon DEF ParseSegmentOk
<1>5. ASSUME NEW n \in Nat, n < IndexLimit
      PROVE  SpellsLevel(s, Literal(n))
               <=> (ParseSegmentOk(s) /\ Fixed(RawLevel(s), n))
  <2>1. /\ Literal(n).low = n /\ Literal(n).high = n
        /\ Literal(n).hard = {TRUE} /\ Literal(n).literal
    BY Zenon DEF Literal
  <2>2. s.val \in n .. n <=> s.val = n
    <3>1. s.val \in Int /\ n \in Int
      BY <1>1
    <3> QED
      BY <3>1
  <2>3. (h \in {TRUE} <=> h) /\ (h \in {FALSE} <=> ~ h)
    BY <1>1, Zenon
  <2>4. Fits(x, Literal(n)) <=> (s.val = n /\ h)
    BY <1>1, <2>1, <2>2, <2>3, Zenon DEF Fits
  <2>5. Fixed(RawLevel(s), n) <=> (s.val = n /\ h /\ ~ s.pad)
    BY <1>2, Zenon DEF Fixed
  <2>6. s.val = n => s.val < IndexLimit
    BY <1>5
  <2> QED
    BY <1>3, <1>4, <2>1, <2>4, <2>5, <2>6, Zenon
<1>6. /\ Fits(x, HardenedAny) <=> (s.val < IndexLimit /\ h)
      /\ Fits(x, SoftAny) <=> (s.val < IndexLimit /\ ~ h)
      /\ Fits(x, Leaf) <=> s.val < IndexLimit
      /\ ~ HardenedAny.literal /\ ~ SoftAny.literal /\ ~ Leaf.literal
  <2>1. ASSUME NEW hs
        PROVE  /\ Variable(hs).low = 0 /\ Variable(hs).high = IndexLimit - 1
               /\ Variable(hs).hard = hs /\ ~ Variable(hs).literal
    BY DEF Variable
  <2>2. s.val \in 0 .. IndexLimit - 1 <=> s.val < IndexLimit
    BY <1>1, IndexLimitAssumption
  <2>3. (h \in {TRUE} <=> h) /\ (h \in {FALSE} <=> ~ h)
    BY <1>1, Zenon
  <2> QED
    BY <1>1, <2>1, <2>2, <2>3, Zenon DEF Fits, HardenedAny, SoftAny, Leaf
<1>7. /\ Fits(x, BinaryDigit) <=> (s.val <= 1 /\ ~ h)
      /\ BinaryDigit.literal
  <2>1. /\ BinaryDigit.low = 0 /\ BinaryDigit.high = 1
        /\ BinaryDigit.hard = {FALSE} /\ BinaryDigit.literal
    BY Zenon DEF BinaryDigit
  <2>2. s.val \in 0 .. 1 <=> s.val <= 1
    BY <1>1
  <2>3. h \in {FALSE} <=> ~ h
    BY <1>1, Zenon
  <2> QED
    BY <1>1, <2>1, <2>2, <2>3, Zenon DEF Fits
<1>8. BinaryCharge(RawLevel(s)) <=> (s.val <= 1 /\ ~ h /\ ~ s.pad)
  BY <1>2, Zenon DEF BinaryCharge
<1>9. SpellsLevel(s, BinaryDigit)
        <=> (ParseSegmentOk(s) /\ BinaryCharge(RawLevel(s)))
  BY <1>1, <1>3, <1>4, <1>7, <1>8, IndexLimitAssumption
<1>10. /\ SpellsLevel(s, HardenedAny)
            <=> (ParseSegmentOk(s) /\ RawLevel(s).hard)
       /\ SpellsLevel(s, SoftAny)
            <=> (ParseSegmentOk(s) /\ ~ RawLevel(s).hard)
       /\ SpellsLevel(s, Leaf) <=> ParseSegmentOk(s)
  BY <1>1, <1>2, <1>3, <1>4, <1>6
<1> QED
  BY <1>5, <1>9, <1>10

\* SpellsPath, segment by segment.
LEMMA PathSpelled ==
  ASSUME NEW t, NEW text \in Text
  PROVE  SpellsPath(t, text)
           <=> /\ IF t = "root" THEN text.head = "" ELSE text.head = "m"
               /\ \E s \in Templates(t) : SpellsTemplate(text.segs, s)
<1> DEFINE g == text.segs
           v == [i \in 1 .. Len(g) |->
                   [index |-> g[i].val, hard |-> g[i].mark # ""]]
<1>1. g \in Seq(Segment)
  BY DEF Text
<1>2. ASSUME NEW s
      PROVE  SpellsTemplate(g, s)
               <=> /\ \A i \in 1 .. Len(g) : g[i].digits
                   /\ Instantiates(v, s)
                   /\ \A i \in 1 .. Len(g) : s[i].literal => ~ g[i].pad
  <2>1. Len(v) = Len(g)
    BY <1>1
  <2>2. \A i \in 1 .. Len(g) :
          v[i] = [index |-> g[i].val, hard |-> g[i].mark # ""]
    OBVIOUS
  <2> HIDE DEF v
  <2> QED
    BY <2>1, <2>2, Zenon DEF SpellsTemplate, SpellsLevel, Instantiates
<1> QED
  BY <1>2, Zenon DEF SpellsPath

\* The levels of a template, one conjunct each.
LEMMA TemplatesUnfolded ==
  ASSUME NEW g \in Seq(Segment), NEW c1, NEW c2, NEW c3, NEW c4, NEW c5
  PROVE  /\ SpellsTemplate(g, <<c1, c2, c3>>)
              <=> /\ Len(g) = 3
                  /\ SpellsLevel(g[1], c1) /\ SpellsLevel(g[2], c2)
                  /\ SpellsLevel(g[3], c3)
         /\ SpellsTemplate(g, <<c1, c2, c3, c4>>)
              <=> /\ Len(g) = 4
                  /\ SpellsLevel(g[1], c1) /\ SpellsLevel(g[2], c2)
                  /\ SpellsLevel(g[3], c3) /\ SpellsLevel(g[4], c4)
         /\ SpellsTemplate(g, <<c1, c2, c3, c4, c5>>)
              <=> /\ Len(g) = 5
                  /\ SpellsLevel(g[1], c1) /\ SpellsLevel(g[2], c2)
                  /\ SpellsLevel(g[3], c3) /\ SpellsLevel(g[4], c4)
                  /\ SpellsLevel(g[5], c5)
<1>1. SpellsTemplate(g, <<c1, c2, c3>>)
        <=> /\ Len(g) = 3
            /\ SpellsLevel(g[1], c1) /\ SpellsLevel(g[2], c2)
            /\ SpellsLevel(g[3], c3)
  BY DEF SpellsTemplate
<1>2. SpellsTemplate(g, <<c1, c2, c3, c4>>)
        <=> /\ Len(g) = 4
            /\ SpellsLevel(g[1], c1) /\ SpellsLevel(g[2], c2)
            /\ SpellsLevel(g[3], c3) /\ SpellsLevel(g[4], c4)
  BY DEF SpellsTemplate
<1>3. SpellsTemplate(g, <<c1, c2, c3, c4, c5>>)
        <=> /\ Len(g) = 5
            /\ SpellsLevel(g[1], c1) /\ SpellsLevel(g[2], c2)
            /\ SpellsLevel(g[3], c3) /\ SpellsLevel(g[4], c4)
            /\ SpellsLevel(g[5], c5)
  BY DEF SpellsTemplate
<1> QED
  BY <1>1, <1>2, <1>3

\* Five segments are read when each of them is.
LEMMA FiveRead ==
  ASSUME NEW g \in Seq(Segment), Len(g) = 5
  PROVE  /\ (\A i \in 1 .. Len(g) : ParseSegmentOk(g[i]))
              <=> /\ ParseSegmentOk(g[1]) /\ ParseSegmentOk(g[2])
                  /\ ParseSegmentOk(g[3]) /\ ParseSegmentOk(g[4])
                  /\ ParseSegmentOk(g[5])
         /\ 1 \in 1 .. Len(g) /\ 2 \in 1 .. Len(g) /\ 3 \in 1 .. Len(g)
         /\ 4 \in 1 .. Len(g) /\ 5 \in 1 .. Len(g)
  OBVIOUS

\* Every validator takes what the template of its type spells.
LEMMA GrammarIsTemplates ==
  ASSUME NEW t \in DerivationTypes \ {"root"}, NEW text \in Text,
         text.head = "m"
  PROVE  Accepts(t, text)
           <=> \E s \in Templates(t) : SpellsTemplate(text.segs, s)
<1> DEFINE g == text.segs
           r == RawLevels(text)
           read == \A i \in 1 .. Len(g) : ParseSegmentOk(g[i])
           spelled == \E s \in Templates(t) : SpellsTemplate(g, s)
<1>1. g \in Seq(Segment)
  BY DEF Text
<1>2. Len(r) = Len(g) /\ \A i \in 1 .. Len(g) : r[i] = RawLevel(g[i])
  BY <1>1 DEF RawLevels
<1>3. Accepts(t, text) <=> (read /\ ValidateLevelsFor(t, r))
  <2>1. DOMAIN text.segs = 1 .. Len(g)
    BY <1>1
  <2> QED
    BY <2>1 DEF Accepts, ParseLevelsOk
<1> HIDE DEF r, g
<1>4. \A i \in 1 .. Len(g) :
        /\ \A n \in Nat :
             n < IndexLimit =>
               (SpellsLevel(g[i], Literal(n))
                  <=> (ParseSegmentOk(g[i]) /\ Fixed(r[i], n)))
        /\ SpellsLevel(g[i], HardenedAny)
             <=> (ParseSegmentOk(g[i]) /\ r[i].hard)
        /\ SpellsLevel(g[i], SoftAny)
             <=> (ParseSegmentOk(g[i]) /\ ~ r[i].hard)
        /\ SpellsLevel(g[i], BinaryDigit)
             <=> (ParseSegmentOk(g[i]) /\ BinaryCharge(r[i]))
        /\ SpellsLevel(g[i], Leaf) <=> ParseSegmentOk(g[i])
  <2> SUFFICES ASSUME NEW i \in 1 .. Len(g)
               PROVE  LET s == g[i] IN
                      /\ \A n \in Nat :
                           n < IndexLimit =>
                             (SpellsLevel(s, Literal(n))
                                <=> (ParseSegmentOk(s)
                                       /\ Fixed(RawLevel(s), n)))
                      /\ SpellsLevel(s, HardenedAny)
                           <=> (ParseSegmentOk(s) /\ RawLevel(s).hard)
                      /\ SpellsLevel(s, SoftAny)
                           <=> (ParseSegmentOk(s) /\ ~ RawLevel(s).hard)
                      /\ SpellsLevel(s, BinaryDigit)
                           <=> (ParseSegmentOk(s) /\ BinaryCharge(RawLevel(s)))
                      /\ SpellsLevel(s, Leaf) <=> ParseSegmentOk(s)
    BY <1>2, Zenon
  <2>1. g[i] \in Segment
    BY <1>1
  <2> QED
    BY <2>1, LevelsSpelled, Zenon
<1> SUFFICES (read /\ ValidateLevelsFor(t, r)) <=> spelled
  BY <1>3, Zenon DEF g
<1>5. ASSUME Templates(t) = {<<HardenedAny, BinaryDigit, Leaf>>},
             ValidateLevelsFor(t, r) <=> ValidateBip32(r)
      PROVE  (read /\ ValidateLevelsFor(t, r)) <=> spelled
  <2>1. spelled <=> SpellsTemplate(g, <<HardenedAny, BinaryDigit, Leaf>>)
    BY <1>5, Zenon
  <2>2. spelled <=> /\ Len(g) = 3
                    /\ SpellsLevel(g[1], HardenedAny)
                    /\ SpellsLevel(g[2], BinaryDigit)
                    /\ SpellsLevel(g[3], Leaf)
    BY <1>1, <2>1, TemplatesUnfolded, Zenon
  <2>3. ValidateLevelsFor(t, r)
          <=> Len(g) = 3 /\ r[1].hard /\ BinaryCharge(r[2])
    BY <1>2, <1>5, Zenon DEF ValidateBip32
  <2> HIDE DEF spelled
  <2>4. Len(g) = 3 => (read <=> /\ ParseSegmentOk(g[1])
                                /\ ParseSegmentOk(g[2])
                                /\ ParseSegmentOk(g[3]))
    BY <1>1
  <2>5. Len(g) = 3 => 1 \in 1 .. Len(g) /\ 2 \in 1 .. Len(g) /\ 3 \in 1 .. Len(g)
    BY <1>1
  <2> HIDE DEF read
  <2> QED
    BY <1>4, <2>2, <2>3, <2>4, <2>5, Zenon
<1>6. ASSUME NEW n \in Nat, n < IndexLimit, Templates(t) = {BipTemplate(n)},
             ValidateLevelsFor(t, r) <=> ValidateBip44Family(r, n)
      PROVE  (read /\ ValidateLevelsFor(t, r)) <=> spelled
  <2>1. spelled <=> SpellsTemplate(g, BipTemplate(n))
    BY <1>6, Zenon
  <2>2. spelled <=> /\ Len(g) = 5
                    /\ SpellsLevel(g[1], Literal(n))
                    /\ SpellsLevel(g[2], HardenedAny)
                    /\ SpellsLevel(g[3], HardenedAny)
                    /\ SpellsLevel(g[4], BinaryDigit)
                    /\ SpellsLevel(g[5], Leaf)
    BY <1>1, <2>1, TemplatesUnfolded, Zenon DEF BipTemplate
  <2>3. ValidateLevelsFor(t, r)
          <=> /\ Len(g) = 5 /\ Fixed(r[1], n) /\ r[2].hard /\ r[3].hard
              /\ BinaryCharge(r[4])
    BY <1>2, <1>6, Zenon DEF ValidateBip44Family
  <2> HIDE DEF spelled
  <2>4. Len(g) = 5 =>
          /\ read <=> /\ ParseSegmentOk(g[1]) /\ ParseSegmentOk(g[2])
                      /\ ParseSegmentOk(g[3]) /\ ParseSegmentOk(g[4])
                      /\ ParseSegmentOk(g[5])
          /\ 1 \in 1 .. Len(g) /\ 2 \in 1 .. Len(g) /\ 3 \in 1 .. Len(g)
          /\ 4 \in 1 .. Len(g) /\ 5 \in 1 .. Len(g)
    BY <1>1, FiveRead
  <2> HIDE DEF read
  <2> QED
    BY <1>4, <1>6, <2>2, <2>3, <2>4, Zenon
<1>7. ASSUME NEW m \in Nat, NEW n \in Nat, m < IndexLimit, n < IndexLimit,
             Templates(t) = {<<Literal(m), Literal(n), HardenedAny, SoftAny,
                               Leaf>>},
             ValidateLevelsFor(t, r) <=> ValidateCip(r, m, n)
      PROVE  (read /\ ValidateLevelsFor(t, r)) <=> spelled
  <2>1. spelled <=> SpellsTemplate(g, <<Literal(m), Literal(n), HardenedAny,
                                        SoftAny, Leaf>>)
    BY <1>7, Zenon
  <2>2. spelled <=> /\ Len(g) = 5
                    /\ SpellsLevel(g[1], Literal(m))
                    /\ SpellsLevel(g[2], Literal(n))
                    /\ SpellsLevel(g[3], HardenedAny)
                    /\ SpellsLevel(g[4], SoftAny)
                    /\ SpellsLevel(g[5], Leaf)
    BY <1>1, <2>1, TemplatesUnfolded, Zenon
  <2>3. ValidateLevelsFor(t, r)
          <=> /\ Len(g) = 5 /\ Fixed(r[1], m) /\ Fixed(r[2], n) /\ r[3].hard
              /\ ~ r[4].hard
    BY <1>2, <1>7, Zenon DEF ValidateCip
  <2> HIDE DEF spelled
  <2>4. Len(g) = 5 =>
          /\ read <=> /\ ParseSegmentOk(g[1]) /\ ParseSegmentOk(g[2])
                      /\ ParseSegmentOk(g[3]) /\ ParseSegmentOk(g[4])
                      /\ ParseSegmentOk(g[5])
          /\ 1 \in 1 .. Len(g) /\ 2 \in 1 .. Len(g) /\ 3 \in 1 .. Len(g)
          /\ 4 \in 1 .. Len(g) /\ 5 \in 1 .. Len(g)
    BY <1>1, FiveRead
  <2> HIDE DEF read
  <2> QED
    BY <1>4, <1>7, <2>2, <2>3, <2>4, Zenon
<1>8. CASE t = "zip32"
  <2> DEFINE short == <<Literal(32), Literal(133), HardenedAny>>
             long  == <<Literal(32), Literal(133), HardenedAny, Leaf>>
  <2>1. spelled <=> SpellsTemplate(g, short) \/ SpellsTemplate(g, long)
    <3>1. Templates(t) = {short, long}
      BY <1>8 DEF Templates
    <3> HIDE DEF short, long
    <3> QED
      BY <3>1, Zenon
  <2>2. PICK m \in Nat, n \in Nat :
          m = 32 /\ n = 133 /\ m < IndexLimit /\ n < IndexLimit
    BY IndexLimitAssumption
  <2>3. short = <<Literal(m), Literal(n), HardenedAny>>
        /\ long = <<Literal(m), Literal(n), HardenedAny, Leaf>>
    BY <2>2, Zenon
  <2>4. ValidateLevelsFor(t, r)
          <=> /\ Len(g) = 3 \/ Len(g) = 4
              /\ Fixed(r[1], m) /\ Fixed(r[2], n) /\ r[3].hard
    BY <1>2, <1>8, <2>2
    DEF ValidateLevelsFor, ValidateZip32, Bip44Family
  <2> HIDE DEF short, long, spelled
  <2>5. spelled <=> /\ Len(g) = 3 \/ Len(g) = 4
                    /\ SpellsLevel(g[1], Literal(m))
                    /\ SpellsLevel(g[2], Literal(n))
                    /\ SpellsLevel(g[3], HardenedAny)
                    /\ Len(g) = 4 => SpellsLevel(g[4], Leaf)
    <3>1. SpellsTemplate(g, short)
            <=> /\ Len(g) = 3
                /\ SpellsLevel(g[1], Literal(m)) /\ SpellsLevel(g[2], Literal(n))
                /\ SpellsLevel(g[3], HardenedAny)
      BY <1>1, <2>3, TemplatesUnfolded, Zenon
    <3>2. SpellsTemplate(g, long)
            <=> /\ Len(g) = 4
                /\ SpellsLevel(g[1], Literal(m)) /\ SpellsLevel(g[2], Literal(n))
                /\ SpellsLevel(g[3], HardenedAny) /\ SpellsLevel(g[4], Leaf)
      BY <1>1, <2>3, TemplatesUnfolded, Zenon
    <3>3. ~ (Len(g) = 3 /\ Len(g) = 4)
      OBVIOUS
    <3> QED
      BY <2>1, <3>1, <3>2, <3>3, Zenon
  <2>6. Len(g) = 3 =>
          /\ read <=> /\ ParseSegmentOk(g[1]) /\ ParseSegmentOk(g[2])
                      /\ ParseSegmentOk(g[3])
          /\ 1 \in 1 .. Len(g) /\ 2 \in 1 .. Len(g) /\ 3 \in 1 .. Len(g)
    BY <1>1
  <2>7. Len(g) = 4 =>
          /\ read <=> /\ ParseSegmentOk(g[1]) /\ ParseSegmentOk(g[2])
                      /\ ParseSegmentOk(g[3]) /\ ParseSegmentOk(g[4])
          /\ 1 \in 1 .. Len(g) /\ 2 \in 1 .. Len(g) /\ 3 \in 1 .. Len(g)
          /\ 4 \in 1 .. Len(g)
    BY <1>1
  <2>8. ~ (Len(g) = 3 /\ Len(g) = 4)
    OBVIOUS
  <2> HIDE DEF read
  <2>9. CASE Len(g) = 3
    BY <1>4, <2>2, <2>4, <2>5, <2>6, <2>8, <2>9, Zenon
  <2>10. CASE Len(g) = 4
    BY <1>4, <2>2, <2>4, <2>5, <2>7, <2>8, <2>10
  <2> QED
    BY <2>4, <2>5, <2>9, <2>10, Zenon
<1>9. CASE t = "slip10"
  <2>1. ValidateLevelsFor(t, r) <=> Len(g) \in 1 .. MaxDepth
    BY <1>2, <1>9 DEF ValidateLevelsFor, ValidateSlip10, Bip44Family
  <2>2. Templates(t) = {[i \in 1 .. n |-> Leaf] : n \in 1 .. MaxDepth}
    BY <1>9 DEF Templates
  <2>3. ASSUME NEW n \in 1 .. MaxDepth
        PROVE  SpellsTemplate(g, [i \in 1 .. n |-> Leaf])
                 <=> (Len(g) = n /\ read)
    <3> DEFINE s == [i \in 1 .. n |-> Leaf]
    <3>1. Len(s) = n /\ \A i \in 1 .. n : s[i] = Leaf
      BY MaxDepthAssumption
    <3> HIDE DEF s
    <3>2. SpellsTemplate(g, s)
            <=> /\ Len(g) = n
                /\ \A i \in 1 .. Len(g) : SpellsLevel(g[i], Leaf)
      BY <3>1, Zenon DEF SpellsTemplate
    <3> QED
      BY <1>4, <3>2, Zenon DEF s
  <2>4. spelled <=> (Len(g) \in 1 .. MaxDepth /\ read)
    BY <2>2, <2>3, Zenon
  <2> QED
    BY <2>1, <2>4, Zenon
<1>10. CASE t = "bip32"
  <2>1. Templates(t) = {<<HardenedAny, BinaryDigit, Leaf>>}
    BY <1>10 DEF Templates
  <2>2. ValidateLevelsFor(t, r) <=> ValidateBip32(r)
    BY <1>10 DEF ValidateLevelsFor, Bip44Family
  <2> QED
    BY <1>5, <2>1, <2>2, Zenon
<1>11. CASE t \in Bip44Family
  <2>1. /\ Templates(t) = {BipTemplate(Purpose(t))} /\ Purpose(t) \in Nat
        /\ Purpose(t) < IndexLimit
    BY <1>11, IndexLimitAssumption DEF Templates, Purpose, Bip44Family
  <2>2. ValidateLevelsFor(t, r) <=> ValidateBip44Family(r, Purpose(t))
    BY <1>11 DEF ValidateLevelsFor, Bip44Family
  <2> QED
    BY <1>6, <2>1, <2>2, Zenon
<1>12. CASE t \in {"cip11", "cip1852"}
  <2>1. PICK m \in Nat, n \in Nat :
          /\ m < IndexLimit /\ n < IndexLimit
          /\ Templates(t) = {<<Literal(m), Literal(n), HardenedAny, SoftAny,
                               Leaf>>}
          /\ ValidateLevelsFor(t, r) <=> ValidateCip(r, m, n)
    <3>1. CASE t = "cip11"
      <4>1. 44 < IndexLimit /\ 118 < IndexLimit
        BY IndexLimitAssumption
      <4>2. Templates(t) = {<<Literal(44), Literal(118), HardenedAny, SoftAny,
                              Leaf>>}
        BY <3>1 DEF Templates
      <4>3. ValidateLevelsFor(t, r) <=> ValidateCip(r, 44, 118)
        BY <3>1 DEF ValidateLevelsFor, Bip44Family
      <4> QED
        BY <4>1, <4>2, <4>3
    <3>2. CASE t = "cip1852"
      <4>1. 1852 < IndexLimit /\ 1815 < IndexLimit
        BY IndexLimitAssumption
      <4>2. Templates(t) = {<<Literal(1852), Literal(1815), HardenedAny,
                              SoftAny, Leaf>>}
        BY <3>2 DEF Templates
      <4>3. ValidateLevelsFor(t, r) <=> ValidateCip(r, 1852, 1815)
        BY <3>2 DEF ValidateLevelsFor, Bip44Family
      <4> QED
        BY <4>1, <4>2, <4>3
    <3> QED
      BY <1>12, <3>1, <3>2
  <2> QED
    BY <1>7, <2>1, Zenon
<1> QED
  BY <1>8, <1>9, <1>10, <1>11, <1>12 DEF DerivationTypes

\* The call under way is always one that parses under a known type or none, and
\* its text is taken exactly when it spells an instance of a template
\* (GrammarMatchesTemplates).
THEOREM GrammarAsDocumented == Spec => []GrammarMatchesTemplates
<1>1. ASSUME NEW t \in DerivationTypes \cup {NoType}, NEW text \in Text
      PROVE  Accepts(t, text) <=> SpellsPath(t, text)
  <2>1. CASE t = "root"
    <3>1. Templates(t) = {<<>>}
      BY <2>1 DEF Templates
    <3>2. SpellsPath(t, text) <=> (text.head = "" /\ SpellsTemplate(text.segs, <<>>))
      BY <2>1, <3>1, PathSpelled, Zenon
    <3>3. SpellsTemplate(text.segs, <<>>) <=> text.segs = <<>>
      BY DEF SpellsTemplate, Text
    <3>4. text = EmptyText <=> (text.head = "" /\ text.segs = <<>>)
      <4>1. text = [head |-> text.head, segs |-> text.segs]
        BY DEF Text
      <4>2. EmptyText.head = "" /\ EmptyText.segs = <<>>
        BY DEF EmptyText
      <4> QED
        BY <4>1, <4>2, Zenon DEF EmptyText
    <3>5. Accepts(t, text) <=> text = EmptyText
      BY <2>1 DEF Accepts
    <3> QED
      BY <3>2, <3>3, <3>4, <3>5, Zenon
  <2>2. CASE t = NoType
    <3>1. Templates(t) = {}
      <4>1. /\ t # "root" /\ t # "bip32" /\ t # "bip44" /\ t # "bip49"
            /\ t # "bip54" /\ t # "bip74" /\ t # "bip84" /\ t # "bip86"
            /\ t # "slip10" /\ t # "cip11" /\ t # "cip1852" /\ t # "zip32"
        BY <2>2 DEF NoType
      <4> HIDE <2>2
      <4> QED
        BY <4>1 DEF Templates
    <3>2. ~ Accepts(t, text)
      BY <2>2 DEF NoType, Accepts, DerivationTypes, Bip44Family
    <3> QED
      BY <3>1, <3>2, PathSpelled, Zenon
  <2>3. CASE t \in DerivationTypes \ {"root"} /\ text.head = "m"
    <3>1. t # "root"
      BY <2>3
    <3> QED
      BY <2>3, <3>1, PathSpelled, GrammarIsTemplates, Zenon
  <2>4. CASE t \in DerivationTypes \ {"root"} /\ text.head # "m"
    <3>1. t # "root" /\ ~ Accepts(t, text)
      BY <2>4 DEF Accepts, ParseLevelsOk
    <3> QED
      BY <2>4, <3>1, PathSpelled, Zenon
  <2> QED
    BY <2>1, <2>2, <2>3, <2>4
<1>2. TypeOK => GrammarMatchesTemplates
  BY <1>1 DEF TypeOK, CallType, GrammarMatchesTemplates
<1> QED
  BY <1>2, TypeCorrect, PTL

=============================================================================
