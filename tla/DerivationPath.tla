--------------------------- MODULE DerivationPath ---------------------------
(***************************************************************************)
(* One derivation_path object and the calls a client makes on it.  Every   *)
(* constructor and setter builds the new path in a second object, fresh,   *)
(* and moves it over dp in its last step.  A call that parses a text takes *)
(* three steps here (parse, rebuild, commit), because an exception can end *)
(* it at the ones that allocate.                                           *)
(***************************************************************************)
EXTENDS PathObject, PathTemplates

CONSTANTS
  DtArgs,        \* derivation types callers pass, unregistered ones included
  CoinArgs, AccountArgs, ChargeArgs, IndexArgs,   \* constructor arguments
  LevelArgs,     \* level sequences passed to from_levels
  TextArgs       \* texts passed to parse and parse_path

ASSUME ShortcutArgsAssumption ==
         /\ CoinArgs \subseteq Uint32
         /\ AccountArgs \subseteq Uint32
         /\ ChargeArgs \subseteq Uint32
         /\ IndexArgs \subseteq Level
ASSUME LevelArgsAssumption == LevelArgs \subseteq Seq(Level)
ASSUME TextArgsAssumption == TextArgs \subseteq Text

VARIABLES
  dp,        \* the caller's object
  fresh,     \* the object the running call builds
  call,      \* the running call: what it parses and what it was asked for
  pc,        \* "idle" between calls, then "parse", "rebuild", "commit"
  outcome    \* how the last call ended, "none" before the first one ends

vars == <<dp, fresh, call, pc, outcome>>

\* op     the function called
\* type   the scheme the text is parsed under
\* text   what is parsed: the argument, or the text of the object under
\*        construction
\* want   the levels the result must have, for the two checked constructors
\* args   the constructor's arguments, zero for the other operations
NoArgs == [coin |-> 0, account |-> 0, charge |-> 0, index |-> ZeroIndex]
NoCall == [op |-> "none", type |-> NoType, text |-> EmptyText, want |-> <<>>,
           args |-> NoArgs]

Init ==
  /\ dp = EmptyPath(NoType)
  /\ fresh = EmptyPath(NoType)
  /\ call = NoCall
  /\ pc = "idle"
  /\ outcome = "none"

-----------------------------------------------------------------------------
(* Ends and beginnings of calls *)

\* The call ends without having written dp.
Throw(code) ==
  /\ outcome' = code
  /\ pc' = "idle"
  /\ fresh' = EmptyPath(NoType)
  /\ call' = NoCall
  /\ UNCHANGED dp

Return(path) ==
  /\ outcome' = "ok"
  /\ dp' = path
  /\ pc' = "idle"
  /\ fresh' = EmptyPath(NoType)
  /\ call' = NoCall

\* A call reaches parse_path: an empty object of type t will receive text.
BeginParse(op, t, text, want, args) ==
  /\ call' = [op |-> op, type |-> t, text |-> text, want |-> want,
              args |-> args]
  /\ fresh' = EmptyPath(t)
  /\ pc' = "parse"
  /\ UNCHANGED <<dp, outcome>>

Refused(t) == t \notin DerivationTypes /\ Throw("invalid_derivation_type")

\* dp = derivation_path{}
Reset == Return(EmptyPath(NoType))

\* dp = derivation_path(t, coin, account, charge, index)
Construct(t, coin, account, charge, index) ==
  \/ Refused(t)
  \/ t = "slip10" /\ Throw("invalid_argument")
  \/ /\ t \in DerivationTypes \ {"slip10"}
     /\ LET built == RebuildLevels(
                       FromShortcuts(t, coin, account, charge, index))
        IN BeginParse("construct", t, Str(built), built.levels,
                      [coin |-> coin, account |-> account,
                       charge |-> charge, index |-> index])

\* Mutant: the shortcuts are returned without being rendered and reparsed.
FromLevelsUnchecked(t, lvls) ==
  \/ Refused(t)
  \/ t \in DerivationTypes /\ Return(PopulateShortcuts(t, lvls))

\* dp = derivation_path::from_levels(t, lvls)
FromLevels(t, lvls) ==
  \/ Refused(t)
  \/ /\ t \in DerivationTypes
     /\ BeginParse("from_levels", t, Str(PopulateShortcuts(t, lvls)), lvls,
                   NoArgs)

\* dp = derivation_path::parse(t, text)
Parse(t, text) ==
  \/ Refused(t)
  \/ t \in DerivationTypes /\ BeginParse("parse", t, text, <<>>, NoArgs)

\* dp.parse_path(text): under the object's own type, which may be none
ParsePath(text) == BeginParse("parse_path", dp.type, text, <<>>, NoArgs)

\* Mutants: the type is not looked up; the old path is kept under a new type.
SetTypeUnchecked(t) ==
  \/ t = dp.type /\ Return(dp)
  \/ t # dp.type /\ Return(EmptyPath(t))

SetTypeKeepingPath(t) ==
  \/ Refused(t)
  \/ /\ t \in DerivationTypes
     /\ Return([dp EXCEPT !.type = t])

\* dp.set_type(t): another type drops the path, the same type keeps it
SetType(t) ==
  \/ Refused(t)
  \/ t \in DerivationTypes /\ t = dp.type /\ Return(dp)
  \/ t \in DerivationTypes /\ t # dp.type /\ Return(EmptyPath(t))

-----------------------------------------------------------------------------
(* The steps of a running call *)

RejectText ==
  /\ pc = "parse"
  /\ ~ Accepts(call.type, call.text)
  /\ Throw(IF call.type \in DerivationTypes THEN "invalid_derivation_path"
                                            ELSE "invalid_derivation_type")

\* Mutant: the shortcuts are written into the caller's object as they are read.
AcceptTextInPlace ==
  /\ pc = "parse"
  /\ Accepts(call.type, call.text)
  /\ dp' = Fill(call.type, TextLevels(call.text))
  /\ fresh' = dp'
  /\ pc' = IF call.type \in {"root", "slip10"} THEN "commit" ELSE "rebuild"
  /\ UNCHANGED <<call, outcome>>

\* root and slip10 return from parse_fresh without rebuild_levels.
AcceptText ==
  /\ pc = "parse"
  /\ Accepts(call.type, call.text)
  /\ fresh' = Fill(call.type, TextLevels(call.text))
  /\ pc' = IF call.type \in {"root", "slip10"} THEN "commit" ELSE "rebuild"
  /\ UNCHANGED <<dp, call, outcome>>

Rebuild ==
  /\ pc = "rebuild"
  /\ fresh' = RebuildLevels(fresh)
  /\ pc' = "commit"
  /\ UNCHANGED <<dp, call, outcome>>

\* The two checked constructors compare the reparsed levels with the ones they
\* were given; the move into dp is the last step of every call.
Checked == call.op \in {"construct", "from_levels"}

Commit ==
  /\ pc = "commit"
  /\ \/ Checked /\ fresh.levels # call.want /\ Throw("invalid_derivation_path")
     \/ (Checked => fresh.levels = call.want) /\ Return(fresh)

\* The vectors of parse_levels and rebuild_levels may fail to allocate.
OutOfMemory ==
  /\ pc \in {"parse", "rebuild"}
  /\ call.type # "root"
  /\ Throw("bad_alloc")

\* Between calls the client makes any call it likes.
Call ==
  \/ Reset
  \/ \E t \in DtArgs :
       \/ SetType(t)
       \/ \E lvls \in LevelArgs : FromLevels(t, lvls)
       \/ \E text \in TextArgs : Parse(t, text)
       \/ \E coin \in CoinArgs, account \in AccountArgs,
             charge \in ChargeArgs, index \in IndexArgs :
            Construct(t, coin, account, charge, index)
  \/ \E text \in TextArgs : ParsePath(text)

Next ==
  \/ pc = "idle" /\ Call
  \/ RejectText
  \/ AcceptText
  \/ Rebuild
  \/ Commit
  \/ OutOfMemory

Spec == Init /\ [][Next]_vars

-----------------------------------------------------------------------------
(* Properties *)

CallType ==
  [op : {"none", "construct", "from_levels", "parse", "parse_path"},
   type : DerivationTypes \cup {NoType},
   text : Text,
   want : Seq(Level),
   args : [coin : Uint32, account : Uint32, charge : Uint32, index : Level]]

Outcomes == {"none", "ok", "bad_alloc", "invalid_argument",
             "invalid_derivation_type", "invalid_derivation_path"}

\* Every field of both objects stays in its type: no call puts an unregistered
\* derivation type into a path, whose URN would carry it verbatim.
TypeOK ==
  /\ dp \in Path
  /\ fresh \in Path
  /\ call \in CallType
  /\ pc \in {"idle", "parse", "rebuild", "commit"}
  /\ outcome \in Outcomes

\* The object is either a path that was given no levels, with every shortcut at
\* zero, or exactly what the parser makes of its own str(): whatever was
\* parsed, constructed or failed before, nothing of it is left.
\* (derivation_path.cpp: set_type, parse_path, reparsed.)
NoStaleState == Sound(dp)

\* The child number that names a level to BIP-32: the hardened flag is its top
\* bit, set with a bitwise or.
ChildNumber(l) ==
  IF l.hard THEN IndexLimit + (l.index % IndexLimit) ELSE l.index

\* No level names another level's key: every level of the object is the only
\* level with its child number.  A depth or index let through anywhere
\* (parse_segment, from_levels, the constructor) breaks it.
NoKeyAliasing ==
  \A i \in DOMAIN dp.levels :
    LET child == ChildNumber(dp.levels[i])
    IN dp.levels[i] = [index |-> child % IndexLimit,
                       hard  |-> child >= IndexLimit]

\* levels() and str() describe the same path in every state a client sees: the
\* rendered text parses to the levels, although str() never reads them for a
\* type other than slip10.
LevelsMatchText ==
  dp.levels # <<>> =>
    /\ Len(Str(dp).segs) = Len(dp.levels)
    /\ \A i \in DOMAIN dp.levels :
         Str(dp).segs[i] = Spell(dp.levels[i])

\* A call that succeeds leaves the path it was asked for: the levels the text
\* spells, for from_levels the given ones, and for the checked constructor the
\* arguments its type uses: account and index, the charge where there is one,
\* and the coin in the BIP-44 family.  Root uses none; cip11, cip1852 and zip32
\* have a coin of their own.  (The charge of a CIP-1852 path was once cut to
\* eight bits.)
HasCharge(t) == t \in Bip44Family \cup {"bip32", "cip11", "cip1852"}

AsAsked(c, p) ==
  /\ p.type = c.type
  /\ p.levels = TextLevels(c.text)
  /\ c.op = "from_levels" => p.levels = c.want
  /\ (c.op = "construct" /\ c.type # "root") =>
       /\ p.account = c.args.account
       /\ HasCharge(c.type) => p.charge = c.args.charge
       /\ p.index = c.args.index
       /\ c.type \in Bip44Family => p.coin = c.args.coin

CommittedAsAsked ==
  [][(pc = "commit" /\ outcome' = "ok" /\ pc' = "idle") => AsAsked(call, dp')]_vars

\* A call changes the object only in the step that ends it well: an exception
\* anywhere, bad_alloc included, and a call still running leave it alone.
\* (derivation_path.cpp:260 "an error (bad_alloc included) leaves it
\* unchanged".)
FailureKeepsPath ==
  [][dp' # dp => (outcome' = "ok" /\ pc' = "idle")]_vars

\* The recogniser accepts a text exactly when it spells an instance of the
\* documented template of the type (derivation_path.hpp:126).
GrammarMatchesTemplates ==
  pc = "parse" =>
    (Accepts(call.type, call.text) <=> SpellsPath(call.type, call.text))

\* derivation_path.hpp:56-58 on the constructor: "values that do not form a
\* valid path (charge 7 in a BIP-44 path, an index of 2^31) throw".  A coin
\* other than the fixed coin of cip11, cip1852 or zip32 forms no valid path of
\* that type, so a construction that succeeds has the coin it was given.
FixedCoinHonoured ==
  [][(/\ pc = "commit"
      /\ outcome' = "ok"
      /\ pc' = "idle"
      /\ call.op = "construct"
      /\ call.type \in {"cip11", "cip1852", "zip32"})
       => dp'.coin = call.args.coin]_vars

\* The abstract promise: a scheme and a path of it, replaced whole.
Promise == INSTANCE HDPath WITH type <- dp.type, levels <- dp.levels

ImplementsHDPath == Promise!Spec

=============================================================================
