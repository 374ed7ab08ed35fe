------------------------------ MODULE Address ------------------------------
(***************************************************************************)
(* One address object and every call that can change it: its constructor   *)
(* and setters, the mutable chain and path it hands out, and the parsers   *)
(* whose result replaces it.                                               *)
(***************************************************************************)
EXTENDS AddressValue

CONSTANTS
  ChainArgs, PathArgs,             \* objects the constructor is given
  NetworkArgs, IdArgs, CoinArgs,   \* arguments of the chain's setters
  TypeArgs, TextArgs,              \* of the setters of the path object
  CtArgs, DtArgs, DpArgs, AaArgs, AfArgs,   \* texts passed to the setters
  FreeArgs,                        \* for each free-form field, its texts
  Urns                             \* texts passed to the parsers

ASSUME AddressArgsAssumption ==
         /\ \A c \in ChainArgs : Clean(c)
         /\ \A p \in PathArgs : p \in Path /\ Sound(p)
         /\ NetworkArgs \cup IdArgs \subseteq ProperToken
         /\ CoinArgs \subseteq Uint32
         /\ TextArgs \subseteq Text
         /\ CtArgs \cup DtArgs \cup DpArgs \cup AaArgs \cup AfArgs
              \subseteq ProperToken
         /\ FreeArgs \in [FreeForm -> SUBSET ProperToken]
         /\ Urns \subseteq [mhda : BOOLEAN, parts : Seq(ProperToken)]

VARIABLES
  addr,      \* the caller's object
  read,      \* the text the last call parsed, NoUrn when it parsed none
  outcome,   \* the error code of the last call
  call       \* "construct", "parse", or the component it was to edit

vars == <<addr, read, outcome, call>>

NoUrn == Urn(FALSE, <<>>)

Init ==
  /\ addr = NoAddress
  /\ read = NoUrn
  /\ outcome = "none"
  /\ call = "none"

Return(result, kind, urn) ==
  /\ addr' = result.addr
  /\ outcome' = result.code
  /\ call' = kind
  /\ read' = urn

Finish(edit, result) == Return(result, edit, NoUrn)

\* A call whose result replaces the object when it returns.
Replace(result) ==
  IF result.code = "ok" THEN result ELSE Fail(result.code, addr)

\* addr = address(c, path, aa, af, ap, as)
Construct(c, path, aa, af, ap, as) ==
  Return(Replace(Construct6(c, path, aa, af, ap, as)), "construct", NoUrn)

-----------------------------------------------------------------------------
(* Setters *)

SetType(dt)         == Finish("derivation", SetDerivationType(addr, dt))
SetPath(dp)         == Finish("dp", SetDerivationPath(addr, dp))
SetTypeAndPath(dt, dp) == Finish("derivation", SetDerivation(addr, dt, dp))
SetCt(ct)           == Finish("ct", SetCoinType(addr, ct))
SetAlgorithm(aa)    == Finish("aa", SetAddressAlgorithm(addr, aa))
SetFormat(af)       == Finish("af", SetAddressFormat(addr, af))
SetFree(k, v)       == Finish(k, SetFreeForm(addr, k, v))

-----------------------------------------------------------------------------
(* Through get_chain() and path() *)

OnChain(edit, result) ==
  Finish(edit, Fail(result.code, [addr EXCEPT !.chain = result.chain]))

ChainSetNetwork(nt) == OnChain("nt", SetNetwork(addr.chain, nt))
ChainSetId(ci)      == OnChain("ci", SetChainId(addr.chain, ci))
ChainSetCoin(n)     == OnChain("ct", Done(SetCoin(addr.chain, n)))
ChainClearCoin      == OnChain("ct", Done(ClearCoin(addr.chain)))

\* addr.path().reset() and addr.path() = p
DropPath      == Finish("derivation", Ok([addr EXCEPT !.path = <<>>]))
AssignPath(p) == Finish("derivation", Ok([addr EXCEPT !.path = <<p>>]))

\* addr.path()->set_type(t)
PathSetType(t) ==
  /\ addr.path # <<>>
  /\ Finish("derivation",
            IF t \in DerivationTypes
              THEN Ok([addr EXCEPT !.path = <<Retyped(addr.path[1], t)>>])
            ELSE Fail("invalid_derivation_type", addr))

\* addr.path()->parse_path(text)
PathParse(text) == addr.path # <<>> /\ Finish("dp", ParsePathOf(addr, text))

-----------------------------------------------------------------------------
(* Parsers *)

Reading(urn, result) == Return(Replace(result), "parse", urn)

\* addr.unmarshal_text(urn), and addr = parse_urn(urn)
Unmarshal(urn) == Reading(urn, ParseUrn(urn))

\* addr = parse_urn_strict(urn)
ReadStrict(urn) == Reading(urn, ParseUrnStrict(urn))

\* addr = parse_nss(nss)
ReadNss(urn) == urn.mhda /\ Reading(urn, ParseNss(urn.parts))

-----------------------------------------------------------------------------

CallConstruct ==
  \E c \in ChainArgs, path \in {<<>>} \cup {<<p>> : p \in PathArgs},
     aa \in AaArgs, af \in AfArgs, ap \in FreeArgs["ap"], as \in FreeArgs["as"] :
       Construct(c, path, aa, af, ap, as)

CallSetter ==
  \/ \E dt \in DtArgs : SetType(dt)
  \/ \E dp \in DpArgs : SetPath(dp)
  \/ \E dt \in DtArgs, dp \in DpArgs : SetTypeAndPath(dt, dp)
  \/ \E ct \in CtArgs : SetCt(ct)
  \/ \E aa \in AaArgs : SetAlgorithm(aa)
  \/ \E af \in AfArgs : SetFormat(af)
  \/ \E k \in FreeForm : \E v \in FreeArgs[k] : SetFree(k, v)

CallPart ==
  \/ \E nt \in NetworkArgs : ChainSetNetwork(nt)
  \/ \E ci \in IdArgs : ChainSetId(ci)
  \/ \E n \in CoinArgs : ChainSetCoin(n)
  \/ ChainClearCoin
  \/ DropPath
  \/ \E p \in PathArgs : AssignPath(p)
  \/ \E t \in TypeArgs : PathSetType(t)
  \/ \E text \in TextArgs : PathParse(text)

CallParser ==
  \E urn \in Urns : Unmarshal(urn) \/ ReadStrict(urn) \/ ReadNss(urn)

Next == CallConstruct \/ CallSetter \/ CallPart \/ CallParser

Spec == Init /\ [][Next]_vars

\* Instances that look at constructions or texts one at a time.
OneCallSpec ==
  Init /\ [][outcome = "none" /\ (CallConstruct \/ CallParser)]_vars

-----------------------------------------------------------------------------
(* The descriptor the caller sees *)

\* The address as its getters tell it: the components that are set.
Present(k, value, unset) == IF value = unset THEN {} ELSE {<<k, value>>}

Doc(a) ==
  Present("nt", a.chain.network, "") \cup Present("ci", a.chain.id, Nothing)
  \cup Present("ct", a.chain.coin, <<>>)
  \cup (IF HasDerivation(a)
          THEN {<<"dt", a.path[1].type>>} \cup Present("dp", a.path[1].levels, <<>>)
        ELSE {})
  \cup Present("aa", a.algorithm, "") \cup Present("af", a.format, "")
  \cup UNION {Present(k, a.free[k], Nothing) : k \in FreeForm}

LastCall ==
  IF outcome = "none" THEN "none"
  ELSE IF outcome # "ok" THEN "refused"
  ELSE IF call = "construct" THEN "built"
  ELSE IF call = "parse" THEN "read"
  ELSE call

D == INSTANCE Descriptor WITH doc <- Doc(addr), last <- LastCall

-----------------------------------------------------------------------------
(* Properties *)

Codes == {"none", "ok", "uninitialized_address", "invalid_urn", "invalid_nss",
          "missing_network_type", "invalid_network_type", "missing_chain_id",
          "invalid_coin_type", "invalid_value", "invalid_derivation_type",
          "invalid_derivation_path", "invalid_algorithm", "invalid_format",
          "incompatible"}

\* The fields keep their types, what is written verbatim into the NSS, the chain
\* id and the free-form values, is clean, and the path is empty or one that its
\* own text parses to, also when it was set through path().
TypeOK ==
  /\ Intact(addr)
  /\ read \in [mhda : BOOLEAN, parts : Seq(ProperToken)]
  /\ outcome \in Codes
  /\ call \in {"none", "construct", "parse"} \cup D!Edits

\* The same address without the two other ways to say root: no path object, and
\* one without a type.
Normal(a) ==
  IF HasDerivation(a) THEN a ELSE [a EXCEPT !.path = <<EmptyPath("root")>>]

\* The URN marshal_text returns for an address with a chain id parses back to
\* the same address, whatever calls built it
\* (SPEC.md 6.3: "re-parses to an equivalent representation").
MarshalledUrnParses ==
  (MarshalCode(addr) = "ok" /\ addr.chain.id # Nothing) =>
    ParseUrn(UrnOf(addr)) = Ok(Normal(addr))

\* What marshal_text refuses has no URN either: str() of an address without a
\* network, or with a type but no path yet, is refused by the parser
\* (address.cpp nss(): "the URN fails to parse rather than name another key").
HalfBuiltNamesNothing ==
  MarshalCode(addr) # "ok" => ParseUrn(UrnOf(addr)).code # "ok"

\* from_nss finds in any address's NSS the chain of that address: no later
\* component reaches into the chain identity or hides it.
NssNamesChain ==
  (addr.chain.network # "" /\ addr.chain.id # Nothing) =>
    FromNss(Nss(addr)) = Done(addr.chain)

\* A call that fails leaves the URN, and so the key the address names, as it
\* was, even when a path object is attached on the way
\* (address.hpp: "the address changes only if both are valid").
FailureKeepsUrn == [][outcome' # "ok" => UrnOf(addr') = UrnOf(addr)]_vars

\* A call meant for one component changes no other, whichever it was meant for;
\* none leaves a path without its type or reads half a descriptor, and none that
\* fails changes any, also when it comes through get_chain() or path()
\* (address.hpp:41-118).
ImplementsDescriptor == D!Spec

Accepted == read # NoUrn /\ outcome = "ok"

\* What is parsed is canonical: the URN of a parsed address parses to exactly
\* that address again.
RoundTrip == Accepted => ParseUrn(UrnOf(addr)) = Ok(addr)

\* What a component says however it is spelled: a name in any case, a number in
\* either notation, a path with any padding and markers; other values as they
\* are.
Said(k, t) ==
  CASE k \in {"nt", "dt", "aa", "af"} -> t.word
    [] k = "ct" -> t.num
    [] k = "dp" -> TextLevels(t.path)
    [] OTHER -> t

\* No known component of an accepted text is lost or altered: the URN of the
\* result has every one of them, saying the same, except a dt that says root
\* (SPEC.md 1.2, 6.3).
ReadComponents == Components(TrimEnd(StripRqf(TrimEnd(read.parts))))

NothingDropped ==
  Accepted =>
    LET given == ReadComponents
        shown == Components(Nss(addr))
    IN /\ DOMAIN shown =
            DOMAIN given \ (IF HasDerivation(addr) THEN {} ELSE {"dt"})
       /\ \A k \in DOMAIN shown : Said(k, shown[k]) = Said(k, given[k])

-----------------------------------------------------------------------------
(* Properties of strict validation *)

\* Strict mode has one name for a key: the path of a valid address is not valid
\* under another derivation type, all else equal
\* (SPEC.md 6.2: refuses combinations that "name one key twice").
OneSpellingPerKey ==
  (Validate(addr) = "ok" /\ HasDerivation(addr)) =>
    LET text == Str(addr.path[1])
    IN \A dt \in DerivationTypes \ {"root", addr.path[1].type} :
         Accepts(dt, text) =>
           Validate([addr EXCEPT !.path = <<ParsedPath(dt, text)>>]) # "ok"

\* The defaults spelled out change nothing: "a short URN is validated as if
\* rewritten in long form" (SPEC.md 6.2).
LongForm(a) ==
  [a EXCEPT !.algorithm = ResolvedAlgorithm(a), !.format = ResolvedFormat(a)]

LongFormAgrees == Validate(LongForm(addr)) = Validate(addr)

\* Hardened all through, for the type that needs it, and not the second spelling
\* that cosmos has for its cip11 paths.
Derivable(nt, p) ==
  /\ p.levels # <<>>
  /\ p.type = "slip10" => \A k \in DOMAIN p.levels : p.levels[k].hard
  /\ ~ (nt = "cosmos" /\ p.type = "bip44" /\ p.coin = 118)

\* The rows of the matrix are consistent: a path of a derivation type that a
\* network lists is valid there with some algorithm, the format left to its
\* default, unless strict mode refuses it on purpose
\* (compatibility.cpp:25-161, Derivable).
EverySchemeUsable ==
  addr.chain.network # "" =>
    \A p \in PathArgs :
      /\ p.type \in Matrix[addr.chain.network].derivations
      /\ Derivable(addr.chain.network, p)
      => \E algo \in Algorithms :
           Validate([NewAddress(addr.chain, <<p>>)
                       EXCEPT !.algorithm = algo]) = "ok"

\* After a parse only the matrix can be at fault: describe() of the example tool
\* calls a parsed URN unusual (1), never malformed, for no other reason
\* (by_key.cpp:31-34: "the only remaining failure is the network-compat
\* matrix").
OnlyMatrixRemains ==
  (Accepted /\ Describe(Ok(addr)) = 1) => Validate(addr) = "incompatible"

-----------------------------------------------------------------------------
(* What documents say and the code does otherwise *)

\* address.hpp:128-129: marshal_text throws uninitialized_address "when the
\* address has not been initialised"; what it returns is a URN.
MarshalledIsWhole ==
  MarshalCode(addr) = "ok" => ParseUrn(UrnOf(addr)).code = "ok"

\* SPEC.md:384-385: "Derivation path, if present, matches the regex of its
\* derivation type" (section 3: a path begins with "m").
UrnPathFitsGrammar ==
  (Accepted /\ "dp" \in DOMAIN ReadComponents) =>
    Accepts(addr.path[1].type, PathOf(ReadComponents["dp"]))

\* SPEC.md:575-577: Sui "is supported via three distinct derivation types
\* (bip44, bip54, bip74)".
SuiTypesSupported ==
  (addr.chain.network = "sui" /\ HasDerivation(addr)
     /\ addr.path[1].type \in {"bip44", "bip54", "bip74"}) =>
    \E algo \in Algorithms :
      Validate([addr EXCEPT !.algorithm = algo, !.format = ""]) = "ok"

=============================================================================
