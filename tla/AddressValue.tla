---------------------------- MODULE AddressValue ----------------------------
(***************************************************************************)
(* The value class address: a chain, an optional derivation path, format   *)
(* and wallet metadata; its setters, the URN it renders, the URN parser    *)
(* and strict validation.  A result pairs an error code with the address   *)
(* the call leaves.                                                        *)
(***************************************************************************)
EXTENDS Compatibility, PathObject

FreeForm == {"ap", "as", "wt", "wi"}   \* prefix_, suffix_, wallet_type_, _id_

\* path is <<>> or <<p>>; an algorithm or a format that is not set is "".
Address ==
  [chain : Chain, path : Seq(Path),
   algorithm : Algorithms \cup {""}, format : Formats \cup {""},
   free : [FreeForm -> Token]]

\* address(chain, path) before anything else is set
NewAddress(c, path) ==
  [chain |-> c, path |-> path, algorithm |-> "", format |-> "",
   free |-> [k \in FreeForm |-> Nothing]]

NoAddress == NewAddress(NoChain, <<>>)

Ok(a)         == [code |-> "ok", addr |-> a]
Fail(code, a) == [code |-> code, addr |-> a]

IsRoot(p) == p.type \in {NoType, "root"}

\* path_ holds a type other than root.
HasDerivation(a) == a.path # <<>> /\ ~ IsRoot(a.path[1])

\* check_path_set passes.
PathIsSet(a) == HasDerivation(a) => a.path[1].levels # <<>>

\* What every call leaves: parts that their own classes could have left, and
\* clean texts where they are written verbatim into the NSS.
Intact(a) ==
  /\ a \in Address
  /\ Clean(a.chain)
  /\ Len(a.path) <= 1
  /\ a.path # <<>> => Sound(a.path[1])
  /\ \A k \in FreeForm : Storable(a.free[k])

-----------------------------------------------------------------------------
(* Setters *)

\* path_.emplace() if there is none.
Emplaced(a) ==
  IF a.path = <<>> THEN [a EXCEPT !.path = <<EmptyPath(NoType)>>] ELSE a

\* derivation_path::set_type with a registered type.
Retyped(p, t) == IF t = p.type THEN p ELSE EmptyPath(t)

\* An empty type means root; an invalid one throws before the emplace.
SetDerivationType(a, dt) ==
  LET named == Normalize(dt)
      next  == IF IsEmpty(named) THEN "root" ELSE named.word
  IN IF ~ IsEmpty(named) /\ ~ IsName(named, DerivationTypes)
       THEN Fail("invalid_derivation_type", a)
     ELSE Ok([a EXCEPT !.path = <<Retyped(Emplaced(a).path[1], next)>>])

\* derivation_path::parse_path, on the path of a.
ParsePathOf(a, text) ==
  IF Accepts(a.path[1].type, text)
    THEN Ok([a EXCEPT !.path = <<ParsedPath(a.path[1].type, text)>>])
  ELSE Fail(IF a.path[1].type = NoType THEN "invalid_derivation_type"
                                       ELSE "invalid_derivation_path", a)

\* Mutant: a path given to a root address is dropped.
SetDerivationPathDropping(a, dp) ==
  LET text == PathOf(Trim(dp))
      b    == Emplaced(a)
  IN IF IsRoot(b.path[1]) THEN Ok(b) ELSE ParsePathOf(b, LowerText(text))

\* Mutant: the empty path is taken by every type.
SetDerivationPathEmpty(a, dp) ==
  LET text == PathOf(Trim(dp))
      b    == Emplaced(a)
  IN IF text = EmptyText THEN Ok(b)
     ELSE IF ~ IsRoot(b.path[1]) THEN ParsePathOf(b, LowerText(text))
     ELSE Fail("invalid_derivation_path", b)

\* The emplace stays when the call throws, and when a root address takes the
\* empty path.
SetDerivationPath(a, dp) ==
  LET text == PathOf(Trim(dp))
      b    == Emplaced(a)
  IN IF ~ IsRoot(b.path[1]) THEN ParsePathOf(b, LowerText(text))
     ELSE IF text = EmptyText THEN Ok(b)
     ELSE Fail("invalid_derivation_path", b)

\* Mutant: applied to the address itself, not to a scratch one.
SetDerivationInPlace(a, dt, dp) ==
  LET typed == SetDerivationType(a, dt)
  IN IF typed.code # "ok" THEN typed ELSE SetDerivationPath(typed.addr, dp)

\* Both at once, through a scratch address: all or nothing.
SetDerivation(a, dt, dp) ==
  LET typed  == SetDerivationType(NoAddress, dt)
      pathed == SetDerivationPath(typed.addr, dp)
  IN IF typed.code # "ok" THEN Fail(typed.code, a)
     ELSE IF pathed.code # "ok" THEN Fail(pathed.code, a)
     ELSE Ok([a EXCEPT !.path = pathed.addr.path])

SetCoinType(a, ct) ==
  LET t == Trim(ct)
  IN IF IsEmpty(t) THEN Ok([a EXCEPT !.chain = ClearCoin(@)])
     ELSE IF IsUint32(t) THEN Ok([a EXCEPT !.chain = SetCoin(@, t.num)])
     ELSE Fail("invalid_coin_type", a)

SetAddressAlgorithm(a, aa) ==
  LET t == Normalize(aa)
  IN IF IsEmpty(t) \/ IsName(t, Algorithms)
       THEN Ok([a EXCEPT !.algorithm = t.word])
     ELSE Fail("invalid_algorithm", a)

SetAddressFormat(a, af) ==
  LET t == Normalize(af)
  IN IF IsEmpty(t) \/ IsName(t, Formats) THEN Ok([a EXCEPT !.format = t.word])
     ELSE Fail("invalid_format", a)

\* Mutant: a value with a separator in it is stored.
SetFreeFormUnchecked(a, k, v) == Ok([a EXCEPT !.free[k] = Trim(v)])

\* Mutants: the value is folded as the names are; the prefix is stored as the
\* suffix.
SetFreeFormFolded(a, k, v) ==
  IF NssBytes(Trim(v)) THEN Ok([a EXCEPT !.free[k] = Normalize(v)])
  ELSE Fail("invalid_value", a)

SetFreeFormSwapped(a, k, v) ==
  IF NssBytes(Trim(v))
    THEN Ok([a EXCEPT !.free[IF k = "ap" THEN "as" ELSE k] = Trim(v)])
  ELSE Fail("invalid_value", a)

\* set_address_prefix, set_address_suffix, set_wallet_type, set_wallet_id
SetFreeForm(a, k, v) ==
  IF NssBytes(Trim(v)) THEN Ok([a EXCEPT !.free[k] = Trim(v)])
  ELSE Fail("invalid_value", a)

\* The code of the first call of a sequence that throws.
FirstFailure(codes) ==
  LET bad == {i \in DOMAIN codes : codes[i] # "ok"}
  IN IF bad = {} THEN "ok"
     ELSE codes[CHOOSE i \in bad : \A j \in bad : i <= j]

\* address(chain, path, algorithm, format, prefix, suffix)
Construct6(c, path, aa, af, ap, as) ==
  LET r1 == SetAddressAlgorithm(NewAddress(c, path), aa)
      r2 == SetAddressFormat(r1.addr, af)
      r3 == SetFreeForm(r2.addr, "ap", ap)
      r4 == SetFreeForm(r3.addr, "as", as)
  IN Fail(FirstFailure(<<r1.code, r2.code, r3.code, r4.code>>), r4.addr)

-----------------------------------------------------------------------------
(* Rendering *)

Optional(key, value) == IF IsEmpty(value) THEN <<>> ELSE Field(key, value)

\* Mutant: coin 0, Bitcoin's, is taken for no coin.
CoinFieldNonZero(c) ==
  IF c.coin \in {<<>>, <<0>>} THEN <<>> ELSE Field("ct", Number(c.coin[1]))

CoinField(c) == IF c.coin = <<>> THEN <<>> ELSE Field("ct", Number(c.coin[1]))

\* Mutant: a type that has no path yet is left out.
DerivationFieldsWithPath(a) ==
  IF ~ HasDerivation(a) \/ a.path[1].levels = <<>> THEN <<>>
  ELSE Field("dt", Plain(a.path[1].type))
       \o Field("dp", PathToken(Str(a.path[1])))

\* A type without a path is emitted without dp.
DerivationFields(a) ==
  IF ~ HasDerivation(a) THEN <<>>
  ELSE Field("dt", Plain(a.path[1].type))
       \o Optional("dp", PathToken(Str(a.path[1])))

\* nss(): identity first, so that the chain key is a prefix of it.
Nss(a) ==
  ChainKey(a.chain) \o CoinField(a.chain) \o DerivationFields(a)
  \o Optional("aa", Plain(a.algorithm)) \o Optional("af", Plain(a.format))
  \o Optional("ap", a.free["ap"]) \o Optional("as", a.free["as"])
  \o Optional("wt", a.free["wt"]) \o Optional("wi", a.free["wi"])

\* A URN: whether it begins with urn:mhda: in any case, and what follows.
Urn(mhda, parts) == [mhda |-> mhda, parts |-> parts]

UrnOf(a) == Urn(TRUE, Nss(a))

MarshalCode(a) ==
  IF a.chain.network = "" THEN "uninitialized_address"
  ELSE IF ~ PathIsSet(a) THEN "invalid_derivation_path"
  ELSE "ok"

-----------------------------------------------------------------------------
(* Parsing *)

ParseComponents(m) ==
  LET built == BuildChain(m)
      r1 == SetDerivation(NewAddress(built.chain, <<>>), Get(m, "dt"),
                          Get(m, "dp"))
      r2 == SetAddressAlgorithm(r1.addr, Get(m, "aa"))
      r3 == SetAddressFormat(r2.addr, Get(m, "af"))
      r4 == SetFreeForm(r3.addr, "ap", Get(m, "ap"))
      r5 == SetFreeForm(r4.addr, "as", Get(m, "as"))
      r6 == SetFreeForm(r5.addr, "wt", Get(m, "wt"))
      r7 == SetFreeForm(r6.addr, "wi", Get(m, "wi"))
      code == FirstFailure(<<built.code, r1.code, r2.code, r3.code, r4.code,
                             r5.code, r6.code, r7.code>>)
  IN IF code = "ok" THEN Ok(r7.addr) ELSE Fail(code, NoAddress)

\* parse_nss
ParseNss(text) ==
  LET parts == TrimEnd(text)
  IN IF NssOk(parts) THEN ParseComponents(Components(parts))
     ELSE Fail("invalid_nss", NoAddress)

\* parse_urn
ParseUrn(urn) ==
  IF urn.mhda THEN ParseNss(StripRqf(TrimEnd(urn.parts)))
  ELSE Fail("invalid_urn", NoAddress)

-----------------------------------------------------------------------------
(* Strict validation *)

ResolvedAlgorithm(a) ==
  IF a.algorithm # "" THEN a.algorithm ELSE DefaultAlgorithm(a.chain.network)

ResolvedFormat(a) ==
  IF a.format # "" THEN a.format ELSE DefaultFormat(a.chain.network)

\* Mutants: cip11 has a second name; the levels are compared with the algorithm
\* the caller set, not with the one it resolves to.
DerivationFitsTwice(a, algo, fmt) ==
  LET nt == a.chain.network
      p  == a.path[1]
  IN /\ p.type \in Matrix[nt].derivations
     /\ algo \in DerivationAlgorithms(nt, p.type)
     /\ fmt = "" \/ fmt \in DerivationFormats(nt, p.type)
     /\ (algo = "ed25519" /\ p.type # "cip1852") =>
          \A i \in DOMAIN p.levels : p.levels[i].hard

DerivationFitsExplicit(a, algo, fmt) ==
  LET nt == a.chain.network
      p  == a.path[1]
  IN /\ p.type \in Matrix[nt].derivations
     /\ algo \in DerivationAlgorithms(nt, p.type)
     /\ fmt = "" \/ fmt \in DerivationFormats(nt, p.type)
     /\ (a.algorithm = "ed25519" /\ p.type # "cip1852") =>
          \A i \in DOMAIN p.levels : p.levels[i].hard
     /\ ~ (nt = "cosmos" /\ p.type = "bip44" /\ p.coin = 118)

\* The derivation of a is one the network has, with this curve and format.
DerivationFits(a, algo, fmt) ==
  LET nt == a.chain.network
      p  == a.path[1]
  IN /\ p.type \in Matrix[nt].derivations
     /\ algo \in DerivationAlgorithms(nt, p.type)
     /\ fmt = "" \/ fmt \in DerivationFormats(nt, p.type)
     /\ (algo = "ed25519" /\ p.type # "cip1852") =>
          \A i \in DOMAIN p.levels : p.levels[i].hard
     /\ ~ (nt = "cosmos" /\ p.type = "bip44" /\ p.coin = 118)

Compatible(a) ==
  LET nt   == a.chain.network
      algo == ResolvedAlgorithm(a)
      fmt  == ResolvedFormat(a)
  IN /\ nt \in DOMAIN Matrix
     /\ algo \in Matrix[nt].algorithms
     /\ fmt = "" \/ fmt \in Matrix[nt].formats
     /\ HasDerivation(a) => DerivationFits(a, algo, fmt)

Validate(a) ==
  IF MarshalCode(a) # "ok" THEN MarshalCode(a)
  ELSE IF Compatible(a) THEN "ok" ELSE "incompatible"

\* parse_urn_strict
ParseUrnStrict(urn) ==
  LET parsed == ParseUrn(urn)
  IN IF parsed.code # "ok" THEN parsed
     ELSE IF Validate(parsed.addr) = "ok" THEN parsed
     ELSE Fail(Validate(parsed.addr), NoAddress)

\* describe of examples/by_key.cpp: the exit code for what parse_urn returned.
Describe(parsed) ==
  IF parsed.code # "ok" THEN 2
  ELSE IF Validate(parsed.addr) = "ok" THEN 0
  ELSE 1

=============================================================================
