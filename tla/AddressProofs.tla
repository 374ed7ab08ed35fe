--------------------------- MODULE AddressProofs ---------------------------
(***************************************************************************)
(* Theorems about the address object, for every set of words, arguments    *)
(* and texts.                                                              *)
(***************************************************************************)
EXTENDS Address, ValueLemmas

\* The type a path is read by.
SameType(a, b) ==
  /\ HasDerivation(a) <=> HasDerivation(b)
  /\ HasDerivation(a) => a.path[1].type = b.path[1].type

\* What an edit may change: the component it is named for.
Edited(edit, a, b) ==
  \/ /\ edit = "nt" /\ OnlyChain(a, b)
     /\ b.chain.id = a.chain.id /\ b.chain.coin = a.chain.coin
  \/ /\ edit = "ci" /\ OnlyChain(a, b)
     /\ b.chain.network = a.chain.network /\ b.chain.coin = a.chain.coin
  \/ /\ edit = "ct" /\ OnlyChain(a, b)
     /\ b.chain.network = a.chain.network /\ b.chain.id = a.chain.id
  \/ edit = "derivation" /\ OnlyPath(a, b)
  \/ edit = "dp" /\ OnlyPath(a, b) /\ SameType(a, b)
  \/ edit = "aa" /\ OnlyAlgorithm(a, b)
  \/ edit = "af" /\ OnlyFormat(a, b)
  \/ edit \in FreeForm /\ OnlyFree(a, b, edit)

\* Each is an edit the descriptor knows.
LEMMA EditNames ==
  ASSUME NEW edit, NEW a, NEW b, Edited(edit, a, b)
  PROVE  edit \in D!Edits
BY DEF Edited, D!Edits, FreeForm

-----------------------------------------------------------------------------
(* Steps *)

\* The arguments the calls take are proper tokens, and the texts URNs.
LEMMA Arguments ==
  /\ NetworkArgs \subseteq ProperToken /\ IdArgs \subseteq ProperToken
  /\ CtArgs \subseteq ProperToken /\ DtArgs \subseteq ProperToken
  /\ DpArgs \subseteq ProperToken /\ AaArgs \subseteq ProperToken
  /\ AfArgs \subseteq ProperToken
  /\ \A k \in FreeForm : FreeArgs[k] \subseteq ProperToken
  /\ Urns \subseteq UrnText
  /\ ProperToken \subseteq Token
<1>1. /\ NetworkArgs \cup IdArgs \subseteq ProperToken
      /\ CtArgs \cup DtArgs \cup DpArgs \cup AaArgs \cup AfArgs
           \subseteq ProperToken
      /\ FreeArgs \in [FreeForm -> SUBSET ProperToken]
      /\ Urns \subseteq UrnText
  BY AddressArgsAssumption, Zenon DEF UrnText
<1>2. \A k \in FreeForm : FreeArgs[k] \subseteq ProperToken
  BY <1>1
<1> QED
  BY <1>1, <1>2, ProperTokens

\* The mark for no text is itself a URN text, without the prefix.
LEMMA NoUrnTyped == NoUrn \in UrnText
<1>1. <<>> \in Seq(ProperToken)
  OBVIOUS
<1> QED
  BY <1>1 DEF NoUrn, Urn, UrnText

\* A call whose result replaces the object leaves it alone when it throws.
LEMMA Replaced ==
  ASSUME Intact(addr), NEW result \in AddressResult,
         NEW kind \in {"construct", "parse"}, NEW urn \in UrnText,
         Return(Replace(result), kind, urn)
  PROVE  /\ Intact(addr') /\ outcome' \in AddressCodes
         /\ call' = kind /\ read' = urn
         /\ outcome' = result.code
         /\ outcome' = "ok" => addr' = result.addr
         /\ outcome' # "ok" => addr' = addr
<1> DEFINE r == Replace(result)
<1>1. /\ addr' = r.addr /\ outcome' = r.code /\ call' = kind /\ read' = urn
  BY Zenon DEF Return
<1>2. Intact(result.addr) /\ result.code \in AddressCodes
  BY ResultFields
<1>3. CASE result.code = "ok"
  BY <1>1, <1>2, <1>3, Zenon DEF Replace
<1>4. CASE result.code # "ok"
  <2>1. r = Fail(result.code, addr)
    BY <1>4, Zenon DEF Replace
  <2> HIDE DEF r
  <2>2. r.code = result.code /\ r.addr = addr
    BY <1>2, <2>1, FailResult
  <2> QED
    BY <1>1, <1>2, <1>4, <2>2, Zenon
<1> QED
  BY <1>3, <1>4

\* Constructing: an address without wallet metadata.
LEMMA Constructed ==
  ASSUME Intact(addr),
         NEW c, Clean(c), NEW s \in Seq(Path), Len(s) <= 1,
         s # <<>> => Sound(s[1]), NEW aa \in Token, NEW af \in Token,
         NEW v1 \in ProperToken, NEW v2 \in ProperToken,
         Construct(c, s, aa, af, v1, v2)
  PROVE  /\ Intact(addr') /\ outcome' \in AddressCodes
         /\ call' = "construct" /\ read' = NoUrn
         /\ outcome' = "ok" =>
              addr'.free["wt"] = Nothing /\ addr'.free["wi"] = Nothing
         /\ outcome' # "ok" => addr' = addr
<1> DEFINE r == Construct6(c, s, aa, af, v1, v2)
<1>1. /\ r \in AddressResult
      /\ r.addr.free["wt"] = Nothing /\ r.addr.free["wi"] = Nothing
  <2>1. ASSUME NEW x, x = Construct6(c, s, aa, af, v1, v2)
        PROVE  /\ x \in AddressResult
               /\ x.addr.free["wt"] = Nothing /\ x.addr.free["wi"] = Nothing
    BY <2>1, Construct6Result
  <2> QED
    BY <2>1, Zenon
<1>2. Return(Replace(r), "construct", NoUrn)
  BY Zenon DEF Construct
<1> HIDE DEF r
<1> QED
  BY <1>1, <1>2, NoUrnTyped, Replaced

\* A construction brings a whole intact address, or leaves the old one.
LEMMA ConstructStep ==
  ASSUME Intact(addr), CallConstruct
  PROVE  /\ Intact(addr') /\ outcome' \in AddressCodes
         /\ call' = "construct" /\ read' = NoUrn
         /\ outcome' = "ok" =>
              addr'.free["wt"] = Nothing /\ addr'.free["wi"] = Nothing
         /\ outcome' # "ok" => addr' = addr
<1>1. PICK c \in ChainArgs, path \in {<<>>} \cup {<<p>> : p \in PathArgs},
           aa \in AaArgs, af \in AfArgs, v1 \in FreeArgs["ap"],
           v2 \in FreeArgs["as"] : Construct(c, path, aa, af, v1, v2)
  BY Zenon DEF CallConstruct
<1>2. Clean(c)
  BY AddressArgsAssumption
<1>3. path \in Seq(Path) /\ Len(path) <= 1 /\ (path # <<>> => Sound(path[1]))
  <2>1. CASE path = <<>>
    BY <2>1
  <2>2. CASE path # <<>>
    <3>1. PICK p \in PathArgs : path = <<p>>
      BY <2>2
    <3>2. p \in Path /\ Sound(p)
      BY AddressArgsAssumption, Zenon
    <3> QED
      BY <3>1, <3>2, OnePath, Zenon
  <2> QED
    BY <2>1, <2>2
<1>4. /\ aa \in Token /\ af \in Token
      /\ v1 \in ProperToken /\ v2 \in ProperToken
  <2>1. "ap" \in FreeForm /\ "as" \in FreeForm
    BY DEF FreeForm
  <2> QED
    BY <2>1, Arguments, Zenon
<1> QED
  BY <1>1, <1>2, <1>3, <1>4, Constructed, Zenon

\* Parsing: a whole address or none.
LEMMA ParseStep ==
  ASSUME Intact(addr), CallParser
  PROVE  /\ Intact(addr') /\ outcome' \in AddressCodes
         /\ call' = "parse" /\ read' \in UrnText
         /\ outcome' = "ok" => Parsed(addr')
         /\ outcome' # "ok" => addr' = addr
<1>1. PICK urn \in Urns : Unmarshal(urn) \/ ReadStrict(urn) \/ ReadNss(urn)
  BY Zenon DEF CallParser
<1>2. urn \in UrnText
  BY Arguments
<1>3. urn.parts \in Seq(ProperToken)
  BY <1>2 DEF UrnText
<1>4. ASSUME NEW r \in AddressResult, r.code = "ok" => Parsed(r.addr),
             Reading(urn, r)
      PROVE  /\ Intact(addr') /\ outcome' \in AddressCodes
             /\ call' = "parse" /\ read' \in UrnText
             /\ outcome' = "ok" => Parsed(addr')
             /\ outcome' # "ok" => addr' = addr
  <2>1. Return(Replace(r), "parse", urn)
    BY <1>4, Zenon DEF Reading
  <2>2. "parse" \in {"construct", "parse"}
    OBVIOUS
  <2> QED
    BY <1>2, <1>4, <2>1, <2>2, Replaced, Zenon
<1>5. CASE Unmarshal(urn)
  BY <1>2, <1>4, <1>5, ParseUrnResult, Zenon DEF Unmarshal
<1>6. CASE ReadStrict(urn)
  BY <1>2, <1>4, <1>6, ParseUrnStrictResult, Zenon DEF ReadStrict
<1>7. CASE ReadNss(urn)
  BY <1>3, <1>4, <1>7, ParseNssResult, Zenon DEF ReadNss
<1> QED
  BY <1>1, <1>5, <1>6, <1>7

\* The path of an address is parsed by the type it has, which stays.
LEMMA ParseKeepsType ==
  ASSUME NEW a, Intact(a), a.path # <<>>, NEW text \in Text,
         NEW r, r = ParsePathOf(a, text)
  PROVE  SameType(a, r.addr)
<1>1. r.code # "ok" => r.addr = a
  BY ParsePathOfResult
<1>2. r.code = "ok" =>
        r.addr.path # <<>> /\ r.addr.path[1].type = a.path[1].type
  BY ParsePathOfResult
<1> QED
  BY <1>1, <1>2, Zenon DEF SameType, HasDerivation, IsRoot

\* So does set_derivation_path, which attaches a path without a type at most.
LEMMA PathKeepsType ==
  ASSUME NEW a, Intact(a), NEW dp \in Token,
         NEW r, r = SetDerivationPath(a, dp)
  PROVE  SameType(a, r.addr)
<1> DEFINE b == Emplaced(a)
<1>1. r.code # "ok" => r.addr = b
  BY SetDerivationPathResult
<1>2. r.code = "ok" =>
        r.addr.path # <<>> /\ r.addr.path[1].type = b.path[1].type
  BY SetDerivationPathResult
<1>3. b.path # <<>>
  BY EmplacedFacts
<1>4. SameType(a, b)
  <2>1. CASE a.path # <<>>
    <3>1. b = a
      BY <2>1, EmplacedFacts
    <3> QED
      BY <3>1, Zenon DEF SameType
  <2>2. CASE a.path = <<>>
    <3>1. b.path[1] = EmptyPath(NoType)
      BY <2>2, EmplacedFacts
    <3>2. EmptyPath(NoType).type = NoType
      BY EmptySound, Zenon
    <3> HIDE DEF b
    <3> QED
      BY <2>2, <3>1, <3>2, Zenon DEF SameType, HasDerivation, IsRoot
  <2> QED
    BY <2>1, <2>2
<1> HIDE DEF b
<1>5. SameType(b, r.addr)
  BY <1>1, <1>2, <1>3, Zenon DEF SameType, HasDerivation, IsRoot
<1> QED
  BY <1>4, <1>5, Zenon DEF SameType

\* A setter of the address, reached directly or through its path.
LEMMA EditResult ==
  ASSUME Intact(addr), NEW r \in AddressResult,
         NEW edit, Edited(edit, addr, r.addr),
         r.code # "ok" => r.addr \in {addr, Emplaced(addr)}, Finish(edit, r)
  PROVE  /\ Intact(addr') /\ outcome' \in AddressCodes
         /\ read' = NoUrn
         /\ Edited(call', addr, addr')
         /\ outcome' # "ok" => addr' \in {addr, Emplaced(addr)}
<1>1. addr' = r.addr /\ outcome' = r.code /\ call' = edit /\ read' = NoUrn
  BY Zenon DEF Finish, Return
<1>2. Intact(r.addr) /\ r.code \in AddressCodes
  BY ResultFields
<1> QED
  BY <1>1, <1>2, Zenon

\* A setter edits an intact address in one place, or fails and at most attaches
\* an empty path.
LEMMA SetterStep ==
  ASSUME Intact(addr), CallSetter
  PROVE  /\ Intact(addr') /\ outcome' \in AddressCodes
         /\ read' = NoUrn
         /\ Edited(call', addr, addr')
         /\ outcome' # "ok" => addr' \in {addr, Emplaced(addr)}
<1>1. CASE \E dt \in DtArgs : SetType(dt)
  <2>1. PICK dt \in DtArgs : SetType(dt)
    BY <1>1
  <2>2. dt \in Token
    BY Arguments
  <2> DEFINE r == SetDerivationType(addr, dt)
  <2>3. r \in AddressResult /\ OnlyPath(addr, r.addr) /\ (r.code # "ok" => r.addr = addr)
    BY <2>2, SetDerivationTypeResult
  <2> QED
    BY <2>1, <2>3, EditResult, Zenon DEF SetType, Edited
<1>2. CASE \E dp \in DpArgs : SetPath(dp)
  <2>1. PICK dp \in DpArgs : SetPath(dp)
    BY <1>2
  <2>2. dp \in Token
    BY Arguments
  <2> DEFINE r == SetDerivationPath(addr, dp)
  <2>3. /\ r \in AddressResult /\ OnlyPath(addr, r.addr)
        /\ r.code # "ok" => r.addr = Emplaced(addr)
    BY <2>2, SetDerivationPathResult
  <2>4. SameType(addr, r.addr)
    BY <2>2, PathKeepsType
  <2> QED
    BY <2>1, <2>3, <2>4, EditResult, Zenon DEF SetPath, Edited
<1>3. CASE \E dt \in DtArgs, dp \in DpArgs : SetTypeAndPath(dt, dp)
  <2>1. PICK dt \in DtArgs, dp \in DpArgs : SetTypeAndPath(dt, dp)
    BY <1>3
  <2>2. dt \in Token /\ dp \in Token
    BY Arguments
  <2> DEFINE r == SetDerivation(addr, dt, dp)
  <2>3. r \in AddressResult /\ OnlyPath(addr, r.addr) /\ (r.code # "ok" => r.addr = addr)
    BY <2>2, SetDerivationResult
  <2> QED
    BY <2>1, <2>3, EditResult, Zenon DEF SetTypeAndPath, Edited
<1>4. CASE \E ct \in CtArgs : SetCt(ct)
  <2>1. PICK ct \in CtArgs : SetCt(ct)
    BY <1>4
  <2>2. ct \in Token
    BY Arguments
  <2> DEFINE r == SetCoinType(addr, ct)
  <2>3. /\ r \in AddressResult /\ OnlyChain(addr, r.addr)
        /\ r.addr.chain.network = addr.chain.network
        /\ r.addr.chain.id = addr.chain.id
        /\ r.code # "ok" => r.addr = addr
    BY <2>2, SetCoinTypeResult
  <2> QED
    BY <2>1, <2>3, EditResult, Zenon DEF SetCt, Edited
<1>5. CASE \E aa \in AaArgs : SetAlgorithm(aa)
  <2>1. PICK aa \in AaArgs : SetAlgorithm(aa)
    BY <1>5
  <2>2. aa \in Token
    BY Arguments
  <2> DEFINE r == SetAddressAlgorithm(addr, aa)
  <2>3. r \in AddressResult /\ OnlyAlgorithm(addr, r.addr) /\ (r.code # "ok" => r.addr = addr)
    BY <2>2, SetAddressAlgorithmResult
  <2> QED
    BY <2>1, <2>3, EditResult, Zenon DEF SetAlgorithm, Edited
<1>6. CASE \E af \in AfArgs : SetFormat(af)
  <2>1. PICK af \in AfArgs : SetFormat(af)
    BY <1>6
  <2>2. af \in Token
    BY Arguments
  <2> DEFINE r == SetAddressFormat(addr, af)
  <2>3. r \in AddressResult /\ OnlyFormat(addr, r.addr) /\ (r.code # "ok" => r.addr = addr)
    BY <2>2, SetAddressFormatResult
  <2> QED
    BY <2>1, <2>3, EditResult, Zenon DEF SetFormat, Edited
<1>7. CASE \E k \in FreeForm : \E v \in FreeArgs[k] : SetFree(k, v)
  <2>0. PICK k \in FreeForm : \E v \in FreeArgs[k] : SetFree(k, v)
    BY <1>7
  <2>1. PICK v \in FreeArgs[k] : SetFree(k, v)
    BY <2>0
  <2>2. v \in Settable
    BY <2>1, Arguments, SettableTokens
  <2> DEFINE r == SetFreeForm(addr, k, v)
  <2>3. r \in AddressResult /\ OnlyFree(addr, r.addr, k) /\ (r.code # "ok" => r.addr = addr)
    BY <2>2, SetFreeFormResult
  <2> QED
    BY <2>1, <2>3, EditResult, Zenon DEF SetFree, Edited
<1> QED
  BY <1>1, <1>2, <1>3, <1>4, <1>5, <1>6, <1>7, Zenon DEF CallSetter

\* A setter of the chain that get_chain() hands out.
LEMMA ChainEdit ==
  ASSUME Intact(addr), NEW result \in Result, NEW edit, OnChain(edit, result),
         result.code \in {"ok", "invalid_network_type", "missing_chain_id",
                          "invalid_value"},
         result.code # "ok" => result.chain = addr.chain,
         NEW c, c = result.chain,
         \/ edit = "nt" /\ c.id = addr.chain.id /\ c.coin = addr.chain.coin
         \/ edit = "ci" /\ c.network = addr.chain.network
                        /\ c.coin = addr.chain.coin
         \/ edit = "ct" /\ c.network = addr.chain.network
                        /\ c.id = addr.chain.id
  PROVE  /\ Intact(addr') /\ outcome' \in AddressCodes
         /\ read' = NoUrn
         /\ Edited(call', addr, addr')
         /\ outcome' # "ok" => addr' \in {addr, Emplaced(addr)}
<1> DEFINE b == [addr EXCEPT !.chain = c]
           r == Fail(result.code, b)
<1>1. Clean(c) /\ result.code \in AddressCodes
  BY DEF Result, AddressCodes
<1>2. Intact(b) /\ b.chain = c /\ OnlyChain(addr, b)
  <2>1. b = [addr EXCEPT !.chain = c]
    OBVIOUS
  <2> HIDE DEF b
  <2> QED
    BY <1>1, <2>1, WithChain
<1>3. Finish(edit, r)
  BY Zenon DEF OnChain
<1>4. result.code # "ok" => b = addr
  <2>1. ASSUME NEW d, b.chain = addr.chain
        PROVE  b = addr
    BY <1>2, <2>1, AddressEqual, Zenon DEF Intact, OnlyChain
  <2> QED
    BY <1>2, <2>1, Zenon
<1> HIDE DEF b
<1>5. r \in AddressResult /\ r.code = result.code /\ r.addr = b
  BY <1>1, <1>2, FailResult
<1> HIDE DEF r
<1>6. Edited(edit, addr, r.addr)
  BY <1>2, <1>5, Zenon DEF Edited
<1> QED
  BY <1>3, <1>4, <1>5, <1>6, EditResult, Zenon

\* Assigning the path that path() hands out, or a part of it.
LEMMA PathEdit ==
  ASSUME Intact(addr), NEW s \in Seq(Path), Len(s) <= 1,
         s # <<>> => Sound(s[1]),
         Finish("derivation", Ok([addr EXCEPT !.path = s]))
  PROVE  /\ Intact(addr') /\ outcome' \in AddressCodes
         /\ read' = NoUrn
         /\ Edited(call', addr, addr')
         /\ outcome' # "ok" => addr' \in {addr, Emplaced(addr)}
<1> DEFINE b == [addr EXCEPT !.path = s]
           r == Ok(b)
<1>1. Intact(b) /\ OnlyPath(addr, b)
  BY WithPath, Zenon
<1>2. Finish("derivation", r)
  OBVIOUS
<1> HIDE DEF b
<1>3. r \in AddressResult /\ r.code = "ok" /\ r.addr = b
  BY <1>1, OkResult
<1> HIDE DEF r
<1> QED
  BY <1>1, <1>2, <1>3, EditResult, Zenon DEF Edited

\* So does a step taken through get_chain() or path().
LEMMA PartStep ==
  ASSUME Intact(addr), CallPart
  PROVE  /\ Intact(addr') /\ outcome' \in AddressCodes
         /\ read' = NoUrn
         /\ Edited(call', addr, addr')
         /\ outcome' # "ok" => addr' \in {addr, Emplaced(addr)}
<1> DEFINE c == addr.chain
<1>1. c \in Chain /\ Clean(c)
  BY DEF Intact, Clean
<1>2. CASE \E nt \in NetworkArgs : ChainSetNetwork(nt)
  <2>1. PICK nt \in NetworkArgs : ChainSetNetwork(nt)
    BY <1>2
  <2> DEFINE result == SetNetwork(c, nt)
  <2>2. result \in Result /\ (result.code # "ok" => result.chain = c)
    BY <1>1, SetNetworkResult, Zenon
  <2>3. /\ result.chain.id = c.id /\ result.chain.coin = c.coin
        /\ result.code \in {"ok", "invalid_network_type", "missing_chain_id",
                           "invalid_value"}
    <3> HIDE DEF c
    <3> QED
      BY <1>1 DEF SetNetwork, Done, Failed, Chain
  <2> QED
    BY <2>1, <2>2, <2>3, ChainEdit, Zenon DEF ChainSetNetwork
<1>3. CASE \E ci \in IdArgs : ChainSetId(ci)
  <2>1. PICK ci \in IdArgs : ChainSetId(ci)
    BY <1>3
  <2> DEFINE result == SetChainId(c, ci)
  <2>0. ci \in Token
    BY Arguments
  <2>2. result \in Result /\ (result.code # "ok" => result.chain = c)
    BY <1>1, <2>0, SetChainIdResult, Zenon
  <2>3. /\ result.chain.network = c.network /\ result.chain.coin = c.coin
        /\ result.code \in {"ok", "invalid_network_type", "missing_chain_id",
                           "invalid_value"}
    <3> HIDE DEF c
    <3> QED
      BY <1>1 DEF SetChainId, Done, Failed, Chain
  <2> QED
    BY <2>1, <2>2, <2>3, ChainEdit, Zenon DEF ChainSetId
<1>4. CASE \E n \in CoinArgs : ChainSetCoin(n)
  <2>1. PICK n \in CoinArgs : ChainSetCoin(n)
    BY <1>4
  <2> DEFINE result == Done(SetCoin(c, n))
  <2>2. n \in Uint32
    BY AddressArgsAssumption
  <2>3. result \in Result /\ result.code = "ok"
    BY <1>1, <2>2, CoinSettersResult DEF Done
  <2>4. result.chain.network = c.network /\ result.chain.id = c.id
    BY <1>1, <2>2, CoinStored, Zenon DEF Done
  <2> QED
    BY <2>1, <2>3, <2>4, ChainEdit, Zenon DEF ChainSetCoin
<1>5. CASE ChainClearCoin
  <2> DEFINE result == Done(ClearCoin(c))
  <2>3. result \in Result /\ result.code = "ok"
    BY <1>1, CoinSettersResult DEF Done
  <2>4. result.chain.network = c.network /\ result.chain.id = c.id
    BY <1>1, CoinCleared, Zenon DEF Done
  <2> QED
    BY <1>5, <2>3, <2>4, ChainEdit, Zenon DEF ChainClearCoin
<1>6. CASE DropPath
  <2>1. <<>> \in Seq(Path) /\ Len(<<>>) <= 1
    OBVIOUS
  <2> QED
    BY <1>6, <2>1, PathEdit, Zenon DEF DropPath
<1>7. ASSUME NEW p \in Path, Sound(p), AssignPath(p)
      PROVE  /\ Intact(addr') /\ outcome' \in AddressCodes
             /\ read' = NoUrn
             /\ Edited(call', addr, addr')
             /\ outcome' # "ok" => addr' \in {addr, Emplaced(addr)}
  <2>1. <<p>> \in Seq(Path) /\ Len(<<p>>) <= 1 /\ <<p>>[1] = p
    BY OnePath
  <2> QED
    BY <1>7, <2>1, PathEdit, Zenon DEF AssignPath
<1>8. CASE \E p \in PathArgs : AssignPath(p)
  <2>1. \A p \in PathArgs : p \in Path /\ Sound(p)
    BY AddressArgsAssumption, Zenon
  <2> QED
    BY <1>7, <1>8, <2>1, Zenon
<1>9. CASE \E t \in TypeArgs : PathSetType(t)
  <2>1. PICK t \in TypeArgs : PathSetType(t)
    BY <1>9
  <2> DEFINE p == Retyped(addr.path[1], t)
  <2>2. CASE t \in DerivationTypes
    <3>1. addr.path[1] \in Path /\ Sound(addr.path[1])
      BY <2>1, HeldPath, Zenon DEF PathSetType
    <3>2. p \in Path /\ Sound(p)
      BY <2>2, <3>1, RetypedFacts
    <3>3. AssignPath(p)
      BY <2>1, <2>2, Zenon DEF PathSetType, AssignPath
    <3> QED
      BY <1>7, <3>2, <3>3, Zenon
  <2>3. CASE t \notin DerivationTypes
    <3> DEFINE r == Fail("invalid_derivation_type", addr)
    <3>1. Finish("derivation", r)
      BY <2>1, <2>3, Zenon DEF PathSetType
    <3>2. r \in AddressResult /\ r.addr = addr
      BY FailureResult DEF AddressCodes
    <3> QED
      BY <3>1, <3>2, EditResult, Zenon DEF Edited, OnlyPath
  <2> QED
    BY <2>2, <2>3
<1>10. CASE \E text \in TextArgs : PathParse(text)
  <2>1. PICK text \in TextArgs : PathParse(text)
    BY <1>10
  <2> DEFINE r == ParsePathOf(addr, text)
  <2>2. text \in Text /\ addr.path # <<>> /\ Finish("dp", r)
    BY <2>1, AddressArgsAssumption, Zenon DEF PathParse
  <2>3. /\ r \in AddressResult /\ OnlyPath(addr, r.addr)
        /\ r.code # "ok" => r.addr = addr
    BY <2>2, ParsePathOfResult
  <2>4. SameType(addr, r.addr)
    BY <2>2, ParseKeepsType
  <2> QED
    BY <2>2, <2>3, <2>4, EditResult, Zenon DEF Edited
<1> QED
  BY <1>2, <1>3, <1>4, <1>5, <1>6, <1>8, <1>9, <1>10, Zenon DEF CallPart

-----------------------------------------------------------------------------
(* Theorems *)

\* A call leaves an intact address; one that fails leaves the address it had,
\* or attaches an empty path without a type.
LEMMA StepIsIntact ==
  ASSUME TypeOK, Next
  PROVE  /\ Intact(addr') /\ outcome' \in AddressCodes
         /\ read' \in UrnText /\ call' \in {"construct", "parse"} \cup D!Edits
         /\ outcome' # "ok" => addr' \in {addr, Emplaced(addr)}
<1>1. Intact(addr)
  BY DEF TypeOK
<1>2. CASE CallConstruct
  BY <1>1, <1>2, ConstructStep, NoUrnTyped, Zenon
<1>3. CASE CallSetter
  BY <1>1, <1>3, SetterStep, EditNames, NoUrnTyped, Zenon
<1>4. CASE CallPart
  BY <1>1, <1>4, PartStep, EditNames, NoUrnTyped, Zenon
<1>5. CASE CallParser
  BY <1>1, <1>5, ParseStep, Zenon
<1> QED
  BY <1>2, <1>3, <1>4, <1>5, Zenon DEF Next

\* Whatever is called, the address stays intact: typed, its verbatim fields
\* clean, its path empty or one its own text parses to.
THEOREM AddressTypeCorrect == Spec => []TypeOK
<1>1. Init => TypeOK
  BY NoAddressIntact, NoUrnTyped, Zenon DEF Init, TypeOK, Codes, UrnText
<1>2. AddressCodes \subseteq Codes
  BY DEF AddressCodes, Codes
<1>3. TypeOK /\ [Next]_vars => TypeOK'
  <2> SUFFICES ASSUME TypeOK, [Next]_vars PROVE TypeOK'
    OBVIOUS
  <2>1. CASE Next
    BY <1>2, <2>1, StepIsIntact, Zenon DEF TypeOK, UrnText
  <2>2. CASE UNCHANGED vars
    BY <2>2, Zenon DEF vars, TypeOK
  <2> QED
    BY <2>1, <2>2
<1> QED
  BY <1>1, <1>3, PTL DEF Spec

\* The URN does not tell an address without a path from one whose path has no
\* type: such a path names root.
LEMMA EmplacedKeepsUrn ==
  ASSUME NEW a, Intact(a)
  PROVE  UrnOf(Emplaced(a)) = UrnOf(a)
<1> DEFINE b == Emplaced(a)
<1>1. CASE a.path # <<>>
  BY <1>1, Zenon DEF Emplaced
<1>2. CASE a.path = <<>>
  <2>1. b.path[1] = EmptyPath(NoType) /\ OnlyPath(a, b)
    BY <1>2, EmplacedFacts, Zenon
  <2>2. EmptyPath(NoType).type = NoType
    BY EmptySound, Zenon
  <2>3. ~ HasDerivation(a) /\ ~ HasDerivation(b)
    BY <1>2, <2>1, <2>2, Zenon DEF HasDerivation, IsRoot
  <2>4. DerivationFields(a) = DerivationFields(b)
    BY <2>3, Zenon DEF DerivationFields
  <2>5. /\ b.chain = a.chain /\ b.algorithm = a.algorithm
        /\ b.format = a.format /\ b.free = a.free
    BY <2>1, Zenon DEF OnlyPath
  <2> HIDE DEF b
  <2>6. Nss(a) = Nss(b)
    BY <2>4, <2>5, Zenon DEF Nss
  <2> QED
    BY <2>6, Zenon DEF UrnOf, b
<1> QED
  BY <1>1, <1>2

\* A call that fails leaves the URN as it was, whatever came before.
THEOREM FailuresKeepUrn == Spec => FailureKeepsUrn
<1>1. TypeOK /\ [Next]_vars =>
        [outcome' # "ok" => UrnOf(addr') = UrnOf(addr)]_vars
  <2> SUFFICES ASSUME TypeOK, Next, outcome' # "ok"
               PROVE  UrnOf(addr') = UrnOf(addr)
    BY Zenon
  <2>1. Intact(addr)
    BY DEF TypeOK
  <2> QED
    BY <2>1, StepIsIntact, EmplacedKeepsUrn, Zenon
<1> QED
  BY <1>1, AddressTypeCorrect, PTL DEF Spec, FailureKeepsUrn

-----------------------------------------------------------------------------
(* The descriptor *)

\* What the address says of one key.
Part(a, k) ==
  CASE k = "nt" -> Present("nt", a.chain.network, "")
    [] k = "ci" -> Present("ci", a.chain.id, Nothing)
    [] k = "ct" -> Present("ct", a.chain.coin, <<>>)
    [] k = "dt" -> IF HasDerivation(a) THEN {<<"dt", a.path[1].type>>} ELSE {}
    [] k = "dp" -> IF HasDerivation(a)
                     THEN Present("dp", a.path[1].levels, <<>>) ELSE {}
    [] k = "aa" -> Present("aa", a.algorithm, "")
    [] k = "af" -> Present("af", a.format, "")
    [] k \in FreeForm -> Present(k, a.free[k], Nothing)

\* What the descriptor says under each key.
LEMMA PartOf ==
  ASSUME NEW a
  PROVE  /\ Part(a, "nt") = Present("nt", a.chain.network, "")
         /\ Part(a, "ci") = Present("ci", a.chain.id, Nothing)
         /\ Part(a, "ct") = Present("ct", a.chain.coin, <<>>)
         /\ Part(a, "dt") =
              IF HasDerivation(a) THEN {<<"dt", a.path[1].type>>} ELSE {}
         /\ Part(a, "dp") = IF HasDerivation(a)
                              THEN Present("dp", a.path[1].levels, <<>>) ELSE {}
         /\ Part(a, "aa") = Present("aa", a.algorithm, "")
         /\ Part(a, "af") = Present("af", a.format, "")
         /\ \A k \in FreeForm : Part(a, k) = Present(k, a.free[k], Nothing)
BY DEF Part, FreeForm

\* The descriptor is the union of its parts, and each part speaks of its key.
LEMMA DocParts ==
  ASSUME NEW a
  PROVE  /\ \A said : said \in Doc(a) <=> \E k \in Keys : said \in Part(a, k)
         /\ \A k \in Keys : \A said \in Part(a, k) : said[1] = k
<1>1. Keys = {"nt", "ci", "ct", "dt", "dp", "aa", "af"} \cup FreeForm
  BY DEF Keys, FreeForm
<1>2. Doc(a) = Part(a, "nt") \cup Part(a, "ci") \cup Part(a, "ct")
               \cup Part(a, "dt") \cup Part(a, "dp")
               \cup Part(a, "aa") \cup Part(a, "af")
               \cup UNION {Part(a, k) : k \in FreeForm}
  <2>1. UNION {Part(a, k) : k \in FreeForm} =
          UNION {Present(k, a.free[k], Nothing) : k \in FreeForm}
    BY PartOf, Zenon
  <2>2. Part(a, "dt") \cup Part(a, "dp") =
          IF HasDerivation(a)
            THEN {<<"dt", a.path[1].type>>}
                 \cup Present("dp", a.path[1].levels, <<>>)
          ELSE {}
    BY PartOf, Zenon
  <2>3. /\ Part(a, "nt") = Present("nt", a.chain.network, "")
        /\ Part(a, "ci") = Present("ci", a.chain.id, Nothing)
        /\ Part(a, "ct") = Present("ct", a.chain.coin, <<>>)
        /\ Part(a, "aa") = Present("aa", a.algorithm, "")
        /\ Part(a, "af") = Present("af", a.format, "")
    BY PartOf, Zenon
  <2> QED
    BY <2>1, <2>2, <2>3, Zenon DEF Doc
<1>3. ASSUME NEW said
      PROVE  said \in Doc(a) <=> \E k \in Keys : said \in Part(a, k)
  BY <1>1, <1>2, Zenon
<1>4. ASSUME NEW k, NEW value, NEW unset, NEW said \in Present(k, value, unset)
      PROVE  said[1] = k
  <2>1. said = <<k, value>>
    BY <1>4, Zenon DEF Present
  <2> QED
    BY <2>1
<1>5. ASSUME NEW said \in Part(a, "dt")
      PROVE  said[1] = "dt"
  <2>1. Part(a, "dt") \subseteq {<<"dt", a.path[1].type>>}
    BY PartOf
  <2>2. said = <<"dt", a.path[1].type>>
    BY <2>1
  <2> QED
    BY <2>2
<1>6. ASSUME NEW said \in Part(a, "dp")
      PROVE  said[1] = "dp"
  <2>1. Part(a, "dp") \subseteq Present("dp", a.path[1].levels, <<>>)
    BY PartOf
  <2>2. said \in Present("dp", a.path[1].levels, <<>>)
    BY <2>1
  <2> QED
    BY <1>4, <2>2, Zenon
<1>7. ASSUME NEW k \in Keys, NEW said \in Part(a, k)
      PROVE  said[1] = k
  <2>1. CASE k \in FreeForm
    <3>1. said \in Present(k, a.free[k], Nothing)
      BY <1>7, <2>1, PartOf
    <3> QED
      BY <1>4, <3>1, Zenon
  <2>2. CASE k = "nt"
    <3>1. said \in Present(k, a.chain.network, "")
      BY <1>7, <2>2, PartOf
    <3> QED
      BY <1>4, <3>1, Zenon
  <2>3. CASE k = "ci"
    <3>1. said \in Present(k, a.chain.id, Nothing)
      BY <1>7, <2>3, PartOf
    <3> QED
      BY <1>4, <3>1, Zenon
  <2>4. CASE k = "ct"
    <3>1. said \in Present(k, a.chain.coin, <<>>)
      BY <1>7, <2>4, PartOf
    <3> QED
      BY <1>4, <3>1, Zenon
  <2>5. CASE k = "aa"
    <3>1. said \in Present(k, a.algorithm, "")
      BY <1>7, <2>5, PartOf
    <3> QED
      BY <1>4, <3>1, Zenon
  <2>6. CASE k = "af"
    <3>1. said \in Present(k, a.format, "")
      BY <1>7, <2>6, PartOf
    <3> QED
      BY <1>4, <3>1, Zenon
  <2>7. CASE k \in {"dt", "dp"}
    BY <1>5, <1>6, <1>7, <2>7
  <2> QED
    BY <1>1, <2>1, <2>2, <2>3, <2>4, <2>5, <2>6, <2>7
<1> QED
  BY <1>3, <1>7, Zenon

\* A key is named by the descriptor when its part says something.
LEMMA NamesOf ==
  ASSUME NEW a, NEW k \in Keys
  PROVE  k \in D!Names(Doc(a)) <=> Part(a, k) # {}
<1>1. ASSUME NEW said \in Part(a, k)
      PROVE  k \in D!Names(Doc(a))
  <2>1. said \in Doc(a) /\ said[1] = k
    BY DocParts, Zenon
  <2> QED
    BY <2>1, Zenon DEF D!Names
<1>2. ASSUME k \in D!Names(Doc(a))
      PROVE  Part(a, k) # {}
  <2>1. PICK said \in Doc(a) : said[1] = k
    BY <1>2, Zenon DEF D!Names
  <2>2. PICK j \in Keys : said \in Part(a, j)
    BY DocParts, Zenon
  <2>3. j = k
    BY <2>1, <2>2, DocParts, Zenon
  <2> QED
    BY <2>2, <2>3, Zenon
<1> QED
  BY <1>1, <1>2, Zenon

\* The two addresses say the same of every other key.
SameBut(edit, a, b) ==
  \A k \in Keys \ D!Named(edit) : Part(a, k) = Part(b, k)

\* An edit changes what the address says of the key it is named for, or of its
\* type and path.
LEMMA EditedParts ==
  ASSUME NEW edit, NEW a, NEW b, Edited(edit, a, b)
  PROVE  SameBut(edit, a, b)
<1> SUFFICES \A k \in Keys \ D!Named(edit) : Part(a, k) = Part(b, k)
  BY DEF SameBut
<1>1. Keys = {"nt", "ci", "ct", "dt", "dp", "aa", "af"} \cup FreeForm
  BY DEF Keys, FreeForm
<1>2. ASSUME OnlyChain(a, b)
      PROVE  \A k \in Keys \ {"nt", "ci", "ct"} : Part(a, k) = Part(b, k)
  <2>1. HasDerivation(a) <=> HasDerivation(b)
    BY <1>2, Zenon DEF OnlyChain, HasDerivation
  <2>2. Part(a, "dt") = Part(b, "dt") /\ Part(a, "dp") = Part(b, "dp")
    BY <1>2, <2>1, PartOf, Zenon DEF OnlyChain
  <2>3. Part(a, "aa") = Part(b, "aa") /\ Part(a, "af") = Part(b, "af")
    BY <1>2, PartOf, Zenon DEF OnlyChain
  <2>4. \A k \in FreeForm : Part(a, k) = Part(b, k)
    BY <1>2, PartOf, Zenon DEF OnlyChain
  <2> QED
    BY <1>1, <2>2, <2>3, <2>4, Zenon
<1>3. ASSUME a.chain = b.chain
      PROVE  \A k \in {"nt", "ci", "ct"} : Part(a, k) = Part(b, k)
  BY <1>3, PartOf, Zenon
<1>4. ASSUME a.path = b.path
      PROVE  \A k \in {"dt", "dp"} : Part(a, k) = Part(b, k)
  <2>1. HasDerivation(a) <=> HasDerivation(b)
    BY <1>4, Zenon DEF HasDerivation
  <2> QED
    BY <1>4, <2>1, PartOf, Zenon
<1>5. CASE edit = "nt" /\ OnlyChain(a, b) /\ b.chain.id = a.chain.id
           /\ b.chain.coin = a.chain.coin
  <2>1. Part(a, "ci") = Part(b, "ci") /\ Part(a, "ct") = Part(b, "ct")
    BY <1>5, PartOf, Zenon
  <2>2. \A k \in Keys \ {"nt"} : Part(a, k) = Part(b, k)
    BY <1>2, <1>5, <2>1, Zenon
  <2>3. D!Named(edit) = {"nt"}
    BY <1>5 DEF D!Named
  <2> QED
    BY <2>2, <2>3, Zenon
<1>6. CASE edit = "ci" /\ OnlyChain(a, b) /\ b.chain.network = a.chain.network
           /\ b.chain.coin = a.chain.coin
  <2>1. Part(a, "nt") = Part(b, "nt") /\ Part(a, "ct") = Part(b, "ct")
    BY <1>6, PartOf, Zenon
  <2>2. \A k \in Keys \ {"ci"} : Part(a, k) = Part(b, k)
    BY <1>2, <1>6, <2>1, Zenon
  <2>3. D!Named(edit) = {"ci"}
    BY <1>6 DEF D!Named
  <2> QED
    BY <2>2, <2>3, Zenon
<1>7. CASE edit = "ct" /\ OnlyChain(a, b) /\ b.chain.network = a.chain.network
           /\ b.chain.id = a.chain.id
  <2>1. Part(a, "nt") = Part(b, "nt") /\ Part(a, "ci") = Part(b, "ci")
    BY <1>7, PartOf, Zenon
  <2>2. \A k \in Keys \ {"ct"} : Part(a, k) = Part(b, k)
    BY <1>2, <1>7, <2>1, Zenon
  <2>3. D!Named(edit) = {"ct"}
    BY <1>7 DEF D!Named
  <2> QED
    BY <2>2, <2>3, Zenon
<1>8. CASE edit = "derivation" /\ OnlyPath(a, b)
  <2>1. /\ Part(a, "aa") = Part(b, "aa") /\ Part(a, "af") = Part(b, "af")
        /\ \A k \in FreeForm : Part(a, k) = Part(b, k)
    BY <1>8, PartOf, Zenon DEF OnlyPath
  <2>2. \A k \in Keys \ {"dt", "dp"} : Part(a, k) = Part(b, k)
    BY <1>1, <1>3, <1>8, <2>1, Zenon DEF OnlyPath
  <2>3. D!Named(edit) = {"dt", "dp"}
    BY <1>8 DEF D!Named
  <2> QED
    BY <2>2, <2>3, Zenon
<1>9. CASE edit = "aa" /\ OnlyAlgorithm(a, b)
  <2>1. /\ Part(a, "af") = Part(b, "af")
        /\ \A k \in FreeForm : Part(a, k) = Part(b, k)
    BY <1>9, PartOf, Zenon DEF OnlyAlgorithm
  <2>2. \A k \in Keys \ {"aa"} : Part(a, k) = Part(b, k)
    BY <1>1, <1>3, <1>4, <1>9, <2>1, Zenon DEF OnlyAlgorithm
  <2>3. D!Named(edit) = {"aa"}
    BY <1>9 DEF D!Named
  <2> QED
    BY <2>2, <2>3, Zenon
<1>10. CASE edit = "af" /\ OnlyFormat(a, b)
  <2>1. /\ Part(a, "aa") = Part(b, "aa")
        /\ \A k \in FreeForm : Part(a, k) = Part(b, k)
    BY <1>10, PartOf, Zenon DEF OnlyFormat
  <2>2. \A k \in Keys \ {"af"} : Part(a, k) = Part(b, k)
    BY <1>1, <1>3, <1>4, <1>10, <2>1, Zenon DEF OnlyFormat
  <2>3. D!Named(edit) = {"af"}
    BY <1>10 DEF D!Named
  <2> QED
    BY <2>2, <2>3, Zenon
<1>11. CASE edit \in FreeForm /\ OnlyFree(a, b, edit)
  <2>0. /\ a.algorithm = b.algorithm /\ a.format = b.format
        /\ \A k \in FreeForm \ {edit} : a.free[k] = b.free[k]
    BY <1>11, Zenon DEF OnlyFree
  <2>1. /\ Part(a, "aa") = Part(b, "aa") /\ Part(a, "af") = Part(b, "af")
        /\ \A k \in FreeForm \ {edit} : Part(a, k) = Part(b, k)
    <3>1. Part(a, "aa") = Part(b, "aa") /\ Part(a, "af") = Part(b, "af")
      BY <2>0, PartOf, Zenon
    <3>2. ASSUME NEW k \in FreeForm \ {edit}
          PROVE  Part(a, k) = Part(b, k)
      <4>1. k \in FreeForm /\ a.free[k] = b.free[k]
        BY <2>0, Zenon
      <4>2. /\ Part(a, k) = Present(k, a.free[k], Nothing)
            /\ Part(b, k) = Present(k, b.free[k], Nothing)
        BY <4>1, PartOf, Zenon
      <4> QED
        BY <4>1, <4>2, Zenon
    <3> QED
      BY <3>1, <3>2, Zenon
  <2>2. \A k \in Keys \ {edit} : Part(a, k) = Part(b, k)
    BY <1>1, <1>3, <1>4, <1>11, <2>1, Zenon DEF OnlyFree
  <2>3. D!Named(edit) = {edit}
    BY <1>11 DEF D!Named, FreeForm
  <2> QED
    BY <2>2, <2>3, Zenon
<1>12. CASE edit = "dp" /\ OnlyPath(a, b) /\ SameType(a, b)
  <2>1. /\ Part(a, "aa") = Part(b, "aa") /\ Part(a, "af") = Part(b, "af")
        /\ \A k \in FreeForm : Part(a, k) = Part(b, k)
    BY <1>12, PartOf, Zenon DEF OnlyPath
  <2>2. Part(a, "dt") = Part(b, "dt")
    BY <1>12, PartOf, Zenon DEF SameType
  <2>3. \A k \in Keys \ {"dp"} : Part(a, k) = Part(b, k)
    BY <1>1, <1>3, <1>12, <2>1, <2>2, Zenon DEF OnlyPath
  <2>4. D!Named(edit) = {"dp"}
    BY <1>12 DEF D!Named
  <2> QED
    BY <2>3, <2>4, Zenon
<1> QED
  BY <1>5, <1>6, <1>7, <1>8, <1>9, <1>10, <1>11, <1>12, Zenon DEF Edited

\* What two addresses say differently is said of keys of which they say
\* different things.
LEMMA ChangedNames ==
  ASSUME NEW a, NEW b, NEW reach,
         \A k \in Keys \ reach : Part(a, k) = Part(b, k)
  PROVE  D!Names((Doc(a) \ Doc(b)) \cup (Doc(b) \ Doc(a))) \subseteq reach
<1>1. ASSUME NEW x, NEW y, NEW said \in Doc(x), said \notin Doc(y),
             \A k \in Keys \ reach : Part(x, k) = Part(y, k)
      PROVE  said[1] \in reach
  <2>1. PICK k \in Keys : said \in Part(x, k)
    BY DocParts, Zenon
  <2>2. said \notin Part(y, k)
    BY <1>1, DocParts, Zenon
  <2>3. said[1] = k
    BY <2>1, DocParts, Zenon
  <2> QED
    BY <1>1, <2>1, <2>2, <2>3, Zenon
<1>2. \A k \in Keys \ reach : Part(b, k) = Part(a, k)
  BY Zenon
<1>3. \A said \in (Doc(a) \ Doc(b)) \cup (Doc(b) \ Doc(a)) : said[1] \in reach
  BY <1>1, <1>2, Zenon
<1> QED
  BY <1>3, Zenon DEF D!Names

\* An empty path without a type says nothing.
LEMMA EmplacedSaysNothing ==
  ASSUME NEW a, Intact(a)
  PROVE  Doc(Emplaced(a)) = Doc(a)
<1> DEFINE b == Emplaced(a)
<1>1. CASE a.path # <<>>
  BY <1>1, Zenon DEF Emplaced
<1>2. CASE a.path = <<>>
  <2>1. b.path[1] = EmptyPath(NoType) /\ OnlyPath(a, b)
    BY <1>2, EmplacedFacts, Zenon
  <2>2. EmptyPath(NoType).type = NoType
    BY EmptySound, Zenon
  <2>3. ~ HasDerivation(a) /\ ~ HasDerivation(b)
    BY <1>2, <2>1, <2>2, Zenon DEF HasDerivation, IsRoot
  <2>4. /\ b.chain = a.chain /\ b.algorithm = a.algorithm
        /\ b.format = a.format /\ b.free = a.free
    BY <2>1, Zenon DEF OnlyPath
  <2> HIDE DEF b
  <2>5. Doc(a) = Doc(b)
    BY <2>3, <2>4, Zenon DEF Doc
  <2> QED
    BY <2>5, Zenon DEF b
<1> QED
  BY <1>1, <1>2

\* Every step of the address is a step of its descriptor.
LEMMA StepOfDescriptor ==
  ASSUME TypeOK, Next
  PROVE  D!Next
<1>1. Intact(addr)
  BY DEF TypeOK
<1>2. outcome' \in AddressCodes /\ outcome' # "none"
  BY StepIsIntact DEF AddressCodes
<1>3. D!Coherent(Doc(addr'))
  <2>1. Part(addr', "dp") # {} => Part(addr', "dt") # {}
    BY PartOf, Zenon
  <2>2. "dp" \in Keys /\ "dt" \in Keys
    BY DEF Keys
  <2> QED
    BY <2>1, <2>2, NamesOf, Zenon DEF D!Coherent
<1>4. CASE outcome' # "ok"
  <2>1. LastCall' = "refused"
    BY <1>2, <1>4, Zenon DEF LastCall
  <2>2. Doc(addr') = Doc(addr)
    BY <1>1, <1>4, StepIsIntact, EmplacedSaysNothing, Zenon
  <2> QED
    BY <2>1, <2>2, Zenon DEF D!Next, D!Refuse
<1>5. CASE outcome' = "ok" /\ CallConstruct
  <2>1. LastCall' = "built"
    BY <1>1, <1>5, ConstructStep DEF LastCall
  <2>2. addr'.free["wt"] = Nothing /\ addr'.free["wi"] = Nothing
    BY <1>1, <1>5, ConstructStep, Zenon
  <2>3. {"wt", "wi"} \subseteq Keys \cap FreeForm
    BY DEF Keys, FreeForm
  <2>4. Part(addr', "wt") = {} /\ Part(addr', "wi") = {}
    BY <2>2, <2>3, PartOf, Zenon DEF Present
  <2>5. D!Names(Doc(addr')) \cap {"wt", "wi"} = {}
    BY <2>3, <2>4, NamesOf, Zenon
  <2> QED
    BY <1>3, <2>1, <2>5, Zenon DEF D!Next, D!Build
<1>6. CASE outcome' = "ok" /\ (CallSetter \/ CallPart)
  <2>1. Edited(call', addr, addr') /\ call' \in D!Edits
    BY <1>1, <1>6, SetterStep, PartStep, EditNames, Zenon
  <2>2. LastCall' = call'
    <3>1. call' \notin {"construct", "parse"}
      BY <2>1 DEF D!Edits
    <3>2. call' # "construct" /\ call' # "parse"
      BY <3>1
    <3>3. outcome' = "ok" /\ outcome' # "none"
      BY <1>2, <1>6
    <3> QED
      BY <3>2, <3>3 DEF LastCall
  <2>3. \A k \in Keys \ D!Named(call') : Part(addr, k) = Part(addr', k)
    <3>1. SameBut(call', addr, addr')
      BY <2>1, EditedParts, Zenon
    <3> QED
      BY <3>1, Zenon DEF SameBut
  <2>4. D!Names((Doc(addr) \ Doc(addr')) \cup (Doc(addr') \ Doc(addr)))
          \subseteq D!Named(call')
    BY <2>3, ChangedNames, Zenon
  <2>5. D!Changed \subseteq D!Named(call')
    BY <2>4, Zenon DEF D!Changed
  <2> QED
    BY <1>3, <2>1, <2>2, <2>5, Zenon DEF D!Next, D!Edit
<1>7. CASE outcome' = "ok" /\ CallParser
  <2>1. call' = "parse" /\ Parsed(addr')
    BY <1>1, <1>7, ParseStep, Zenon
  <2>2. LastCall' = "read"
    BY <1>7, <2>1 DEF LastCall
  <2>3. Part(addr', "nt") # {} /\ Part(addr', "ci") # {}
    BY <2>1, PartOf, Zenon DEF Parsed, Whole, Present
  <2>4. Part(addr', "dt") # {} <=> Part(addr', "dp") # {}
    BY <2>1, PartOf, Zenon DEF Parsed, PathIsSet, Present
  <2>5. {"nt", "ci", "dt", "dp"} \subseteq Keys
    BY DEF Keys
  <2>6. D!Whole(Doc(addr'))
    BY <2>3, <2>4, <2>5, NamesOf, Zenon DEF D!Whole
  <2> QED
    BY <2>2, <2>6, Zenon DEF D!Next, D!Read
<1> QED
  BY <1>4, <1>5, <1>6, <1>7, Zenon DEF Next

\* The address implements its descriptor: a call named for a component changes
\* no other (a type and its path go together), no call leaves a path without its
\* type, a parser brings a whole identity, and a call that fails changes nothing
\* (ImplementsDescriptor).
THEOREM DescriptorIsImplemented == Spec => ImplementsDescriptor
<1>1. Init => D!Init
  <2> SUFFICES ASSUME Init PROVE D!Init
    OBVIOUS
  <2>1. LastCall = "none"
    BY DEF Init, LastCall
  <2>2. addr = NoAddress
    BY DEF Init
  <2>3. ~ HasDerivation(NoAddress)
    BY NoAddressIntact, Zenon DEF HasDerivation
  <2>4. /\ NoAddress.chain.network = "" /\ NoAddress.chain.id = Nothing
        /\ NoAddress.chain.coin = <<>>
    <3>1. /\ NoChain.network = "" /\ NoChain.id = Nothing
          /\ NoChain.coin = <<>>
      BY DEF NoChain
    <3> QED
      BY <3>1, NoAddressIntact, Zenon
  <2>5. /\ NoAddress.algorithm = "" /\ NoAddress.format = ""
        /\ \A k \in FreeForm : NoAddress.free[k] = Nothing
    BY NoAddressIntact, Zenon
  <2>6. Doc(NoAddress) = {}
    BY <2>3, <2>4, <2>5, Zenon DEF Doc, Present
  <2> QED
    BY <2>1, <2>2, <2>6, Zenon DEF D!Init
<1>2. TypeOK /\ [Next]_vars => [D!Next]_(D!docVars)
  <2> SUFFICES ASSUME TypeOK, [Next]_vars PROVE [D!Next]_(D!docVars)
    OBVIOUS
  <2>1. CASE Next
    BY <2>1, StepOfDescriptor, Zenon
  <2>2. CASE UNCHANGED vars
    <3>1. addr' = addr /\ outcome' = outcome /\ call' = call
      BY <2>2, Zenon DEF vars
    <3>2. Doc(addr)' = Doc(addr)
      BY <3>1, Zenon
    <3>3. LastCall' = LastCall
      BY <3>1 DEF LastCall
    <3> QED
      BY <3>2, <3>3, Zenon DEF D!docVars
  <2> QED
    BY <2>1, <2>2
<1> QED
  BY <1>1, <1>2, AddressTypeCorrect, PTL DEF Spec, ImplementsDescriptor, D!Spec

-----------------------------------------------------------------------------
(* The URN of an address *)

\* What marshal_text returns is read back as the same address; the URN of any
\* other address is refused.
LEMMA UrnReads ==
  ASSUME NEW a, Intact(a)
  PROVE  /\ MarshalCode(a) = "ok" /\ a.chain.id # Nothing =>
              ParseUrn(UrnOf(a)) = Ok(Normal(a))
         /\ MarshalCode(a) # "ok" => ParseUrn(UrnOf(a)).code # "ok"
<1> DEFINE r == ParseUrn(UrnOf(a))
           n == Normal(a)
<1>1. MarshalCode(a) = "ok" <=> a.chain.network # "" /\ PathIsSet(a)
  BY DEF MarshalCode
<1>2. Intact(n) /\ OnlyPath(a, n)
      /\ (HasDerivation(a) => n.path = a.path)
      /\ (~ HasDerivation(a) => n.path = <<EmptyPath("root")>>)
  <2>1. CASE HasDerivation(a)
    <3>1. n = a
      BY <2>1, Zenon DEF Normal
    <3> QED
      BY <2>1, <3>1, Zenon DEF OnlyPath
  <2>2. CASE ~ HasDerivation(a)
    <3> DEFINE p == EmptyPath("root")
    <3>1. p \in Path /\ Sound(p)
      BY EmptySound DEF DerivationTypes
    <3> HIDE DEF p
    <3>2. <<p>> \in Seq(Path) /\ Len(<<p>>) <= 1 /\ <<p>>[1] = p
      BY <3>1
    <3> DEFINE s == <<p>>
    <3> HIDE DEF s
    <3>3. s \in Seq(Path) /\ Len(s) <= 1 /\ (s # <<>> => Sound(s[1]))
      BY <3>1, <3>2, Zenon DEF s
    <3>4. n = [a EXCEPT !.path = s]
      BY <2>2, Zenon DEF Normal, s, p
    <3>5. Intact(n) /\ n.path = s /\ OnlyPath(a, n)
      BY <3>3, <3>4, WithPath, Zenon
    <3> QED
      BY <2>2, <3>5 DEF s, p
  <2> QED
    BY <2>1, <2>2
<1> HIDE DEF n
<1>3. CASE Whole(a.chain)
  <2>1. /\ r \in AddressResult
        /\ r.code = "ok" <=> PathIsSet(a)
        /\ r.code = "ok" =>
             /\ r.addr.chain = a.chain
             /\ HasDerivation(a) => r.addr.path = a.path
             /\ ~ HasDerivation(a) => r.addr.path = <<EmptyPath("root")>>
             /\ r.addr.algorithm = a.algorithm
             /\ r.addr.format = a.format
             /\ r.addr.free = a.free
    BY <1>3, WholeUrnParses
  <2> HIDE DEF r
  <2>2. ASSUME r.code = "ok"
        PROVE  r = Ok(n)
    <3>1. r.addr \in Address /\ n \in Address
      BY <1>2, <2>1, ResultFields DEF Intact
    <3>2. r.addr = n
      BY <1>2, <2>1, <2>2, <3>1, AddressEqual DEF OnlyPath
    <3>3. r = [code |-> r.code, addr |-> r.addr]
      BY <2>1 DEF AddressResult
    <3> QED
      BY <2>2, <3>2, <3>3, Zenon DEF Ok
  <2> QED
    BY <1>1, <1>3, <2>1, <2>2, Zenon DEF Whole, r, n
<1>4. CASE ~ Whole(a.chain)
  <2> DEFINE s == Nss(a)
  <2>1. ~ NssOk(s)
    BY <1>4, HalfChainIsRefused
  <2>2. s \in Seq(CleanToken) /\ Len(s) # 1
    BY NssTokens
  <2>3. UrnOf(a).mhda = TRUE /\ UrnOf(a).parts = s
    BY DEF UrnOf, Urn
  <2> HIDE DEF s
  <2>4. TrimEnd(s) = s /\ StripRqf(s) = s
    BY <2>2, CleanTextKept, Zenon
  <2>5. r = Fail("invalid_nss", NoAddress)
    BY <2>1, <2>3, <2>4, Zenon DEF ParseUrn, ParseNss
  <2>6. r.code # "ok"
    BY <2>5 DEF Fail
  <2> QED
    BY <1>1, <1>4, <2>6, Zenon DEF Whole
<1> QED
  BY <1>3, <1>4

\* The URN of an address that has a network and an id parses to that address,
\* or is refused because a type has no path yet.
THEOREM MarshalledUrnsParse == Spec => []MarshalledUrnParses
<1>1. TypeOK => MarshalledUrnParses
  BY UrnReads, Zenon DEF TypeOK, MarshalledUrnParses
<1> QED
  BY <1>1, AddressTypeCorrect, PTL

\* What marshal_text refuses, parse_urn refuses as well.
THEOREM HalfBuiltIsRefused == Spec => []HalfBuiltNamesNothing
<1>1. TypeOK => HalfBuiltNamesNothing
  BY UrnReads, Zenon DEF TypeOK, HalfBuiltNamesNothing
<1> QED
  BY <1>1, AddressTypeCorrect, PTL

\* from_nss finds the chain of an address in its NSS, whatever follows it.
THEOREM NssKeepsChain == Spec => []NssNamesChain
<1>1. ASSUME TypeOK
      PROVE  NssNamesChain
  <2> SUFFICES ASSUME Whole(addr.chain)
               PROVE  FromNss(Nss(addr)) = Done(addr.chain)
    BY Zenon DEF NssNamesChain, Whole
  <2> DEFINE s == Nss(addr)
  <2>1. Intact(addr)
    BY <1>1 DEF TypeOK
  <2>2. s \in Seq(CleanToken) /\ Len(s) # 1
    BY <2>1, NssTokens
  <2>3. NssOk(s) /\ BuildChain(Components(s)) = Done(addr.chain)
    BY <2>1, NssComponents
  <2> HIDE DEF s
  <2>4. TrimEnd(s) = s
    BY <2>2, CleanTextKept, Zenon
  <2>5. FromNss(s) = Done(addr.chain)
    BY <2>3, <2>4, Zenon DEF FromNss
  <2> QED
    BY <2>5 DEF s
<1> QED
  BY <1>1, AddressTypeCorrect, PTL

-----------------------------------------------------------------------------
(* What was parsed *)

\* The address is what parse_urn makes of the text the last call accepted,
\* whichever parser that was.
SameAsUrn == Accepted => ParseUrn(Urn(TRUE, read.parts)) = Ok(addr)

ParsedInv == TypeOK /\ SameAsUrn

\* Whichever parser accepted a text, parse_urn reads the same address from it.
LEMMA ParserReads ==
  ASSUME Intact(addr), CallParser, outcome' = "ok"
  PROVE  ParseUrn(Urn(TRUE, read'.parts)) = Ok(addr')
<1>1. PICK urn \in Urns : Unmarshal(urn) \/ ReadStrict(urn) \/ ReadNss(urn)
  BY Zenon DEF CallParser
<1>2. urn \in UrnText
  BY Arguments
<1>3. urn.parts \in Seq(ProperToken)
  BY <1>2 DEF UrnText
<1> DEFINE again == ParseUrn(Urn(TRUE, urn.parts))
<1>4. ASSUME NEW r, Reading(urn, r), r \in AddressResult, r.code = "ok" => r = again
      PROVE  ParseUrn(Urn(TRUE, read'.parts)) = Ok(addr')
  <2>1. /\ outcome' = Replace(r).code /\ addr' = Replace(r).addr /\ read' = urn
    BY <1>4, Zenon DEF Reading, Return
  <2>2. r.code = "ok"
    <3>1. r.code # "ok" => Replace(r).code = r.code
      BY DEF Replace, Fail
    <3> QED
      BY <2>1, <3>1
  <2>3. r = again /\ Replace(r) = r
    BY <1>4, <2>2, Zenon DEF Replace
  <2>4. r = Ok(r.addr)
    BY <1>4, <2>2 DEF AddressResult, Ok
  <2> QED
    BY <2>1, <2>3, <2>4, Zenon
<1>5. Urn(TRUE, urn.parts).mhda = TRUE /\ Urn(TRUE, urn.parts).parts = urn.parts
  BY DEF Urn
<1>6. ParseUrn(urn).code = "ok" => ParseUrn(urn) = again
  <2>1. Fail("invalid_urn", NoAddress).code # "ok"
    BY DEF Fail
  <2> QED
    BY <1>5, <2>1, Zenon DEF ParseUrn
<1>7. CASE Unmarshal(urn)
  BY <1>2, <1>4, <1>6, <1>7, ParseUrnResult, Zenon DEF Unmarshal
<1>8. CASE ReadStrict(urn)
  <2> DEFINE r == ParseUrnStrict(urn)
  <2>1. r \in AddressResult
    BY <1>2, ParseUrnStrictResult, Zenon
  <2>2. r.code = "ok" => r = ParseUrn(urn)
    <3>1. \A code : Fail(code, NoAddress).code = code
      BY DEF Fail
    <3> QED
      BY <3>1, Zenon DEF ParseUrnStrict
  <2>3. r.code = "ok" => r = again
    BY <1>6, <2>2, Zenon
  <2> QED
    BY <1>4, <1>8, <2>1, <2>3, Zenon DEF ReadStrict
<1>9. CASE ReadNss(urn)
  <2> DEFINE r == ParseNss(urn.parts)
  <2>1. r \in AddressResult
    BY <1>3, ParseNssResult, Zenon
  <2>2. r.code = "ok" => r = again
    BY <1>3, NssReadAsUrn, Zenon
  <2> QED
    BY <1>4, <1>9, <2>1, <2>2, Zenon DEF ReadNss
<1> QED
  BY <1>1, <1>7, <1>8, <1>9

\* Every other call forgets the text.
LEMMA ParsedInductive == Spec => []ParsedInv
<1>1. Init => SameAsUrn
  BY DEF Init, SameAsUrn, Accepted
<1>2. TypeOK /\ SameAsUrn /\ [Next]_vars => SameAsUrn'
  <2> SUFFICES ASSUME TypeOK, SameAsUrn, [Next]_vars, Accepted'
               PROVE  ParseUrn(Urn(TRUE, read'.parts)) = Ok(addr')
    BY Zenon DEF SameAsUrn
  <2>1. Intact(addr)
    BY DEF TypeOK
  <2>2. read' # NoUrn /\ outcome' = "ok"
    BY Zenon DEF Accepted
  <2>3. CASE CallConstruct
    BY <2>1, <2>2, <2>3, ConstructStep, Zenon
  <2>4. CASE CallSetter
    BY <2>1, <2>2, <2>4, SetterStep, Zenon
  <2>5. CASE CallPart
    BY <2>1, <2>2, <2>5, PartStep, Zenon
  <2>6. CASE CallParser
    BY <2>1, <2>2, <2>6, ParserReads, Zenon
  <2>7. CASE UNCHANGED vars
    <3>1. addr' = addr /\ read' = read /\ outcome' = outcome
      BY <2>7, Zenon DEF vars
    <3> QED
      BY <2>2, <3>1, Zenon DEF SameAsUrn, Accepted
  <2> QED
    BY <2>3, <2>4, <2>5, <2>6, <2>7, Zenon DEF Next
<1> QED
  BY <1>1, <1>2, AddressTypeCorrect, PTL DEF Spec, ParsedInv

\* What was accepted is a parsed address: whole, and in its normal form.
LEMMA AcceptedIsParsed ==
  ASSUME ParsedInv, Accepted
  PROVE  /\ Intact(addr) /\ Parsed(addr)
         /\ MarshalCode(addr) = "ok" /\ addr.chain.id # Nothing
         /\ Normal(addr) = addr
<1>1. Intact(addr) /\ read.parts \in Seq(ProperToken)
  BY DEF ParsedInv, TypeOK
<1>2. ParseUrn(Urn(TRUE, read.parts)) = Ok(addr)
  BY Zenon DEF ParsedInv, SameAsUrn
<1>3. Urn(TRUE, read.parts) \in UrnText
  BY <1>1 DEF Urn, UrnText
<1>4. Ok(addr).code = "ok" /\ Ok(addr).addr = addr
  BY DEF Ok
<1>5. Parsed(addr)
  BY <1>2, <1>3, <1>4, ParseUrnResult, Zenon
<1>6. MarshalCode(addr) = "ok" /\ addr.chain.id # Nothing
  BY <1>5, Zenon DEF Parsed, Whole, MarshalCode
<1>7. Normal(addr) = addr
  <2>1. CASE HasDerivation(addr)
    BY <2>1, Zenon DEF Normal
  <2>2. CASE ~ HasDerivation(addr)
    <3>1. addr.path # <<>> /\ addr.path[1].type \in DerivationTypes
          /\ IsRoot(addr.path[1])
      BY <1>5, <2>2, Zenon DEF Parsed, HasDerivation
    <3>2. NoType \notin DerivationTypes
      BY DEF NoType, DerivationTypes, Bip44Family
    <3>3. addr.path[1] = EmptyPath("root")
      BY <1>5, <3>1, <3>2, Zenon DEF Parsed, IsRoot
    <3>4. addr.path = <<EmptyPath("root")>>
      BY <1>1, <3>1, <3>3, HeldPath
    <3> DEFINE s == <<EmptyPath("root")>>
    <3>5. Normal(addr) = [addr EXCEPT !.path = s]
      BY <2>2, Zenon DEF Normal
    <3> HIDE DEF s
    <3>6. ASSUME NEW A, NEW B, NEW C, NEW F, NEW E,
                 NEW x \in [chain : A, path : B, algorithm : C, format : F, free : E],
                 NEW y, x.path = y
          PROVE  [x EXCEPT !.path = y] = x
      BY <3>6
    <3>7. addr \in Address /\ addr.path = s
      BY <1>1, <3>4 DEF Intact, s
    <3> QED
      BY <3>5, <3>6, <3>7, Zenon DEF Address
  <2> QED
    BY <2>1, <2>2
<1> QED
  BY <1>1, <1>5, <1>6, <1>7

\* What is parsed is canonical: its URN parses to exactly the same address.
THEOREM ParsedRoundTrips == Spec => []RoundTrip
<1>1. ParsedInv => RoundTrip
  BY AcceptedIsParsed, UrnReads, Zenon DEF RoundTrip
<1> QED
  BY <1>1, ParsedInductive, PTL

\* Nothing but the matrix is left to object to a parsed address.
THEOREM OnlyMatrixIsLeft == Spec => []OnlyMatrixRemains
<1>1. ASSUME ParsedInv, Accepted, Describe(Ok(addr)) = 1
      PROVE  Validate(addr) = "incompatible"
  <2>1. MarshalCode(addr) = "ok"
    BY <1>1, AcceptedIsParsed, Zenon
  <2>2. Ok(addr).code = "ok" /\ Ok(addr).addr = addr
    BY DEF Ok
  <2>3. Validate(addr) # "ok"
    <3>1. Validate(addr) = "ok" => Describe(Ok(addr)) = 0
      BY <2>2, Zenon DEF Describe
    <3> QED
      BY <1>1, <3>1
  <2> QED
    BY <2>1, <2>3, Zenon DEF Validate
<1> QED
  BY <1>1, ParsedInductive, PTL DEF OnlyMatrixRemains

\* Lowercasing a path changes neither its numbers nor what is hardened.
LEMMA LowerKeepsLevels ==
  ASSUME NEW text \in Text
  PROVE  TextLevels(LowerText(text)) = TextLevels(text)
<1> DEFINE low(x) == [x EXCEPT !.mark = IF @ = "H" THEN "h" ELSE @]
           level(x) == [index |-> RawLevel(x).index, hard |-> RawLevel(x).hard]
           segs == text.segs
<1>1. segs \in Seq(Segment)
  BY DEF Text
<1>2. ASSUME NEW x \in Segment
      PROVE  level(low(x)) = level(x)
  <2>1. low(x).val = x.val
    BY DEF Segment
  <2>2. low(x).mark = IF x.mark = "H" THEN "h" ELSE x.mark
    BY DEF Segment
  <2>3. (low(x).mark \in HardeningMarkers) = (x.mark \in HardeningMarkers)
    BY <2>2 DEF HardeningMarkers
  <2>4. \A y : /\ RawLevel(y).index = y.val
               /\ RawLevel(y).hard = (y.mark \in HardeningMarkers)
    BY DEF RawLevel
  <2> HIDE DEF low
  <2>5. /\ RawLevel(low(x)).index = RawLevel(x).index
        /\ RawLevel(low(x)).hard = RawLevel(x).hard
    BY <2>1, <2>3, <2>4, Zenon
  <2> QED
    BY <2>5, Zenon
<1>3. LowerText(text).segs = [i \in DOMAIN segs |-> low(segs[i])]
  BY DEF LowerText
<1> HIDE DEF low
<1>4. ASSUME NEW y \in Text
      PROVE  TextLevels(y) = [i \in DOMAIN y.segs |-> level(y.segs[i])]
  <2>1. \A i \in DOMAIN y.segs : RawLevels(y)[i] = RawLevel(y.segs[i])
    BY Zenon DEF RawLevels
  <2> QED
    BY <2>1, Zenon DEF TextLevels
<1> HIDE DEF level
<1>5. LowerText(text) \in Text
  BY LowerTextTyped
<1> DEFINE lowered == LowerText(text).segs
<1>6. /\ TextLevels(LowerText(text)) = [i \in DOMAIN lowered |-> level(lowered[i])]
      /\ TextLevels(text) = [i \in DOMAIN segs |-> level(segs[i])]
  BY <1>4, <1>5, Zenon
<1>7. DOMAIN lowered = DOMAIN segs
  BY <1>3
<1>8. ASSUME NEW i \in DOMAIN segs
      PROVE  level(lowered[i]) = level(segs[i])
  <2>1. lowered[i] = low(segs[i])
    BY <1>3
  <2>2. segs[i] \in Segment
    BY <1>1
  <2> QED
    BY <1>2, <2>1, <2>2, Zenon
<1> HIDE DEF lowered, segs
<1> QED
  BY <1>6, <1>7, <1>8, Zenon

\* The chain that is built is the one that was named.
LEMMA ChainSaid ==
  ASSUME NEW m, Get(m, "nt") \in Token, Get(m, "ci") \in Token,
         Get(m, "ct") \in Token, BuildChain(m).code = "ok"
  PROVE  /\ BuildChain(m).chain.network = Get(m, "nt").word
         /\ BuildChain(m).chain.id = Trim(Get(m, "ci"))
         /\ "ct" \in DOMAIN m =>
              BuildChain(m).chain.coin = <<Get(m, "ct").num>>
<1> DEFINE nt    == Normalize(Get(m, "nt"))
           ci    == Trim(Get(m, "ci"))
           ct    == Trim(Get(m, "ct"))
           built == NewChain(nt, ci)
           b     == BuildChain(m)
<1>1. ci \in Token /\ Trim(ci) = ci
  <2>1. ci \in Token
    BY TrimTyped
  <2>2. \A t \in Token : Trim(Trim(t)) = Trim(t)
    BY DEF Trim, Token
  <2> QED
    BY <2>1, <2>2, Zenon
<1>2. \A code, d : Failed(code, d).code = code
  BY DEF Failed
<1>3. "missing_network_type" # "ok" /\ "invalid_coin_type" # "ok"
  OBVIOUS
<1>4. ~ IsEmpty(nt) /\ built.code = "ok"
  BY <1>2, <1>3, Zenon DEF BuildChain
<1>5. built.chain.network = nt.word /\ built.chain.id = ci
  BY <1>1, <1>4, NewChainOk, Zenon
<1>6. nt.word = Get(m, "nt").word
  BY NameRead, Zenon DEF NameOf
<1>7. ct.num = Get(m, "ct").num
  BY DEF Trim, Token
<1> HIDE DEF nt, ci, ct
<1>8. CASE "ct" \notin DOMAIN m
  <2>1. b = built
    BY <1>4, <1>8, Zenon DEF BuildChain, nt, ci, ct
  <2> HIDE DEF b, built
  <2> QED
    BY <1>5, <1>6, <1>8, <2>1, Zenon DEF b, ci
<1>9. CASE "ct" \in DOMAIN m
  <2>1. b = Done(SetCoin(built.chain, ct.num))
    BY <1>2, <1>3, <1>4, <1>9, Zenon DEF BuildChain, nt, ci, ct
  <2>2. built \in Result
    BY <1>1, NewChainResult, Zenon
  <2>3. built.chain \in Chain
    <3> HIDE DEF built
    <3> QED
      BY <2>2 DEF Result
  <2>4. \A c \in Chain : \A n : /\ SetCoin(c, n).network = c.network
                                /\ SetCoin(c, n).id = c.id
                                /\ SetCoin(c, n).coin = <<n>>
    BY DEF SetCoin, Chain
  <2>5. \A c : Done(c).chain = c
    BY DEF Done
  <2> HIDE DEF b, built
  <2>6. b.chain = SetCoin(built.chain, ct.num)
    BY <2>1, <2>5, Zenon
  <2>7. /\ b.chain.network = built.chain.network /\ b.chain.id = built.chain.id
        /\ b.chain.coin = <<ct.num>>
    <3> DEFINE d == built.chain
               n == ct.num
    <3> HIDE DEF d, n
    <3>1. d \in Chain /\ b.chain = SetCoin(d, n)
      BY <2>3, <2>6 DEF d, n
    <3>2. /\ SetCoin(d, n).network = d.network /\ SetCoin(d, n).id = d.id
          /\ SetCoin(d, n).coin = <<n>>
      BY <2>4, <3>1
    <3>3. b.chain.network = d.network /\ b.chain.id = d.id /\ b.chain.coin = <<n>>
      BY <3>1, <3>2, Zenon
    <3> QED
      BY <3>3 DEF d, n
  <2> QED
    BY <1>5, <1>6, <1>7, <2>7, Zenon DEF b, ci
<1> QED
  BY <1>8, <1>9

\* The path that is read has the levels of the path that was given.
LEMMA PathSaid ==
  ASSUME NEW dt \in Token, NEW dp \in Token, DerivationAccepted(dt, dp),
         NEW a, Intact(a), a.path = <<DerivationRead(dt, dp)>>, HasDerivation(a)
  PROVE  /\ a.path[1].type = dt.word
         /\ Str(a.path[1]) \in Text
         /\ TextLevels(Str(a.path[1])) = TextLevels(dp.path)
<1> DEFINE p    == DerivationRead(dt, dp)
           t    == TypeNamed(dt)
           text == PathOf(Trim(dp))
<1>1. t # "root"
  BY DerivationGiven
<1>2. /\ p \in Path /\ Sound(p) /\ p.type = t /\ t \in DerivationTypes
      /\ p.levels # <<>>
  BY <1>1, DerivationReadFacts, Zenon
<1>3. a.path[1] = p
  <2> HIDE DEF p
  <2>1. a.path = <<p>>
    BY Zenon DEF p
  <2> QED
    BY <1>2, <2>1, OnePath, Zenon
<1>4. t = dt.word
  BY <1>1, NameRead, Zenon DEF TypeNamed, NameOf
<1>5. Accepts(t, LowerText(text)) /\ p = ParsedPath(t, LowerText(text))
  BY <1>1, Zenon DEF DerivationAccepted, DerivationRead
<1>6. text \in Text /\ LowerText(text) \in Text
  BY TrimTyped, PathOfTyped, LowerTextTyped, Zenon
<1>7. text = dp.path
  <2>1. LowerText(text).head = "m"
    BY <1>1, <1>5, Zenon DEF Accepts, ParseLevelsOk
  <2>2. text.head \in {"m", "M"}
    <3> HIDE DEF text
    <3> QED
      BY <2>1 DEF LowerText
  <2>3. EmptyText.head = "" /\ [EmptyText EXCEPT !.head = "other"].head = "other"
    BY DEF EmptyText
  <2>4. text \notin {EmptyText, [EmptyText EXCEPT !.head = "other"]}
    BY <2>2, <2>3
  <2>5. text = Trim(dp).path
    BY <2>4, Zenon DEF PathOf
  <2>6. Trim(dp).path = dp.path
    BY DEF Trim, Token
  <2> QED
    BY <2>5, <2>6
<1> HIDE DEF p, text, t
<1>8. p.levels = TextLevels(LowerText(text))
  BY <1>2, <1>5, <1>6, ParsedPathFacts
<1>9. TextLevels(LowerText(text)) = TextLevels(text)
  BY <1>6, LowerKeepsLevels
<1>10. Str(p) \in Text /\ TextLevels(Str(p)) = p.levels
  <2>1. PICK u \in DerivationTypes, x \in Text :
          /\ u = p.type /\ x = Str(p) /\ Accepts(u, x)
          /\ p = ParsedPath(u, x)
    BY <1>2, SoundFacts, Zenon
  <2>2. p.levels = TextLevels(x)
    BY <2>1, ParsedPathFacts
  <2> QED
    BY <2>1, <2>2
<1> QED
  BY <1>2, <1>3, <1>4, <1>7, <1>8, <1>9, <1>10, Zenon

\* What the URN says under the keys that were read is what they said.
LEMMA SaidAsRead ==
  ASSUME NEW s \in Seq(ProperToken), NssOk(s), NEW m, m = Components(s),
         NEW r, r = ParseComponents(m), r.code = "ok", NEW a, a = r.addr,
         NEW k \in Keys, k \in DOMAIN m, k = "dt" => HasDerivation(a)
  PROVE  Said(k, Written(a)[k]) = Said(k, Get(m, k))
<1> DEFINE w == Written(a)
<1>1. /\ Intact(a)
      /\ \A j \in Keys \ {"dt"} : j \in DOMAIN m <=> w[j] # Nothing
  BY ReadIsWritten, Zenon
<1>2. \A j : Get(m, j) \in ProperToken
  BY ProperTokens, ComponentsIn, Zenon
<1>3. \A j : Get(m, j) \in Settable /\ Get(m, j) \in Token
  BY <1>2, SettableTokens, ProperTokens
<1>4. /\ BuildChain(m).code = "ok"
      /\ DerivationAccepted(Get(m, "dt"), Get(m, "dp"))
      /\ a.chain = BuildChain(m).chain
      /\ a.path = <<DerivationRead(Get(m, "dt"), Get(m, "dp"))>>
      /\ a.algorithm = NameOf(Get(m, "aa"))
      /\ a.format = NameOf(Get(m, "af"))
      /\ \A j \in FreeForm : a.free[j] = Trim(Get(m, j))
  <2>1. s \in Seq(Token)
    BY ProperTokens
  <2>2. BuildChain(m) \in Result
    BY <2>1, BuildChainResult
  <2>3. \A j : Get(m, j) \in Settable
    BY <1>3
  <2> QED
    BY <2>2, <2>3, ParseComponentsResult
<1>5. Trim(Get(m, k)) = Get(m, k)
  <2>1. s \in Seq(Token)
    BY ProperTokens
  <2>2. NssBytes(m[k])
    BY <2>1, AcceptedIsClean, Zenon
  <2>3. ~ Get(m, k).space
    BY <2>2, Zenon DEF Get, NssBytes
  <2> QED
    BY <1>3, <2>3, CleanIsTrimmed, Zenon
<1>6. /\ a.chain.network = Get(m, "nt").word
      /\ a.chain.id = Trim(Get(m, "ci"))
      /\ "ct" \in DOMAIN m => a.chain.coin = <<Get(m, "ct").num>>
  BY <1>3, <1>4, ChainSaid, Zenon
<1>7. \A v : Plain(v).word = v
  BY DEF Plain
<1>8. CASE k \in {"nt", "aa", "af"}
  <2>1. w["nt"].word = Get(m, "nt").word
    BY <1>6, <1>7, WrittenAt, Zenon
  <2>2. w["aa"].word = Get(m, "aa").word /\ w["af"].word = Get(m, "af").word
    <3>1. \A j : NameOf(Get(m, j)) = Get(m, j).word
      BY <1>3, NameRead, Zenon
    <3>2. w["aa"].word = a.algorithm
      BY <1>7, WrittenAt, Zenon
    <3>3. w["af"].word = a.format
      BY <1>7, WrittenAt, Zenon
    <3> QED
      BY <1>4, <3>1, <3>2, <3>3, Zenon
  <2> HIDE DEF w
  <2> QED
    BY <1>8, <2>1, <2>2 DEF Said, w
<1>9. CASE k = "ct"
  <2> DEFINE n == Get(m, "ct").num
  <2>1. a.chain.coin = <<n>>
    BY <1>6, <1>9, Zenon
  <2> HIDE DEF n
  <2>2. a.chain.coin # <<>> /\ a.chain.coin[1] = n
    BY <2>1
  <2>3. w["ct"] = Number(n)
    BY <2>2, WrittenAt, Zenon
  <2>4. Number(n).num = n
    BY DEF Number, Plain
  <2> HIDE DEF w
  <2> QED
    BY <1>9, <2>3, <2>4 DEF Said, w, n
<1>10. CASE k \in {"dt", "dp"}
  <2>1. HasDerivation(a)
    <3>1. k = "dp" => w["dp"] # Nothing
      BY <1>1, <1>10
    <3> QED
      BY <1>10, <3>1, WrittenAt, Zenon
  <2>2. /\ a.path[1].type = Get(m, "dt").word
        /\ Str(a.path[1]) \in Text
        /\ TextLevels(Str(a.path[1])) = TextLevels(Get(m, "dp").path)
    BY <1>1, <1>3, <1>4, <2>1, PathSaid
  <2>3. /\ w["dt"] = Plain(a.path[1].type)
        /\ w["dp"] = PathToken(Str(a.path[1]))
    BY <2>1, WrittenAt, Zenon
  <2>4. \A x : PathToken(x).path = x
    BY DEF PathToken, Nothing, Plain
  <2>5. Said("dt", w["dt"]) = Said("dt", Get(m, "dt"))
    <3> HIDE DEF w
    <3>1. w["dt"].word = Get(m, "dt").word
      BY <1>7, <2>2, <2>3, Zenon
    <3> QED
      BY <3>1 DEF Said
  <2>6. Said("dp", w["dp"]) = Said("dp", Get(m, "dp"))
    <3> HIDE DEF w
    <3>1. TextLevels(w["dp"].path) = TextLevels(Get(m, "dp").path)
      BY <2>2, <2>3, <2>4, Zenon
    <3> QED
      BY <3>1 DEF Said
  <2> QED
    BY <1>10, <2>5, <2>6, Zenon
<1>11. CASE k \in FreeForm \cup {"ci"}
  <2>1. w[k] = Get(m, k)
    <3>1. CASE k = "ci"
      BY <1>5, <1>6, <3>1, WrittenAt, Zenon
    <3>2. CASE k \in FreeForm
      BY <1>4, <1>5, <3>2, WrittenAt, Zenon
    <3> QED
      BY <1>11, <3>1, <3>2
  <2> QED
    BY <2>1, Zenon
<1> QED
  BY <1>8, <1>9, <1>10, <1>11 DEF Keys, FreeForm

\* Every known component of an accepted text is in the URN of the result and says
\* the same there, but for a dt that says root.
THEOREM NothingIsDropped == Spec => []NothingDropped
<1>1. ASSUME ParsedInv, Accepted
      PROVE  /\ DOMAIN Components(Nss(addr)) =
                  DOMAIN ReadComponents \ (IF HasDerivation(addr) THEN {} ELSE {"dt"})
             /\ \A k \in DOMAIN Components(Nss(addr)) :
                  Said(k, Components(Nss(addr))[k]) = Said(k, ReadComponents[k])
  <2> DEFINE cut == StripRqf(TrimEnd(read.parts))
             s   == TrimEnd(cut)
             m   == Components(s)
             r   == ParseComponents(m)
             n   == Components(Nss(addr))
             w   == Written(addr)
  <2>1. read.parts \in Seq(ProperToken)
    BY <1>1 DEF ParsedInv, TypeOK
  <2>2. s \in Seq(ProperToken)
    <3>1. TrimEnd(read.parts) \in Seq(ProperToken)
      BY <2>1, ProperTokens, TrimEndIn, Zenon
    <3>2. cut \in Seq(ProperToken)
      BY <3>1, StripTyped, Zenon
    <3> QED
      BY <3>2, ProperTokens, TrimEndIn, Zenon
  <2>3. ParseNss(cut) = Ok(addr)
    <3>1. Urn(TRUE, read.parts).mhda = TRUE
          /\ Urn(TRUE, read.parts).parts = read.parts
      BY DEF Urn
    <3> QED
      BY <1>1, <3>1, Zenon DEF ParsedInv, SameAsUrn, ParseUrn
  <2>4. Ok(addr).code = "ok" /\ Ok(addr).addr = addr
        /\ Fail("invalid_nss", NoAddress).code # "ok"
    BY DEF Ok, Fail
  <2>5. NssOk(s)
    BY <2>3, <2>4, Zenon DEF ParseNss
  <2>6. r = Ok(addr)
    BY <2>3, <2>5, Zenon DEF ParseNss
  <2>7. r.code = "ok" /\ addr = r.addr
    BY <2>4, <2>6, Zenon
  <2>8. ReadComponents = m
    BY Zenon DEF ReadComponents
  <2> HIDE DEF s
  <2>9. s \in Seq(Token)
    BY <2>2, ProperTokens
  <2>10. \A k \in DOMAIN m : k \in Keys
    BY <2>5, <2>9, AcceptedIsClean, Zenon
  <2>11. /\ Intact(addr) /\ Whole(addr.chain)
         /\ \A k \in Keys \ {"dt"} : k \in DOMAIN m <=> w[k] # Nothing
         /\ HasDerivation(addr) => "dt" \in DOMAIN m /\ w["dt"] # Nothing
         /\ ~ HasDerivation(addr) => w["dt"] = Nothing
    BY <2>2, <2>5, <2>7, ReadIsWritten, Zenon
  <2>12. \A k : k \in DOMAIN n <=> k \in Keys /\ w[k] # Nothing
    BY <2>11, NssComponents, Zenon
  <2>13. "dt" \in Keys
    BY DEF Keys
  <2>14. ASSUME NEW k \in DOMAIN n, k \in DOMAIN m, k = "dt" => HasDerivation(addr)
         PROVE  Said(k, n[k]) = Said(k, m[k])
    <3>1. k \in Keys
      BY <2>12
    <3>2. n[k] = w[k]
      BY <2>11, <2>14, <3>1, NssComponents, Zenon DEF Get
    <3>3. Get(m, k) = m[k]
      BY <2>14, Zenon DEF Get
    <3>4. Said(k, w[k]) = Said(k, Get(m, k))
      BY <2>2, <2>5, <2>7, <2>14, <3>1, SaidAsRead, Zenon
    <3> QED
      BY <3>2, <3>3, <3>4, Zenon
  <2> HIDE DEF m, n, w
  <2>15. CASE HasDerivation(addr)
    <3>1. \A k : k \in DOMAIN n <=> k \in DOMAIN m
      BY <2>10, <2>11, <2>12, <2>13, <2>15
    <3>2. DOMAIN n = DOMAIN m
      BY <3>1
    <3>3. \A k \in DOMAIN n : Said(k, n[k]) = Said(k, m[k])
      BY <2>15, <2>14, <3>1, Zenon
    <3> QED
      BY <2>8, <2>15, <3>2, <3>3, Zenon DEF n
  <2>16. CASE ~ HasDerivation(addr)
    <3>1. \A k : k \in DOMAIN n <=> k \in DOMAIN m \ {"dt"}
      BY <2>10, <2>11, <2>12, <2>13, <2>16
    <3>2. DOMAIN n = DOMAIN m \ {"dt"}
      BY <3>1
    <3>3. \A k \in DOMAIN n : Said(k, n[k]) = Said(k, m[k])
      <4> SUFFICES ASSUME NEW k \in DOMAIN n PROVE Said(k, n[k]) = Said(k, m[k])
        OBVIOUS
      <4>1. k \in DOMAIN m /\ k # "dt"
        BY <3>1
      <4> QED
        BY <2>14, <4>1, Zenon
    <3> QED
      BY <2>8, <2>16, <3>2, <3>3, Zenon DEF n
  <2> QED
    BY <2>15, <2>16
<1>2. ParsedInv => NothingDropped
  BY <1>1, Zenon DEF NothingDropped
<1> QED
  BY <1>2, ParsedInductive, PTL

-----------------------------------------------------------------------------
(* Strict validation *)

\* Writing out the defaults of an address does not change the verdict on it.
THEOREM DefaultsMayBeSpelledOut == Spec => []LongFormAgrees
<1>1. ASSUME NEW a \in Address
      PROVE  Validate(LongForm(a)) = Validate(a)
  <2> DEFINE algo == ResolvedAlgorithm(a)
             fmt  == ResolvedFormat(a)
             b    == LongForm(a)
  <2>1. /\ b.chain = a.chain /\ b.path = a.path
        /\ b.algorithm = algo /\ b.format = fmt
    <3>1. ASSUME NEW A, NEW B, NEW C, NEW F, NEW E,
                 NEW x \in [chain : A, path : B, algorithm : C, format : F, free : E],
                 NEW y, NEW z
          PROVE  LET w == [x EXCEPT !.algorithm = y, !.format = z]
                 IN /\ w.chain = x.chain /\ w.path = x.path
                    /\ w.algorithm = y /\ w.format = z
      OBVIOUS
    <3> QED
      BY <3>1, Zenon DEF Address, LongForm
  <2> HIDE DEF b
  <2>2. ResolvedAlgorithm(b) = algo
    BY <2>1, Zenon DEF ResolvedAlgorithm
  <2>3. ResolvedFormat(b) = fmt
    BY <2>1, Zenon DEF ResolvedFormat
  <2> HIDE DEF algo, fmt
  <2>4. HasDerivation(b) <=> HasDerivation(a)
    BY <2>1, Zenon DEF HasDerivation
  <2>5. MarshalCode(b) = MarshalCode(a)
    BY <2>1, <2>4, Zenon DEF MarshalCode, PathIsSet
  <2>6. DerivationFits(b, algo, fmt) <=> DerivationFits(a, algo, fmt)
    BY <2>1, Zenon DEF DerivationFits
  <2>7. Compatible(b) <=> Compatible(a)
    BY <2>1, <2>2, <2>3, <2>4, <2>6, Zenon DEF Compatible, algo, fmt
  <2> QED
    BY <2>5, <2>7, Zenon DEF Validate, b
<1>2. TypeOK => LongFormAgrees
  BY <1>1, Zenon DEF TypeOK, Intact, LongFormAgrees
<1> QED
  BY <1>2, AddressTypeCorrect, PTL

\* Two derivation types of one network: shapes of Bitcoin's kind, the two of
\* Cosmos, or types bound to different curves.
LEMMA MatrixRows ==
  ASSUME NEW nt \in Networks,
         NEW t \in Matrix[nt].derivations, NEW u \in Matrix[nt].derivations,
         t # u
  PROVE  \/ {t, u} \subseteq {"bip32", "bip44", "bip49", "bip84", "bip86"}
         \/ nt = "cosmos" /\ {t, u} = {"bip44", "cip11"}
         \/ /\ t \in DOMAIN Matrix[nt].curves /\ u \in DOMAIN Matrix[nt].curves
            /\ Matrix[nt].curves[t] # Matrix[nt].curves[u]
<1>1. CASE nt \in {"avalanche", "tron"}
  BY <1>1 DEF Matrix, K1Row, Simple, Row
<1>2. CASE nt \in {"solana", "stellar", "algorand", "ton"}
  BY <1>2 DEF Matrix, Slip10Row, Simple, Row
<1>3. CASE nt \in {"xrpl", "cardano"}
  BY <1>3 DEF Matrix, Simple, Row
<1>4. CASE nt = "bitcoin"
  <2>1. Matrix[nt] = BitcoinRow
    BY <1>4 DEF Matrix
  <2>2. BitcoinRow.derivations = {"bip32", "bip44", "bip49", "bip84", "bip86"}
    <3> DEFINE scripts == [bip44 |-> {"p2pkh"}, bip49 |-> {"p2sh"},
                           bip84 |-> {"p2wpkh", "bech32"},
                           bip86 |-> {"p2tr", "bech32m"}]
    <3>1. BitcoinRow =
            Row({"secp256k1"},
                {"p2pkh", "p2sh", "p2wpkh", "p2wsh", "p2tr", "bech32",
                 "bech32m"},
                {"bip32", "bip44", "bip49", "bip84", "bip86"},
                "secp256k1", "", Unbound, scripts)
      BY DEF BitcoinRow
    <3> HIDE DEF scripts
    <3> QED
      BY <3>1 DEF Row
  <2>3. Matrix[nt].derivations = {"bip32", "bip44", "bip49", "bip84", "bip86"}
    BY <2>1, <2>2, Zenon
  <2> QED
    BY <2>3
<1>5. CASE nt = "evm"
  BY <1>5 DEF Matrix, K1Row, Simple, Row
<1>6. CASE nt = "cosmos"
  BY <1>6 DEF Matrix, Simple, Row
<1>7. CASE nt \in {"near", "aptos"}
  <2>1. Matrix[nt] = TwoCurvesRow
    BY <1>7 DEF Matrix
  <2> DEFINE curves == [slip10 |-> "ed25519", bip44 |-> "secp256k1"]
  <2>2. /\ Matrix[nt].derivations = {"slip10", "bip44"}
        /\ Matrix[nt].curves = curves
    BY <2>1 DEF TwoCurvesRow, Row
  <2>3. /\ DOMAIN curves = {"slip10", "bip44"}
        /\ curves["slip10"] = "ed25519" /\ curves["bip44"] = "secp256k1"
    OBVIOUS
  <2> HIDE DEF curves
  <2> QED
    BY <2>2, <2>3
<1>8. CASE nt = "sui"
  <2>1. Matrix[nt] = SuiRow
    BY <1>8 DEF Matrix
  <2> DEFINE curves == [slip10 |-> "ed25519", bip54 |-> "secp256k1",
                        bip74 |-> "secp256r1"]
  <2>2. /\ Matrix[nt].derivations = {"slip10", "bip54", "bip74"}
        /\ Matrix[nt].curves = curves
    BY <2>1 DEF SuiRow, Row
  <2>3. /\ DOMAIN curves = {"slip10", "bip54", "bip74"}
        /\ curves["slip10"] = "ed25519" /\ curves["bip54"] = "secp256k1"
        /\ curves["bip74"] = "secp256r1"
    OBVIOUS
  <2> HIDE DEF curves
  <2> QED
    BY <2>2, <2>3
<1> QED
  BY <1>1, <1>2, <1>3, <1>4, <1>5, <1>6, <1>7, <1>8 DEF Networks

\* No levels fit two types of Bitcoin's kind: their lengths or their purposes
\* differ.
LEMMA ShapesDiffer ==
  ASSUME NEW t \in {"bip32", "bip44", "bip49", "bip84", "bip86"},
         NEW u \in {"bip32", "bip44", "bip49", "bip84", "bip86"}, t # u,
         NEW l, Shaped(t, l), Shaped(u, l)
  PROVE  FALSE
<1>1. ASSUME NEW x \in {"bip44", "bip49", "bip84", "bip86"}, Shaped(x, l)
      PROVE  Len(l) = 5 /\ l[1].index = PrefixPurpose(x)
  BY <1>1 DEF Shaped, ShapedBip44, Bip44Family, Hard
<1>2. ASSUME Shaped("bip32", l)
      PROVE  Len(l) = 3
  BY <1>2 DEF Shaped, ShapedBip32, Bip44Family
<1>3. /\ PrefixPurpose("bip44") = 44 /\ PrefixPurpose("bip49") = 49
      /\ PrefixPurpose("bip84") = 84 /\ PrefixPurpose("bip86") = 86
  BY DEF PrefixPurpose
<1> QED
  BY <1>1, <1>2, <1>3

\* A path of both Cosmos types has the coin that is kept from bip44.
LEMMA CosmosCoin ==
  ASSUME NEW l, Shaped("cip11", l), NEW p, p = RebuildLevels(Fill("bip44", l))
  PROVE  p.coin = 118
<1>1. l[2] = Hard(118)
  BY DEF Shaped, ShapedCip, Bip44Family
<1> DEFINE f == Fill("bip44", l)
<1>2. f = WithIndex("bip44", l[2].index, l[3].index, l[4].index, l[5], <<>>)
  BY DEF Fill, Bip44Family
<1>3. f.type = "bip44" /\ f.coin = 118
  BY <1>1, <1>2 DEF WithIndex, Hard
<1> HIDE DEF f
<1>4. p = WithLevels(f, ShortcutLevels(f))
  BY <1>3 DEF RebuildLevels, HasFixedPrefix, Bip44Family, f
<1> QED
  BY <1>3, <1>4 DEF WithLevels

\* No valid address has the path of another one with the same other parts:
\* strict mode has one name for a key.
LEMMA TwoSpellings ==
  ASSUME NEW a, NEW b, NEW p, NEW q, NEW l, NEW nt, NEW algo, NEW f, NEW g,
         a.path[1] = p, b.path[1] = q,
         a.chain.network = nt, b.chain.network = nt, nt \in Networks,
         DerivationFits(a, algo, f), DerivationFits(b, algo, g),
         p.type \in DerivationTypes, q.type \in DerivationTypes,
         p.type # q.type, Shaped(p.type, l), Shaped(q.type, l),
         p = RebuildLevels(Fill(p.type, l)), q = RebuildLevels(Fill(q.type, l))
  PROVE  FALSE
<1>1. /\ p.type \in Matrix[nt].derivations /\ q.type \in Matrix[nt].derivations
      /\ algo \in DerivationAlgorithms(nt, p.type)
      /\ algo \in DerivationAlgorithms(nt, q.type)
      /\ ~ (nt = "cosmos" /\ p.type = "bip44" /\ p.coin = 118)
      /\ ~ (nt = "cosmos" /\ q.type = "bip44" /\ q.coin = 118)
  BY Zenon DEF DerivationFits
<1> DEFINE t == p.type
           u == q.type
<1>2. CASE {t, u} \subseteq {"bip32", "bip44", "bip49", "bip84", "bip86"}
  BY <1>2, ShapesDiffer
<1>3. CASE nt = "cosmos" /\ {t, u} = {"bip44", "cip11"}
  <2>1. CASE t = "bip44"
    BY <1>1, <1>3, <2>1, CosmosCoin
  <2>2. CASE u = "bip44"
    BY <1>1, <1>3, <2>2, CosmosCoin
  <2> QED
    BY <1>3, <2>1, <2>2
<1>4. CASE /\ t \in DOMAIN Matrix[nt].curves /\ u \in DOMAIN Matrix[nt].curves
           /\ Matrix[nt].curves[t] # Matrix[nt].curves[u]
  <2>1. /\ DerivationAlgorithms(nt, t) = {Matrix[nt].curves[t]}
        /\ DerivationAlgorithms(nt, u) = {Matrix[nt].curves[u]}
    BY <1>4, Zenon DEF DerivationAlgorithms
  <2> DEFINE x == Matrix[nt].curves[t]
             y == Matrix[nt].curves[u]
  <2>2. algo \in {x} /\ algo \in {y} /\ x # y
    BY <1>1, <1>4, <2>1, Zenon
  <2> HIDE DEF x, y
  <2> QED
    BY <2>2
<1>5. \/ {t, u} \subseteq {"bip32", "bip44", "bip49", "bip84", "bip86"}
      \/ nt = "cosmos" /\ {t, u} = {"bip44", "cip11"}
      \/ /\ t \in DOMAIN Matrix[nt].curves /\ u \in DOMAIN Matrix[nt].curves
         /\ Matrix[nt].curves[t] # Matrix[nt].curves[u]
  <2>1. t # u
    OBVIOUS
  <2> HIDE DEF t, u
  <2> QED
    BY <1>1, <2>1, MatrixRows, Zenon DEF t, u
<1> QED
  BY <1>2, <1>3, <1>4, <1>5, Zenon

\* A path and its text read as another type: the same levels fit both shapes.
LEMMA OneTextTwoTypes ==
  ASSUME NEW p \in Path, p.levels # <<>>, Sound(p),
         NEW u \in DerivationTypes, Accepts(u, Str(p)),
         NEW q, q = ParsedPath(u, Str(p))
  PROVE  /\ p.type \in DerivationTypes /\ Shaped(p.type, p.levels)
         /\ p = RebuildLevels(Fill(p.type, p.levels))
         /\ q \in Path /\ Sound(q) /\ q.type = u
         /\ Shaped(u, p.levels) /\ q = RebuildLevels(Fill(u, p.levels))
<1>1. PICK t \in DerivationTypes, text \in Text :
        /\ t = p.type /\ text = Str(p) /\ Accepts(t, text)
        /\ p = ParsedPath(t, text)
  BY SoundFacts, Zenon
<1>2. /\ Shaped(t, p.levels) /\ p.levels = TextLevels(text)
      /\ p = RebuildLevels(Fill(t, p.levels))
  BY <1>1, ParsedPathFacts
<1>3. Accepts(u, text) /\ q = ParsedPath(u, text)
  BY <1>1, Zenon
<1>4. /\ q \in Path /\ q.type = u /\ q.levels = TextLevels(text)
      /\ Shaped(u, q.levels) /\ q = RebuildLevels(Fill(u, q.levels))
  BY <1>3, ParsedPathFacts
<1>5. Sound(q)
  BY <1>3, ParsedSound, Zenon
<1> QED
  BY <1>1, <1>2, <1>4, <1>5

\* The path of a valid address, read as another type, makes the address invalid.
THEOREM KeysHaveOneSpelling == Spec => []OneSpellingPerKey
<1>1. ASSUME NEW a, Intact(a), Validate(a) = "ok", HasDerivation(a),
             NEW dt \in DerivationTypes \ {"root", a.path[1].type},
             Accepts(dt, Str(a.path[1])),
             Validate([a EXCEPT !.path = <<ParsedPath(dt, Str(a.path[1]))>>])
               = "ok"
      PROVE  FALSE
  <2> DEFINE p == a.path[1]
             t == p.type
             l == p.levels
             text == Str(p)
             q == ParsedPath(dt, text)
             s == <<q>>
             b == [a EXCEPT !.path = s]
  <2>1. /\ a.path # <<>> /\ t # "root" /\ t # NoType
        /\ p \in Path /\ Sound(p) /\ t \in DerivationTypes \cup {NoType}
    <3>1. a.path # <<>> /\ t # "root" /\ t # NoType
      BY <1>1, Zenon DEF HasDerivation, IsRoot
    <3> QED
      BY <1>1, <3>1, HeldPath, Zenon
  <2>2. MarshalCode(a) = "ok" /\ Compatible(a)
    <3>1. "incompatible" # "ok"
      OBVIOUS
    <3> QED
      BY <1>1, <3>1, Zenon DEF Validate
  <2>3. a.chain.network # "" /\ PathIsSet(a)
    <3>1. "uninitialized_address" # "ok" /\ "invalid_derivation_path" # "ok"
      OBVIOUS
    <3> QED
      BY <2>2, <3>1, Zenon DEF MarshalCode
  <2>4. l # <<>>
    BY <1>1, <2>3, Zenon DEF PathIsSet
  <2>5. /\ t \in DerivationTypes /\ Shaped(t, l)
        /\ p = RebuildLevels(Fill(t, l))
        /\ q \in Path /\ Sound(q) /\ q.type = dt
        /\ Shaped(dt, l) /\ q = RebuildLevels(Fill(dt, l))
    <3>1. dt \in DerivationTypes /\ Accepts(dt, text)
      BY <1>1
    <3> HIDE DEF p, q
    <3>2. q = ParsedPath(dt, text)
      BY Zenon DEF q
    <3> QED
      BY <2>1, <2>4, <3>1, <3>2, OneTextTwoTypes, Zenon
  <2> HIDE DEF text
  <2>6. dt # "root" /\ dt # NoType /\ dt # t
    <3>1. NoType \notin DerivationTypes
      BY DEF NoType, DerivationTypes, Bip44Family
    <3> QED
      BY <1>1, <3>1
  <2> HIDE DEF q
  <2>7. s \in Seq(Path) /\ Len(s) <= 1 /\ s # <<>> /\ s[1] = q
    BY <2>5, OnePath, Zenon
  <2>8. b.path = s /\ OnlyPath(a, b)
    <3> HIDE DEF s, b
    <3>1. b = [a EXCEPT !.path = s]
      BY DEF b
    <3> QED
      BY <1>1, <2>5, <2>7, <3>1, WithPath, Zenon
  <2>9. Validate(b) = "ok"
    BY <1>1, Zenon DEF q, text
  <2> HIDE DEF b, s
  <2>10. b.path # <<>> /\ b.path[1] = q
    BY <2>7, <2>8, Zenon
  <2>11. Compatible(b)
    <3>1. "incompatible" # "ok"
      OBVIOUS
    <3> QED
      BY <2>9, <3>1, Zenon DEF Validate
  <2>12. HasDerivation(b)
    BY <2>5, <2>6, <2>10, Zenon DEF HasDerivation, IsRoot
  <2>13. b.chain = a.chain /\ ResolvedAlgorithm(b) = ResolvedAlgorithm(a)
    BY <2>8, Zenon DEF OnlyPath, ResolvedAlgorithm
  <2> DEFINE nt   == a.chain.network
             algo == ResolvedAlgorithm(a)
  <2>14. DerivationFits(a, algo, ResolvedFormat(a))
    BY <1>1, <2>2, Zenon DEF Compatible
  <2>15. DerivationFits(b, algo, ResolvedFormat(b))
    BY <2>11, <2>12, <2>13, Zenon DEF Compatible
  <2>16. nt \in Networks
    BY <2>2 DEF Compatible, Matrix
  <2>17. b.chain.network = nt
    BY <2>13, Zenon
  <2> HIDE DEF p, nt, algo
  <2>18. a.path[1] = p /\ a.chain.network = nt
    BY DEF p, nt
  <2> QED
    BY <2>5, <2>6, <2>10, <2>14, <2>15, <2>16, <2>17, <2>18, TwoSpellings, Zenon
<1>2. TypeOK => OneSpellingPerKey
  BY <1>1, Zenon DEF TypeOK, OneSpellingPerKey
<1> QED
  BY <1>2, AddressTypeCorrect, PTL

-----------------------------------------------------------------------------
(* The rows of the matrix *)

\* A network's default format, if it has one, is one of its formats, and no
\* derivation type of such a network is bound to others.
LEMMA DefaultFormatFits ==
  ASSUME NEW nt \in Networks, NEW t
  PROVE  \/ DefaultFormat(nt) = ""
         \/ /\ DefaultFormat(nt) \in Matrix[nt].formats
            /\ DefaultFormat(nt) \in DerivationFormats(nt, t)
<1> DEFINE fmt == Matrix[nt].format
<1>1. DefaultFormat(nt) = fmt
  BY DEF DefaultFormat
<1>2. ASSUME Matrix[nt].scripts = Unbound, fmt \in Matrix[nt].formats, fmt \in Formats
      PROVE  fmt \in Matrix[nt].formats /\ fmt \in DerivationFormats(nt, t)
  <2>1. t \notin DOMAIN Matrix[nt].scripts
    BY <1>2 DEF Unbound
  <2> HIDE DEF fmt
  <2> QED
    BY <1>2, <2>1, Zenon DEF DerivationFormats
<1>3. CASE nt \in {"avalanche", "tron", "evm"}
  <2>1. \/ fmt = ""
        \/ Matrix[nt].scripts = Unbound /\ fmt \in Matrix[nt].formats /\ fmt \in Formats
    BY <1>3 DEF Matrix, K1Row, Simple, Row, Formats
  <2> QED
    BY <1>1, <1>2, <2>1
<1>4. CASE nt \in {"solana", "stellar", "algorand", "ton"}
  <2>1. Matrix[nt].scripts = Unbound /\ fmt \in Matrix[nt].formats /\ fmt \in Formats
    BY <1>4 DEF Matrix, Slip10Row, Simple, Row, Formats
  <2> QED
    BY <1>1, <1>2, <2>1
<1>5. CASE nt \in {"xrpl", "cardano", "cosmos"}
  <2>1. Matrix[nt].scripts = Unbound /\ fmt \in Matrix[nt].formats /\ fmt \in Formats
    BY <1>5 DEF Matrix, Simple, Row, Formats
  <2> QED
    BY <1>1, <1>2, <2>1
<1>6. CASE nt = "bitcoin"
  <2>1. Matrix[nt] = BitcoinRow
    BY <1>6 DEF Matrix
  <2>2. \A a, f, d, c, s : Row(a, f, d, "secp256k1", "", c, s).format = ""
    BY DEF Row
  <2>3. BitcoinRow.format = ""
    <3> DEFINE scripts == [bip44 |-> {"p2pkh"}, bip49 |-> {"p2sh"},
                           bip84 |-> {"p2wpkh", "bech32"},
                           bip86 |-> {"p2tr", "bech32m"}]
    <3>1. PICK a, f, d, c : BitcoinRow = Row(a, f, d, "secp256k1", "", c, scripts)
      BY Zenon DEF BitcoinRow
    <3> HIDE DEF scripts
    <3> QED
      BY <2>2, <3>1
  <2> QED
    BY <1>1, <2>1, <2>3
<1>7. CASE nt \in {"near", "aptos", "sui"}
  <2>1. Matrix[nt] = TwoCurvesRow \/ Matrix[nt] = SuiRow
    BY <1>7 DEF Matrix
  <2>2. \A a, d, g, c : /\ Row(a, {"hex"}, d, g, "hex", c, Unbound).scripts = Unbound
                        /\ Row(a, {"hex"}, d, g, "hex", c, Unbound).format = "hex"
                        /\ Row(a, {"hex"}, d, g, "hex", c, Unbound).formats = {"hex"}
    BY DEF Row
  <2>3. /\ TwoCurvesRow.scripts = Unbound /\ TwoCurvesRow.format = "hex"
        /\ TwoCurvesRow.formats = {"hex"}
        /\ SuiRow.scripts = Unbound /\ SuiRow.format = "hex" /\ SuiRow.formats = {"hex"}
    BY <2>2, Zenon DEF TwoCurvesRow, SuiRow
  <2>4. Matrix[nt].scripts = Unbound /\ fmt \in Matrix[nt].formats /\ fmt \in Formats
    BY <2>1, <2>3 DEF Formats
  <2> QED
    BY <1>1, <1>2, <2>4
<1> QED
  BY <1>3, <1>4, <1>5, <1>6, <1>7 DEF Networks

\* The algorithm algo serves the derivation type t on the network nt.
Serves(algo, nt, t) ==
  /\ algo \in Algorithms /\ algo \in Matrix[nt].algorithms
  /\ algo \in DerivationAlgorithms(nt, t)
  /\ algo = "ed25519" => t \in {"slip10", "cip1852"}

\* Each derivation type of a network is served by one of its algorithms.
LEMMA TypeServed ==
  ASSUME NEW nt \in Networks, NEW t \in Matrix[nt].derivations
  PROVE  \E algo \in Algorithms : Serves(algo, nt, t)
<1> DEFINE k1 == "secp256k1"
           ed == "ed25519"
<1>1. ASSUME Matrix[nt].curves = Unbound, NEW algo \in Algorithms,
             algo \in Matrix[nt].algorithms, algo = "ed25519" => t \in {"slip10", "cip1852"}
      PROVE  Serves(algo, nt, t)
  <2>1. t \notin DOMAIN Matrix[nt].curves
    BY <1>1 DEF Unbound
  <2> QED
    BY <1>1, <2>1, Zenon DEF Serves, DerivationAlgorithms
<1>2. k1 \in Algorithms /\ ed \in Algorithms /\ k1 # "ed25519"
  BY DEF Algorithms
<1>3. CASE nt \in {"avalanche", "tron", "evm"}
  <2>1. Matrix[nt].curves = Unbound /\ k1 \in Matrix[nt].algorithms
    BY <1>3 DEF Matrix, K1Row, Simple, Row
  <2> QED
    BY <1>1, <1>2, <2>1
<1>4. CASE nt \in {"solana", "stellar", "algorand", "ton"}
  <2>1. Matrix[nt].curves = Unbound /\ ed \in Matrix[nt].algorithms /\ t = "slip10"
    BY <1>4 DEF Matrix, Slip10Row, Simple, Row
  <2> QED
    BY <1>1, <1>2, <2>1
<1>5. CASE nt \in {"xrpl", "cosmos"}
  <2>1. Matrix[nt].curves = Unbound /\ k1 \in Matrix[nt].algorithms
    BY <1>5 DEF Matrix, Simple, Row
  <2> QED
    BY <1>1, <1>2, <2>1
<1>6. CASE nt = "cardano"
  <2>1. Matrix[nt].curves = Unbound /\ ed \in Matrix[nt].algorithms /\ t = "cip1852"
    BY <1>6 DEF Matrix, Simple, Row
  <2> QED
    BY <1>1, <1>2, <2>1
<1>7. CASE nt = "bitcoin"
  <2>1. Matrix[nt] = BitcoinRow
    BY <1>7 DEF Matrix
  <2>2. \A f, d, s : /\ Row({"secp256k1"}, f, d, "secp256k1", "", Unbound, s).curves = Unbound
                     /\ Row({"secp256k1"}, f, d, "secp256k1", "", Unbound, s).algorithms
                          = {"secp256k1"}
    BY DEF Row
  <2>3. BitcoinRow.curves = Unbound /\ BitcoinRow.algorithms = {"secp256k1"}
    BY <2>2, Zenon DEF BitcoinRow
  <2> QED
    BY <1>1, <1>2, <2>1, <2>3
<1>8. CASE nt \in {"near", "aptos"}
  <2>1. Matrix[nt] = TwoCurvesRow
    BY <1>8 DEF Matrix
  <2> DEFINE curves == [slip10 |-> "ed25519", bip44 |-> "secp256k1"]
  <2>2. /\ Matrix[nt].derivations = {"slip10", "bip44"}
        /\ Matrix[nt].algorithms = {"ed25519", "secp256k1"}
        /\ Matrix[nt].curves = curves
    BY <2>1 DEF TwoCurvesRow, Row
  <2>3. /\ DOMAIN curves = {"slip10", "bip44"}
        /\ curves["slip10"] = "ed25519" /\ curves["bip44"] = "secp256k1"
    OBVIOUS
  <2> HIDE DEF curves
  <2>4. CASE t = "slip10"
    BY <1>2, <2>2, <2>3, <2>4 DEF Serves, DerivationAlgorithms
  <2>5. CASE t = "bip44"
    BY <1>2, <2>2, <2>3, <2>5 DEF Serves, DerivationAlgorithms
  <2> QED
    BY <2>2, <2>4, <2>5
<1>9. CASE nt = "sui"
  <2>1. Matrix[nt] = SuiRow
    BY <1>9 DEF Matrix
  <2> DEFINE curves == [slip10 |-> "ed25519", bip54 |-> "secp256k1",
                        bip74 |-> "secp256r1"]
             r1 == "secp256r1"
  <2>2. /\ Matrix[nt].derivations = {"slip10", "bip54", "bip74"}
        /\ Matrix[nt].algorithms = {"ed25519", "secp256k1", "secp256r1"}
        /\ Matrix[nt].curves = curves
    BY <2>1 DEF SuiRow, Row
  <2>3. /\ DOMAIN curves = {"slip10", "bip54", "bip74"}
        /\ curves["slip10"] = "ed25519" /\ curves["bip54"] = "secp256k1"
        /\ curves["bip74"] = "secp256r1"
    OBVIOUS
  <2>4. r1 \in Algorithms /\ r1 # "ed25519"
    BY DEF Algorithms
  <2> HIDE DEF curves
  <2>5. CASE t = "slip10"
    BY <1>2, <2>2, <2>3, <2>5 DEF Serves, DerivationAlgorithms
  <2>6. CASE t = "bip54"
    BY <1>2, <2>2, <2>3, <2>6 DEF Serves, DerivationAlgorithms
  <2>7. CASE t = "bip74"
    BY <2>2, <2>3, <2>4, <2>7 DEF Serves, DerivationAlgorithms
  <2> QED
    BY <2>2, <2>5, <2>6, <2>7
<1> QED
  BY <1>3, <1>4, <1>5, <1>6, <1>7, <1>8, <1>9 DEF Networks

\* The rows of the matrix are consistent, for every set of paths: each path of a
\* derivation type that a network lists is valid there with some algorithm, but
\* for the soft slip10 paths and the cosmos bip44 paths of coin 118 that strict
\* mode refuses on purpose (compatibility.cpp:25-161, Derivable).
THEOREM SchemesAreUsable == Spec => []EverySchemeUsable
<1>1. ASSUME NEW nt \in Networks, NEW c, c.network = nt, NEW p \in Path,
             p.type \in Matrix[nt].derivations, Derivable(nt, p)
      PROVE  \E algo \in Algorithms :
               Validate([NewAddress(c, <<p>>) EXCEPT !.algorithm = algo]) = "ok"
  <2>1. PICK algo \in Algorithms : Serves(algo, nt, p.type)
    BY <1>1, TypeServed
  <2> DEFINE a == [NewAddress(c, <<p>>) EXCEPT !.algorithm = algo]
  <2>2. a.chain = c /\ a.path = <<p>> /\ a.algorithm = algo /\ a.format = ""
    BY DEF NewAddress
  <2> HIDE DEF a
  <2>3. nt # "" /\ algo # ""
    BY DEF Networks, Algorithms
  <2>4. a.path[1] = p /\ a.path # <<>> /\ a.chain.network = nt
    <3>1. <<p>>[1] = p /\ <<p>> # <<>>
      OBVIOUS
    <3> QED
      BY <1>1, <2>2, <3>1, Zenon
  <2>5. MarshalCode(a) = "ok"
    BY <1>1, <2>3, <2>4 DEF MarshalCode, PathIsSet, Derivable
  <2>6. ResolvedAlgorithm(a) = algo
    BY <2>2, <2>3 DEF ResolvedAlgorithm
  <2>7. ResolvedFormat(a) = DefaultFormat(nt)
    BY <2>2, <2>4 DEF ResolvedFormat
  <2> DEFINE fmt == DefaultFormat(nt)
  <2>8. fmt = "" \/ (fmt \in Matrix[nt].formats /\ fmt \in DerivationFormats(nt, p.type))
    BY DefaultFormatFits
  <2> HIDE DEF fmt
  <2>9. DerivationFits(a, algo, fmt)
    <3>1. (algo = "ed25519" /\ p.type # "cip1852") =>
             \A k \in DOMAIN p.levels : p.levels[k].hard
      BY <1>1, <2>1 DEF Serves, Derivable
    <3>2. ~ (nt = "cosmos" /\ p.type = "bip44" /\ p.coin = 118)
      BY <1>1 DEF Derivable
    <3>3. algo \in DerivationAlgorithms(nt, p.type)
      BY <2>1 DEF Serves
    <3> QED
      BY <1>1, <2>4, <2>8, <3>1, <3>2, <3>3, Zenon DEF DerivationFits
  <2>10. Compatible(a)
    <3>1. nt \in DOMAIN Matrix /\ algo \in Matrix[nt].algorithms
      BY <2>1 DEF Serves, Matrix
    <3> QED
      BY <2>4, <2>6, <2>7, <2>8, <2>9, <3>1, Zenon DEF Compatible, fmt
  <2>11. Validate(a) = "ok"
    BY <2>5, <2>10 DEF Validate
  <2> QED
    BY <2>11 DEF a
<1>2. TypeOK => EverySchemeUsable
  <2> SUFFICES ASSUME TypeOK, addr.chain.network # "", NEW p \in PathArgs,
                      p.type \in Matrix[addr.chain.network].derivations,
                      Derivable(addr.chain.network, p)
               PROVE  \E algo \in Algorithms :
                        Validate([NewAddress(addr.chain, <<p>>)
                                    EXCEPT !.algorithm = algo]) = "ok"
    BY DEF EverySchemeUsable
  <2>1. addr.chain.network \in Networks
    BY DEF TypeOK, Intact, Address, Chain
  <2>2. p \in Path
    BY AddressArgsAssumption
  <2> QED
    BY <1>1, <2>1, <2>2
<1> QED
  BY <1>2, AddressTypeCorrect, PTL

=============================================================================
