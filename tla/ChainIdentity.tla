--------------------------- MODULE ChainIdentity ---------------------------
(***************************************************************************)
(* The value class chain: a network, a chain id, optional coin metadata,   *)
(* and the two ways of reading one from a text.  A result pairs an error   *)
(* code, "ok" for none, with the chain the call leaves.                    *)
(***************************************************************************)
EXTENDS NssText

Networks ==
  {"bitcoin", "evm", "avalanche", "tron", "cosmos", "solana", "xrpl",
   "stellar", "near", "aptos", "sui", "cardano", "algorand", "ton"}

ASSUME NetworksAreWords == Networks \subseteq Words

\* network is "" until one is set.  An optional value is <<>> or <<value>>.
Chain == [network : Networks \cup {""}, id : Token, coin : Seq(Uint32)]

\* Both halves of the identity are set.
Whole(c) == c.network # "" /\ c.id # Nothing

\* What the setters leave: a chain whose id, if set, is one clean token.
Clean(c) == c \in Chain /\ Storable(c.id) /\ Len(c.coin) <= 1

NoChain == [network |-> "", id |-> Nothing, coin |-> <<>>]

Done(c) == [code |-> "ok", chain |-> c]
Failed(code, c) == [code |-> code, chain |-> c]

-----------------------------------------------------------------------------
(* Setters *)

SetNetwork(c, nt) ==
  IF IsName(nt, Networks) THEN Done([c EXCEPT !.network = nt.word])
  ELSE Failed("invalid_network_type", c)

\* Mutants: the id is stored without looking at its bytes; or before.
SetChainIdUnchecked(c, ci) ==
  IF IsEmpty(ci) THEN Failed("missing_chain_id", c)
  ELSE Done([c EXCEPT !.id = Trim(ci)])

SetChainIdEarly(c, ci) ==
  IF IsEmpty(ci) THEN Failed("missing_chain_id", c)
  ELSE IF ~ NssBytes(Trim(ci))
    THEN Failed("invalid_value", [c EXCEPT !.id = Nothing])
  ELSE Done([c EXCEPT !.id = Trim(ci)])

SetChainId(c, ci) ==
  IF IsEmpty(ci) THEN Failed("missing_chain_id", c)
  ELSE IF ~ NssBytes(Trim(ci)) THEN Failed("invalid_value", c)
  ELSE Done([c EXCEPT !.id = Trim(ci)])

SetCoin(c, n) == [c EXCEPT !.coin = <<n>>]
ClearCoin(c) == [c EXCEPT !.coin = <<>>]

\* The constructor.
NewChain(nt, ci) ==
  LET named == SetNetwork(NoChain, nt)
  IN IF named.code # "ok" THEN named ELSE SetChainId(named.chain, ci)

-----------------------------------------------------------------------------
(* Texts *)

\* str() and key(): the coin is not part of the identity.
ChainKey(c) == Field("nt", Plain(c.network)) \o Field("ci", c.id)

\* build_chain, from the components of an accepted NSS.
BuildChain(m) ==
  LET nt == Normalize(Get(m, "nt"))
      ci == Trim(Get(m, "ci"))
      ct == Trim(Get(m, "ct"))
      built == NewChain(nt, ci)
  IN IF IsEmpty(nt) THEN Failed("missing_network_type", NoChain)
     ELSE IF built.code # "ok" \/ "ct" \notin DOMAIN m THEN built
     ELSE IF IsUint32(ct) THEN Done(SetCoin(built.chain, ct.num))
     ELSE Failed("invalid_coin_type", NoChain)

FromNss(text) ==
  LET parts == TrimEnd(text)
  IN IF ~ NssOk(parts) THEN Failed("invalid_nss", NoChain)
     ELSE BuildChain(Components(parts))

\* Mutant: what is left over is not looked at, as in from_nss.
FromKeyLenient(text) ==
  LET parts == TrimEnd(text)
      m     == Components(parts)
  IN IF ~ NssOk(parts) THEN Failed("invalid_nss", NoChain)
     ELSE IF "ct" \in DOMAIN m THEN Failed("coin_type_in_chain_key", NoChain)
     ELSE IF DOMAIN m \ {"nt", "ci"} # {}
       THEN Failed("invalid_chain_key", NoChain)
     ELSE BuildChain(m)

\* A key must be the canonical text, byte for byte.
FromKey(text) ==
  LET parts == TrimEnd(text)
      m     == Components(parts)
      built == BuildChain(m)
  IN IF Len(parts) % 2 = 1 THEN Failed("invalid_chain_key", NoChain)
     ELSE IF ~ NssOk(parts) THEN Failed("invalid_nss", NoChain)
     ELSE IF "ct" \in DOMAIN m THEN Failed("coin_type_in_chain_key", NoChain)
     ELSE IF DOMAIN m \ {"nt", "ci"} # {}
       THEN Failed("invalid_chain_key", NoChain)
     ELSE IF built.code = "ok" /\ ChainKey(built.chain) # parts
       THEN Failed("invalid_chain_key", NoChain)
     ELSE built

=============================================================================
