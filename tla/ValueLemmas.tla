---------------------------- MODULE ValueLemmas ----------------------------
(***************************************************************************)
(* Facts about chains and addresses as values: what the setters, the       *)
(* parsers and strict validation return, and that a key and a URN read     *)
(* back.                                                                   *)
(***************************************************************************)
EXTENDS AddressValue, PathLemmas, WellFoundedInduction

\* What a call on a chain can return.
ResultCodes ==
  {"ok", "invalid_nss", "missing_network_type", "invalid_network_type",
   "missing_chain_id", "invalid_value", "invalid_coin_type",
   "coin_type_in_chain_key", "invalid_chain_key"}

Result == [code : ResultCodes, chain : {c \in Chain : Clean(c)}]

-----------------------------------------------------------------------------
(* Chains: setters and constructors *)

\* Chains are equal when their fields are.
LEMMA ChainEqual ==
  ASSUME NEW c \in Chain, NEW d \in Chain,
         c.network = d.network, c.id = d.id, c.coin = d.coin
  PROVE  c = d
<1>1. ASSUME NEW A, NEW B, NEW C,
             NEW x \in [network : A, id : B, coin : C],
             NEW y \in [network : A, id : B, coin : C],
             x.network = y.network, x.id = y.id, x.coin = y.coin
      PROVE  x = y
  BY <1>1
<1> QED
  BY <1>1, Zenon DEF Chain

\* The default constructor makes a clean chain.
LEMMA NoChainClean == NoChain \in Chain /\ Clean(NoChain)
<1>1. EmptyText \in Text
  BY DEF EmptyText, Text, Heads
<1>2. Nothing \in Token
  BY <1>1, WordsAssumption DEF Nothing, Plain, Token
<1>3. <<>> \in Seq(Uint32) /\ Len(<<>>) <= 1
  OBVIOUS
<1> QED
  BY <1>2, <1>3, Zenon DEF NoChain, Chain, Clean, Storable

\* set_network_type
LEMMA SetNetworkResult ==
  ASSUME NEW c \in Chain, Clean(c), NEW nt
  PROVE  /\ SetNetwork(c, nt) \in Result
         /\ SetNetwork(c, nt).code # "ok" => SetNetwork(c, nt).chain = c
<1>1. CASE IsName(nt, Networks)
  <2>1. nt.word \in Networks
    BY <1>1 DEF IsName
  <2> DEFINE d == [c EXCEPT !.network = nt.word]
  <2>2. d \in Chain /\ d.id = c.id /\ d.coin = c.coin
    BY <2>1 DEF Chain
  <2>3. Clean(d)
    BY <2>2, Zenon DEF Clean, Storable
  <2>4. SetNetwork(c, nt) = [code |-> "ok", chain |-> d]
    BY <1>1, Zenon DEF SetNetwork, Done
  <2> QED
    BY <2>2, <2>3, <2>4 DEF Result, ResultCodes
<1>2. CASE ~ IsName(nt, Networks)
  BY <1>2 DEF SetNetwork, Failed, Result, ResultCodes
<1> QED
  BY <1>1, <1>2

\* set_chain_id
LEMMA SetChainIdResult ==
  ASSUME NEW c \in Chain, Clean(c), NEW ci \in Token
  PROVE  /\ SetChainId(c, ci) \in Result
         /\ SetChainId(c, ci).code # "ok" => SetChainId(c, ci).chain = c
<1>1. CASE IsEmpty(ci) \/ ~ NssBytes(Trim(ci))
  BY <1>1 DEF SetChainId, Failed, Result, ResultCodes
<1>2. CASE ~ IsEmpty(ci) /\ NssBytes(Trim(ci))
  <2> DEFINE d == [c EXCEPT !.id = Trim(ci)]
  <2>1. Trim(ci) \in Token /\ Trim(ci).word # ""
    BY <1>2 DEF Trim, Token, IsEmpty, NssBytes
  <2>2. d \in Chain /\ d.id = Trim(ci) /\ d.coin = c.coin
    BY <2>1 DEF Chain
  <2>3. Clean(d)
    BY <1>2, <2>1, <2>2, Zenon DEF Clean, Storable
  <2>4. SetChainId(c, ci) = [code |-> "ok", chain |-> d]
    BY <1>2, Zenon DEF SetChainId, Done
  <2> QED
    BY <2>2, <2>3, <2>4 DEF Result, ResultCodes
<1> QED
  BY <1>1, <1>2

\* set_coin_type and clear_coin_type
LEMMA CoinSettersResult ==
  ASSUME NEW c \in Chain, Clean(c)
  PROVE  /\ Done(ClearCoin(c)) \in Result
         /\ \A n \in Uint32 : Done(SetCoin(c, n)) \in Result
<1>1. ASSUME NEW coin \in Seq(Uint32), Len(coin) <= 1
      PROVE  Done([c EXCEPT !.coin = coin]) \in Result
  <2> DEFINE d == [c EXCEPT !.coin = coin]
  <2>1. d \in Chain /\ d.id = c.id /\ d.coin = coin
    BY DEF Chain
  <2>2. Clean(d)
    BY <1>1, <2>1, Zenon DEF Clean, Storable
  <2> QED
    BY <2>1, <2>2 DEF Done, Result, ResultCodes
<1>2. <<>> \in Seq(Uint32) /\ Len(<<>>) <= 1
  OBVIOUS
<1>3. \A n \in Uint32 : <<n>> \in Seq(Uint32) /\ Len(<<n>>) <= 1
  OBVIOUS
<1> QED
  BY <1>1, <1>2, <1>3, Zenon DEF ClearCoin, SetCoin

\* The constructor returns a clean chain.
LEMMA NewChainResult ==
  ASSUME NEW nt, NEW ci \in Token
  PROVE  NewChain(nt, ci) \in Result
<1> DEFINE named == SetNetwork(NoChain, nt)
<1>1. named \in Result
  BY NoChainClean, SetNetworkResult, Zenon
<1>2. named.chain \in Chain /\ Clean(named.chain)
  BY <1>1 DEF Result
<1>3. SetChainId(named.chain, ci) \in Result
  BY <1>2, SetChainIdResult, Zenon
<1> QED
  BY <1>1, <1>3, Zenon DEF NewChain

-----------------------------------------------------------------------------
(* Chains: parsers *)

\* A trimmed token is a token.
LEMMA TrimTyped ==
  ASSUME NEW t \in Token
  PROVE  Trim(t) \in Token
BY DEF Trim, Token

\* Trimming a text keeps its tokens in any set closed under it.
LEMMA TrimEndIn ==
  ASSUME NEW S, \A t \in S : Trim(t) \in S, NEW parts \in Seq(S)
  PROVE  TrimEnd(parts) \in Seq(S)
<1>1. CASE Len(parts) = 1 /\ Trim(parts[1]) = Nothing
  BY <1>1 DEF TrimEnd
<1>2. CASE ~ (Len(parts) = 1 /\ Trim(parts[1]) = Nothing)
  <2>1. DOMAIN parts = 1 .. Len(parts) /\ Len(parts) \in Nat
    OBVIOUS
  <2>2. \A i \in 1 .. Len(parts) :
          parts[i] \in S /\ Trim(parts[i]) \in S
    BY ElementOfSeq
  <2>3. TrimEnd(parts) \in [1 .. Len(parts) -> S]
    BY <1>2, <2>1, <2>2, Zenon DEF TrimEnd
  <2> QED
    BY <2>1, <2>3
<1> QED
  BY <1>1, <1>2

\* A trimmed text is a text.
LEMMA TrimEndTyped ==
  ASSUME NEW parts \in Seq(Token)
  PROVE  TrimEnd(parts) \in Seq(Token)
BY TrimTyped, TrimEndIn, Zenon

\* A component that is looked up is a token of the text, or empty.
LEMMA ComponentsIn ==
  ASSUME NEW S, Nothing \in S, NEW parts \in Seq(S), NEW k
  PROVE  Get(Components(parts), k) \in S
<1> DEFINE known == {i \in Pairs(parts) : Known(KeyAt(parts, i))}
           at    == CHOOSE i \in known : KeyAt(parts, i).word = k
<1>2. CASE k \notin DOMAIN Components(parts)
  BY <1>2, Zenon DEF Get
<1>3. CASE k \in DOMAIN Components(parts)
  <2>1. k \in {KeyAt(parts, i).word : i \in known}
    BY <1>3, Zenon DEF Components
  <2>2. at \in known
    BY <2>1, Zenon
  <2>3. Components(parts)[k] = ValueAt(parts, at)
    BY <2>1, Zenon DEF Components
  <2> HIDE DEF at
  <2>4. at \in 1 .. Len(parts) \div 2
    BY <2>2 DEF Pairs
  <2>5. 2 * at \in 1 .. Len(parts)
    BY <2>4
  <2>6. ValueAt(parts, at) \in S
    BY <2>5, ElementOfSeq DEF ValueAt
  <2> QED
    BY <1>3, <2>3, <2>6, Zenon DEF Get
<1> QED
  BY <1>2, <1>3

\* What a component map holds, or lacks, under a key is a token.
LEMMA ComponentsTyped ==
  ASSUME NEW parts \in Seq(Token), NEW k
  PROVE  Get(Components(parts), k) \in Token
<1>1. Nothing \in Token
  BY NoChainClean DEF NoChain, Chain
<1> QED
  BY <1>1, ComponentsIn

\* A chain built from components fails for one of five reasons.
LEMMA BuildChainCodes ==
  ASSUME NEW m
  PROVE  BuildChain(m).code \in
           {"ok", "missing_network_type", "invalid_network_type",
            "missing_chain_id", "invalid_value", "invalid_coin_type"}
<1> DEFINE codes == {"ok", "missing_network_type", "invalid_network_type",
                     "missing_chain_id", "invalid_value", "invalid_coin_type"}
<1>1. \A c : Done(c).code \in codes
  BY DEF Done
<1>2. \A code \in codes : \A c : Failed(code, c).code \in codes
  BY DEF Failed
<1>3. \A code, c : code \in {"missing_network_type", "invalid_network_type",
                             "missing_chain_id", "invalid_value",
                             "invalid_coin_type"} => code \in codes
  OBVIOUS
<1> HIDE DEF codes
<1>4. \A c, nt : SetNetwork(c, nt).code \in codes
  BY <1>1, <1>2, <1>3, Zenon DEF SetNetwork
<1>5. \A c, ci : SetChainId(c, ci).code \in codes
  BY <1>1, <1>2, <1>3, Zenon DEF SetChainId
<1>6. \A nt, ci : NewChain(nt, ci).code \in codes
  BY <1>4, <1>5, Zenon DEF NewChain
<1>7. BuildChain(m).code \in codes
  BY <1>1, <1>2, <1>3, <1>6, Zenon DEF BuildChain
<1> QED
  BY <1>7 DEF codes

\* A chain built from the components of a text is clean.
LEMMA BuildChainResult ==
  ASSUME NEW parts \in Seq(Token)
  PROVE  BuildChain(Components(parts)) \in Result
<1> DEFINE m     == Components(parts)
           nt    == Normalize(Get(m, "nt"))
           ci    == Trim(Get(m, "ci"))
           ct    == Trim(Get(m, "ct"))
           built == NewChain(nt, ci)
<1>1. ci \in Token
  BY ComponentsTyped, TrimTyped, Zenon
<1>2. built \in Result
  BY <1>1, NewChainResult, Zenon
<1>3. \A code \in ResultCodes : Failed(code, NoChain) \in Result
  BY NoChainClean DEF Failed, Result
<1>4. CASE IsUint32(ct)
  <2>1. ct.num \in Uint32
    BY <1>4 DEF IsUint32
  <2>2. built.chain \in Chain /\ Clean(built.chain)
    BY <1>2 DEF Result
  <2>3. Done(SetCoin(built.chain, ct.num)) \in Result
    BY <2>1, <2>2, CoinSettersResult, Zenon
  <2>4. BuildChain(m) \in {built, Failed("missing_network_type", NoChain),
                           Done(SetCoin(built.chain, ct.num))}
    BY <1>4, Zenon DEF BuildChain
  <2> QED
    BY <1>2, <1>3, <2>3, <2>4, Zenon DEF ResultCodes
<1>5. CASE ~ IsUint32(ct)
  <2>1. BuildChain(m) \in {built, Failed("missing_network_type", NoChain),
                           Failed("invalid_coin_type", NoChain)}
    BY <1>5, Zenon DEF BuildChain
  <2> QED
    BY <1>2, <1>3, <2>1, Zenon DEF ResultCodes
<1> QED
  BY <1>4, <1>5

\* Both parsers return a clean chain.
LEMMA ParsersResult ==
  ASSUME NEW text \in Seq(Token)
  PROVE  FromNss(text) \in Result /\ FromKey(text) \in Result
<1> DEFINE built == BuildChain(Components(TrimEnd(text)))
<1>1. built \in Result
  BY TrimEndTyped, BuildChainResult, Zenon
<1>2. \A code \in ResultCodes : Failed(code, NoChain) \in Result
  BY NoChainClean DEF Failed, Result
<1>3. FromNss(text) \in {built, Failed("invalid_nss", NoChain)}
  BY Zenon DEF FromNss
<1>4. FromKey(text) \in
        {built, Failed("invalid_nss", NoChain),
         Failed("invalid_chain_key", NoChain),
         Failed("coin_type_in_chain_key", NoChain)}
  BY Zenon DEF FromKey
<1> QED
  BY <1>1, <1>2, <1>3, <1>4, Zenon DEF ResultCodes

-----------------------------------------------------------------------------
(* The pairs of an accepted NSS *)

\* An optional value that is there.
LEMMA OneElement ==
  ASSUME NEW S, NEW s \in Seq(S), s # <<>>, Len(s) <= 1
  PROVE  Len(s) = 1 /\ s[1] \in S /\ s = <<s[1]>>
<1>1. Len(s) \in Nat \ {0}
  BY EmptySeq, Zenon
<1>2. Len(s) = 1
  BY <1>1
<1> QED
  BY <1>2

\* An even number is twice its half.
LEMMA Halves ==
  ASSUME NEW n \in Nat, n % 2 = 0
  PROVE  n \div 2 \in Nat /\ n = 2 * (n \div 2)
OBVIOUS

\* An interval one or two longer.
LEMMA Intervals ==
  ASSUME NEW n \in Nat
  PROVE  /\ 1 .. n + 1 = (1 .. n) \cup {n + 1} /\ n + 1 \notin 1 .. n
         /\ 1 .. n + 2 = (1 .. n) \cup {n + 1, n + 2}
OBVIOUS

\* The parts of the token of a lowercase word.
LEMMA PlainFacts ==
  ASSUME NEW w
  PROVE  /\ Plain(w).word = w /\ Plain(w).num = 0
         /\ Plain(w).path = EmptyText /\ Plain(w).upper = FALSE
         /\ Plain(w).space = FALSE /\ Plain(w).byte = "none"
         /\ NssBytes(Plain(w))
BY DEF Plain, NssBytes

\* The token of a known word is a token.
LEMMA PlainTyped ==
  ASSUME NEW w \in Words
  PROVE  Plain(w) \in Token
<1>1. EmptyText \in Text
  BY DEF EmptyText, Text, Heads
<1> QED
  BY <1>1 DEF Plain, Token

\* A token without whitespace is its own trimming.
LEMMA CleanIsTrimmed ==
  ASSUME NEW t \in Token, ~ t.space
  PROVE  Trim(t) = t
BY DEF Trim, Token

\* Keys that the map has, and keys of the text.
LEMMA ComponentsDomain ==
  ASSUME NEW s, NEW k
  PROVE  k \in DOMAIN Components(s) <=>
           \E i \in Pairs(s) : Known(KeyAt(s, i)) /\ KeyAt(s, i).word = k
<1> DEFINE known == {i \in Pairs(s) : Known(KeyAt(s, i))}
<1>1. DOMAIN Components(s) = {KeyAt(s, i).word : i \in known}
  BY Zenon DEF Components
<1> QED
  BY <1>1, Zenon

\* In an accepted NSS each known key has one value, and the map has it.
LEMMA ComponentAt ==
  ASSUME NEW s, NssOk(s), NEW i \in Pairs(s), Known(KeyAt(s, i))
  PROVE  /\ KeyAt(s, i).word \in DOMAIN Components(s)
         /\ Components(s)[KeyAt(s, i).word] = ValueAt(s, i)
<1> DEFINE k == KeyAt(s, i).word
           known == {j \in Pairs(s) : Known(KeyAt(s, j))}
           at    == CHOOSE j \in known : KeyAt(s, j).word = k
<1>1. at \in known /\ KeyAt(s, at).word = k
  BY Zenon
<1>2. Components(s)[k] = ValueAt(s, at)
  <2>1. k \in {KeyAt(s, j).word : j \in known}
    BY Zenon
  <2> QED
    BY <2>1, Zenon DEF Components
<1> HIDE DEF at
<1>3. KeyAt(s, at) = KeyAt(s, i)
  BY <1>1, Zenon DEF Known, IsName
<1>4. at = i
  BY <1>1, <1>3, Zenon DEF NssOk
<1> QED
  BY <1>2, <1>4, ComponentsDomain, Zenon

\* Two accepted texts with the same pairs of known keys have the same map.
LEMMA SamePairs ==
  ASSUME NEW s, NEW u, NssOk(s), NssOk(u),
         \A i \in Pairs(s) : Known(KeyAt(s, i)) =>
           \E j \in Pairs(u) : /\ KeyAt(u, j) = KeyAt(s, i)
                               /\ ValueAt(u, j) = ValueAt(s, i),
         \A i \in Pairs(u) : Known(KeyAt(u, i)) =>
           \E j \in Pairs(s) : /\ KeyAt(s, j) = KeyAt(u, i)
                               /\ ValueAt(s, j) = ValueAt(u, i)
  PROVE  Components(u) = Components(s)
<1> DEFINE f == Components(s)
           g == Components(u)
<1>1. ASSUME NEW k
      PROVE  /\ k \in DOMAIN f <=> k \in DOMAIN g
             /\ k \in DOMAIN f => f[k] = g[k]
  <2>1. ASSUME k \in DOMAIN f
        PROVE  k \in DOMAIN g /\ f[k] = g[k]
    <3>1. PICK i \in Pairs(s) : Known(KeyAt(s, i)) /\ KeyAt(s, i).word = k
      BY <2>1, ComponentsDomain, Zenon
    <3>2. PICK j \in Pairs(u) : /\ KeyAt(u, j) = KeyAt(s, i)
                                /\ ValueAt(u, j) = ValueAt(s, i)
      BY <3>1
    <3>3. f[KeyAt(s, i).word] = ValueAt(s, i)
      BY <3>1, ComponentAt, Zenon
    <3>4. Known(KeyAt(u, j)) /\ KeyAt(u, j).word = k
      BY <3>1, <3>2, Zenon
    <3>5. /\ KeyAt(u, j).word \in DOMAIN g
          /\ g[KeyAt(u, j).word] = ValueAt(u, j)
      BY <3>4, ComponentAt, Zenon
    <3> QED
      BY <3>1, <3>2, <3>3, <3>4, <3>5, Zenon
  <2>2. ASSUME k \in DOMAIN g
        PROVE  k \in DOMAIN f
    <3>1. PICK i \in Pairs(u) : Known(KeyAt(u, i)) /\ KeyAt(u, i).word = k
      BY <2>2, ComponentsDomain, Zenon
    <3>2. PICK j \in Pairs(s) : KeyAt(s, j) = KeyAt(u, i)
      BY <3>1
    <3> QED
      BY <3>1, <3>2, ComponentsDomain, Zenon
  <2> QED
    BY <2>1, <2>2
<1>2. f = [k \in DOMAIN f |-> f[k]] /\ g = [k \in DOMAIN g |-> g[k]]
  BY Zenon DEF Components
<1> HIDE DEF f, g
<1>3. DOMAIN f = DOMAIN g
  BY <1>1, Zenon
<1>4. [k \in DOMAIN f |-> f[k]] = [k \in DOMAIN g |-> g[k]]
  BY <1>1, <1>3
<1>5. f = g
  BY <1>2, <1>4
<1> QED
  BY <1>5 DEF f, g

\* A pair written behind an accepted NSS that does not have its key.
LEMMA AppendPair ==
  ASSUME NEW s \in Seq(Token), NssOk(s), NEW k \in Keys,
         k \notin DOMAIN Components(s),
         NEW v \in Token, Storable(v), v # Nothing,
         NEW u, u = s \o <<Plain(k), v>>
  PROVE  /\ u \in Seq(Token) /\ NssOk(u)
         /\ k \in DOMAIN Components(u) /\ Components(u)[k] = v
         /\ \A j : j \in DOMAIN Components(u) <=>
                     j = k \/ j \in DOMAIN Components(s)
         /\ \A j \in DOMAIN Components(s) :
              Components(u)[j] = Components(s)[j]
<1> DEFINE n == Len(s)
           h == n \div 2
           p == Plain(k)
           t == <<p, v>>
<1>1. /\ p \in Token /\ p.word = k /\ p.word # "" /\ NssBytes(p)
      /\ Known(p)
  <2>1. k \in Words /\ k # ""
    BY WordsAssumption DEF Keys
  <2>2. p \in Token /\ p.word = k /\ NssBytes(p)
    BY <2>1, PlainTyped, PlainFacts, Zenon
  <2> QED
    BY <2>1, <2>2, Zenon DEF Known, IsName
<1> HIDE DEF p
<1>2. /\ u \in Seq(Token) /\ Len(u) = n + 2
      /\ \A i \in 1 .. n : u[i] = s[i]
      /\ u[n + 1] = p /\ u[n + 2] = v
  <2>1. t \in Seq(Token) /\ Len(t) = 2 /\ t[1] = p /\ t[2] = v
    <3>1. \A x, y \in Token : /\ <<x, y>> \in Seq(Token) /\ Len(<<x, y>>) = 2
                              /\ <<x, y>>[1] = x /\ <<x, y>>[2] = y
      OBVIOUS
    <3> QED
      BY <1>1, <3>1, Zenon
  <2>2. u = s \o t
    BY DEF p
  <2> HIDE DEF t
  <2>3. /\ s \o t \in Seq(Token)
        /\ Len(s \o t) = Len(s) + Len(t)
        /\ \A i \in 1 .. Len(s) + Len(t) :
             (s \o t)[i] = IF i <= Len(s) THEN s[i] ELSE t[i - Len(s)]
    BY <2>1, ConcatProperties, Zenon
  <2>4. n \in Nat
    OBVIOUS
  <2> QED
    BY <2>1, <2>2, <2>3, <2>4
<1>3. h \in Nat /\ n = 2 * h /\ n \in Nat
  <2>1. n \in Nat /\ n % 2 = 0
    <3>1. n % 2 = 0
      BY Zenon DEF NssOk
    <3>2. n \in Nat
      OBVIOUS
    <3> QED
      BY <3>1, <3>2, Zenon
  <2> HIDE DEF n
  <2> QED
    BY <2>1, Halves
<1> HIDE DEF n, h
<1>4. /\ Pairs(s) = 1 .. h /\ Pairs(u) = 1 .. h + 1
      /\ Len(u) % 2 = 0
  BY <1>2, <1>3 DEF Pairs, n, h
<1>5. /\ \A i \in 1 .. h : /\ KeyAt(u, i) = KeyAt(s, i)
                           /\ ValueAt(u, i) = ValueAt(s, i)
      /\ KeyAt(u, h + 1) = p /\ ValueAt(u, h + 1) = v
  <2>1. \A i \in 1 .. h : 2 * i - 1 \in 1 .. n /\ 2 * i \in 1 .. n
    BY <1>3
  <2>2. 2 * (h + 1) - 1 = n + 1 /\ 2 * (h + 1) = n + 2
    BY <1>3
  <2>3. \A i \in 1 .. h : u[2 * i - 1] = s[2 * i - 1] /\ u[2 * i] = s[2 * i]
    BY <1>2, <2>1, Zenon
  <2>4. u[2 * (h + 1) - 1] = p /\ u[2 * (h + 1)] = v
    BY <1>2, <2>2, Zenon
  <2> QED
    BY <2>3, <2>4, Zenon DEF KeyAt, ValueAt
<1>6. 1 .. h + 1 = (1 .. h) \cup {h + 1} /\ h + 1 \notin 1 .. h
  BY <1>3, Intervals, Zenon
<1>7. \A i \in DOMAIN u : u[i].word # "" /\ NssBytes(u[i])
  <2>0. v.word # "" /\ NssBytes(v)
    BY Zenon DEF Storable
  <2>1. DOMAIN u = 1 .. n + 2 /\ DOMAIN s = 1 .. n
    BY <1>2 DEF n
  <2>2. \A i \in 1 .. n : s[i].word # "" /\ NssBytes(s[i])
    BY <2>1, Zenon DEF NssOk
  <2>3. 1 .. n + 2 = (1 .. n) \cup {n + 1, n + 2}
    BY <1>3, Intervals, Zenon
  <2> QED
    BY <1>1, <1>2, <2>0, <2>1, <2>2, <2>3, Zenon
<1>8. \A i \in 1 .. h : Known(KeyAt(s, i)) => KeyAt(s, i) # p
  BY <1>1, <1>4, ComponentsDomain, Zenon
<1>9. NssOk(u)
  <2>1. \A i \in Pairs(u) : KeyAt(u, i).word \in Keys => Known(KeyAt(u, i))
    BY <1>1, <1>4, <1>5, <1>6, Zenon DEF NssOk
  <2>2. ASSUME NEW i \in Pairs(u), NEW j \in Pairs(u),
               Known(KeyAt(u, i)), KeyAt(u, i) = KeyAt(u, j)
        PROVE  i = j
    <3>1. CASE i \in 1 .. h /\ j \in 1 .. h
      <4>1. \A x, y \in 1 .. h :
              (Known(KeyAt(s, x)) /\ KeyAt(s, x) = KeyAt(s, y)) => x = y
        BY <1>4, Zenon DEF NssOk
      <4>2. KeyAt(u, i) = KeyAt(s, i) /\ KeyAt(u, j) = KeyAt(s, j)
        BY <1>5, <3>1, Zenon
      <4>3. Known(KeyAt(s, i)) /\ KeyAt(s, i) = KeyAt(s, j)
        BY <2>2, <4>2
      <4> QED
        BY <3>1, <4>1, <4>3, Zenon
    <3>2. CASE i = h + 1 /\ j \in 1 .. h
      BY <1>1, <1>5, <1>8, <2>2, <3>2, Zenon
    <3>3. CASE i \in 1 .. h /\ j = h + 1
      BY <1>1, <1>5, <1>8, <2>2, <3>3, Zenon
    <3>4. (i \in 1 .. h \/ i = h + 1) /\ (j \in 1 .. h \/ j = h + 1)
      BY <1>4, <1>6, Zenon
    <3> QED
      BY <3>1, <3>2, <3>3, <3>4, Zenon
  <2> QED
    BY <1>4, <1>7, <2>1, <2>2, Zenon DEF NssOk
<1>10. KeyAt(u, h + 1).word = k /\ Known(KeyAt(u, h + 1)) /\ h + 1 \in Pairs(u)
  BY <1>1, <1>4, <1>5, <1>6, Zenon
<1>11. k \in DOMAIN Components(u) /\ Components(u)[k] = v
  BY <1>5, <1>9, <1>10, ComponentAt, Zenon
<1>12. ASSUME NEW j
       PROVE  j \in DOMAIN Components(u) <=> j = k \/ j \in DOMAIN Components(s)
  <2>1. ASSUME j \in DOMAIN Components(u), j # k
        PROVE  j \in DOMAIN Components(s)
    <3>1. PICK i \in Pairs(u) : Known(KeyAt(u, i)) /\ KeyAt(u, i).word = j
      BY <2>1, ComponentsDomain, Zenon
    <3>2. i \in 1 .. h
      BY <1>4, <1>6, <1>10, <2>1, <3>1, Zenon
    <3> QED
      BY <1>4, <1>5, <3>1, <3>2, ComponentsDomain, Zenon
  <2>2. ASSUME j \in DOMAIN Components(s)
        PROVE  j \in DOMAIN Components(u)
    <3>1. PICK i \in Pairs(s) : Known(KeyAt(s, i)) /\ KeyAt(s, i).word = j
      BY <2>2, ComponentsDomain, Zenon
    <3> QED
      BY <1>4, <1>5, <1>6, <3>1, ComponentsDomain, Zenon
  <2> QED
    BY <1>11, <2>1, <2>2, Zenon
<1>13. ASSUME NEW j \in DOMAIN Components(s)
       PROVE  Components(u)[j] = Components(s)[j]
  <2>1. PICK i \in Pairs(s) : Known(KeyAt(s, i)) /\ KeyAt(s, i).word = j
    BY ComponentsDomain, Zenon
  <2>2. /\ i \in Pairs(u) /\ KeyAt(u, i) = KeyAt(s, i)
        /\ ValueAt(u, i) = ValueAt(s, i)
    BY <1>4, <1>5, <1>6, <2>1, Zenon
  <2>3. Components(s)[j] = ValueAt(s, i)
    BY <2>1, ComponentAt, Zenon
  <2>4. Components(u)[j] = ValueAt(u, i)
    BY <1>9, <2>1, <2>2, ComponentAt, Zenon
  <2> QED
    BY <2>2, <2>3, <2>4
<1> QED
  BY <1>2, <1>9, <1>11, <1>12, <1>13, Zenon

-----------------------------------------------------------------------------
(* The key *)

\* Two pairs in a row are four elements.
LEMMA TwoPairs ==
  ASSUME NEW S, NEW a \in S, NEW b \in S, NEW c \in S, NEW d \in S
  PROVE  /\ <<a, b>> \o <<c, d>> = <<a, b, c, d>>
         /\ <<a, b, c, d>> \in Seq(S) /\ Len(<<a, b, c, d>>) = 4
<1> DEFINE s == <<a, b>>
           t == <<c, d>>
           u == <<a, b, c, d>>
<1>1. s \in Seq(S) /\ Len(s) = 2 /\ s[1] = a /\ s[2] = b
  OBVIOUS
<1>2. t \in Seq(S) /\ Len(t) = 2 /\ t[1] = c /\ t[2] = d
  OBVIOUS
<1>3. u \in Seq(S) /\ Len(u) = 4
  OBVIOUS
<1>4. u[1] = a /\ u[2] = b /\ u[3] = c /\ u[4] = d
  OBVIOUS
<1> HIDE DEF s, t, u
<1>5. /\ s \o t \in Seq(S)
      /\ Len(s \o t) = Len(s) + Len(t)
      /\ \A i \in 1 .. Len(s) + Len(t) :
           (s \o t)[i] = IF i <= Len(s) THEN s[i] ELSE t[i - Len(s)]
  BY <1>1, <1>2, ConcatProperties, Zenon
<1> DEFINE st == s \o t
<1> HIDE DEF st
<1>6. /\ st \in Seq(S) /\ Len(st) = 4
      /\ st[1] = s[1] /\ st[2] = s[2] /\ st[3] = t[1] /\ st[4] = t[2]
  <2>1. /\ Len(st) = 4
        /\ \A i \in 1 .. 4 : st[i] = IF i <= 2 THEN s[i] ELSE t[i - 2]
    BY <1>1, <1>2, <1>5 DEF st
  <2> QED
    BY <1>5, <2>1 DEF st
<1>7. \A i \in 1 .. 4 : st[i] = u[i]
  <2>1. \A i \in 1 .. 4 : i = 1 \/ i = 2 \/ i = 3 \/ i = 4
    OBVIOUS
  <2> QED
    BY <1>1, <1>2, <1>4, <1>6, <2>1, Zenon
<1>8. st = u
  BY <1>3, <1>6, <1>7, SeqEqual
<1> QED
  BY <1>3, <1>8 DEF s, t, u, st

\* The tokens of a whole chain's key.
LEMMA KeyTokens ==
  ASSUME NEW c \in Chain, Clean(c), Whole(c)
  PROVE  /\ ChainKey(c) = <<Plain("nt"), Plain(c.network), Plain("ci"), c.id>>
         /\ ChainKey(c) \in Seq(Token) /\ Len(ChainKey(c)) = 4
         /\ DOMAIN ChainKey(c) = 1 .. 4
         /\ ChainKey(c)[1] = Plain("nt") /\ ChainKey(c)[2] = Plain(c.network)
         /\ ChainKey(c)[3] = Plain("ci") /\ ChainKey(c)[4] = c.id
         /\ c.id \in Token /\ NssBytes(c.id) /\ c.id.word # ""
         /\ c.network \in Networks
         /\ Plain(c.network) \in Token
<1>1. c.id \in Token /\ c.network \in Networks
  BY DEF Chain, Whole
<1>2. NssBytes(c.id) /\ c.id.word # ""
  BY DEF Clean, Storable, Whole
<1>3. Plain(c.network).byte = "none" /\ c.id.byte = "none"
  BY <1>2 DEF Plain, NssBytes
<1>4. ChainKey(c) = <<Plain("nt"), Plain(c.network)>> \o <<Plain("ci"), c.id>>
  BY <1>3, Zenon DEF ChainKey, Field
<1>5. \A n \in Networks : Plain(n) \in Token
  <2>1. EmptyText \in Text
    BY DEF EmptyText, Text, Heads
  <2> QED
    BY <2>1, NetworksAreWords DEF Plain, Token
<1>6. \A w \in {"nt", "ci"} : Plain(w) \in Token
  <2>1. EmptyText \in Text
    BY DEF EmptyText, Text, Heads
  <2> QED
    BY <2>1, WordsAssumption DEF Plain, Token, Keys
<1>7. ChainKey(c) = <<Plain("nt"), Plain(c.network), Plain("ci"), c.id>>
  <2>1. /\ Plain("nt") \in Token /\ Plain(c.network) \in Token
        /\ Plain("ci") \in Token
    BY <1>1, <1>5, <1>6, Zenon
  <2> DEFINE nt == Plain("nt")
             n  == Plain(c.network)
             ci == Plain("ci")
             id == c.id
  <2>2. nt \in Token /\ n \in Token /\ ci \in Token /\ id \in Token
    BY <1>1, <2>1, Zenon
  <2> HIDE DEF nt, n, ci, id
  <2>3. <<nt, n>> \o <<ci, id>> = <<nt, n, ci, id>>
    BY <2>2, TwoPairs
  <2> QED
    BY <1>4, <2>3, Zenon DEF nt, n, ci, id
<1> DEFINE nt == Plain("nt")
           n  == Plain(c.network)
           ci == Plain("ci")
<1>8. /\ nt \in Token /\ n \in Token /\ ci \in Token
      /\ ChainKey(c) = <<nt, n, ci, c.id>>
  BY <1>1, <1>5, <1>6, <1>7, Zenon
<1> HIDE DEF nt, n, ci
<1>9. /\ ChainKey(c) \in Seq(Token) /\ Len(ChainKey(c)) = 4
      /\ DOMAIN ChainKey(c) = 1 .. 4
      /\ ChainKey(c)[1] = nt /\ ChainKey(c)[2] = n
      /\ ChainKey(c)[3] = ci /\ ChainKey(c)[4] = c.id
  <2> DEFINE id == c.id
  <2>1. id \in Token
    BY <1>1
  <2> HIDE DEF id
  <2>2. /\ <<nt, n, ci, id>> \in Seq(Token) /\ Len(<<nt, n, ci, id>>) = 4
        /\ DOMAIN <<nt, n, ci, id>> = 1 .. 4
        /\ <<nt, n, ci, id>>[1] = nt /\ <<nt, n, ci, id>>[2] = n
        /\ <<nt, n, ci, id>>[3] = ci /\ <<nt, n, ci, id>>[4] = id
    BY <1>8, <2>1
  <2>3. ChainKey(c) = <<nt, n, ci, id>>
    BY <1>8 DEF id
  <2> QED
    BY <2>2, <2>3, Zenon DEF id
<1> QED
  BY <1>1, <1>2, <1>5, <1>7, <1>9, Zenon DEF nt, n, ci

\* Whitespace goes nowhere: the key ends in the id, which has none.
LEMMA KeyIsTrimmed ==
  ASSUME NEW c \in Chain, Clean(c), Whole(c)
  PROVE  TrimEnd(ChainKey(c)) = ChainKey(c) /\ Trim(c.id) = c.id
<1> DEFINE key == ChainKey(c)
<1>1. Trim(c.id) = c.id
  <2>1. c.id \in Token /\ c.id.space = FALSE
    BY KeyTokens DEF Token, NssBytes
  <2> QED
    BY <2>1 DEF Trim, Token
<1>2. key \in Seq(Token) /\ Len(key) = 4 /\ key[4] = c.id
  BY KeyTokens, Zenon
<1> HIDE DEF key
<1>3. key \in [1 .. 4 -> Token] /\ DOMAIN key = 1 .. 4
  BY <1>2, LenProperties, Zenon
<1>4. TrimEnd(key) = [i \in DOMAIN key |->
                        IF i = Len(key) THEN Trim(key[i]) ELSE key[i]]
  BY <1>2 DEF TrimEnd
<1>5. TrimEnd(key) = [i \in 1 .. 4 |-> key[i]]
  BY <1>1, <1>2, <1>3, <1>4, Zenon
<1>6. TrimEnd(key) = key
  BY <1>3, <1>5, Zenon
<1> QED
  BY <1>1, <1>6 DEF key

\* The key is an accepted NSS, and its components are its own two values.
LEMMA KeyIsNss ==
  ASSUME NEW c \in Chain, Clean(c), Whole(c)
  PROVE  /\ NssOk(ChainKey(c))
         /\ DOMAIN Components(ChainKey(c)) = {"nt", "ci"}
         /\ Components(ChainKey(c))["nt"] = Plain(c.network)
         /\ Components(ChainKey(c))["ci"] = c.id
<1> DEFINE key   == ChainKey(c)
           known == {i \in Pairs(key) : Known(KeyAt(key, i))}
<1>1. /\ Len(key) = 4 /\ DOMAIN key = 1 .. 4
      /\ key[1] = Plain("nt") /\ key[2] = Plain(c.network)
      /\ key[3] = Plain("ci") /\ key[4] = c.id
  BY KeyTokens, Zenon
<1>2. NssBytes(c.id) /\ c.id.word # "" /\ c.network # ""
  BY KeyTokens DEF Networks
<1> HIDE DEF key
<1>3. \A w : /\ Plain(w).word = w
             /\ NssBytes(Plain(w))
  BY DEF Plain, NssBytes
<1>4. \A i \in DOMAIN key : key[i].word # "" /\ NssBytes(key[i])
  <2>1. \A i \in DOMAIN key : i = 1 \/ i = 2 \/ i = 3 \/ i = 4
    BY <1>1
  <2>0. "nt" # "" /\ "ci" # ""
    OBVIOUS
  <2>2. key[1].word # "" /\ NssBytes(key[1])
    BY <1>1, <1>3, <2>0, Zenon
  <2>3. key[2].word # "" /\ NssBytes(key[2])
    BY <1>1, <1>2, <1>3, Zenon
  <2>4. key[3].word # "" /\ NssBytes(key[3])
    BY <1>1, <1>3, <2>0, Zenon
  <2>5. key[4].word # "" /\ NssBytes(key[4])
    BY <1>1, <1>2, Zenon
  <2> QED
    BY <2>1, <2>2, <2>3, <2>4, <2>5, Zenon
<1>5. Pairs(key) = {1, 2}
  BY <1>1 DEF Pairs
<1>6. /\ KeyAt(key, 1) = Plain("nt") /\ KeyAt(key, 2) = Plain("ci")
      /\ ValueAt(key, 1) = Plain(c.network) /\ ValueAt(key, 2) = c.id
  <2>1. 2 * 1 - 1 = 1 /\ 2 * 1 = 2 /\ 2 * 2 - 1 = 3 /\ 2 * 2 = 4
    OBVIOUS
  <2> QED
    BY <1>1, <2>1, Zenon DEF KeyAt, ValueAt
<1>7. "nt" # "ci" /\ "nt" \in Keys /\ "ci" \in Keys
  BY DEF Keys
<1>7a. KeyAt(key, 1).word = "nt" /\ KeyAt(key, 2).word = "ci"
  BY <1>3, <1>6, Zenon
<1>8. \A i \in {1, 2} : Known(KeyAt(key, i))
  BY <1>3, <1>6, <1>7, Zenon DEF Known, IsName
<1>9. \A i, j \in {1, 2} : KeyAt(key, i).word = KeyAt(key, j).word => i = j
  BY <1>7, <1>7a
<1>10. Len(key) % 2 = 0
  BY <1>1
<1>11. NssOk(key)
  BY <1>4, <1>5, <1>8, <1>9, <1>10, Zenon DEF NssOk
<1>12. known = {1, 2}
  BY <1>5, <1>8, Zenon
<1> HIDE DEF known
<1>13. Components(key) =
         [k \in {KeyAt(key, i).word : i \in known} |->
            ValueAt(key, CHOOSE i \in known : KeyAt(key, i).word = k)]
  BY Zenon DEF Components, known
<1>14. {KeyAt(key, i).word : i \in known} = {"nt", "ci"}
  BY <1>3, <1>6, <1>12, Zenon
<1>15. ASSUME NEW n \in {1, 2}
       PROVE  (CHOOSE i \in known : KeyAt(key, i).word = KeyAt(key, n).word) = n
  <2> DEFINE at == CHOOSE i \in known : KeyAt(key, i).word = KeyAt(key, n).word
  <2>1. at \in known /\ KeyAt(key, at).word = KeyAt(key, n).word
    BY <1>12, Zenon
  <2> HIDE DEF at
  <2>2. at = n
    BY <1>9, <1>12, <2>1, Zenon
  <2> QED
    BY <2>2 DEF at
<1>16. (CHOOSE i \in known : KeyAt(key, i).word = "nt") = 1
  BY <1>3, <1>6, <1>15, Zenon
<1>17. (CHOOSE i \in known : KeyAt(key, i).word = "ci") = 2
  BY <1>3, <1>6, <1>15, Zenon
<1>18. /\ DOMAIN Components(key) = {"nt", "ci"}
       /\ Components(key)["nt"] = Plain(c.network)
       /\ Components(key)["ci"] = c.id
  <2>1. /\ DOMAIN Components(key) = {"nt", "ci"}
        /\ \A k \in {"nt", "ci"} :
             Components(key)[k]
               = ValueAt(key, CHOOSE i \in known : KeyAt(key, i).word = k)
    BY <1>13, <1>14, Zenon
  <2>2. Components(key)["nt"] = ValueAt(key, 1)
    BY <1>16, <2>1, Zenon
  <2>3. Components(key)["ci"] = ValueAt(key, 2)
    BY <1>17, <2>1, Zenon
  <2> QED
    BY <1>6, <2>1, <2>2, <2>3, Zenon
<1> QED
  BY <1>11, <1>18, Zenon DEF key

\* Lowercasing a token keeps it a token, with its word and its bytes.
LEMMA LowerTextTyped ==
  ASSUME NEW text \in Text
  PROVE  LowerText(text) \in Text
<1> DEFINE low(i) == [text.segs[i] EXCEPT !.mark = IF @ = "H" THEN "h" ELSE @]
           n      == Len(text.segs)
           head   == IF text.head = "M" THEN "m" ELSE text.head
           segs   == [i \in 1 .. n |-> low(i)]
<1>1. text.segs \in Seq(Segment) /\ text.head \in Heads
  BY DEF Text
<1>2. n \in Nat /\ DOMAIN text.segs = 1 .. n
  BY <1>1
<1>3. \A i \in 1 .. n : low(i) \in Segment
  <2>1. \A x \in Segment : [x EXCEPT !.mark = IF @ = "H" THEN "h" ELSE @] \in Segment
    BY DEF Segment, HardeningMarkers
  <2> QED
    BY <1>1, <2>1, ElementOfSeq
<1>4. head \in Heads
  BY <1>1 DEF Heads
<1>5. LowerText(text) = [head |-> head, segs |-> segs]
  BY <1>2, Zenon DEF LowerText
<1> HIDE DEF low, head
<1>6. segs \in Seq(Segment)
  <2>1. segs \in [1 .. n -> Segment]
    BY <1>3, Zenon
  <2> HIDE DEF segs
  <2> QED
    BY <1>2, <2>1
<1> HIDE DEF segs
<1> QED
  BY <1>4, <1>5, <1>6 DEF Text

\* A token in lower case is a token of the same word and of the same bytes.
LEMMA LowerTyped ==
  ASSUME NEW t \in Token
  PROVE  /\ Lower(t) \in Token /\ Lower(t).word = t.word
         /\ NssBytes(Lower(t)) <=> NssBytes(t)
<1> DEFINE text == LowerText(t.path)
<1>1. text \in Text
  BY LowerTextTyped DEF Token
<1>2. Lower(t) = [t EXCEPT !.upper = FALSE, !.path = text]
  BY Zenon DEF Lower
<1> HIDE DEF text
<1> QED
  BY <1>1, <1>2 DEF Token, NssBytes

\* A canonical name is its own normal form.
LEMMA PlainIsNormal ==
  ASSUME NEW w \in Words
  PROVE  Normalize(Plain(w)) = Plain(w)
<1> DEFINE n == Plain(w)
<1>1. /\ n \in Token /\ n.space = FALSE /\ n.upper = FALSE
      /\ n.path = EmptyText
  BY PlainFacts, PlainTyped, Zenon
<1>2. LowerText(EmptyText) = EmptyText
  BY DEF LowerText, EmptyText
<1> HIDE DEF n
<1>3. Trim(n) = n
  BY <1>1, CleanIsTrimmed
<1>4. Lower(n) = [n EXCEPT !.upper = FALSE, !.path = EmptyText]
  BY <1>1, <1>2, Zenon DEF Lower
<1>5. [n EXCEPT !.upper = FALSE, !.path = EmptyText] = n
  BY <1>1 DEF Token
<1> QED
  BY <1>3, <1>4, <1>5, Zenon DEF Normalize, n

\* The constructor, given the halves of a whole identity.
LEMMA NewChainOfParts ==
  ASSUME NEW c, Clean(c), Whole(c)
  PROVE  NewChain(Plain(c.network), c.id) = Done([c EXCEPT !.coin = <<>>])
<1> DEFINE n == Plain(c.network)
           d == [c EXCEPT !.coin = <<>>]
           e == [NoChain EXCEPT !.network = c.network]
<1>0. c \in Chain
  BY DEF Clean
<1>1. /\ c.network \in Networks /\ c.id \in Token
      /\ c.id.word # "" /\ NssBytes(c.id) /\ Trim(c.id) = c.id
  BY <1>0, KeyTokens, KeyIsTrimmed, Zenon
<1>2. IsName(n, Networks) /\ n.word = c.network
  BY <1>1, PlainFacts, Zenon DEF IsName
<1>3. SetNetwork(NoChain, n) = Done(e)
  BY <1>2, Zenon DEF SetNetwork
<1>4. ~ IsEmpty(c.id)
  BY <1>1 DEF IsEmpty
<1>5. SetChainId(e, c.id) = Done([e EXCEPT !.id = c.id])
  BY <1>1, <1>4, Zenon DEF SetChainId
<1>6. <<>> \in Seq(Uint32)
  OBVIOUS
<1>7. d \in Chain /\ d.network = c.network /\ d.id = c.id /\ d.coin = <<>>
  BY <1>0, <1>6 DEF Chain
<1>8. [e EXCEPT !.id = c.id] = d
  <2>1. e \in Chain /\ e.network = c.network /\ e.coin = <<>>
    BY <1>1, NoChainClean DEF Chain, NoChain
  <2> HIDE DEF e, d
  <2> DEFINE x == [e EXCEPT !.id = c.id]
  <2>2. x \in Chain /\ x.network = e.network /\ x.id = c.id /\ x.coin = e.coin
    BY <1>1, <2>1 DEF Chain
  <2> HIDE DEF x
  <2>3. x = d
    BY <1>7, <2>1, <2>2, ChainEqual, Zenon
  <2> QED
    BY <2>3 DEF x
<1>9. Done(e).code = "ok" /\ Done(e).chain = e
  BY DEF Done
<1> HIDE DEF e, d
<1>10. NewChain(n, c.id) = SetChainId(e, c.id)
  BY <1>3, <1>9, Zenon DEF NewChain
<1> QED
  BY <1>5, <1>8, <1>10, Zenon DEF d

\* What the components of a whole chain build is that chain.
LEMMA BuildOfParts ==
  ASSUME NEW c, Clean(c), Whole(c), NEW m,
         Get(m, "nt") = Plain(c.network), Get(m, "ci") = c.id,
         c.coin = <<>> => "ct" \notin DOMAIN m,
         c.coin # <<>> => "ct" \in DOMAIN m /\ Get(m, "ct") = Number(c.coin[1])
  PROVE  BuildChain(m) = Done(c)
<1> DEFINE n == Plain(c.network)
           d == [c EXCEPT !.coin = <<>>]
<1>0. c \in Chain /\ Len(c.coin) <= 1
  BY DEF Clean
<1>1. /\ c.network \in Networks /\ c.network # ""
      /\ Trim(c.id) = c.id
  BY <1>0, KeyTokens, KeyIsTrimmed DEF Networks
<1>2. c.network \in Words
  BY <1>1, NetworksAreWords
<1>3. Normalize(n) = n /\ n.word = c.network
  BY <1>2, PlainIsNormal, PlainFacts, Zenon
<1>4. ~ IsEmpty(n)
  BY <1>1, <1>3, Zenon DEF IsEmpty
<1>5. NewChain(n, c.id) = Done(d)
  BY NewChainOfParts, Zenon
<1>6. Done(d).code = "ok" /\ Done(d).chain = d
  BY DEF Done
<1>7. <<>> \in Seq(Uint32)
  OBVIOUS
<1>8. d \in Chain /\ d.network = c.network /\ d.id = c.id /\ d.coin = <<>>
  BY <1>0, <1>7 DEF Chain
<1>9. CASE c.coin = <<>>
  <2>1. BuildChain(m) = Done(d)
    BY <1>1, <1>3, <1>4, <1>5, <1>6, <1>9, Zenon DEF BuildChain
  <2> HIDE DEF d
  <2>2. d = c
    BY <1>0, <1>8, <1>9, ChainEqual, Zenon
  <2> QED
    BY <2>1, <2>2
<1>10. CASE c.coin # <<>>
  <2> DEFINE k == c.coin[1]
             ct == Number(k)
  <2>1. c.coin \in Seq(Uint32)
    BY <1>0 DEF Chain
  <2>2. k \in Uint32 /\ c.coin = <<k>>
    BY <1>0, <1>10, <2>1, OneElement, Zenon
  <2> HIDE DEF k
  <2>3. /\ ct \in Token /\ ct.space = FALSE /\ ct.byte = "none"
        /\ ct.word = "decimal" /\ ct.num = k
    <3>1. Plain("decimal") \in Token /\ "decimal" \in Words
      BY WordsAssumption, PlainTyped
    <3>2. /\ Plain("decimal").word = "decimal"
          /\ Plain("decimal").space = FALSE /\ Plain("decimal").byte = "none"
      BY PlainFacts, Zenon
    <3>3. k \in Nat
      BY <2>2, IndexLimitAssumption DEF Uint32
    <3> QED
      BY <3>1, <3>2, <3>3 DEF Number, Token
  <2>4. Get(m, "ct") = ct /\ "ct" \in DOMAIN m
    BY <1>10 DEF k
  <2> HIDE DEF ct
  <2>5. Trim(ct) = ct
    BY <2>3, CleanIsTrimmed
  <2>6. IsUint32(ct)
    BY <2>2, <2>3 DEF IsUint32, NssBytes
  <2>7. BuildChain(m) = Done(SetCoin(d, ct.num))
    BY <1>1, <1>3, <1>4, <1>5, <1>6, <2>4, <2>5, <2>6, Zenon DEF BuildChain
  <2> HIDE DEF d
  <2> DEFINE x == SetCoin(d, k)
  <2>8. x \in Chain /\ x.network = d.network /\ x.id = d.id /\ x.coin = <<k>>
    <3>1. <<k>> \in Seq(Uint32)
      BY <2>2
    <3> QED
      BY <1>8, <3>1 DEF SetCoin, Chain
  <2> HIDE DEF x
  <2>9. x = c
    BY <1>0, <1>8, <2>2, <2>8, ChainEqual, Zenon
  <2> QED
    BY <2>3, <2>7, <2>9, Zenon DEF x
<1> QED
  BY <1>9, <1>10

\* from_key undoes key(), the coin apart.
LEMMA FromKeyOfKey ==
  ASSUME NEW c \in Chain, Clean(c), Whole(c)
  PROVE  FromKey(ChainKey(c)) = Done([c EXCEPT !.coin = <<>>])
<1> DEFINE key == ChainKey(c)
           m   == Components(key)
           d   == [c EXCEPT !.coin = <<>>]
<1>1. <<>> \in Seq(Uint32) /\ Len(<<>>) <= 1
  OBVIOUS
<1>2. d \in Chain /\ d.network = c.network /\ d.id = c.id /\ d.coin = <<>>
  BY <1>1 DEF Chain
<1>3. TrimEnd(key) = key /\ Len(key) = 4
  BY KeyIsTrimmed, KeyTokens, Zenon
<1>4. /\ NssOk(key) /\ DOMAIN m = {"nt", "ci"}
      /\ m["nt"] = Plain(c.network) /\ m["ci"] = c.id
  BY KeyIsNss, Zenon
<1>5. Get(m, "nt") = Plain(c.network) /\ Get(m, "ci") = c.id
  BY <1>4, Zenon DEF Get
<1> HIDE DEF d
<1>6. Clean(d) /\ Whole(d)
  BY <1>1, <1>2, Zenon DEF Clean, Whole, Storable
<1>7. "ct" \notin DOMAIN m /\ DOMAIN m \ {"nt", "ci"} = {}
  BY <1>4
<1>8. BuildChain(m) = Done(d)
  BY <1>2, <1>5, <1>6, <1>7, BuildOfParts, Zenon
<1>9. ChainKey(d) = key
  BY <1>2, Zenon DEF ChainKey
<1>10. Len(key) % 2 # 1
  <2>1. 4 % 2 # 1
    OBVIOUS
  <2> QED
    BY <1>3, <2>1, Zenon
<1>11. Done(d).chain = d
  BY DEF Done
<1> HIDE DEF key, m
<1>12. FromKey(key) = Done(d)
  BY <1>3, <1>4, <1>7, <1>8, <1>9, <1>10, <1>11, Zenon DEF FromKey, m
<1> QED
  BY <1>12 DEF key, d

\* from_key returns without an error only for the key of what it returns.
LEMMA AcceptedIsKey ==
  ASSUME NEW text, FromKey(text).code = "ok"
  PROVE  ChainKey(FromKey(text).chain) = TrimEnd(text)
<1> DEFINE built  == BuildChain(Components(TrimEnd(text)))
           result == FromKey(text)
<1>1. \/ result = Failed("invalid_chain_key", NoChain)
      \/ result = Failed("invalid_nss", NoChain)
      \/ result = Failed("coin_type_in_chain_key", NoChain)
      \/ /\ result = built
         /\ built.code = "ok" => ChainKey(built.chain) = TrimEnd(text)
  BY Zenon DEF FromKey
<1>2. \A code : Failed(code, NoChain).code = code
  BY DEF Failed
<1>3. result.code = "ok"
  OBVIOUS
<1> HIDE DEF result, built
<1>4. /\ result = built
      /\ built.code = "ok" => ChainKey(built.chain) = TrimEnd(text)
  BY <1>1, <1>2, <1>3
<1> QED
  BY <1>3, <1>4, Zenon DEF result

-----------------------------------------------------------------------------
(* Addresses *)

\* What a call on an address can return.
AddressCodes ==
  {"ok", "uninitialized_address", "invalid_urn", "invalid_nss",
   "missing_network_type", "invalid_network_type", "missing_chain_id",
   "invalid_coin_type", "invalid_value", "invalid_derivation_type",
   "invalid_derivation_path", "invalid_algorithm", "invalid_format",
   "incompatible"}

AddressResult == [code : AddressCodes, addr : {a \in Address : Intact(a)}]

\* a and b differ in one field at most.
OnlyChain(a, b) ==
  /\ b.path = a.path /\ b.algorithm = a.algorithm
  /\ b.format = a.format /\ b.free = a.free

OnlyPath(a, b) ==
  /\ b.chain = a.chain /\ b.algorithm = a.algorithm
  /\ b.format = a.format /\ b.free = a.free

OnlyAlgorithm(a, b) ==
  /\ b.chain = a.chain /\ b.path = a.path
  /\ b.format = a.format /\ b.free = a.free

OnlyFormat(a, b) ==
  /\ b.chain = a.chain /\ b.path = a.path
  /\ b.algorithm = a.algorithm /\ b.free = a.free

OnlyFree(a, b, k) ==
  /\ b.chain = a.chain /\ b.path = a.path
  /\ b.algorithm = a.algorithm /\ b.format = a.format
  /\ \A j \in FreeForm \ {k} : b.free[j] = a.free[j]

-----------------------------------------------------------------------------
(* One field at a time *)

\* Addresses are equal when their five parts are.
LEMMA AddressEqual ==
  ASSUME NEW a \in Address, NEW b \in Address,
         a.chain = b.chain, a.path = b.path, a.algorithm = b.algorithm,
         a.format = b.format, a.free = b.free
  PROVE  a = b
<1>1. ASSUME NEW A, NEW B, NEW C, NEW D, NEW E,
             NEW x \in [chain : A, path : B, algorithm : C, format : D, free : E],
             NEW y \in [chain : A, path : B, algorithm : C, format : D, free : E],
             x.chain = y.chain, x.path = y.path, x.algorithm = y.algorithm,
             x.format = y.format, x.free = y.free
      PROVE  x = y
  BY <1>1
<1> QED
  BY <1>1, Zenon DEF Address

\* What each field of an address holds.
LEMMA AddressFields ==
  ASSUME NEW a \in Address
  PROVE  /\ a.chain \in Chain /\ a.path \in Seq(Path)
         /\ a.algorithm \in Algorithms \cup {""} /\ a.format \in Formats \cup {""}
         /\ a.free \in [FreeForm -> Token]
<1>1. ASSUME NEW A, NEW B, NEW C, NEW D, NEW E,
             NEW x \in [chain : A, path : B, algorithm : C, format : D, free : E]
      PROVE  /\ x.chain \in A /\ x.path \in B /\ x.algorithm \in C
             /\ x.format \in D /\ x.free \in E
  BY <1>1
<1> QED
  BY <1>1, Zenon DEF Address

\* A clean chain put into an intact address leaves it intact, the rest as was.
LEMMA WithChain ==
  ASSUME NEW a, Intact(a), NEW c, Clean(c), NEW b, b = [a EXCEPT !.chain = c]
  PROVE  Intact(b) /\ b.chain = c /\ OnlyChain(a, b)
<1>1. a \in Address /\ c \in Chain
  BY DEF Intact, Clean
<1>2. /\ b \in Address /\ b.chain = c /\ b.path = a.path
      /\ b.algorithm = a.algorithm /\ b.format = a.format /\ b.free = a.free
  <2>1. ASSUME NEW A, NEW B, NEW C, NEW D, NEW E,
               NEW x \in [chain : A, path : B, algorithm : C, format : D, free : E],
               NEW y \in A, NEW z, z = [x EXCEPT !.chain = y]
        PROVE  /\ z \in [chain : A, path : B, algorithm : C, format : D, free : E]
               /\ z.chain = y /\ z.path = x.path
               /\ z.algorithm = x.algorithm /\ z.format = x.format
               /\ z.free = x.free
    BY <2>1
  <2> QED
    BY <1>1, <2>1, Zenon DEF Address
<1> QED
  BY <1>2, Zenon DEF Intact, OnlyChain

\* The same of a path the parser can make, or of none.
LEMMA WithPath ==
  ASSUME NEW a, Intact(a), NEW s \in Seq(Path), Len(s) <= 1,
         s # <<>> => Sound(s[1]), NEW b, b = [a EXCEPT !.path = s]
  PROVE  Intact(b) /\ b.path = s /\ OnlyPath(a, b)
<1>1. a \in Address
  BY DEF Intact
<1>2. /\ b \in Address /\ b.chain = a.chain /\ b.path = s
      /\ b.algorithm = a.algorithm /\ b.format = a.format /\ b.free = a.free
  <2>1. ASSUME NEW A, NEW B, NEW C, NEW D, NEW E,
               NEW x \in [chain : A, path : B, algorithm : C, format : D, free : E],
               NEW y \in B, NEW z, z = [x EXCEPT !.path = y]
        PROVE  /\ z \in [chain : A, path : B, algorithm : C, format : D, free : E]
               /\ z.path = y /\ z.chain = x.chain
               /\ z.algorithm = x.algorithm /\ z.format = x.format
               /\ z.free = x.free
    BY <2>1
  <2> QED
    BY <1>1, <2>1, Zenon DEF Address
<1> QED
  BY <1>2, Zenon DEF Intact, OnlyPath

\* A path is a sequence of at most one.
LEMMA OnePath ==
  ASSUME NEW p \in Path
  PROVE  /\ <<p>> \in Seq(Path) /\ Len(<<p>>) <= 1
         /\ <<p>>[1] = p /\ <<p>> # <<>>
OBVIOUS

\* The same of an algorithm.
LEMMA WithAlgorithm ==
  ASSUME NEW a, Intact(a), NEW w \in Algorithms \cup {""},
         NEW b, b = [a EXCEPT !.algorithm = w]
  PROVE  Intact(b) /\ b.algorithm = w /\ OnlyAlgorithm(a, b)
<1>1. a \in Address
  BY DEF Intact
<1>2. /\ b \in Address /\ b.chain = a.chain /\ b.path = a.path
      /\ b.algorithm = w /\ b.format = a.format /\ b.free = a.free
  <2>1. ASSUME NEW A, NEW B, NEW C, NEW D, NEW E,
               NEW x \in [chain : A, path : B, algorithm : C, format : D, free : E],
               NEW y \in C, NEW z, z = [x EXCEPT !.algorithm = y]
        PROVE  /\ z \in [chain : A, path : B, algorithm : C, format : D, free : E]
               /\ z.algorithm = y /\ z.chain = x.chain
               /\ z.path = x.path /\ z.format = x.format
               /\ z.free = x.free
    BY <2>1
  <2> QED
    BY <1>1, <2>1, Zenon DEF Address
<1> QED
  BY <1>2, Zenon DEF Intact, OnlyAlgorithm

\* The same of a format.
LEMMA WithFormat ==
  ASSUME NEW a, Intact(a), NEW w \in Formats \cup {""},
         NEW b, b = [a EXCEPT !.format = w]
  PROVE  Intact(b) /\ b.format = w /\ OnlyFormat(a, b)
<1>1. a \in Address
  BY DEF Intact
<1>2. /\ b \in Address /\ b.chain = a.chain /\ b.path = a.path
      /\ b.algorithm = a.algorithm /\ b.format = w /\ b.free = a.free
  <2>1. ASSUME NEW A, NEW B, NEW C, NEW D, NEW E,
               NEW x \in [chain : A, path : B, algorithm : C, format : D, free : E],
               NEW y \in D, NEW z, z = [x EXCEPT !.format = y]
        PROVE  /\ z \in [chain : A, path : B, algorithm : C, format : D, free : E]
               /\ z.format = y /\ z.chain = x.chain
               /\ z.path = x.path /\ z.algorithm = x.algorithm
               /\ z.free = x.free
    BY <2>1
  <2> QED
    BY <1>1, <2>1, Zenon DEF Address
<1> QED
  BY <1>2, Zenon DEF Intact, OnlyFormat

\* The same of one free-form value.
LEMMA WithFree ==
  ASSUME NEW a, Intact(a), NEW k \in FreeForm, NEW v \in Token, Storable(v),
         NEW b, b = [a EXCEPT !.free[k] = v]
  PROVE  Intact(b) /\ b.free[k] = v /\ OnlyFree(a, b, k)
<1>1. a \in Address /\ a.free \in [FreeForm -> Token]
  BY AddressFields DEF Intact
<1> DEFINE f == [a.free EXCEPT ![k] = v]
<1>2. /\ f \in [FreeForm -> Token] /\ f[k] = v
      /\ \A j \in FreeForm \ {k} : f[j] = a.free[j]
  BY <1>1, Zenon
<1>3. b = [a EXCEPT !.free = f]
  BY Zenon
<1> HIDE DEF f
<1>4. /\ b \in Address /\ b.chain = a.chain /\ b.path = a.path
      /\ b.algorithm = a.algorithm /\ b.format = a.format /\ b.free = f
  <2>1. ASSUME NEW A, NEW B, NEW C, NEW D, NEW E,
               NEW x \in [chain : A, path : B, algorithm : C, format : D, free : E],
               NEW y \in E, NEW z, z = [x EXCEPT !.free = y]
        PROVE  /\ z \in [chain : A, path : B, algorithm : C, format : D, free : E]
               /\ z.free = y /\ z.chain = x.chain
               /\ z.path = x.path /\ z.algorithm = x.algorithm
               /\ z.format = x.format
    BY <2>1
  <2> QED
    BY <1>1, <1>2, <1>3, <2>1, Zenon DEF Address
<1> QED
  BY <1>2, <1>4, Zenon DEF Intact, OnlyFree

-----------------------------------------------------------------------------
(* Addresses: the derivation type *)

\* The path of a fresh object is empty, whatever its type.
LEMMA EmptySound ==
  ASSUME NEW t \in DerivationTypes \cup {NoType}
  PROVE  /\ EmptyPath(t) \in Path /\ Sound(EmptyPath(t))
         /\ EmptyPath(t).type = t /\ EmptyPath(t).levels = <<>>
BY EmptyTyped, Zenon DEF Sound

\* The constructor's object, before anything else is set.
LEMMA NewAddressIntact ==
  ASSUME NEW c, Clean(c), NEW s \in Seq(Path), Len(s) <= 1,
         s # <<>> => Sound(s[1])
  PROVE  /\ Intact(NewAddress(c, s))
         /\ NewAddress(c, s).chain = c /\ NewAddress(c, s).path = s
         /\ NewAddress(c, s).algorithm = "" /\ NewAddress(c, s).format = ""
         /\ NewAddress(c, s).free = [k \in FreeForm |-> Nothing]
<1> DEFINE f == [k \in FreeForm |-> Nothing]
           b == [chain |-> c, path |-> s, algorithm |-> "", format |-> "",
                 free |-> f]
<1>1. Nothing \in Token
  BY NoChainClean DEF NoChain, Chain
<1>2. c \in Chain
  BY DEF Clean
<1>3. f \in [FreeForm -> Token] /\ \A k \in FreeForm : Storable(f[k])
  BY <1>1, Zenon DEF Storable
<1>4. NewAddress(c, s) = b
  BY Zenon DEF NewAddress
<1> HIDE DEF f
<1>5. /\ b \in Address /\ b.chain = c /\ b.path = s /\ b.free = f
      /\ b.algorithm = "" /\ b.format = ""
  BY <1>2, <1>3 DEF Address
<1> QED
  BY <1>3, <1>4, <1>5, Zenon DEF Intact, f

\* The default constructor makes an intact address with every part unset.
LEMMA NoAddressIntact ==
  /\ Intact(NoAddress) /\ NoAddress.chain = NoChain /\ NoAddress.path = <<>>
  /\ NoAddress.algorithm = "" /\ NoAddress.format = ""
  /\ NoAddress.free = [k \in FreeForm |-> Nothing]
<1>1. <<>> \in Seq(Path) /\ Len(<<>>) <= 1
  OBVIOUS
<1>2. Clean(NoChain)
  BY NoChainClean
<1> QED
  BY <1>1, <1>2, NewAddressIntact, Zenon DEF NoAddress

\* Results of a call that succeeds, and of one that fails.
LEMMA OkResult ==
  ASSUME NEW a, Intact(a)
  PROVE  Ok(a) \in AddressResult /\ Ok(a).code = "ok" /\ Ok(a).addr = a
<1>1. a \in {x \in Address : Intact(x)}
  BY DEF Intact
<1> HIDE DEF Intact
<1> QED
  BY <1>1 DEF Ok, AddressResult, AddressCodes

\* A failed call hands back its code and the address it is given.
LEMMA FailResult ==
  ASSUME NEW a, Intact(a), NEW code \in AddressCodes
  PROVE  /\ Fail(code, a) \in AddressResult
         /\ Fail(code, a).code = code /\ Fail(code, a).addr = a
<1>1. a \in {x \in Address : Intact(x)}
  BY DEF Intact
<1> QED
  BY <1>1 DEF Fail, AddressResult

\* So it does with a code that is a failure.
LEMMA FailureResult ==
  ASSUME NEW a, Intact(a), NEW code \in AddressCodes \ {"ok"}
  PROVE  /\ Fail(code, a) \in AddressResult
         /\ Fail(code, a).code # "ok" /\ Fail(code, a).addr = a
<1>1. code \in AddressCodes /\ code # "ok"
  OBVIOUS
<1>2. /\ Fail(code, a) \in AddressResult
      /\ Fail(code, a).code = code /\ Fail(code, a).addr = a
  BY <1>1, FailResult, Zenon
<1> QED
  BY <1>1, <1>2, Zenon

\* A result is a code and an intact address.
LEMMA ResultFields ==
  ASSUME NEW r \in AddressResult
  PROVE  Intact(r.addr) /\ r.code \in AddressCodes
BY DEF AddressResult

\* The path of an address, if there is one, is a path.
LEMMA HeldPath ==
  ASSUME NEW a, Intact(a), a.path # <<>>
  PROVE  /\ a.path[1] \in Path /\ Sound(a.path[1])
         /\ a.path[1].type \in DerivationTypes \cup {NoType}
         /\ a.path = <<a.path[1]>>
<1>1. a.path \in Seq(Path) /\ Len(a.path) <= 1
  BY AddressFields DEF Intact
<1>2. a.path[1] \in Path /\ a.path = <<a.path[1]>>
  BY <1>1, OneElement, Zenon
<1>3. Sound(a.path[1])
  BY DEF Intact
<1>4. a.path[1].type \in DerivationTypes \cup {NoType}
  BY <1>2 DEF Path
<1> QED
  BY <1>2, <1>3, <1>4

\* path_.emplace() attaches a path without a type, at most.
LEMMA EmplacedFacts ==
  ASSUME NEW a, Intact(a)
  PROVE  /\ Intact(Emplaced(a)) /\ OnlyPath(a, Emplaced(a))
         /\ Emplaced(a).path # <<>>
         /\ a.path # <<>> => Emplaced(a) = a
         /\ a.path = <<>> => Emplaced(a).path[1] = EmptyPath(NoType)
<1>1. CASE a.path # <<>>
  BY <1>1, Zenon DEF Emplaced, OnlyPath
<1>2. CASE a.path = <<>>
  <2> DEFINE p == EmptyPath(NoType)
  <2>1. p \in Path /\ Sound(p)
    BY EmptySound
  <2> HIDE DEF p
  <2>2. /\ <<p>> \in Seq(Path) /\ Len(<<p>>) <= 1 /\ <<p>>[1] = p
        /\ <<p>> # <<>>
    BY <2>1, OnePath
  <2>3. Emplaced(a) = [a EXCEPT !.path = <<p>>]
    BY <1>2, Zenon DEF Emplaced, p
  <2>4. /\ Intact(Emplaced(a)) /\ OnlyPath(a, Emplaced(a))
        /\ Emplaced(a).path = <<p>>
    BY <2>1, <2>2, <2>3, WithPath, Zenon
  <2> QED
    BY <1>2, <2>2, <2>4, Zenon DEF p
<1> QED
  BY <1>1, <1>2

\* set_type keeps a sound path under its own type, and empties it under
\* another.
LEMMA RetypedFacts ==
  ASSUME NEW p \in Path, Sound(p), NEW t \in DerivationTypes
  PROVE  /\ Retyped(p, t) \in Path /\ Sound(Retyped(p, t))
         /\ Retyped(p, t).type = t
         /\ p.type # t => Retyped(p, t) = EmptyPath(t)
BY EmptySound, Zenon DEF Retyped

\* What the type setter makes of its argument: a type, or a refusal.
TypeNamed(dt) ==
  IF IsEmpty(Normalize(dt)) THEN "root" ELSE Normalize(dt).word

TypeAccepted(dt) ==
  IsEmpty(Normalize(dt)) \/ IsName(Normalize(dt), DerivationTypes)

\* set_derivation_type succeeds on a registered type only, and reaches the path
\* alone.
LEMMA SetDerivationTypeResult ==
  ASSUME NEW a, Intact(a), NEW dt \in Token, NEW r, r = SetDerivationType(a, dt)
  PROVE  /\ r \in AddressResult
         /\ OnlyPath(a, r.addr)
         /\ r.code = "ok" <=> TypeAccepted(dt)
         /\ r.code # "ok" => r.addr = a
         /\ r.code = "ok" =>
              /\ TypeNamed(dt) \in DerivationTypes
              /\ r.addr.path =
                   <<Retyped(Emplaced(a).path[1], TypeNamed(dt))>>
              /\ r.addr.path # <<>> /\ r.addr.path[1].type = TypeNamed(dt)
<1>1. CASE ~ TypeAccepted(dt)
  <2>1. r = Fail("invalid_derivation_type", a)
    BY <1>1, Zenon DEF SetDerivationType, TypeAccepted
  <2>2. r \in AddressResult /\ r.code # "ok" /\ r.addr = a
    BY <2>1, FailureResult DEF AddressCodes
  <2> QED
    BY <1>1, <2>2, Zenon DEF OnlyPath
<1>2. CASE TypeAccepted(dt)
  <2> DEFINE t == TypeNamed(dt)
             p == Retyped(Emplaced(a).path[1], t)
             b == [a EXCEPT !.path = <<p>>]
  <2>1. t \in DerivationTypes
    BY <1>2 DEF TypeAccepted, TypeNamed, IsName, DerivationTypes
  <2>2. Emplaced(a).path[1] \in Path /\ Sound(Emplaced(a).path[1])
    BY EmplacedFacts, HeldPath, Zenon
  <2>3. p \in Path /\ Sound(p) /\ p.type = t
    BY <2>1, <2>2, RetypedFacts, Zenon
  <2>4. r = Ok(b)
    BY <1>2, Zenon DEF SetDerivationType, TypeAccepted, TypeNamed
  <2> HIDE DEF p, t
  <2>5. /\ <<p>> \in Seq(Path) /\ Len(<<p>>) <= 1 /\ <<p>>[1] = p
        /\ <<p>> # <<>>
    BY <2>3, OnePath
  <2>6. Intact(b) /\ b.path = <<p>> /\ OnlyPath(a, b)
    BY <2>3, <2>5, WithPath, Zenon
  <2> HIDE DEF b
  <2>7. r \in AddressResult /\ r.code = "ok" /\ r.addr = b
    BY <2>4, <2>6, OkResult, Zenon
  <2> QED
    BY <1>2, <2>1, <2>3, <2>5, <2>6, <2>7, Zenon DEF p, t
<1> QED
  BY <1>1, <1>2, Zenon

-----------------------------------------------------------------------------
(* The path setters *)

\* The path a token stands for is a path text.
LEMMA PathOfTyped ==
  ASSUME NEW t \in Token
  PROVE  PathOf(t) \in Text
<1>1. t.path \in Text
  BY DEF Token
<1>2. EmptyText \in Text
  BY DEF EmptyText, Text, Heads
<1>3. [EmptyText EXCEPT !.head = "other"] \in Text
  BY <1>2 DEF Text, Heads
<1> QED
  BY <1>1, <1>2, <1>3, Zenon DEF PathOf

\* What the parser stores is sound, and has levels unless it is root.
LEMMA ParsedSound ==
  ASSUME NEW t \in DerivationTypes, NEW text \in Text, Accepts(t, text),
         NEW p, p = ParsedPath(t, text)
  PROVE  /\ p \in Path /\ Sound(p) /\ p.type = t
         /\ t = "root" => p = EmptyPath("root") /\ p.levels = <<>>
         /\ t # "root" => p.levels # <<>>
<1>1. /\ p \in Path /\ p.type = t /\ Shaped(t, p.levels) /\ Bounded(p.levels)
      /\ p = RebuildLevels(Fill(t, p.levels))
  BY ParsedPathFacts
<1>2. CASE t = "root"
  <2>1. p.levels = <<>> /\ p = EmptyPath("root")
    BY <1>1, <1>2, ParsedFacts
  <2> QED
    BY <1>1, <1>2, <2>1, Zenon DEF Sound
<1>3. CASE t # "root"
  <2>1. p.levels # <<>> /\ Accepts(t, Str(p)) /\ p = ParsedPath(t, Str(p))
    BY <1>1, <1>3, StoredRoundTrip
  <2> QED
    BY <1>1, <1>3, <2>1, Zenon DEF Sound
<1> QED
  BY <1>2, <1>3

\* A sound path has no levels and nothing else, or parses from its own text.
LEMMA SoundFacts ==
  ASSUME NEW p \in Path, Sound(p)
  PROVE  /\ p.levels = <<>> => p = EmptyPath(p.type)
         /\ p.levels # <<>> =>
              /\ p.type \in DerivationTypes \ {"root"}
              /\ Accepts(p.type, Str(p)) /\ p = ParsedPath(p.type, Str(p))
              /\ Str(p) \in Text /\ Str(p).head = "m"
<1>1. CASE p = EmptyPath(p.type)
  <2>1. p.type \in DerivationTypes \cup {NoType}
    BY DEF Path
  <2>2. p.levels = <<>>
    BY <1>1, <2>1, EmptyTyped
  <2> QED
    BY <1>1, <2>2
<1>2. CASE p # EmptyPath(p.type)
  <2>1. Accepts(p.type, Str(p)) /\ p = ParsedPath(p.type, Str(p))
    BY <1>2, Zenon DEF Sound
  <2>2. p.type \in DerivationTypes
    BY <2>1 DEF Accepts, DerivationTypes
  <2>3. Str(p) \in Text
    BY StrTyped
  <2>4. p.type # "root"
    BY <1>2, <2>1, <2>2, <2>3, ParsedSound, Zenon
  <2>5. p.levels # <<>>
    BY <2>1, <2>2, <2>3, <2>4, ParsedSound
  <2>6. Str(p).head = "m"
    BY <2>1, <2>4 DEF Accepts, ParseLevelsOk
  <2> QED
    BY <2>1, <2>2, <2>3, <2>4, <2>5, <2>6
<1> QED
  BY <1>1, <1>2

\* parse on the held path succeeds on what its type's grammar accepts, and then
\* stores the path parsed; a failure changes nothing.
LEMMA ParsePathOfResult ==
  ASSUME NEW a, Intact(a), a.path # <<>>, NEW text \in Text,
         NEW r, r = ParsePathOf(a, text)
  PROVE  /\ r \in AddressResult
         /\ OnlyPath(a, r.addr)
         /\ r.code = "ok" <=> Accepts(a.path[1].type, text)
         /\ r.code # "ok" => r.addr = a
         /\ r.code = "ok" =>
              /\ a.path[1].type \in DerivationTypes
              /\ r.addr.path = <<ParsedPath(a.path[1].type, text)>>
              /\ r.addr.path # <<>> /\ r.addr.path[1].type = a.path[1].type
              /\ PathIsSet(r.addr)
<1> DEFINE t == a.path[1].type
           p == ParsedPath(t, text)
           b == [a EXCEPT !.path = <<p>>]
<1>1. CASE ~ Accepts(t, text)
  <2>1. r \in {Fail("invalid_derivation_type", a),
               Fail("invalid_derivation_path", a)}
    BY <1>1, Zenon DEF ParsePathOf
  <2>2. r \in AddressResult /\ r.code # "ok" /\ r.addr = a
    BY <2>1, FailureResult DEF AddressCodes
  <2> QED
    BY <1>1, <2>2, Zenon DEF OnlyPath
<1>2. CASE Accepts(t, text)
  <2>1. t \in DerivationTypes
    BY <1>2 DEF Accepts, DerivationTypes
  <2>2. /\ p \in Path /\ Sound(p) /\ p.type = t
        /\ t = "root" => p.levels = <<>>
        /\ t # "root" => p.levels # <<>>
    BY <1>2, <2>1, ParsedSound
  <2>3. r = Ok(b)
    BY <1>2, Zenon DEF ParsePathOf
  <2> HIDE DEF p
  <2>4. /\ <<p>> \in Seq(Path) /\ Len(<<p>>) <= 1 /\ <<p>>[1] = p
        /\ <<p>> # <<>>
    BY <2>2, OnePath
  <2>5. Intact(b) /\ b.path = <<p>> /\ OnlyPath(a, b)
    BY <2>2, <2>4, WithPath, Zenon
  <2> HIDE DEF b
  <2>6. r \in AddressResult /\ r.code = "ok" /\ r.addr = b
    BY <2>3, <2>5, OkResult, Zenon
  <2>7. PathIsSet(b)
    <3>1. b.path[1] = p
      BY <2>4, <2>5, Zenon
    <3> QED
      BY <2>2, <3>1, Zenon DEF PathIsSet, HasDerivation, IsRoot
  <2> HIDE DEF t
  <2> QED
    BY <1>2, <2>1, <2>2, <2>4, <2>5, <2>6, <2>7, Zenon DEF p, t
<1> QED
  BY <1>1, <1>2, Zenon

\* A failure of the path setter may attach an empty path without a type; a
\* success without a type does.
LEMMA SetDerivationPathResult ==
  ASSUME NEW a, Intact(a), NEW dp \in Token,
         NEW r, r = SetDerivationPath(a, dp)
  PROVE  /\ r \in AddressResult
         /\ OnlyPath(a, r.addr)
         /\ r.code # "ok" => r.addr = Emplaced(a)
         /\ r.code = "ok" =>
              /\ r.addr.path # <<>>
              /\ r.addr.path[1].type = Emplaced(a).path[1].type
              /\ PathIsSet(r.addr)
         /\ IsRoot(Emplaced(a).path[1]) =>
              /\ r.addr = Emplaced(a)
              /\ r.code = "ok" <=> PathOf(Trim(dp)) = EmptyText
         /\ ~ IsRoot(Emplaced(a).path[1]) =>
              r = ParsePathOf(Emplaced(a), LowerText(PathOf(Trim(dp))))
<1> DEFINE text == PathOf(Trim(dp))
           b    == Emplaced(a)
<1>1. text \in Text /\ LowerText(text) \in Text
  BY TrimTyped, PathOfTyped, LowerTextTyped, Zenon
<1>2. Intact(b) /\ OnlyPath(a, b) /\ b.path # <<>>
  BY EmplacedFacts
<1>3. CASE ~ IsRoot(b.path[1])
  <2>1. r = ParsePathOf(b, LowerText(text))
    BY <1>3, Zenon DEF SetDerivationPath
  <2> HIDE DEF text, b
  <2>2. /\ r \in AddressResult
        /\ OnlyPath(b, r.addr)
        /\ r.code # "ok" => r.addr = b
        /\ r.code = "ok" =>
             /\ r.addr.path # <<>> /\ r.addr.path[1].type = b.path[1].type
             /\ PathIsSet(r.addr)
    BY <1>1, <1>2, <2>1, ParsePathOfResult
  <2>3. OnlyPath(a, r.addr)
    BY <1>2, <2>2, Zenon DEF OnlyPath
  <2> QED
    BY <1>3, <2>1, <2>2, <2>3, Zenon DEF text, b
<1>4. CASE IsRoot(b.path[1]) /\ text = EmptyText
  <2>1. r = Ok(b)
    BY <1>4, Zenon DEF SetDerivationPath
  <2>2. r \in AddressResult /\ r.code = "ok" /\ r.addr = b
    BY <1>2, <2>1, OkResult, Zenon
  <2>3. PathIsSet(b)
    BY <1>4, Zenon DEF PathIsSet, HasDerivation
  <2> HIDE DEF text, b
  <2> QED
    BY <1>2, <1>4, <2>2, <2>3, Zenon DEF text, b
<1>5. CASE IsRoot(b.path[1]) /\ text # EmptyText
  <2>1. r = Fail("invalid_derivation_path", b)
    BY <1>5, Zenon DEF SetDerivationPath
  <2>2. r \in AddressResult /\ r.code # "ok" /\ r.addr = b
    BY <1>2, <2>1, FailureResult DEF AddressCodes
  <2> HIDE DEF text, b
  <2> QED
    BY <1>2, <1>5, <2>2, Zenon DEF text, b
<1> QED
  BY <1>3, <1>4, <1>5

\* What set_derivation takes, and the path it makes of it.
DerivationAccepted(dt, dp) ==
  LET text == PathOf(Trim(dp))
  IN /\ TypeAccepted(dt)
     /\ TypeNamed(dt) = "root" => text = EmptyText
     /\ TypeNamed(dt) # "root" => Accepts(TypeNamed(dt), LowerText(text))

DerivationRead(dt, dp) ==
  IF TypeNamed(dt) = "root" THEN EmptyPath("root")
  ELSE ParsedPath(TypeNamed(dt), LowerText(PathOf(Trim(dp))))

\* The type and path read from dt and dp make a sound path object, empty for
\* root and set for every other type.
LEMMA DerivationReadFacts ==
  ASSUME NEW dt \in Token, NEW dp \in Token, DerivationAccepted(dt, dp),
         NEW p, p = DerivationRead(dt, dp)
  PROVE  /\ p \in Path /\ Sound(p) /\ p.type = TypeNamed(dt)
         /\ p.type \in DerivationTypes
         /\ p.type = "root" => p = EmptyPath("root")
         /\ p.type # "root" => p.levels # <<>>
<1>1. TypeNamed(dt) \in DerivationTypes
  BY DEF DerivationAccepted, TypeAccepted, TypeNamed, IsName, DerivationTypes
<1>2. CASE TypeNamed(dt) = "root"
  BY <1>1, <1>2, EmptySound, Zenon DEF DerivationRead
<1>3. CASE TypeNamed(dt) # "root"
  <2> DEFINE text == LowerText(PathOf(Trim(dp)))
  <2>1. text \in Text
    BY TrimTyped, PathOfTyped, LowerTextTyped, Zenon
  <2>2. Accepts(TypeNamed(dt), text) /\ p = ParsedPath(TypeNamed(dt), text)
    BY <1>3, Zenon DEF DerivationAccepted, DerivationRead
  <2> HIDE DEF text
  <2> QED
    BY <1>1, <1>3, <2>1, <2>2, ParsedSound
<1> QED
  BY <1>2, <1>3

\* set_derivation: all or nothing, whatever a held before.
LEMMA SetDerivationResult ==
  ASSUME NEW a, Intact(a), NEW dt \in Token, NEW dp \in Token,
         NEW r, r = SetDerivation(a, dt, dp)
  PROVE  /\ r \in AddressResult
         /\ OnlyPath(a, r.addr)
         /\ r.code = "ok" <=> DerivationAccepted(dt, dp)
         /\ r.code # "ok" => r.addr = a
         /\ r.code = "ok" => r.addr.path = <<DerivationRead(dt, dp)>>
<1> DEFINE typed  == SetDerivationType(NoAddress, dt)
           pathed == SetDerivationPath(typed.addr, dp)
           t      == TypeNamed(dt)
           text   == PathOf(Trim(dp))
           b      == typed.addr
<1>1. Intact(NoAddress) /\ NoAddress.path = <<>>
  BY NoAddressIntact
<1>2. /\ typed \in AddressResult
      /\ typed.code = "ok" <=> TypeAccepted(dt)
      /\ typed.code = "ok" =>
           /\ t \in DerivationTypes
           /\ b.path = <<Retyped(Emplaced(NoAddress).path[1], t)>>
           /\ b.path # <<>>
  <2>1. typed = SetDerivationType(NoAddress, dt)
    OBVIOUS
  <2> HIDE DEF typed
  <2> QED
    BY <1>1, <2>1, SetDerivationTypeResult
<1>3. Intact(b)
  BY <1>2, ResultFields, Zenon
<1>4. /\ pathed \in AddressResult
      /\ pathed.code = "ok" => pathed.addr.path # <<>>
      /\ IsRoot(Emplaced(b).path[1]) =>
           /\ pathed.addr = Emplaced(b)
           /\ pathed.code = "ok" <=> text = EmptyText
      /\ ~ IsRoot(Emplaced(b).path[1]) =>
           pathed = ParsePathOf(Emplaced(b), LowerText(text))
  BY <1>3, SetDerivationPathResult, Zenon
<1>5. ASSUME typed.code = "ok"
      PROVE  /\ t \in DerivationTypes
             /\ Emplaced(b) = b
             /\ b.path = <<EmptyPath(t)>> /\ b.path[1] = EmptyPath(t)
             /\ IsRoot(b.path[1]) <=> t = "root"
             /\ EmptyPath(t).type = t
  <2>1. t \in DerivationTypes
    BY <1>2, <1>5
  <2>2. /\ Emplaced(NoAddress).path[1] = EmptyPath(NoType)
        /\ EmptyPath(NoType).type = NoType
        /\ EmptyPath(NoType) \in Path /\ Sound(EmptyPath(NoType))
        /\ NoType \notin DerivationTypes
        /\ EmptyPath(t) \in Path /\ EmptyPath(t).type = t
    BY <1>1, <2>1, EmplacedFacts, EmptySound DEF NoType, DerivationTypes, Bip44Family
  <2>3. Retyped(Emplaced(NoAddress).path[1], t) = EmptyPath(t)
    BY <2>1, <2>2, Zenon DEF Retyped
  <2>4. b.path = <<EmptyPath(t)>>
    BY <1>2, <1>5, <2>3, Zenon
  <2>5. b.path[1] = EmptyPath(t) /\ b.path # <<>>
    <3> DEFINE e == EmptyPath(t)
    <3>1. e \in Path
      BY <2>2
    <3> HIDE DEF e
    <3>2. <<e>>[1] = e /\ <<e>> # <<>>
      BY <3>1, OnePath
    <3> QED
      BY <2>4, <3>2, Zenon DEF e
  <2>6. Emplaced(b) = b
    BY <1>3, <2>5, EmplacedFacts, Zenon
  <2>7. IsRoot(b.path[1]) <=> t = "root"
    BY <2>1, <2>2, <2>5, Zenon DEF IsRoot
  <2> QED
    BY <2>1, <2>2, <2>4, <2>5, <2>6, <2>7, Zenon
<1>6. typed.code = "ok" /\ t # "root" =>
        /\ pathed.code = "ok" <=> Accepts(t, LowerText(text))
        /\ pathed.code = "ok" =>
             pathed.addr.path = <<ParsedPath(t, LowerText(text))>>
  <2> SUFFICES ASSUME typed.code = "ok", t # "root"
               PROVE  /\ pathed.code = "ok" <=> Accepts(t, LowerText(text))
                      /\ pathed.code = "ok" =>
                           pathed.addr.path = <<ParsedPath(t, LowerText(text))>>
    BY Zenon
  <2> DEFINE low == LowerText(text)
  <2>0. low \in Text
    BY TrimTyped, PathOfTyped, LowerTextTyped, Zenon
  <2>1. pathed = ParsePathOf(b, low)
    BY <1>4, <1>5, Zenon
  <2>2. b.path # <<>> /\ b.path[1].type = t
    BY <1>2, <1>5, Zenon
  <2> HIDE DEF low, b, pathed, t, typed
  <2>3. /\ pathed.code = "ok" <=> Accepts(b.path[1].type, low)
        /\ pathed.code = "ok" =>
             pathed.addr.path = <<ParsedPath(b.path[1].type, low)>>
    BY <1>3, <2>0, <2>1, <2>2, ParsePathOfResult
  <2> QED
    BY <2>2, <2>3, Zenon DEF low
<1>7. CASE typed.code # "ok"
  <2>1. r = Fail(typed.code, a)
    BY <1>7, Zenon DEF SetDerivation
  <2>2. typed.code \in AddressCodes
    BY <1>2, ResultFields, Zenon
  <2> HIDE DEF typed, pathed
  <2>3. r \in AddressResult /\ r.code = typed.code /\ r.addr = a
    BY <2>1, <2>2, FailResult
  <2>4. OnlyPath(a, r.addr)
    BY <2>3, Zenon DEF OnlyPath
  <2> HIDE DEF typed
  <2> QED
    BY <1>2, <1>7, <2>3, <2>4, Zenon DEF DerivationAccepted
<1>8. CASE typed.code = "ok" /\ pathed.code # "ok"
  <2>1. r = Fail(pathed.code, a)
    BY <1>8, Zenon DEF SetDerivation
  <2>2. pathed.code \in AddressCodes
    BY <1>4, ResultFields, Zenon
  <2> HIDE DEF typed, pathed
  <2>3. r \in AddressResult /\ r.code = pathed.code /\ r.addr = a
    BY <2>1, <2>2, FailResult
  <2>4. OnlyPath(a, r.addr)
    BY <2>3, Zenon DEF OnlyPath
  <2>5. ~ DerivationAccepted(dt, dp)
    <3>1. CASE t = "root"
      BY <1>4, <1>5, <1>8, <3>1, Zenon DEF DerivationAccepted
    <3>2. CASE t # "root"
      BY <1>6, <1>8, <3>2, Zenon DEF DerivationAccepted
    <3> QED
      BY <3>1, <3>2
  <2> HIDE DEF typed, pathed
  <2> QED
    BY <1>8, <2>3, <2>4, <2>5, Zenon
<1>9. CASE typed.code = "ok" /\ pathed.code = "ok"
  <2> DEFINE p == DerivationRead(dt, dp)
             c == [a EXCEPT !.path = <<p>>]
  <2>1. DerivationAccepted(dt, dp)
    <3>1. CASE t = "root"
      BY <1>2, <1>4, <1>5, <1>9, <3>1, Zenon DEF DerivationAccepted
    <3>2. CASE t # "root"
      BY <1>2, <1>6, <1>9, <3>2, Zenon DEF DerivationAccepted
    <3> QED
      BY <3>1, <3>2
  <2>2. pathed.addr.path = <<p>>
    <3>1. CASE t = "root"
      BY <1>4, <1>5, <1>9, <3>1, Zenon DEF DerivationRead
    <3>2. CASE t # "root"
      BY <1>6, <1>9, <3>2, Zenon DEF DerivationRead
    <3> QED
      BY <3>1, <3>2
  <2>3. p \in Path /\ Sound(p)
    BY <2>1, DerivationReadFacts
  <2>4. r = Ok([a EXCEPT !.path = pathed.addr.path])
    BY <1>9, Zenon DEF SetDerivation
  <2>5. r = Ok(c)
    BY <2>2, <2>4, Zenon
  <2> HIDE DEF p
  <2>6. /\ <<p>> \in Seq(Path) /\ Len(<<p>>) <= 1 /\ <<p>>[1] = p
        /\ <<p>> # <<>>
    BY <2>3, OnePath
  <2>7. Intact(c) /\ c.path = <<p>> /\ OnlyPath(a, c)
    BY <2>3, <2>6, WithPath, Zenon
  <2>8. r \in AddressResult /\ r.code = "ok" /\ r.addr = c
    BY <2>5, <2>7, OkResult, Zenon
  <2> QED
    BY <2>1, <2>5, <2>7, <2>8, Zenon DEF p
<1> QED
  BY <1>7, <1>8, <1>9

-----------------------------------------------------------------------------
(* The other setters *)

\* A chain without its coin is still clean.
LEMMA CoinCleared ==
  ASSUME NEW c, Clean(c), NEW d, d = ClearCoin(c)
  PROVE  Clean(d) /\ d.network = c.network /\ d.id = c.id
<1>1. c \in Chain
  BY DEF Clean
<1>2. <<>> \in Seq(Uint32) /\ Len(<<>>) <= 1
  OBVIOUS
<1>3. /\ d \in Chain /\ d.network = c.network /\ d.id = c.id
      /\ d.coin = <<>>
  BY <1>1, <1>2 DEF ClearCoin, Chain
<1> QED
  BY <1>2, <1>3, Zenon DEF Clean, Storable

\* So is a chain with a coin.
LEMMA CoinStored ==
  ASSUME NEW c, Clean(c), NEW n \in Uint32, NEW d, d = SetCoin(c, n)
  PROVE  Clean(d) /\ d.network = c.network /\ d.id = c.id /\ d.coin = <<n>>
<1>1. c \in Chain
  BY DEF Clean
<1>2. <<n>> \in Seq(Uint32) /\ Len(<<n>>) <= 1
  OBVIOUS
<1>3. /\ d \in Chain /\ d.network = c.network /\ d.id = c.id
      /\ d.coin = <<n>>
  BY <1>1, <1>2 DEF SetCoin, Chain
<1> QED
  BY <1>2, <1>3, Zenon DEF Clean, Storable

\* set_coin_type reaches the coin alone, and nothing when it fails.
LEMMA SetCoinTypeResult ==
  ASSUME NEW a, Intact(a), NEW ct \in Token, NEW r, r = SetCoinType(a, ct)
  PROVE  /\ r \in AddressResult
         /\ OnlyChain(a, r.addr)
         /\ r.addr.chain.network = a.chain.network
         /\ r.addr.chain.id = a.chain.id
         /\ r.code # "ok" => r.addr = a
<1> DEFINE t == Trim(ct)
<1>1. Clean(a.chain)
  BY DEF Intact
<1>2. ASSUME NEW c, Clean(c), c.network = a.chain.network, c.id = a.chain.id,
             NEW b, b = [a EXCEPT !.chain = c], r = Ok(b)
      PROVE  /\ r \in AddressResult
             /\ OnlyChain(a, r.addr)
             /\ r.addr.chain.network = a.chain.network
             /\ r.addr.chain.id = a.chain.id
             /\ r.code # "ok" => r.addr = a
  <2>1. Intact(b) /\ b.chain = c /\ OnlyChain(a, b)
    BY <1>2, WithChain
  <2>2. r \in AddressResult /\ r.code = "ok" /\ r.addr = b
    BY <1>2, <2>1, OkResult
  <2> QED
    BY <1>2, <2>1, <2>2, Zenon
<1>3. CASE IsEmpty(t)
  <2> DEFINE c == ClearCoin(a.chain)
  <2>1. Clean(c) /\ c.network = a.chain.network /\ c.id = a.chain.id
    BY <1>1, CoinCleared
  <2>2. r = Ok([a EXCEPT !.chain = c])
    BY <1>3, Zenon DEF SetCoinType
  <2> HIDE DEF c
  <2> QED
    BY <1>2, <2>1, <2>2, Zenon
<1>4. CASE ~ IsEmpty(t) /\ IsUint32(t)
  <2> DEFINE c == SetCoin(a.chain, t.num)
  <2>0. t.num \in Uint32
    BY <1>4 DEF IsUint32
  <2>1. Clean(c) /\ c.network = a.chain.network /\ c.id = a.chain.id
    BY <1>1, <2>0, CoinStored
  <2>2. r = Ok([a EXCEPT !.chain = c])
    BY <1>4, Zenon DEF SetCoinType
  <2> HIDE DEF c
  <2> QED
    BY <1>2, <2>1, <2>2, Zenon
<1>5. CASE ~ IsEmpty(t) /\ ~ IsUint32(t)
  <2>1. r = Fail("invalid_coin_type", a)
    BY <1>5, Zenon DEF SetCoinType
  <2>2. r \in AddressResult /\ r.code # "ok" /\ r.addr = a
    BY <2>1, FailureResult DEF AddressCodes
  <2> QED
    BY <2>2, Zenon DEF OnlyChain
<1> QED
  BY <1>3, <1>4, <1>5

\* What the setters of a name take.
NameOf(t) == Normalize(t).word

NameAccepted(t, names) == IsEmpty(Normalize(t)) \/ IsName(Normalize(t), names)

\* set_address_algorithm stores the name of a registered algorithm, or nothing.
LEMMA SetAddressAlgorithmResult ==
  ASSUME NEW a, Intact(a), NEW aa \in Token, NEW r, r = SetAddressAlgorithm(a, aa)
  PROVE  /\ r \in AddressResult
         /\ OnlyAlgorithm(a, r.addr)
         /\ r.code = "ok" <=> NameAccepted(aa, Algorithms)
         /\ r.code # "ok" => r.addr = a
         /\ r.code = "ok" => r.addr.algorithm = NameOf(aa)
<1> DEFINE w == NameOf(aa)
           b == [a EXCEPT !.algorithm = w]
<1>1. CASE NameAccepted(aa, Algorithms)
  <2>1. w \in Algorithms \cup {""}
    BY <1>1 DEF NameAccepted, NameOf, IsEmpty, IsName
  <2>2. r = Ok(b)
    BY <1>1, Zenon DEF SetAddressAlgorithm, NameAccepted, NameOf
  <2> HIDE DEF w
  <2>3. Intact(b) /\ b.algorithm = w /\ OnlyAlgorithm(a, b)
    BY <2>1, WithAlgorithm
  <2> HIDE DEF b
  <2>4. r \in AddressResult /\ r.code = "ok" /\ r.addr = b
    BY <2>2, <2>3, OkResult
  <2> QED
    BY <1>1, <2>1, <2>3, <2>4, Zenon DEF w
<1>2. CASE ~ NameAccepted(aa, Algorithms)
  <2>1. r = Fail("invalid_algorithm", a)
    BY <1>2, Zenon DEF SetAddressAlgorithm, NameAccepted, NameOf
  <2>2. r \in AddressResult /\ r.code # "ok" /\ r.addr = a
    BY <2>1, FailureResult DEF AddressCodes
  <2> QED
    BY <1>2, <2>2, Zenon DEF OnlyAlgorithm
<1> QED
  BY <1>1, <1>2

\* set_address_format stores the name of a registered format, or nothing.
LEMMA SetAddressFormatResult ==
  ASSUME NEW a, Intact(a), NEW af \in Token, NEW r, r = SetAddressFormat(a, af)
  PROVE  /\ r \in AddressResult
         /\ OnlyFormat(a, r.addr)
         /\ r.code = "ok" <=> NameAccepted(af, Formats)
         /\ r.code # "ok" => r.addr = a
         /\ r.code = "ok" => r.addr.format = NameOf(af)
<1> DEFINE w == NameOf(af)
           b == [a EXCEPT !.format = w]
<1>1. CASE NameAccepted(af, Formats)
  <2>1. w \in Formats \cup {""}
    BY <1>1 DEF NameAccepted, NameOf, IsEmpty, IsName
  <2>2. r = Ok(b)
    BY <1>1, Zenon DEF SetAddressFormat, NameAccepted, NameOf
  <2> HIDE DEF w
  <2>3. Intact(b) /\ b.format = w /\ OnlyFormat(a, b)
    BY <2>1, WithFormat
  <2> HIDE DEF b
  <2>4. r \in AddressResult /\ r.code = "ok" /\ r.addr = b
    BY <2>2, <2>3, OkResult
  <2> QED
    BY <1>1, <2>1, <2>3, <2>4, Zenon DEF w
<1>2. CASE ~ NameAccepted(af, Formats)
  <2>1. r = Fail("invalid_format", a)
    BY <1>2, Zenon DEF SetAddressFormat, NameAccepted, NameOf
  <2>2. r \in AddressResult /\ r.code # "ok" /\ r.addr = a
    BY <2>1, FailureResult DEF AddressCodes
  <2> QED
    BY <1>2, <2>2, Zenon DEF OnlyFormat
<1> QED
  BY <1>1, <1>2

\* Tokens are equal when their six parts are.
LEMMA TokenEqual ==
  ASSUME NEW t \in Token, NEW u \in Token,
         t.word = u.word, t.num = u.num, t.path = u.path, t.upper = u.upper,
         t.space = u.space, t.byte = u.byte
  PROVE  t = u
<1>1. ASSUME NEW A, NEW B, NEW C, NEW D, NEW E, NEW F,
             NEW x \in [word : A, num : B, path : C, upper : D, space : E, byte : F],
             NEW y \in [word : A, num : B, path : C, upper : D, space : E, byte : F],
             x.word = y.word, x.num = y.num, x.path = y.path,
             x.upper = y.upper, x.space = y.space, x.byte = y.byte
      PROVE  x = y
  BY <1>1
<1> QED
  BY <1>1, Zenon DEF Token

\* A trimmed text of bytes an NSS may hold is stored whole, or is no text.
LEMMA TrimmedIsStorable ==
  ASSUME NEW v \in ProperToken, NssBytes(Trim(v))
  PROVE  Trim(v) \in Token /\ Storable(Trim(v))
<1>1. v \in Token /\ (v.word = "" => v.num = 0 /\ v.path = EmptyText /\ ~ v.upper)
  BY DEF ProperToken
<1>2. Trim(v) \in Token /\ Trim(v).word = v.word
  BY <1>1 DEF Trim, Token
<1>3. CASE v.word = ""
  <2>1. v.num = 0 /\ v.path = EmptyText /\ v.upper = FALSE
    BY <1>1, <1>3 DEF Token
  <2>2. v.byte = "none"
    BY <1>1 DEF NssBytes, Trim, Token
  <2>3. Trim(v) = Nothing
    <3>2. Nothing \in Token
      BY NoChainClean DEF NoChain, Chain
    <3>3. /\ Nothing.word = "" /\ Nothing.num = 0 /\ Nothing.path = EmptyText
          /\ Nothing.upper = FALSE /\ Nothing.space = FALSE
          /\ Nothing.byte = "none"
      BY DEF Nothing, Plain
    <3>4. /\ Trim(v).num = v.num /\ Trim(v).path = v.path
          /\ Trim(v).upper = v.upper /\ Trim(v).space = FALSE
          /\ Trim(v).byte = v.byte
      BY <1>1 DEF Trim, Token
    <3> QED
      BY <1>2, <1>3, <2>1, <2>2, <3>2, <3>3, <3>4, TokenEqual
  <2> QED
    BY <1>2, <2>3 DEF Storable
<1>4. CASE v.word # ""
  BY <1>2, <1>4 DEF Storable
<1> QED
  BY <1>3, <1>4

\* Values a free-form field stores whole, if it takes them.
Settable == {t \in Token : NssBytes(Trim(t)) => Storable(Trim(t))}

\* What an argument may hold is settable; what an address stores is, trimmed
\* and within the NSS set.
LEMMA SettableTokens ==
  /\ ProperToken \subseteq Settable
  /\ \A t \in Token : Storable(t) =>
       t \in Settable /\ Trim(t) = t /\ NssBytes(t)
<1>1. ProperToken \subseteq Settable
  BY TrimmedIsStorable, Zenon DEF Settable, ProperToken
<1>2. NssBytes(Nothing)
  BY PlainFacts, Zenon DEF Nothing
<1>3. ASSUME NEW t \in Token, Storable(t)
      PROVE  NssBytes(t) /\ Trim(t) = t
  <2>1. NssBytes(t)
    BY <1>2, <1>3, Zenon DEF Storable
  <2> QED
    BY <2>1, CleanIsTrimmed DEF NssBytes
<1> QED
  BY <1>1, <1>3, Zenon DEF Settable

\* A free-form setter stores the trimmed value when its bytes are in the NSS
\* set.
LEMMA SetFreeFormResult ==
  ASSUME NEW a, Intact(a), NEW k \in FreeForm, NEW v \in Settable,
         NEW r, r = SetFreeForm(a, k, v)
  PROVE  /\ r \in AddressResult
         /\ OnlyFree(a, r.addr, k)
         /\ r.code = "ok" <=> NssBytes(Trim(v))
         /\ r.code # "ok" => r.addr = a
         /\ r.code = "ok" => r.addr.free[k] = Trim(v)
<1>1. CASE NssBytes(Trim(v))
  <2> DEFINE w == Trim(v)
             b == [a EXCEPT !.free[k] = w]
  <2>1. w \in Token /\ Storable(w)
    BY <1>1, TrimTyped DEF Settable
  <2>2. r = Ok(b)
    BY <1>1, Zenon DEF SetFreeForm
  <2> HIDE DEF w
  <2>3. Intact(b) /\ b.free[k] = w /\ OnlyFree(a, b, k)
    BY <2>1, WithFree, Zenon
  <2> HIDE DEF b
  <2>4. r \in AddressResult /\ r.code = "ok" /\ r.addr = b
    BY <2>2, <2>3, OkResult
  <2> QED
    BY <1>1, <2>3, <2>4, Zenon DEF w
<1>2. CASE ~ NssBytes(Trim(v))
  <2>1. r = Fail("invalid_value", a)
    BY <1>2, Zenon DEF SetFreeForm
  <2>2. r \in AddressResult /\ r.code # "ok" /\ r.addr = a
    BY <2>1, FailureResult DEF AddressCodes
  <2> QED
    BY <1>2, <2>2, Zenon DEF OnlyFree
<1> QED
  BY <1>1, <1>2

-----------------------------------------------------------------------------
(* Constructor and parsers *)

\* The smallest of some numbers up to 8.
LEMMA Smallest ==
  ASSUME NEW bad, bad \subseteq 1 .. 8, bad # {}
  PROVE  \E i \in bad : \A j \in bad : i <= j
<1>1. CASE 1 \in bad
  BY <1>1
<1>2. CASE 2 \in bad /\ \A j \in bad : j >= 2
  BY <1>2
<1>3. CASE 3 \in bad /\ \A j \in bad : j >= 3
  BY <1>3
<1>4. CASE 4 \in bad /\ \A j \in bad : j >= 4
  BY <1>4
<1>5. CASE 5 \in bad /\ \A j \in bad : j >= 5
  BY <1>5
<1>6. CASE 6 \in bad /\ \A j \in bad : j >= 6
  BY <1>6
<1>7. CASE 7 \in bad /\ \A j \in bad : j >= 7
  BY <1>7
<1>8. CASE 8 \in bad /\ \A j \in bad : j >= 8
  BY <1>8
<1>9. PICK n \in bad : TRUE
  OBVIOUS
<1> QED
  BY <1>1, <1>2, <1>3, <1>4, <1>5, <1>6, <1>7, <1>8, <1>9

\* A sequence of calls succeeds when each one does.
LEMMA FirstFailureFacts ==
  ASSUME NEW n \in 1 .. 8, NEW codes \in [1 .. n -> AddressCodes]
  PROVE  /\ FirstFailure(codes) \in AddressCodes
         /\ FirstFailure(codes) = "ok" <=> \A i \in 1 .. n : codes[i] = "ok"
<1> DEFINE bad == {i \in DOMAIN codes : codes[i] # "ok"}
           at  == CHOOSE i \in bad : \A j \in bad : i <= j
<1>1. CASE bad = {}
  BY <1>1, Zenon DEF FirstFailure, AddressCodes
<1>2. CASE bad # {}
  <2>1. bad \subseteq 1 .. 8
    OBVIOUS
  <2>2. \E i \in bad : \A j \in bad : i <= j
    BY <1>2, <2>1, Smallest
  <2>3. at \in bad
    BY <2>2, Zenon
  <2>4. FirstFailure(codes) = codes[at]
    BY <1>2, Zenon DEF FirstFailure
  <2> HIDE DEF at
  <2> QED
    BY <2>3, <2>4
<1> QED
  BY <1>1, <1>2

\* The six-argument constructor takes chain and path as they are, and sets no
\* wt and no wi.
LEMMA Construct6Result ==
  ASSUME NEW c, Clean(c), NEW s \in Seq(Path), Len(s) <= 1,
         s # <<>> => Sound(s[1]),
         NEW aa \in Token, NEW af \in Token,
         NEW v1 \in ProperToken, NEW v2 \in ProperToken,
         NEW r, r = Construct6(c, s, aa, af, v1, v2)
  PROVE  /\ r \in AddressResult
         /\ r.addr.chain = c /\ r.addr.path = s
         /\ r.addr.free["wt"] = Nothing /\ r.addr.free["wi"] = Nothing
<1> DEFINE a  == NewAddress(c, s)
           r1 == SetAddressAlgorithm(a, aa)
           r2 == SetAddressFormat(r1.addr, af)
           r3 == SetFreeForm(r2.addr, "ap", v1)
           r4 == SetFreeForm(r3.addr, "as", v2)
           codes == <<r1.code, r2.code, r3.code, r4.code>>
<1>1. r = Fail(FirstFailure(codes), r4.addr)
  BY Zenon DEF Construct6
<1>2. /\ Intact(a) /\ a.chain = c /\ a.path = s
      /\ a.free = [k \in FreeForm |-> Nothing]
  BY NewAddressIntact
<1>3. {"ap", "as", "wt", "wi"} = FreeForm
  BY DEF FreeForm
<1>4. a.free["wt"] = Nothing /\ a.free["wi"] = Nothing
  BY <1>2, <1>3, Zenon
<1> HIDE DEF a
<1>5. r1 \in AddressResult /\ OnlyAlgorithm(a, r1.addr) /\ Intact(r1.addr)
  BY <1>2, SetAddressAlgorithmResult, ResultFields
<1> HIDE DEF r1
<1>6. r2 \in AddressResult /\ OnlyFormat(r1.addr, r2.addr) /\ Intact(r2.addr)
  BY <1>5, SetAddressFormatResult, ResultFields
<1> HIDE DEF r2
<1>7. r3 \in AddressResult /\ OnlyFree(r2.addr, r3.addr, "ap") /\ Intact(r3.addr)
  BY <1>3, <1>6, SettableTokens, SetFreeFormResult, ResultFields
<1> HIDE DEF r3
<1>8. r4 \in AddressResult /\ OnlyFree(r3.addr, r4.addr, "as") /\ Intact(r4.addr)
  BY <1>3, <1>7, SettableTokens, SetFreeFormResult, ResultFields
<1> HIDE DEF r4
<1>9. FirstFailure(codes) \in AddressCodes
  <2>1. /\ r1.code \in AddressCodes /\ r2.code \in AddressCodes
        /\ r3.code \in AddressCodes /\ r4.code \in AddressCodes
    BY <1>5, <1>6, <1>7, <1>8, ResultFields, Zenon
  <2>2. codes \in [1 .. 4 -> AddressCodes] /\ 4 \in 1 .. 8
    BY <2>1
  <2> QED
    BY <2>2, FirstFailureFacts
<1> HIDE DEF codes
<1>10. r \in AddressResult /\ r.addr = r4.addr
  BY <1>1, <1>8, <1>9, FailResult
<1>11. r4.addr.chain = c /\ r4.addr.path = s
  BY <1>2, <1>5, <1>6, <1>7, <1>8, Zenon DEF OnlyAlgorithm, OnlyFormat, OnlyFree
<1>12. /\ {"wt", "wi"} \subseteq FreeForm \ {"ap"}
       /\ {"wt", "wi"} \subseteq FreeForm \ {"as"}
  BY DEF FreeForm
<1>13. r4.addr.free["wt"] = Nothing /\ r4.addr.free["wi"] = Nothing
  BY <1>4, <1>5, <1>6, <1>7, <1>8, <1>12, Zenon
  DEF OnlyAlgorithm, OnlyFormat, OnlyFree
<1> QED
  BY <1>10, <1>11, <1>13, Zenon

\* The parser of components: when it succeeds, and what it reads then.
LEMMA ParseComponentsResult ==
  ASSUME NEW m, BuildChain(m) \in Result,
         \A k : Get(m, k) \in Settable,
         NEW r, r = ParseComponents(m)
  PROVE  /\ r \in AddressResult
         /\ r.code # "ok" => r.addr = NoAddress
         /\ r.code = "ok" <=>
              /\ BuildChain(m).code = "ok"
              /\ DerivationAccepted(Get(m, "dt"), Get(m, "dp"))
              /\ NameAccepted(Get(m, "aa"), Algorithms)
              /\ NameAccepted(Get(m, "af"), Formats)
              /\ \A k \in FreeForm : NssBytes(Trim(Get(m, k)))
         /\ r.code = "ok" =>
              /\ r.addr.chain = BuildChain(m).chain
              /\ r.addr.path = <<DerivationRead(Get(m, "dt"), Get(m, "dp"))>>
              /\ r.addr.algorithm = NameOf(Get(m, "aa"))
              /\ r.addr.format = NameOf(Get(m, "af"))
              /\ \A k \in FreeForm : r.addr.free[k] = Trim(Get(m, k))
<1> DEFINE built == BuildChain(m)
           a  == NewAddress(built.chain, <<>>)
           r1 == SetDerivation(a, Get(m, "dt"), Get(m, "dp"))
           r2 == SetAddressAlgorithm(r1.addr, Get(m, "aa"))
           r3 == SetAddressFormat(r2.addr, Get(m, "af"))
           r4 == SetFreeForm(r3.addr, "ap", Get(m, "ap"))
           r5 == SetFreeForm(r4.addr, "as", Get(m, "as"))
           r6 == SetFreeForm(r5.addr, "wt", Get(m, "wt"))
           r7 == SetFreeForm(r6.addr, "wi", Get(m, "wi"))
           codes == <<built.code, r1.code, r2.code, r3.code, r4.code, r5.code,
                      r6.code, r7.code>>
<1>0. FreeForm = {"ap", "as", "wt", "wi"}
  BY DEF FreeForm
<1>1. built \in Result /\ Clean(built.chain)
  BY DEF Result
<1>2. built.code \in AddressCodes
  <2>1. built.code \in {"ok", "missing_network_type", "invalid_network_type",
                        "missing_chain_id", "invalid_value",
                        "invalid_coin_type"}
    BY BuildChainCodes
  <2> HIDE DEF built
  <2> QED
    BY <2>1 DEF AddressCodes
<1>3. r = IF FirstFailure(codes) = "ok" THEN Ok(r7.addr)
          ELSE Fail(FirstFailure(codes), NoAddress)
  BY Zenon DEF ParseComponents
<1>4. Intact(a) /\ a.chain = built.chain
  <2>1. <<>> \in Seq(Path) /\ Len(<<>>) <= 1
    OBVIOUS
  <2> QED
    BY <1>1, <2>1, NewAddressIntact
<1>5. \A k : Get(m, k) \in Settable /\ Get(m, k) \in Token
  BY DEF Settable
<1> DEFINE type == Get(m, "dt")
           text == Get(m, "dp")
           curve == Get(m, "aa")
           coding == Get(m, "af")
           v1 == Get(m, "ap")
           v2 == Get(m, "as")
           v3 == Get(m, "wt")
           v4 == Get(m, "wi")
<1>6. /\ type \in Token /\ text \in Token
      /\ curve \in Token /\ coding \in Token
      /\ v1 \in Settable /\ v2 \in Settable
      /\ v3 \in Settable /\ v4 \in Settable
  BY <1>5, Zenon
<1> HIDE DEF a, type, text, curve, coding, v1, v2, v3, v4
<1>7. r1 = SetDerivation(a, type, text)
  BY DEF type, text
<1>8. r2 = SetAddressAlgorithm(r1.addr, curve)
  BY DEF curve
<1>9. r3 = SetAddressFormat(r2.addr, coding)
  BY DEF coding
<1>10. r4 = SetFreeForm(r3.addr, "ap", v1)
  BY DEF v1
<1>11. r5 = SetFreeForm(r4.addr, "as", v2)
  BY DEF v2
<1>12. r6 = SetFreeForm(r5.addr, "wt", v3)
  BY DEF v3
<1>13. r7 = SetFreeForm(r6.addr, "wi", v4)
  BY DEF v4
<1> HIDE DEF built, r1, r2, r3, r4, r5, r6, r7
<1>14. /\ r1 \in AddressResult /\ Intact(r1.addr) /\ r1.code \in AddressCodes
       /\ OnlyPath(a, r1.addr)
       /\ r1.code = "ok" <=> DerivationAccepted(type, text)
       /\ r1.code = "ok" => r1.addr.path = <<DerivationRead(type, text)>>
  <2>1. /\ r1 \in AddressResult
        /\ OnlyPath(a, r1.addr)
        /\ r1.code = "ok" <=> DerivationAccepted(type, text)
        /\ r1.code = "ok" => r1.addr.path = <<DerivationRead(type, text)>>
    BY <1>4, <1>6, <1>7, SetDerivationResult
  <2>2. Intact(r1.addr) /\ r1.code \in AddressCodes
    BY <2>1, ResultFields
  <2> QED
    BY <2>1, <2>2, Zenon
<1>15. /\ r2 \in AddressResult /\ Intact(r2.addr) /\ r2.code \in AddressCodes
       /\ OnlyAlgorithm(r1.addr, r2.addr)
       /\ r2.code = "ok" <=> NameAccepted(curve, Algorithms)
       /\ r2.code = "ok" => r2.addr.algorithm = NameOf(curve)
  <2>1. /\ r2 \in AddressResult
        /\ OnlyAlgorithm(r1.addr, r2.addr)
        /\ r2.code = "ok" <=> NameAccepted(curve, Algorithms)
        /\ r2.code = "ok" => r2.addr.algorithm = NameOf(curve)
    BY <1>6, <1>8, <1>14, SetAddressAlgorithmResult
  <2>2. Intact(r2.addr) /\ r2.code \in AddressCodes
    BY <2>1, ResultFields
  <2> QED
    BY <2>1, <2>2, Zenon
<1>16. /\ r3 \in AddressResult /\ Intact(r3.addr) /\ r3.code \in AddressCodes
       /\ OnlyFormat(r2.addr, r3.addr)
       /\ r3.code = "ok" <=> NameAccepted(coding, Formats)
       /\ r3.code = "ok" => r3.addr.format = NameOf(coding)
  <2>1. /\ r3 \in AddressResult
        /\ OnlyFormat(r2.addr, r3.addr)
        /\ r3.code = "ok" <=> NameAccepted(coding, Formats)
        /\ r3.code = "ok" => r3.addr.format = NameOf(coding)
    BY <1>6, <1>9, <1>15, SetAddressFormatResult
  <2>2. Intact(r3.addr) /\ r3.code \in AddressCodes
    BY <2>1, ResultFields
  <2> QED
    BY <2>1, <2>2, Zenon
<1>17. /\ r4 \in AddressResult /\ Intact(r4.addr) /\ r4.code \in AddressCodes
       /\ OnlyFree(r3.addr, r4.addr, "ap")
       /\ r4.code = "ok" <=> NssBytes(Trim(v1))
       /\ r4.code = "ok" => r4.addr.free["ap"] = Trim(v1)
  <2>1. /\ r4 \in AddressResult
        /\ OnlyFree(r3.addr, r4.addr, "ap")
        /\ r4.code = "ok" <=> NssBytes(Trim(v1))
        /\ r4.code = "ok" => r4.addr.free["ap"] = Trim(v1)
    BY <1>0, <1>6, <1>10, <1>16, SetFreeFormResult
  <2>2. Intact(r4.addr) /\ r4.code \in AddressCodes
    BY <2>1, ResultFields
  <2> QED
    BY <2>1, <2>2, Zenon
<1>18. /\ r5 \in AddressResult /\ Intact(r5.addr) /\ r5.code \in AddressCodes
       /\ OnlyFree(r4.addr, r5.addr, "as")
       /\ r5.code = "ok" <=> NssBytes(Trim(v2))
       /\ r5.code = "ok" => r5.addr.free["as"] = Trim(v2)
  <2>1. /\ r5 \in AddressResult
        /\ OnlyFree(r4.addr, r5.addr, "as")
        /\ r5.code = "ok" <=> NssBytes(Trim(v2))
        /\ r5.code = "ok" => r5.addr.free["as"] = Trim(v2)
    BY <1>0, <1>6, <1>11, <1>17, SetFreeFormResult
  <2>2. Intact(r5.addr) /\ r5.code \in AddressCodes
    BY <2>1, ResultFields
  <2> QED
    BY <2>1, <2>2, Zenon
<1>19. /\ r6 \in AddressResult /\ Intact(r6.addr) /\ r6.code \in AddressCodes
       /\ OnlyFree(r5.addr, r6.addr, "wt")
       /\ r6.code = "ok" <=> NssBytes(Trim(v3))
       /\ r6.code = "ok" => r6.addr.free["wt"] = Trim(v3)
  <2>1. /\ r6 \in AddressResult
        /\ OnlyFree(r5.addr, r6.addr, "wt")
        /\ r6.code = "ok" <=> NssBytes(Trim(v3))
        /\ r6.code = "ok" => r6.addr.free["wt"] = Trim(v3)
    BY <1>0, <1>6, <1>12, <1>18, SetFreeFormResult
  <2>2. Intact(r6.addr) /\ r6.code \in AddressCodes
    BY <2>1, ResultFields
  <2> QED
    BY <2>1, <2>2, Zenon
<1>20. /\ r7 \in AddressResult /\ Intact(r7.addr) /\ r7.code \in AddressCodes
       /\ OnlyFree(r6.addr, r7.addr, "wi")
       /\ r7.code = "ok" <=> NssBytes(Trim(v4))
       /\ r7.code = "ok" => r7.addr.free["wi"] = Trim(v4)
  <2>1. /\ r7 \in AddressResult
        /\ OnlyFree(r6.addr, r7.addr, "wi")
        /\ r7.code = "ok" <=> NssBytes(Trim(v4))
        /\ r7.code = "ok" => r7.addr.free["wi"] = Trim(v4)
    BY <1>0, <1>6, <1>13, <1>19, SetFreeFormResult
  <2>2. Intact(r7.addr) /\ r7.code \in AddressCodes
    BY <2>1, ResultFields
  <2> QED
    BY <2>1, <2>2, Zenon
<1> DEFINE first == FirstFailure(codes)
<1>21. /\ first \in AddressCodes
       /\ first = "ok" <=>
            /\ built.code = "ok" /\ r1.code = "ok" /\ r2.code = "ok"
            /\ r3.code = "ok" /\ r4.code = "ok" /\ r5.code = "ok"
            /\ r6.code = "ok" /\ r7.code = "ok"
  <2>1. codes \in [1 .. 8 -> AddressCodes] /\ 8 \in 1 .. 8
    BY <1>2, <1>14, <1>15, <1>16, <1>17, <1>18, <1>19, <1>20
  <2>2. /\ codes[1] = built.code /\ codes[2] = r1.code /\ codes[3] = r2.code
        /\ codes[4] = r3.code /\ codes[5] = r4.code /\ codes[6] = r5.code
        /\ codes[7] = r6.code /\ codes[8] = r7.code
    OBVIOUS
  <2> HIDE DEF codes
  <2>3. /\ first \in AddressCodes
        /\ first = "ok" <=> \A i \in 1 .. 8 : codes[i] = "ok"
    BY <2>1, FirstFailureFacts
  <2>4. 1 .. 8 = {1, 2, 3, 4, 5, 6, 7, 8}
    OBVIOUS
  <2>5. (\A i \in 1 .. 8 : codes[i] = "ok") <=>
          /\ codes[1] = "ok" /\ codes[2] = "ok" /\ codes[3] = "ok"
          /\ codes[4] = "ok" /\ codes[5] = "ok" /\ codes[6] = "ok"
          /\ codes[7] = "ok" /\ codes[8] = "ok"
    BY <2>4
  <2> HIDE DEF first
  <2> QED
    BY <2>2, <2>3, <2>5, Zenon
<1> HIDE DEF codes
<1>22. (\A k \in FreeForm : NssBytes(Trim(Get(m, k)))) <=>
         /\ NssBytes(Trim(v1)) /\ NssBytes(Trim(v2))
         /\ NssBytes(Trim(v3)) /\ NssBytes(Trim(v4))
  BY <1>0, Zenon DEF v1, v2, v3, v4
<1>23. CASE first # "ok"
  <2>1. r = Fail(first, NoAddress)
    BY <1>3, <1>23, Zenon
  <2>0. first \in AddressCodes
    BY <1>21, Zenon
  <2> HIDE DEF first
  <2>2. r \in AddressResult /\ r.code = first /\ r.addr = NoAddress
    <3>1. Intact(NoAddress)
      BY NoAddressIntact
    <3> QED
      BY <2>0, <2>1, <3>1, FailResult
  <2> QED
    BY <1>14, <1>15, <1>16, <1>17, <1>18, <1>19, <1>20, <1>21, <1>22, <1>23,
       <2>2, Zenon DEF built, type, text, curve, coding
<1>24. CASE first = "ok"
  <2>1. r = Ok(r7.addr)
    BY <1>3, <1>24, Zenon
  <2> HIDE DEF first
  <2>2. r \in AddressResult /\ r.code = "ok" /\ r.addr = r7.addr
    BY <1>20, <2>1, OkResult
  <2>3. /\ r7.addr.chain = built.chain
        /\ r7.addr.path = r1.addr.path
        /\ r7.addr.algorithm = r2.addr.algorithm
        /\ r7.addr.format = r3.addr.format
    BY <1>4, <1>14, <1>15, <1>16, <1>17, <1>18, <1>19, <1>20, Zenon
    DEF OnlyPath, OnlyAlgorithm, OnlyFormat, OnlyFree
  <2>4. /\ "ap" \in FreeForm \ {"as"} /\ "ap" \in FreeForm \ {"wt"}
        /\ "ap" \in FreeForm \ {"wi"} /\ "as" \in FreeForm \ {"wt"}
        /\ "as" \in FreeForm \ {"wi"} /\ "wt" \in FreeForm \ {"wi"}
    BY DEF FreeForm
  <2>5. /\ r7.addr.free["ap"] = Trim(v1) /\ r7.addr.free["as"] = Trim(v2)
        /\ r7.addr.free["wt"] = Trim(v3) /\ r7.addr.free["wi"] = Trim(v4)
    BY <1>17, <1>18, <1>19, <1>20, <1>21, <1>24, <2>4, Zenon DEF OnlyFree
  <2>6. \A k \in FreeForm : r.addr.free[k] = Trim(Get(m, k))
    BY <1>0, <2>2, <2>5, Zenon DEF v1, v2, v3, v4
  <2> QED
    BY <1>14, <1>15, <1>16, <1>17, <1>18, <1>19, <1>20, <1>21, <1>22, <1>24,
       <2>2, <2>3, <2>6, Zenon DEF built, type, text, curve, coding
<1> QED
  BY <1>23, <1>24

\* What a successful construction was given, and what it makes of it.
LEMMA NewChainOk ==
  ASSUME NEW nt, NEW ci \in Token, NewChain(nt, ci).code = "ok"
  PROVE  /\ IsName(nt, Networks) /\ NssBytes(Trim(ci)) /\ ~ IsEmpty(ci)
         /\ NewChain(nt, ci).chain.network = nt.word
         /\ NewChain(nt, ci).chain.id = Trim(ci)
         /\ NewChain(nt, ci).chain.coin = <<>>
<1> DEFINE named == SetNetwork(NoChain, nt)
           c     == named.chain
           built == SetChainId(c, ci)
<1>1. \A code, d : Failed(code, d).code = code
  BY DEF Failed
<1>2. \A d : Done(d).code = "ok" /\ Done(d).chain = d
  BY DEF Done
<1>3. "missing_chain_id" # "ok" /\ "invalid_value" # "ok"
      /\ "invalid_network_type" # "ok"
  OBVIOUS
<1>4. named.code = "ok" /\ NewChain(nt, ci) = built
  BY <1>1, Zenon DEF NewChain
<1>5. IsName(nt, Networks) /\ named = Done([NoChain EXCEPT !.network = nt.word])
  BY <1>1, <1>3, <1>4, Zenon DEF SetNetwork
<1>6. c = [NoChain EXCEPT !.network = nt.word]
  BY <1>2, <1>5, Zenon
<1>7. c \in Chain /\ c.network = nt.word /\ c.coin = <<>>
  <2>1. nt.word \in Networks
    BY <1>5 DEF IsName
  <2>2. NoChain \in Chain /\ NoChain.coin = <<>>
    BY NoChainClean DEF NoChain
  <2> QED
    BY <1>6, <2>1, <2>2 DEF Chain
<1> HIDE DEF named, c
<1>8. /\ ~ IsEmpty(ci) /\ NssBytes(Trim(ci))
      /\ built = Done([c EXCEPT !.id = Trim(ci)])
  BY <1>1, <1>3, <1>4, Zenon DEF SetChainId
<1>9. built.chain = [c EXCEPT !.id = Trim(ci)]
  BY <1>2, <1>8, Zenon
<1>10. /\ built.chain.network = c.network /\ built.chain.coin = c.coin
       /\ built.chain.id = Trim(ci)
  <2> DEFINE id == Trim(ci)
  <2> HIDE DEF id
  <2>1. ASSUME NEW d, d = [c EXCEPT !.id = id]
        PROVE  d.network = c.network /\ d.coin = c.coin /\ d.id = id
    BY <1>7, <2>1 DEF Chain
  <2> QED
    BY <1>9, <2>1, Zenon DEF id
<1> QED
  BY <1>4, <1>5, <1>7, <1>8, <1>10, Zenon

\* A chain is built whole or not at all.
LEMMA BuiltIsWhole ==
  ASSUME NEW m, Get(m, "ci") \in Token, BuildChain(m).code = "ok"
  PROVE  Whole(BuildChain(m).chain)
<1> DEFINE nt    == Normalize(Get(m, "nt"))
           ci    == Trim(Get(m, "ci"))
           ct    == Trim(Get(m, "ct"))
           built == NewChain(nt, ci)
           b     == BuildChain(m)
<1>1. ci \in Token
  BY TrimTyped
<1>2. \A code, d : Failed(code, d).code = code
  BY DEF Failed
<1>3. "missing_network_type" # "ok" /\ "invalid_coin_type" # "ok"
  OBVIOUS
<1>4. b = built \/ (b = Done(SetCoin(built.chain, ct.num)) /\ built.code = "ok")
  BY <1>2, <1>3, Zenon DEF BuildChain
<1>5. built.code = "ok"
  BY <1>4, Zenon
<1>6. /\ IsName(nt, Networks) /\ ~ IsEmpty(ci) /\ NssBytes(Trim(ci))
      /\ built.chain.network = nt.word /\ built.chain.id = Trim(ci)
  BY <1>1, <1>5, NewChainOk, Zenon
<1>7. nt.word # ""
  BY <1>6 DEF IsName, Networks
<1>8. Trim(ci) # Nothing
  <2> HIDE DEF ci
  <2>1. Trim(ci).word = ci.word /\ Trim(ci).byte = ci.byte
    BY <1>1 DEF Trim, Token
  <2>2. Nothing.word = ""
    BY DEF Nothing, Plain
  <2>3. ci.word # ""
    BY <1>6, <2>1 DEF IsEmpty, NssBytes
  <2> QED
    BY <2>1, <2>2, <2>3
<1>9. Whole(built.chain)
  BY <1>6, <1>7, <1>8, Zenon DEF Whole
<1>10. built \in Result
  BY <1>1, NewChainResult, Zenon
<1>11. Clean(built.chain)
  BY <1>10 DEF Result
<1>12. CASE b = built
  BY <1>9, <1>12, Zenon
<1>13. CASE b = Done(SetCoin(built.chain, ct.num))
  <2> DEFINE c == built.chain
             n == ct.num
  <2> HIDE DEF c, n
  <2>1. c \in Chain
    BY <1>11 DEF Clean, c
  <2>2. SetCoin(c, n).network = c.network /\ SetCoin(c, n).id = c.id
    BY <2>1 DEF SetCoin, Chain
  <2>3. b.chain = SetCoin(c, n)
    BY <1>13 DEF Done, c, n
  <2>4. Whole(c)
    BY <1>9 DEF c
  <2> HIDE DEF b
  <2> QED
    BY <2>2, <2>3, <2>4, Zenon DEF Whole, b
<1> QED
  BY <1>4, <1>12, <1>13

\* A parsed address: a whole identity, and root or a path that is set.
Parsed(a) ==
  /\ Whole(a.chain)
  /\ a.path # <<>>
  /\ a.path[1].type \in DerivationTypes
  /\ a.path[1].type = "root" => a.path[1] = EmptyPath("root")
  /\ PathIsSet(a)

\* Tokens of texts are tokens, and stay so when trimmed or cut.
LEMMA ProperTokens ==
  /\ ProperToken \subseteq Token
  /\ Nothing \in ProperToken
  /\ \A t \in ProperToken : Trim(t) \in ProperToken
  /\ \A t \in ProperToken : [t EXCEPT !.byte = "none"] \in ProperToken
<1>1. ProperToken \subseteq Token
  BY DEF ProperToken
<1>2. Nothing \in ProperToken
  <2>1. Nothing \in Token
    BY NoChainClean DEF NoChain, Chain
  <2> QED
    BY <2>1 DEF ProperToken, Nothing, Plain
<1>3. ASSUME NEW t \in ProperToken
      PROVE  Trim(t) \in ProperToken /\ [t EXCEPT !.byte = "none"] \in ProperToken
  <2>1. t \in Token
    BY <1>1
  <2>2. /\ t.word = "" => t.num = 0 /\ t.path = EmptyText /\ ~ t.upper
        /\ t.word = "path" => t.path # EmptyText
    BY DEF ProperToken
  <2>3. /\ Trim(t) \in Token /\ Trim(t).word = t.word /\ Trim(t).num = t.num
        /\ Trim(t).path = t.path /\ Trim(t).upper = t.upper
    BY <2>1 DEF Trim, Token
  <2> DEFINE u == [t EXCEPT !.byte = "none"]
  <2>4. /\ u \in Token /\ u.word = t.word /\ u.num = t.num
        /\ u.path = t.path /\ u.upper = t.upper
    BY <2>1 DEF Token
  <2> HIDE DEF u
  <2>5. Trim(t) \in ProperToken
    BY <2>2, <2>3, Zenon DEF ProperToken
  <2>6. u \in ProperToken
    BY <2>2, <2>4, Zenon DEF ProperToken
  <2> QED
    BY <2>5, <2>6 DEF u
<1> QED
  BY <1>1, <1>2, <1>3

\* A non-empty set of numbers has a smallest one.
LEMMA SmallestNat ==
  ASSUME NEW S, S \subseteq Nat, S # {}
  PROVE  \E i \in S : \A j \in S : i <= j
<1>1. IsWellFoundedOn(OpToRel(<, Nat), Nat)
  BY NatLessThanWellFounded
<1>2. PICK i \in S : \A j \in S : <<j, i>> \notin OpToRel(<, Nat)
  BY <1>1, WFMin, Zenon
<1>3. ASSUME NEW j \in S
      PROVE  i <= j
  <2>1. i \in Nat /\ j \in Nat
    OBVIOUS
  <2>2. <<j, i>> \notin {ss \in Nat \X Nat : ss[1] < ss[2]}
    BY <1>2, Zenon DEF OpToRel
  <2>3. ~ (j < i)
    BY <2>1, <2>2
  <2> QED
    BY <2>1, <2>3
<1> QED
  BY <1>3

\* A text cut at its r, q or f component keeps proper tokens.
LEMMA StripTyped ==
  ASSUME NEW parts \in Seq(ProperToken)
  PROVE  StripRqf(parts) \in Seq(ProperToken)
<1> DEFINE cuts == {i \in DOMAIN parts : parts[i].byte = "rqf"}
           cut  == CHOOSE i \in cuts : \A j \in cuts : i <= j
<1>1. CASE cuts = {}
  BY <1>1, Zenon DEF StripRqf
<1>2. CASE cuts # {}
  <2>1. StripRqf(parts) = [SubSeq(parts, 1, cut) EXCEPT ![cut].byte = "none"]
    BY <1>2, Zenon DEF StripRqf
  <2>2. cut \in cuts
    <3>1. cuts \subseteq Nat
      OBVIOUS
    <3>2. \E i \in cuts : \A j \in cuts : i <= j
      BY <1>2, <3>1, SmallestNat
    <3> QED
      BY <3>2, Zenon
  <2> HIDE DEF cut
  <2>3. cut \in 1 .. Len(parts)
    BY <2>2
  <2> DEFINE s == SubSeq(parts, 1, cut)
  <2>4. s \in Seq(ProperToken) /\ Len(s) = cut
    BY <2>3
  <2> HIDE DEF s
  <2>5. s[cut] \in ProperToken
    BY <2>3, <2>4, ElementOfSeq
  <2> DEFINE u == [s[cut] EXCEPT !.byte = "none"]
  <2>6. u \in ProperToken
    BY <2>5, ProperTokens
  <2> HIDE DEF u
  <2>7. [s EXCEPT ![cut] = u] \in Seq(ProperToken)
    BY <2>3, <2>4, <2>6
  <2> QED
    BY <2>1, <2>7, Zenon DEF s, u
<1> QED
  BY <1>1, <1>2

\* parse_nss returns a parsed address, or none.
LEMMA ParseNssResult ==
  ASSUME NEW parts \in Seq(ProperToken), NEW r, r = ParseNss(parts)
  PROVE  /\ r \in AddressResult
         /\ r.code # "ok" => r.addr = NoAddress
         /\ r.code = "ok" => Parsed(r.addr)
<1> DEFINE s == TrimEnd(parts)
           m == Components(s)
<1>1. s \in Seq(ProperToken)
  BY ProperTokens, TrimEndIn, Zenon
<1>2. s \in Seq(Token)
  <2> HIDE DEF s
  <2> QED
    BY <1>1, ProperTokens
<1>3. BuildChain(m) \in Result
  BY <1>2, BuildChainResult, Zenon
<1>4. \A k : Get(m, k) \in ProperToken
  BY <1>1, ProperTokens, ComponentsIn, Zenon
<1>7. \A k : Get(m, k) \in Settable
  BY <1>4, SettableTokens
<1>5. CASE ~ NssOk(s)
  <2>1. r = Fail("invalid_nss", NoAddress)
    BY <1>5, Zenon DEF ParseNss
  <2>2. Intact(NoAddress)
    BY NoAddressIntact
  <2>3. r \in AddressResult /\ r.code # "ok" /\ r.addr = NoAddress
    BY <2>1, <2>2, FailureResult DEF AddressCodes
  <2> QED
    BY <2>3
<1>6. CASE NssOk(s)
  <2>1. r = ParseComponents(m)
    BY <1>6, Zenon DEF ParseNss
  <2> HIDE DEF m, s
  <2>2. /\ r \in AddressResult
        /\ r.code # "ok" => r.addr = NoAddress
        /\ r.code = "ok" =>
             /\ BuildChain(m).code = "ok"
             /\ DerivationAccepted(Get(m, "dt"), Get(m, "dp"))
             /\ r.addr.chain = BuildChain(m).chain
             /\ r.addr.path = <<DerivationRead(Get(m, "dt"), Get(m, "dp"))>>
    BY <1>3, <1>7, <2>1, ParseComponentsResult
  <2>3. /\ Get(m, "dt") \in Token /\ Get(m, "dp") \in Token
        /\ Get(m, "ci") \in Token
    BY <1>4, ProperTokens
  <2>4. ASSUME r.code = "ok"
        PROVE  Parsed(r.addr)
    <3> DEFINE p == DerivationRead(Get(m, "dt"), Get(m, "dp"))
    <3>1. Whole(r.addr.chain)
      BY <2>2, <2>3, <2>4, BuiltIsWhole, Zenon
    <3>2. /\ p \in Path /\ p.type \in DerivationTypes
          /\ p.type = "root" => p = EmptyPath("root")
          /\ p.type # "root" => p.levels # <<>>
      BY <2>2, <2>3, <2>4, DerivationReadFacts, Zenon
    <3> HIDE DEF p
    <3>3. r.addr.path = <<p>>
      BY <2>2, <2>4 DEF p
    <3>4. r.addr.path # <<>> /\ r.addr.path[1] = p
      BY <3>2, <3>3, OnePath, Zenon
    <3> QED
      BY <3>1, <3>2, <3>4, Zenon DEF Parsed, PathIsSet, HasDerivation, IsRoot
  <2> QED
    BY <2>2, <2>4, Zenon
<1> QED
  BY <1>5, <1>6

\* Texts that the parsers are given.
UrnText == [mhda : BOOLEAN, parts : Seq(ProperToken)]

\* parse_urn returns a parsed address, or a failure and no address.
LEMMA ParseUrnResult ==
  ASSUME NEW urn \in UrnText, NEW r, r = ParseUrn(urn)
  PROVE  /\ r \in AddressResult
         /\ r.code # "ok" => r.addr = NoAddress
         /\ r.code = "ok" => Parsed(r.addr)
<1>1. CASE ~ urn.mhda
  <2>1. r = Fail("invalid_urn", NoAddress)
    BY <1>1, Zenon DEF ParseUrn
  <2>2. Intact(NoAddress)
    BY NoAddressIntact
  <2>3. r \in AddressResult /\ r.code # "ok" /\ r.addr = NoAddress
    BY <2>1, <2>2, FailureResult DEF AddressCodes
  <2> QED
    BY <2>3
<1>2. CASE urn.mhda
  <2> DEFINE parts == StripRqf(TrimEnd(urn.parts))
  <2>1. urn.parts \in Seq(ProperToken)
    BY DEF UrnText
  <2>2. TrimEnd(urn.parts) \in Seq(ProperToken)
    BY <2>1, ProperTokens, TrimEndIn, Zenon
  <2>3. parts \in Seq(ProperToken)
    BY <2>2, StripTyped, Zenon
  <2>4. r = ParseNss(parts)
    BY <1>2, Zenon DEF ParseUrn
  <2> HIDE DEF parts
  <2> QED
    BY <2>3, <2>4, ParseNssResult
<1> QED
  BY <1>1, <1>2

\* Strict validation ends in one of the codes of an address.
LEMMA ValidateCodes ==
  ASSUME NEW a
  PROVE  Validate(a) \in AddressCodes
BY Zenon DEF Validate, MarshalCode, AddressCodes

\* parse_urn_strict returns a parsed address, or a failure and no address.
LEMMA ParseUrnStrictResult ==
  ASSUME NEW urn \in UrnText, NEW r, r = ParseUrnStrict(urn)
  PROVE  /\ r \in AddressResult
         /\ r.code # "ok" => r.addr = NoAddress
         /\ r.code = "ok" => Parsed(r.addr)
<1> DEFINE p == ParseUrn(urn)
<1>1. /\ p \in AddressResult
      /\ p.code # "ok" => p.addr = NoAddress
      /\ p.code = "ok" => Parsed(p.addr)
  BY ParseUrnResult
<1>2. \/ r = p
      \/ r = Fail(Validate(p.addr), NoAddress) /\ Validate(p.addr) # "ok"
  BY Zenon DEF ParseUrnStrict
<1> HIDE DEF p
<1>3. CASE r = p
  BY <1>1, <1>3
<1>4. CASE r = Fail(Validate(p.addr), NoAddress) /\ Validate(p.addr) # "ok"
  <2> DEFINE code == Validate(p.addr)
  <2>1. code \in AddressCodes /\ code # "ok"
    BY <1>4, ValidateCodes, Zenon
  <2> HIDE DEF code
  <2>2. r = Fail(code, NoAddress)
    BY <1>4 DEF code
  <2>3. Intact(NoAddress)
    BY NoAddressIntact
  <2>4. r \in AddressResult /\ r.code = code /\ r.addr = NoAddress
    BY <2>1, <2>2, <2>3, FailResult
  <2> QED
    BY <2>1, <2>4
<1> QED
  BY <1>2, <1>3, <1>4

-----------------------------------------------------------------------------
(* The NSS of an address *)

\* Tokens whose bytes may all stand in an NSS.
CleanToken == {t \in Token : NssBytes(t)}

\* Such a text has no whitespace to trim and no '?' or '#' to cut at.
LEMMA CleanTextKept ==
  ASSUME NEW s \in Seq(CleanToken), Len(s) # 1
  PROVE  TrimEnd(s) = s /\ StripRqf(s) = s
<1>1. /\ s \in [1 .. Len(s) -> CleanToken] /\ DOMAIN s = 1 .. Len(s)
      /\ Len(s) \in Nat
  BY LenProperties, Zenon
<1>2. ASSUME NEW i \in 1 .. Len(s)
      PROVE  Trim(s[i]) = s[i] /\ s[i].byte = "none"
  <2>1. s[i] \in CleanToken
    BY <1>1
  <2>2. s[i] \in Token /\ s[i].byte = "none" /\ ~ s[i].space
    BY <2>1 DEF CleanToken, NssBytes
  <2> QED
    BY <2>2, CleanIsTrimmed
<1>3. TrimEnd(s) = [i \in DOMAIN s |-> IF i = Len(s) THEN Trim(s[i]) ELSE s[i]]
  BY Zenon DEF TrimEnd
<1>4. TrimEnd(s) = [i \in 1 .. Len(s) |-> s[i]]
  BY <1>1, <1>2, <1>3, Zenon
<1>5. TrimEnd(s) = s
  BY <1>1, <1>4, Zenon
<1>6. {i \in DOMAIN s : s[i].byte = "rqf"} = {}
  <2>1. "none" # "rqf"
    OBVIOUS
  <2> QED
    BY <1>1, <1>2, <2>1, Zenon
<1>7. StripRqf(s) = s
  BY <1>6, Zenon DEF StripRqf
<1> QED
  BY <1>5, <1>7

\* A field is written as two tokens, or not at all.
LEMMA OptionalField ==
  ASSUME NEW k \in Words, NEW v \in Token, Storable(v)
  PROVE  /\ v = Nothing => Optional(k, v) = <<>>
         /\ v # Nothing => /\ Optional(k, v) = <<Plain(k), v>>
                           /\ Field(k, v) = <<Plain(k), v>>
         /\ Optional(k, v) \in Seq(CleanToken)
<1>1. Plain(k) \in CleanToken /\ v \in CleanToken
  BY PlainTyped, PlainFacts, SettableTokens DEF CleanToken
<1>2. CASE v = Nothing
  <2>1. IsEmpty(v)
    BY <1>2, PlainFacts, Zenon DEF IsEmpty, Nothing
  <2>2. Optional(k, v) = <<>>
    BY <2>1, Zenon DEF Optional
  <2>3. <<>> \in Seq(CleanToken)
    OBVIOUS
  <2> QED
    BY <1>2, <2>2, <2>3, Zenon
<1>3. CASE v # Nothing
  <2>1. ~ IsEmpty(v) /\ v.byte # "colon"
    BY <1>3 DEF Storable, IsEmpty, NssBytes
  <2>2. Optional(k, v) = Field(k, v) /\ Field(k, v) = <<Plain(k), v>>
    BY <2>1, Zenon DEF Optional, Field
  <2>3. \A x, y \in CleanToken : <<x, y>> \in Seq(CleanToken)
    OBVIOUS
  <2>4. <<Plain(k), v>> \in Seq(CleanToken)
    BY <1>1, <2>3
  <2> QED
    BY <1>3, <2>2, <2>4, Zenon
<1> QED
  BY <1>2, <1>3

\* s is accepted, and has what f says of the keys in K and nothing else.
Reads(s, f, K) ==
  /\ s \in Seq(Token) /\ NssOk(s)
  /\ \A k : k \in DOMAIN Components(s) <=> k \in K /\ f[k] # Nothing
  /\ \A k \in DOMAIN Components(s) : Components(s)[k] = f[k]

\* One more field.
LEMMA ReadsMore ==
  ASSUME NEW s, NEW f, NEW K, Reads(s, f, K), NEW k \in Keys, k \notin K,
         f[k] \in Token, Storable(f[k]), NEW u, u = s \o Optional(k, f[k])
  PROVE  Reads(u, f, K \cup {k})
<1> DEFINE v == f[k]
           n == K \cup {k}
<1>1. k \in Words
  BY WordsAssumption
<1>2. s \in Seq(Token) /\ NssOk(s)
  BY DEF Reads
<1>3. /\ \A j : j \in DOMAIN Components(s) <=> j \in K /\ f[j] # Nothing
      /\ \A j \in DOMAIN Components(s) : Components(s)[j] = f[j]
  BY Zenon DEF Reads
<1>4. \A j : j \in n <=> j \in K \/ j = k
  OBVIOUS
<1>5. CASE v = Nothing
  <2>1. Optional(k, v) = <<>>
    BY <1>1, <1>5, OptionalField, Zenon
  <2>2. u = s
    BY <1>2, <2>1, ConcatEmptySeq, Zenon
  <2> QED
    BY <1>2, <1>3, <1>4, <1>5, <2>2, Zenon DEF Reads
<1>6. CASE v # Nothing
  <2>1. u = s \o <<Plain(k), v>>
    BY <1>1, <1>6, OptionalField, Zenon
  <2>2. k \notin DOMAIN Components(s)
    BY <1>3, Zenon
  <2> HIDE DEF v
  <2>3. v \in Token /\ Storable(v)
    BY DEF v
  <2>4. /\ u \in Seq(Token) /\ NssOk(u)
        /\ k \in DOMAIN Components(u) /\ Components(u)[k] = v
        /\ \A j : j \in DOMAIN Components(u) <=>
                     j = k \/ j \in DOMAIN Components(s)
        /\ \A j \in DOMAIN Components(s) :
              Components(u)[j] = Components(s)[j]
    BY <1>2, <1>6, <2>1, <2>2, <2>3, AppendPair
  <2>5. f[k] = v
    BY DEF v
  <2> QED
    BY <1>3, <1>4, <1>6, <2>4, <2>5, Zenon DEF Reads
<1> QED
  BY <1>5, <1>6

\* What nss() writes for each key, Nothing for one it leaves out.
Written(a) ==
  [k \in Keys |->
     CASE k = "nt" -> Plain(a.chain.network)
       [] k = "ci" -> a.chain.id
       [] k = "ct" -> IF a.chain.coin = <<>> THEN Nothing
                      ELSE Number(a.chain.coin[1])
       [] k = "dt" -> IF HasDerivation(a) THEN Plain(a.path[1].type) ELSE Nothing
       [] k = "dp" -> IF HasDerivation(a) THEN PathToken(Str(a.path[1])) ELSE Nothing
       [] k = "aa" -> Plain(a.algorithm)
       [] k = "af" -> Plain(a.format)
       [] k \in FreeForm -> a.free[k]]

\* What nss() writes under each key.
LEMMA WrittenAt ==
  ASSUME NEW a
  PROVE  /\ Written(a)["nt"] = Plain(a.chain.network)
         /\ Written(a)["ci"] = a.chain.id
         /\ Written(a)["ct"] = IF a.chain.coin = <<>> THEN Nothing
                               ELSE Number(a.chain.coin[1])
         /\ HasDerivation(a) =>
              /\ Written(a)["dt"] = Plain(a.path[1].type)
              /\ Written(a)["dp"] = PathToken(Str(a.path[1]))
         /\ ~ HasDerivation(a) =>
              Written(a)["dt"] = Nothing /\ Written(a)["dp"] = Nothing
         /\ Written(a)["aa"] = Plain(a.algorithm)
         /\ Written(a)["af"] = Plain(a.format)
         /\ \A k \in FreeForm : Written(a)[k] = a.free[k]
<1> DEFINE nt == Plain(a.chain.network)
           ci == a.chain.id
           ct == IF a.chain.coin = <<>> THEN Nothing ELSE Number(a.chain.coin[1])
           dt == IF HasDerivation(a) THEN Plain(a.path[1].type) ELSE Nothing
           dp == IF HasDerivation(a) THEN PathToken(Str(a.path[1])) ELSE Nothing
           aa == Plain(a.algorithm)
           af == Plain(a.format)
           free == a.free
           w == Written(a)
<1>1. w = [k \in Keys |->
             CASE k = "nt" -> nt [] k = "ci" -> ci [] k = "ct" -> ct
               [] k = "dt" -> dt [] k = "dp" -> dp [] k = "aa" -> aa
               [] k = "af" -> af [] k \in FreeForm -> free[k]]
  BY Zenon DEF Written
<1>2. HasDerivation(a) => dt = Plain(a.path[1].type) /\ dp = PathToken(Str(a.path[1]))
  OBVIOUS
<1>3. ~ HasDerivation(a) => dt = Nothing /\ dp = Nothing
  OBVIOUS
<1> HIDE DEF nt, ci, dt, dp, aa, af, free, w
<1>4. /\ w["nt"] = nt /\ w["ci"] = ci /\ w["dt"] = dt /\ w["dp"] = dp
      /\ w["aa"] = aa /\ w["af"] = af
      /\ \A k \in FreeForm : w[k] = free[k]
  <2> HIDE DEF ct
  <2> QED
    BY <1>1 DEF Keys, FreeForm
<1>5. w["ct"] = ct
  <2> HIDE DEF ct
  <2> QED
    BY <1>1 DEF Keys, FreeForm
<1> QED
  BY <1>2, <1>3, <1>4, <1>5, Zenon DEF nt, ci, dt, dp, aa, af, free, w

\* Numbers and paths as tokens.
LEMMA NumberTyped ==
  ASSUME NEW n \in Nat
  PROVE  /\ Number(n) \in Token /\ Storable(Number(n)) /\ Number(n) # Nothing
         /\ Number(n).word = "decimal" /\ Number(n).num = n
<1>1. Plain("decimal") \in Token
  BY WordsAssumption, PlainTyped
<1>2. /\ Plain("decimal").word = "decimal" /\ Plain("decimal").space = FALSE
      /\ Plain("decimal").byte = "none" /\ Nothing.word = ""
  BY PlainFacts, Zenon DEF Nothing
<1>3. /\ Number(n) \in Token /\ Number(n).word = "decimal" /\ Number(n).num = n
      /\ Number(n).space = FALSE /\ Number(n).byte = "none"
  BY <1>1, <1>2 DEF Number, Token
<1> QED
  BY <1>2, <1>3 DEF Storable, NssBytes

\* A path text written as a value is storable, and is read back from it.
LEMMA PathTokenTyped ==
  ASSUME NEW text \in Text
  PROVE  /\ PathToken(text) \in Token /\ Storable(PathToken(text))
         /\ PathToken(text) = Nothing <=> text = EmptyText
         /\ PathOf(PathToken(text)) = text
<1>1. CASE text = EmptyText
  <2>1. PathToken(text) = Nothing
    BY <1>1, Zenon DEF PathToken
  <2>2. Nothing \in Token /\ Storable(Nothing)
    BY NoChainClean DEF NoChain, Chain, Storable
  <2>3. PathOf(Nothing) = EmptyText
    BY DEF PathOf, Nothing, Plain
  <2> QED
    BY <1>1, <2>1, <2>2, <2>3, Zenon
<1>2. CASE text # EmptyText
  <2> DEFINE p == Plain("path")
             t == [p EXCEPT !.path = text]
  <2>1. p \in Token
    BY WordsAssumption, PlainTyped
  <2>2. /\ p.word = "path" /\ p.space = FALSE /\ p.byte = "none"
        /\ Nothing.word = ""
    BY PlainFacts, Zenon DEF Nothing
  <2>3. PathToken(text) = t
    BY <1>2, Zenon DEF PathToken
  <2> HIDE DEF p
  <2>4. /\ t \in Token /\ t.word = "path" /\ t.path = text
        /\ t.space = FALSE /\ t.byte = "none"
    BY <2>1, <2>2 DEF Token
  <2> HIDE DEF t
  <2>5. t # Nothing /\ Storable(t)
    BY <2>2, <2>4 DEF Storable, NssBytes
  <2>6. PathOf(t) = text
    BY <2>4, Zenon DEF PathOf
  <2> QED
    BY <1>2, <2>3, <2>4, <2>5, <2>6, Zenon
<1> QED
  BY <1>1, <1>2

\* A canonical name is a token, and no token when it is empty.
LEMMA NameToken ==
  ASSUME NEW w \in Words
  PROVE  /\ Plain(w) \in Token /\ Storable(Plain(w))
         /\ Plain(w) = Nothing <=> w = ""
         /\ Normalize(Plain(w)) = Plain(w)
         /\ IsEmpty(Plain(w)) <=> w = ""
         /\ \A names : IsName(Plain(w), names) <=> w \in names
<1>1. Plain(w).word = w /\ NssBytes(Plain(w)) /\ Plain(w).byte = "none"
  BY PlainFacts, Zenon
<1>2. Nothing = Plain("") /\ Plain("").word = ""
  BY PlainFacts, Zenon DEF Nothing
<1>3. Plain(w) \in Token /\ Normalize(Plain(w)) = Plain(w)
  BY PlainTyped, PlainIsNormal, Zenon
<1>4. Plain(w) = Nothing <=> w = ""
  BY <1>1, <1>2, Zenon
<1>5. Storable(Plain(w))
  BY <1>1, <1>4, Zenon DEF Storable
<1>6. IsEmpty(Plain(w)) <=> w = ""
  BY <1>1, Zenon DEF IsEmpty
<1>7. \A names : IsName(Plain(w), names) <=> w \in names
  BY <1>1, Zenon DEF IsName
<1> QED
  BY <1>3, <1>4, <1>5, <1>6, <1>7

\* Every value nss() writes for an intact address is trimmed and in the NSS
\* set.
LEMMA WrittenTyped ==
  ASSUME NEW a, Intact(a), NEW k \in Keys
  PROVE  Written(a)[k] \in Token /\ Storable(Written(a)[k])
<1> DEFINE w == Written(a)
<1>1. /\ a \in Address /\ Clean(a.chain)
      /\ \A j \in FreeForm : Storable(a.free[j])
  BY Zenon DEF Intact
<1>2. /\ a.algorithm \in Words /\ a.format \in Words
      /\ \A j \in FreeForm : a.free[j] \in Token
  <2>1. /\ a.algorithm \in Algorithms \cup {""} /\ a.format \in Formats \cup {""}
        /\ a.free \in [FreeForm -> Token]
    BY <1>1, AddressFields
  <2> QED
    BY <2>1, NamesAreWords, WordsAssumption
<1>3. /\ a.chain.network \in Words /\ a.chain.id \in Token /\ Storable(a.chain.id)
      /\ a.chain.coin # <<>> => a.chain.coin[1] \in Nat
  <2>1. /\ a.chain \in Chain /\ Storable(a.chain.id) /\ Len(a.chain.coin) <= 1
    BY <1>1, Zenon DEF Clean
  <2>2. /\ a.chain.network \in Networks \cup {""} /\ a.chain.id \in Token
        /\ a.chain.coin \in Seq(Uint32)
    BY <2>1 DEF Chain
  <2>3. a.chain.coin # <<>> => a.chain.coin[1] \in Uint32
    BY <2>1, <2>2, OneElement, Zenon
  <2>4. Uint32 \subseteq Nat
    BY IndexLimitAssumption DEF Uint32
  <2> QED
    BY <2>1, <2>2, <2>3, <2>4, NetworksAreWords, WordsAssumption
<1>4. Nothing \in Token /\ Storable(Nothing)
  BY NoChainClean DEF NoChain, Chain, Storable
<1>5. HasDerivation(a) =>
        a.path[1].type \in Words /\ Str(a.path[1]) \in Text
  <2> SUFFICES ASSUME HasDerivation(a)
               PROVE  a.path[1].type \in Words /\ Str(a.path[1]) \in Text
    OBVIOUS
  <2>1. a.path # <<>>
    BY Zenon DEF HasDerivation
  <2>2. /\ a.path[1] \in Path
        /\ a.path[1].type \in DerivationTypes \cup {NoType}
    BY <2>1, HeldPath
  <2>3. NoType \in Words /\ DerivationTypes \subseteq Words
    BY WordsAssumption DEF NoType
  <2> QED
    BY <2>2, <2>3, StrTyped
<1>5a. \A x \in Words : Plain(x) \in Token /\ Storable(Plain(x))
  BY NameToken
<1>6. Keys = {"nt", "ci", "ct", "dt", "dp", "aa", "af"} \cup FreeForm
  BY DEF Keys, FreeForm
<1>7. CASE k = "nt"
  BY <1>3, <1>7, WrittenAt, <1>5a, Zenon
<1>8. CASE k = "ci"
  BY <1>3, <1>8, WrittenAt, Zenon
<1>9. CASE k = "ct"
  <2>1. CASE a.chain.coin = <<>>
    BY <1>4, <1>9, <2>1, WrittenAt, Zenon
  <2>2. CASE a.chain.coin # <<>>
    BY <1>3, <1>9, <2>2, WrittenAt, NumberTyped, Zenon
  <2> QED
    BY <2>1, <2>2
<1>10. CASE k = "dt"
  BY <1>4, <1>5, <1>10, WrittenAt, <1>5a, Zenon
<1>11. CASE k = "dp"
  BY <1>4, <1>5, <1>11, WrittenAt, PathTokenTyped, Zenon
<1>12. CASE k \in {"aa", "af"}
  BY <1>2, <1>12, WrittenAt, <1>5a, Zenon
<1>13. CASE k \in FreeForm
  BY <1>1, <1>2, <1>13, WrittenAt, Zenon
<1> QED
  BY <1>6, <1>7, <1>8, <1>9, <1>10, <1>11, <1>12, <1>13

\* Each part of nss() writes the fields of its keys, in this order.
LEMMA NssFields ==
  ASSUME NEW a, Intact(a), NEW w, w = Written(a)
  PROVE  Nss(a) =
           ChainKey(a.chain) \o Optional("ct", w["ct"])
           \o (Optional("dt", w["dt"]) \o Optional("dp", w["dp"]))
           \o Optional("aa", w["aa"]) \o Optional("af", w["af"])
           \o Optional("ap", w["ap"]) \o Optional("as", w["as"])
           \o Optional("wt", w["wt"]) \o Optional("wi", w["wi"])
<1>1. \A k \in Keys : w[k] \in Token /\ Storable(w[k])
  BY WrittenTyped
<1>2. Keys \subseteq Words /\ {"ct", "dt", "dp"} \subseteq Keys
  BY WordsAssumption DEF Keys
<1>3. Optional("ct", Nothing) = <<>> /\ Optional("dt", Nothing) = <<>>
      /\ Optional("dp", Nothing) = <<>>
  BY PlainFacts, Zenon DEF Optional, IsEmpty, Nothing
<1>4. CoinField(a.chain) = Optional("ct", w["ct"])
  <2>1. CASE a.chain.coin = <<>>
    BY <1>3, <2>1, WrittenAt, Zenon DEF CoinField
  <2>2. CASE a.chain.coin # <<>>
    <3> DEFINE n == Number(a.chain.coin[1])
    <3>1. w["ct"] = n
      BY <2>2, WrittenAt, Zenon
    <3>2. n \in Token /\ Storable(n)
      BY <1>1, <1>2, <3>1
    <3>3. n # Nothing
      <4>1. n.word = "decimal" /\ Nothing.word = ""
        <5>1. Nothing.word = ""
          BY PlainFacts, Zenon DEF Nothing
        <5>2. a.chain.coin[1] \in Nat
          <6>1. a.chain.coin \in Seq(Uint32) /\ Len(a.chain.coin) <= 1
            BY Zenon DEF Intact, Clean, Chain
          <6>2. a.chain.coin[1] \in Uint32
            BY <2>2, <6>1, OneElement, Zenon
          <6> QED
            BY <6>2, IndexLimitAssumption DEF Uint32
        <5> QED
          BY <5>1, <5>2, NumberTyped, Zenon
      <4> QED
        BY <4>1
    <3>4. CoinField(a.chain) = Field("ct", n)
      BY <2>2, Zenon DEF CoinField
    <3> HIDE DEF n
    <3> QED
      BY <1>2, <3>1, <3>2, <3>3, <3>4, OptionalField
  <2> QED
    BY <2>1, <2>2
<1>5. DerivationFields(a) = Optional("dt", w["dt"]) \o Optional("dp", w["dp"])
  <2>1. CASE ~ HasDerivation(a)
    <3>1. <<>> \o <<>> = <<>>
      OBVIOUS
    <3>2. DerivationFields(a) = <<>>
      BY <2>1, Zenon DEF DerivationFields
    <3> QED
      BY <1>3, <2>1, <3>1, <3>2, WrittenAt
  <2>2. CASE HasDerivation(a)
    <3> DEFINE t == Plain(a.path[1].type)
               d == PathToken(Str(a.path[1]))
    <3>1. w["dt"] = t /\ w["dp"] = d
      BY <2>2, WrittenAt, Zenon
    <3>2. t \in Token /\ Storable(t) /\ t # Nothing
      <4>1. t.word = a.path[1].type /\ Nothing.word = ""
        BY PlainFacts, Zenon DEF Nothing
      <4>2. a.path[1].type # ""
        BY <2>2, Zenon DEF HasDerivation, IsRoot, NoType
      <4> QED
        BY <1>1, <1>2, <3>1, <4>1, <4>2
    <3>3. DerivationFields(a) = Field("dt", t) \o Optional("dp", d)
      BY <2>2, Zenon DEF DerivationFields
    <3> HIDE DEF t, d
    <3>4. Field("dt", t) = Optional("dt", t)
      BY <1>2, <3>2, OptionalField
    <3> QED
      BY <3>1, <3>3, <3>4, Zenon
  <2> QED
    BY <2>1, <2>2
<1>6. w["aa"] = Plain(a.algorithm) /\ w["af"] = Plain(a.format)
      /\ w["ap"] = a.free["ap"] /\ w["as"] = a.free["as"]
      /\ w["wt"] = a.free["wt"] /\ w["wi"] = a.free["wi"]
  <2>1. {"ap", "as", "wt", "wi"} = FreeForm
    BY DEF FreeForm
  <2> QED
    BY <2>1, WrittenAt, Zenon
<1> QED
  BY <1>4, <1>5, <1>6, Zenon DEF Nss

\* The NSS of an address with a whole identity is accepted, and its components
\* are what nss() wrote.
LEMMA NssReads ==
  ASSUME NEW a, Intact(a), Whole(a.chain)
  PROVE  Reads(Nss(a), Written(a), Keys)
<1> DEFINE w  == Written(a)
           c  == a.chain
           s0 == ChainKey(c)
           s1 == s0 \o Optional("ct", w["ct"])
           x  == Optional("dt", w["dt"])
           y  == Optional("dp", w["dp"])
           s2 == s1 \o x
           s3 == s2 \o y
           s4 == s3 \o Optional("aa", w["aa"])
           s5 == s4 \o Optional("af", w["af"])
           s6 == s5 \o Optional("ap", w["ap"])
           s7 == s6 \o Optional("as", w["as"])
           s8 == s7 \o Optional("wt", w["wt"])
           s9 == s8 \o Optional("wi", w["wi"])
           K0 == {"nt", "ci"}
           K1 == K0 \cup {"ct"}
           K2 == K1 \cup {"dt"}
           K3 == K2 \cup {"dp"}
           K4 == K3 \cup {"aa"}
           K5 == K4 \cup {"af"}
           K6 == K5 \cup {"ap"}
           K7 == K6 \cup {"as"}
           K8 == K7 \cup {"wt"}
           K9 == K8 \cup {"wi"}
<1>1. Clean(c) /\ c \in Chain
  BY DEF Intact, Clean
<1>2. \A k \in Keys : w[k] \in Token /\ Storable(w[k])
  BY WrittenTyped, Zenon
<1>3. /\ w["nt"] = Plain(c.network) /\ w["ci"] = c.id
      /\ w["nt"] # Nothing /\ w["ci"] # Nothing
  <2>1. w["nt"] = Plain(c.network) /\ w["ci"] = c.id
    BY WrittenAt, Zenon
  <2>2. Plain(c.network).word = c.network /\ Nothing.word = ""
    BY PlainFacts, Zenon DEF Nothing
  <2> QED
    BY <2>1, <2>2, Zenon DEF Whole
<1>4. Nss(a) = s3 \o Optional("aa", w["aa"]) \o Optional("af", w["af"])
               \o Optional("ap", w["ap"]) \o Optional("as", w["as"])
               \o Optional("wt", w["wt"]) \o Optional("wi", w["wi"])
  <2>1. Keys \subseteq Words /\ {"ct", "dt", "dp"} \subseteq Keys
    BY WordsAssumption DEF Keys
  <2>2. /\ x \in Seq(CleanToken) /\ y \in Seq(CleanToken)
        /\ Optional("ct", w["ct"]) \in Seq(CleanToken)
    BY <1>2, <2>1, OptionalField
  <2>3. CleanToken \subseteq Token
    BY DEF CleanToken
  <2>4. s1 \in Seq(Token) /\ x \in Seq(Token) /\ y \in Seq(Token)
    <3>1. s0 \in Seq(Token)
      BY <1>1, KeyTokens, Zenon
    <3> HIDE DEF s0, x, y
    <3> QED
      BY <2>2, <2>3, <3>1
  <2>5. s1 \o (x \o y) = s3
    <3> HIDE DEF s1, x, y
    <3>1. (s1 \o x) \o y = s1 \o (x \o y)
      BY <2>4, ConcatAssociative
    <3> QED
      BY <3>1
  <2>6. Nss(a) = s1 \o (x \o y)
                 \o Optional("aa", w["aa"]) \o Optional("af", w["af"])
                 \o Optional("ap", w["ap"]) \o Optional("as", w["as"])
                 \o Optional("wt", w["wt"]) \o Optional("wi", w["wi"])
    BY NssFields
  <2> HIDE DEF s1, s3
  <2> QED
    BY <2>5, <2>6, Zenon
<1>5. Nss(a) = s9
  BY <1>4, Zenon
<1> HIDE DEF w
<1>6. Reads(s0, w, K0)
  <2>1. /\ s0 \in Seq(Token) /\ NssOk(s0) /\ DOMAIN Components(s0) = K0
        /\ Components(s0)["nt"] = Plain(c.network)
        /\ Components(s0)["ci"] = c.id
    BY <1>1, KeyTokens, KeyIsNss, Zenon
  <2> HIDE DEF s0
  <2> QED
    BY <1>3, <2>1 DEF Reads
<1>7. ASSUME NEW s, NEW u, NEW K, NEW k \in Keys, Reads(s, w, K), k \notin K,
             u = s \o Optional(k, w[k])
      PROVE  Reads(u, w, K \cup {k})
  BY <1>2, <1>7, ReadsMore
<1> HIDE DEF s0
<1>8. Reads(s1, w, K1)
  <2>1. "ct" \in Keys /\ "ct" \notin K0
    BY DEF Keys
  <2> QED
    BY <1>6, <1>7, <2>1, Zenon
<1> HIDE DEF s1
<1>9. Reads(s2, w, K2)
  <2>1. "dt" \in Keys /\ "dt" \notin K1
    BY DEF Keys
  <2> QED
    BY <1>7, <1>8, <2>1, Zenon
<1> HIDE DEF s2
<1>10. Reads(s3, w, K3)
  <2>1. "dp" \in Keys /\ "dp" \notin K2
    BY DEF Keys
  <2> QED
    BY <1>7, <1>9, <2>1, Zenon
<1> HIDE DEF s3
<1>11. Reads(s4, w, K4)
  <2>1. "aa" \in Keys /\ "aa" \notin K3
    BY DEF Keys
  <2> QED
    BY <1>7, <1>10, <2>1, Zenon
<1> HIDE DEF s4
<1>12. Reads(s5, w, K5)
  <2>1. "af" \in Keys /\ "af" \notin K4
    BY DEF Keys
  <2> QED
    BY <1>7, <1>11, <2>1, Zenon
<1> HIDE DEF s5
<1>13. Reads(s6, w, K6)
  <2>1. "ap" \in Keys /\ "ap" \notin K5
    BY DEF Keys
  <2> QED
    BY <1>7, <1>12, <2>1, Zenon
<1> HIDE DEF s6
<1>14. Reads(s7, w, K7)
  <2>1. "as" \in Keys /\ "as" \notin K6
    BY DEF Keys
  <2> QED
    BY <1>7, <1>13, <2>1, Zenon
<1> HIDE DEF s7
<1>15. Reads(s8, w, K8)
  <2>1. "wt" \in Keys /\ "wt" \notin K7
    BY DEF Keys
  <2> QED
    BY <1>7, <1>14, <2>1, Zenon
<1> HIDE DEF s8
<1>16. Reads(s9, w, K9)
  <2>1. "wi" \in Keys /\ "wi" \notin K8
    BY DEF Keys
  <2> QED
    BY <1>7, <1>15, <2>1, Zenon
<1>17. K9 = Keys
  BY DEF Keys
<1> QED
  BY <1>5, <1>16, <1>17 DEF w

\* What is appended to a text of four tokens leaves its network and id in
\* place.
LEMMA LongerText ==
  ASSUME NEW S, NEW s \in Seq(S), NEW t \in Seq(S), Len(s) >= 4
  PROVE  /\ s \o t \in Seq(S) /\ Len(s \o t) >= 4
         /\ (s \o t)[2] = s[2] /\ (s \o t)[4] = s[4]
<1>1. /\ s \o t \in Seq(S) /\ Len(s \o t) = Len(s) + Len(t)
      /\ \A i \in 1 .. Len(s) + Len(t) :
           (s \o t)[i] = IF i <= Len(s) THEN s[i] ELSE t[i - Len(s)]
  BY ConcatProperties
<1>2. Len(s) \in Nat /\ Len(t) \in Nat
  OBVIOUS
<1>3. 2 \in 1 .. Len(s) + Len(t) /\ 4 \in 1 .. Len(s) + Len(t)
  BY <1>2
<1> QED
  BY <1>1, <1>2, <1>3

\* Every NSS begins with the two tokens of the network and the two of the id,
\* set or not, and has nothing to trim or to cut.
LEMMA NssTokens ==
  ASSUME NEW a, Intact(a), NEW s, s = Nss(a)
  PROVE  /\ s \in Seq(CleanToken) /\ Len(s) >= 4 /\ Len(s) # 1
         /\ s[2] = Plain(a.chain.network) /\ s[4] = a.chain.id
<1> DEFINE c == a.chain
           w == Written(a)
           n == Plain(c.network)
           i == c.id
           Starts(x) == /\ x \in Seq(CleanToken) /\ Len(x) >= 4
                        /\ x[2] = n /\ x[4] = i
<1>1. \A k \in Keys : Optional(k, w[k]) \in Seq(CleanToken)
  <2>1. \A k \in Keys : k \in Words /\ w[k] \in Token /\ Storable(w[k])
    BY WrittenTyped, WordsAssumption
  <2> QED
    BY <2>1, OptionalField
<1>2. c.network \in Words /\ i \in Token /\ Storable(i)
  <2>1. c.network \in Networks \cup {""} /\ i \in Token /\ Storable(i)
    BY DEF Intact, Clean, Chain
  <2> QED
    BY <2>1, NetworksAreWords, WordsAssumption
<1>3. Starts(ChainKey(c))
  <2> DEFINE p == Plain("nt")
             q == Plain("ci")
  <2>1. p \in CleanToken /\ q \in CleanToken /\ n \in CleanToken
    BY <1>2, WordsAssumption, PlainTyped, PlainFacts DEF CleanToken, Keys
  <2>2. i \in CleanToken /\ i.byte # "colon" /\ n.byte # "colon"
    BY <1>2, SettableTokens, PlainFacts DEF CleanToken, NssBytes
  <2>3. ChainKey(c) = <<p, n>> \o <<q, i>>
    BY <2>2, Zenon DEF ChainKey, Field
  <2> HIDE DEF n, i, p, q
  <2>4. /\ <<p, n>> \o <<q, i>> = <<p, n, q, i>>
        /\ <<p, n, q, i>> \in Seq(CleanToken) /\ Len(<<p, n, q, i>>) = 4
    BY <2>1, <2>2, TwoPairs
  <2>5. <<p, n, q, i>>[2] = n /\ <<p, n, q, i>>[4] = i
    OBVIOUS
  <2> QED
    BY <2>3, <2>4, <2>5
<1>4. ASSUME NEW x, NEW y \in Seq(CleanToken), Starts(x)
      PROVE  Starts(x \o y)
  BY <1>4, LongerText
<1>5. {"ct", "dt", "dp", "aa", "af", "ap", "as", "wt", "wi"} \subseteq Keys
  BY DEF Keys
<1>6. s = ChainKey(c) \o Optional("ct", w["ct"])
          \o (Optional("dt", w["dt"]) \o Optional("dp", w["dp"]))
          \o Optional("aa", w["aa"]) \o Optional("af", w["af"])
          \o Optional("ap", w["ap"]) \o Optional("as", w["as"])
          \o Optional("wt", w["wt"]) \o Optional("wi", w["wi"])
  BY NssFields
<1> DEFINE s0 == ChainKey(c)
           s1 == s0 \o Optional("ct", w["ct"])
           s2 == s1 \o (Optional("dt", w["dt"]) \o Optional("dp", w["dp"]))
           s3 == s2 \o Optional("aa", w["aa"])
           s4 == s3 \o Optional("af", w["af"])
           s5 == s4 \o Optional("ap", w["ap"])
           s6 == s5 \o Optional("as", w["as"])
           s7 == s6 \o Optional("wt", w["wt"])
           s8 == s7 \o Optional("wi", w["wi"])
<1>7. s = s8
  BY <1>6, Zenon
<1> HIDE DEF w, Starts
<1>8. Starts(s1)
  BY <1>1, <1>3, <1>4, <1>5
<1> HIDE DEF s1
<1>9. Starts(s2)
  <2>1. \A x, y \in Seq(CleanToken) : x \o y \in Seq(CleanToken)
    OBVIOUS
  <2> QED
    BY <1>1, <1>4, <1>5, <1>8, <2>1
<1> HIDE DEF s2
<1>10. Starts(s3)
  BY <1>1, <1>4, <1>5, <1>9
<1> HIDE DEF s3
<1>11. Starts(s4)
  BY <1>1, <1>4, <1>5, <1>10
<1> HIDE DEF s4
<1>12. Starts(s5)
  BY <1>1, <1>4, <1>5, <1>11
<1> HIDE DEF s5
<1>13. Starts(s6)
  BY <1>1, <1>4, <1>5, <1>12
<1> HIDE DEF s6
<1>14. Starts(s7)
  BY <1>1, <1>4, <1>5, <1>13
<1> HIDE DEF s7
<1>15. Starts(s8)
  BY <1>1, <1>4, <1>5, <1>14
<1> HIDE DEF s8
<1>16. ASSUME NEW x \in Seq(CleanToken), Len(x) >= 4
       PROVE  Len(x) # 1
  <2>1. \A l \in Nat : l >= 4 => l # 1
    OBVIOUS
  <2>2. Len(x) \in Nat
    BY LenProperties, Zenon
  <2> QED
    BY <1>16, <2>1, <2>2, Zenon
<1>17. s \in Seq(CleanToken) /\ Len(s) >= 4
  BY <1>7, <1>15 DEF Starts
<1> QED
  BY <1>7, <1>15, <1>16, <1>17 DEF Starts

\* A text without the network or the id has an empty token, and is refused.
LEMMA HalfChainIsRefused ==
  ASSUME NEW a, Intact(a), ~ Whole(a.chain)
  PROVE  ~ NssOk(Nss(a))
<1> DEFINE s == Nss(a)
<1>1. /\ s \in Seq(CleanToken) /\ Len(s) >= 4
      /\ s[2] = Plain(a.chain.network) /\ s[4] = a.chain.id
  BY NssTokens
<1> HIDE DEF s
<1>2. s[2].word = "" \/ s[4].word = ""
  <2>1. Plain(a.chain.network).word = a.chain.network /\ Nothing.word = ""
    BY PlainFacts, Zenon DEF Nothing
  <2> QED
    BY <1>1, <2>1, Zenon DEF Whole
<1>3. 2 \in DOMAIN s /\ 4 \in DOMAIN s
  <2>1. Len(s) \in Nat /\ DOMAIN s = 1 .. Len(s)
    BY <1>1
  <2> QED
    BY <1>1, <2>1
<1> QED
  BY <1>2, <1>3, Zenon DEF NssOk, s

\* str() writes no capital: the head is "m" and the marker "'".
LEMMA FormatIsLower ==
  ASSUME NEW l \in Seq(Level), NEW text, text = FormatLevels(l)
  PROVE  LowerText(text) = text
<1> DEFINE n == Len(l)
           low(i) == [text.segs[i] EXCEPT !.mark = IF @ = "H" THEN "h" ELSE @]
<1>1. /\ n \in Nat /\ text.head = "m" /\ text.segs \in Seq(Segment)
      /\ Len(text.segs) = n
      /\ \A i \in 1 .. n : text.segs[i] = Spell(l[i])
  BY FormatTyped
<1>2. text = [head |-> "m", segs |-> text.segs]
  BY Zenon DEF FormatLevels
<1>3. text.segs \in [1 .. n -> Segment] /\ DOMAIN text.segs = 1 .. n
  BY <1>1, LenProperties, Zenon
<1>4. ASSUME NEW i \in 1 .. n
      PROVE  low(i) = text.segs[i]
  <2>1. text.segs[i] \in Segment /\ text.segs[i].mark # "H"
    <3>1. \A x : Spell(x).mark # "H"
      BY DEF Spell
    <3> QED
      BY <1>1, <1>3, <3>1
  <2> DEFINE x == text.segs[i]
  <2> HIDE DEF x
  <2>2. [x EXCEPT !.mark = IF @ = "H" THEN "h" ELSE @] = x
    BY <2>1 DEF Segment, x
  <2> QED
    BY <2>2 DEF x
<1>5. LowerText(text)
        = [head |-> IF text.head = "M" THEN "m" ELSE text.head,
           segs |-> [i \in 1 .. n |-> low(i)]]
  BY <1>3, Zenon DEF LowerText
<1>6. [i \in 1 .. n |-> low(i)] = text.segs
  <2> HIDE DEF low
  <2> QED
    BY <1>3, <1>4, Zenon
<1>7. (IF text.head = "M" THEN "m" ELSE text.head) = "m"
  BY <1>1
<1> QED
  BY <1>2, <1>5, <1>6, <1>7, Zenon

\* The derivation that is written is one that can be read unless the path is
\* missing, and it is read as it was.
LEMMA DerivationWritten ==
  ASSUME NEW a, Intact(a), NEW dt, dt = Written(a)["dt"],
         NEW dp, dp = Written(a)["dp"]
  PROVE  /\ DerivationAccepted(dt, dp) <=> PathIsSet(a)
         /\ HasDerivation(a) /\ PathIsSet(a) => DerivationRead(dt, dp) = a.path[1]
         /\ ~ HasDerivation(a) => DerivationRead(dt, dp) = EmptyPath("root")
<1>1. CASE ~ HasDerivation(a)
  <2>1. dt = Plain("") /\ dp = PathToken(EmptyText)
    BY <1>1, WrittenAt, Zenon DEF Nothing, PathToken
  <2>2. Normalize(dt) = Plain("") /\ IsEmpty(Plain(""))
    BY <2>1, NameToken, WordsAssumption
  <2>3. TypeNamed(dt) = "root" /\ TypeAccepted(dt)
    BY <2>2, Zenon DEF TypeNamed, TypeAccepted
  <2>4. EmptyText \in Text
    BY DEF EmptyText, Text, Heads
  <2>5. PathOf(dp) = EmptyText /\ Trim(dp) = dp
    BY <2>1, <2>4, PathTokenTyped, SettableTokens
  <2> QED
    BY <1>1, <2>3, <2>5, Zenon DEF DerivationAccepted, DerivationRead, PathIsSet
<1>2. CASE HasDerivation(a)
  <2> DEFINE p == a.path[1]
             t == p.type
             text == Str(p)
  <2>1. a.path # <<>> /\ t # "root" /\ t # NoType
    BY <1>2, Zenon DEF HasDerivation, IsRoot
  <2>2. p \in Path /\ Sound(p) /\ t \in DerivationTypes \cup {NoType}
    BY <2>1, HeldPath, Zenon
  <2>3. t \in DerivationTypes \ {"root"}
    BY <2>1, <2>2
  <2>4. dt = Plain(t) /\ dp = PathToken(text)
    BY <1>2, WrittenAt, Zenon
  <2>5. text \in Text
    BY <2>2, StrTyped
  <2>6. /\ p.levels = <<>> => text = EmptyText
        /\ p.levels # <<>> =>
             /\ Accepts(t, text) /\ p = ParsedPath(t, text)
             /\ LowerText(text) = text
    <3>1. p.levels = <<>> => text = EmptyText
      BY Zenon DEF Str
    <3>2. ASSUME p.levels # <<>>
          PROVE  /\ Accepts(t, text) /\ p = ParsedPath(t, text)
                 /\ LowerText(text) = text
      <4>1. Accepts(t, text) /\ p = ParsedPath(t, text)
        BY <2>2, <3>2, SoundFacts, Zenon
      <4>2. /\ p.type = t /\ Shaped(t, p.levels) /\ Bounded(p.levels)
            /\ p = RebuildLevels(Fill(t, p.levels))
        BY <2>3, <2>5, <4>1, ParsedPathFacts
      <4>3. text = FormatLevels(p.levels)
        BY <2>3, <4>2, StoredRoundTrip
      <4>4. p.levels \in Seq(Level)
        BY <4>2, Zenon DEF Bounded
      <4> QED
        BY <4>1, <4>3, <4>4, FormatIsLower
    <3> QED
      BY <3>1, <3>2
  <2> HIDE DEF text
  <2>7. PathOf(dp) = text /\ Trim(dp) = dp
    BY <2>4, <2>5, PathTokenTyped, SettableTokens
  <2>8. TypeNamed(dt) = t /\ TypeAccepted(dt)
    <3>1. t \in Words /\ t # ""
      BY <2>3, WordsAssumption DEF DerivationTypes, Bip44Family
    <3> HIDE DEF p
    <3>2. /\ Normalize(dt) = dt /\ ~ IsEmpty(dt)
          /\ IsName(dt, DerivationTypes)
      BY <2>3, <2>4, <3>1, NameToken
    <3>3. dt.word = t
      BY <2>4, PlainFacts, Zenon
    <3> QED
      BY <3>2, <3>3, Zenon DEF TypeNamed, TypeAccepted
  <2>9. PathIsSet(a) <=> p.levels # <<>>
    BY <1>2, Zenon DEF PathIsSet
  <2> HIDE DEF p
  <2>10. ~ Accepts(t, LowerText(EmptyText))
    <3>1. LowerText(EmptyText) = EmptyText
      BY DEF LowerText, EmptyText
    <3>2. EmptyText.head # "m"
      BY DEF EmptyText
    <3> QED
      BY <2>1, <3>1, <3>2, Zenon DEF Accepts, ParseLevelsOk
  <2>11. DerivationAccepted(dt, dp) <=> Accepts(t, LowerText(text))
    BY <2>1, <2>7, <2>8, Zenon DEF DerivationAccepted
  <2>12. DerivationRead(dt, dp) = ParsedPath(t, LowerText(text))
    BY <2>1, <2>7, <2>8, Zenon DEF DerivationRead
  <2>13. DerivationAccepted(dt, dp) <=> p.levels # <<>>
    BY <2>6, <2>10, <2>11, Zenon
  <2>14. p.levels # <<>> => DerivationRead(dt, dp) = p
    BY <2>6, <2>12, Zenon
  <2> QED
    BY <1>2, <2>9, <2>13, <2>14 DEF p
<1> QED
  BY <1>1, <1>2

\* The components of the NSS of a whole address, and the chain they build.
LEMMA NssComponents ==
  ASSUME NEW a, Intact(a), Whole(a.chain), NEW m, m = Components(Nss(a))
  PROVE  /\ NssOk(Nss(a))
         /\ \A k : k \in DOMAIN m <=> k \in Keys /\ Written(a)[k] # Nothing
         /\ \A k \in Keys : Get(m, k) = Written(a)[k]
         /\ \A k : Get(m, k) \in Settable
         /\ BuildChain(m) = Done(a.chain)
<1> DEFINE w == Written(a)
           c == a.chain
<1>1. Reads(Nss(a), w, Keys)
  BY NssReads
<1>2. /\ NssOk(Nss(a))
      /\ \A k : k \in DOMAIN m <=> k \in Keys /\ w[k] # Nothing
      /\ \A k \in DOMAIN m : m[k] = w[k]
  BY <1>1, Zenon DEF Reads
<1>3. \A k \in Keys : Get(m, k) = w[k]
  BY <1>2, Zenon DEF Get
<1>4. ASSUME NEW k
      PROVE  Get(m, k) \in Settable
  <2>1. CASE k \in Keys
    <3>1. w[k] \in Token /\ Storable(w[k])
      BY <2>1, WrittenTyped, Zenon
    <3> QED
      BY <1>3, <2>1, <3>1, SettableTokens
  <2>2. CASE k \notin Keys
    <3>1. Get(m, k) = Nothing
      BY <1>2, <2>2, Zenon DEF Get
    <3> QED
      BY <3>1, ProperTokens, SettableTokens
  <2> QED
    BY <2>1, <2>2
<1>5. BuildChain(m) = Done(c)
  <2>1. Clean(c)
    BY DEF Intact
  <2>2. "nt" \in Keys /\ "ci" \in Keys /\ "ct" \in Keys
    BY DEF Keys
  <2>3. Get(m, "nt") = Plain(c.network) /\ Get(m, "ci") = c.id
    BY <1>3, <2>2, WrittenAt, Zenon
  <2>4. c.coin = <<>> => w["ct"] = Nothing
    BY WrittenAt, Zenon
  <2>5. c.coin # <<>> => w["ct"] = Number(c.coin[1]) /\ w["ct"] # Nothing
    <3>1. ASSUME c.coin # <<>>
          PROVE  w["ct"] = Number(c.coin[1]) /\ w["ct"] # Nothing
      <4>1. w["ct"] = Number(c.coin[1])
        BY <3>1, WrittenAt, Zenon
      <4>2. c.coin \in Seq(Uint32) /\ Len(c.coin) <= 1
        BY <2>1 DEF Clean, Chain
      <4>3. c.coin[1] \in Uint32
        BY <3>1, <4>2, OneElement, Zenon
      <4>4. c.coin[1] \in Nat
        BY <4>3, IndexLimitAssumption DEF Uint32
      <4> QED
        BY <4>1, <4>4, NumberTyped, Zenon
    <3> QED
      BY <3>1
  <2>6. c.coin = <<>> => "ct" \notin DOMAIN m
    BY <1>2, <2>4, Zenon
  <2>7. c.coin # <<>> => "ct" \in DOMAIN m /\ Get(m, "ct") = Number(c.coin[1])
    BY <1>2, <1>3, <2>2, <2>5, Zenon
  <2> QED
    BY <2>1, <2>3, <2>6, <2>7, BuildOfParts, Zenon
<1> QED
  BY <1>2, <1>3, <1>4, <1>5

\* What parse_urn makes of the URN of a whole address.
LEMMA WholeUrnParses ==
  ASSUME NEW a, Intact(a), Whole(a.chain), NEW r, r = ParseUrn(UrnOf(a))
  PROVE  /\ r \in AddressResult
         /\ r.code = "ok" <=> PathIsSet(a)
         /\ r.code = "ok" =>
              /\ r.addr.chain = a.chain
              /\ HasDerivation(a) => r.addr.path = a.path
              /\ ~ HasDerivation(a) => r.addr.path = <<EmptyPath("root")>>
              /\ r.addr.algorithm = a.algorithm
              /\ r.addr.format = a.format
              /\ r.addr.free = a.free
<1> DEFINE s == Nss(a)
           w == Written(a)
           m == Components(s)
<1>1. TrimEnd(s) = s /\ StripRqf(s) = s
  <2>1. s \in Seq(CleanToken) /\ Len(s) # 1
    BY NssTokens
  <2> HIDE DEF s
  <2> QED
    BY <2>1, CleanTextKept, Zenon
<1>2. /\ NssOk(s)
      /\ \A k \in Keys : Get(m, k) = w[k]
      /\ \A k : Get(m, k) \in Settable
      /\ BuildChain(m) = Done(a.chain)
  BY NssComponents
<1>3. r = ParseComponents(m)
  <2>1. UrnOf(a).mhda = TRUE /\ UrnOf(a).parts = s
    BY DEF UrnOf, Urn
  <2> HIDE DEF s
  <2> QED
    BY <1>1, <1>2, <2>1, Zenon DEF ParseUrn, ParseNss
<1>4. BuildChain(m) \in Result /\ BuildChain(m).code = "ok" /\ BuildChain(m).chain = a.chain
  <2>1. Clean(a.chain) /\ a.chain \in Chain
    BY DEF Intact, Clean
  <2> DEFINE c == a.chain
  <2> HIDE DEF c
  <2>2. c \in {x \in Chain : Clean(x)}
    BY <2>1 DEF c
  <2>3. Done(c) \in Result /\ Done(c).code = "ok" /\ Done(c).chain = c
    BY <2>2 DEF Done, Result, ResultCodes
  <2> QED
    BY <1>2, <2>3, Zenon DEF c
<1> HIDE DEF m, s
<1>5. {"dt", "dp", "aa", "af"} \cup FreeForm \subseteq Keys
  BY DEF Keys, FreeForm
<1>6. /\ r \in AddressResult
      /\ r.code = "ok" <=>
           /\ DerivationAccepted(w["dt"], w["dp"])
           /\ NameAccepted(w["aa"], Algorithms)
           /\ NameAccepted(w["af"], Formats)
           /\ \A k \in FreeForm : NssBytes(Trim(w[k]))
      /\ r.code = "ok" =>
           /\ r.addr.chain = a.chain
           /\ r.addr.path = <<DerivationRead(w["dt"], w["dp"])>>
           /\ r.addr.algorithm = NameOf(w["aa"])
           /\ r.addr.format = NameOf(w["af"])
           /\ \A k \in FreeForm : r.addr.free[k] = Trim(w[k])
  <2>1. /\ Get(m, "dt") = w["dt"] /\ Get(m, "dp") = w["dp"]
        /\ Get(m, "aa") = w["aa"] /\ Get(m, "af") = w["af"]
        /\ \A k \in FreeForm : Get(m, k) = w[k]
    BY <1>2, <1>5
  <2> HIDE DEF w
  <2> QED
    BY <1>2, <1>3, <1>4, <2>1, ParseComponentsResult
<1>7. /\ NameAccepted(w["aa"], Algorithms) /\ NameOf(w["aa"]) = a.algorithm
      /\ NameAccepted(w["af"], Formats) /\ NameOf(w["af"]) = a.format
  <2>1. ASSUME NEW names, names \subseteq Words, NEW x \in names \cup {""}
        PROVE  NameAccepted(Plain(x), names) /\ NameOf(Plain(x)) = x
    <3>1. x \in Words
      BY <2>1, WordsAssumption
    <3>2. Normalize(Plain(x)) = Plain(x) /\ Plain(x).word = x
      BY <3>1, NameToken, PlainFacts, Zenon
    <3>3. (x = "" => IsEmpty(Plain(x))) /\ (x \in names => IsName(Plain(x), names))
      BY <3>1, NameToken
    <3> QED
      BY <3>2, <3>3, Zenon DEF NameAccepted, NameOf
  <2>2. a.algorithm \in Algorithms \cup {""} /\ a.format \in Formats \cup {""}
    BY AddressFields DEF Intact
  <2>3. Algorithms \subseteq Words /\ Formats \subseteq Words
    BY NamesAreWords
  <2>4. w["aa"] = Plain(a.algorithm) /\ w["af"] = Plain(a.format)
    BY WrittenAt, Zenon
  <2> QED
    BY <2>1, <2>2, <2>3, <2>4, Zenon
<1>8. \A k \in FreeForm : NssBytes(Trim(w[k])) /\ Trim(w[k]) = a.free[k]
  <2>1. ASSUME NEW k \in FreeForm
        PROVE  NssBytes(Trim(w[k])) /\ Trim(w[k]) = a.free[k]
    <3>1. k \in Keys /\ w[k] = a.free[k]
      BY <1>5, WrittenAt
    <3>2. w[k] \in Token /\ Storable(w[k])
      BY <3>1, WrittenTyped, Zenon
    <3> HIDE DEF w
    <3>3. Trim(w[k]) = w[k] /\ NssBytes(w[k])
      BY <3>2, SettableTokens
    <3> QED
      BY <3>1, <3>3, Zenon
  <2> QED
    BY <2>1
<1>9. /\ DerivationAccepted(w["dt"], w["dp"]) <=> PathIsSet(a)
      /\ HasDerivation(a) /\ PathIsSet(a) =>
           DerivationRead(w["dt"], w["dp"]) = a.path[1]
      /\ ~ HasDerivation(a) => DerivationRead(w["dt"], w["dp"]) = EmptyPath("root")
  BY DerivationWritten
<1> HIDE DEF w
<1>10. r.code = "ok" <=> PathIsSet(a)
  BY <1>6, <1>7, <1>8, <1>9, Zenon
<1>11. ASSUME r.code = "ok"
       PROVE  /\ HasDerivation(a) => r.addr.path = a.path
              /\ r.addr.free = a.free
  <2>1. HasDerivation(a) => a.path = <<a.path[1]>>
    <3>1. HasDerivation(a) => a.path # <<>>
      BY Zenon DEF HasDerivation
    <3> QED
      BY <3>1, HeldPath
  <2>2. r.addr.free \in [FreeForm -> Token] /\ a.free \in [FreeForm -> Token]
    <3>1. r.addr \in Address /\ a \in Address
      BY <1>6, ResultFields DEF Intact
    <3> QED
      BY <3>1, AddressFields
  <2>3. \A k \in FreeForm : r.addr.free[k] = a.free[k]
    BY <1>6, <1>8, <1>11
  <2>4. r.addr.free = a.free
    <3> DEFINE f == r.addr.free
               g == a.free
    <3> HIDE DEF f, g
    <3>1. f \in [FreeForm -> Token] /\ g \in [FreeForm -> Token]
      BY <2>2 DEF f, g
    <3>2. \A k \in FreeForm : f[k] = g[k]
      BY <2>3 DEF f, g
    <3>3. f = g
      BY <3>1, <3>2
    <3> QED
      BY <3>3 DEF f, g
  <2> QED
    BY <1>6, <1>9, <1>10, <1>11, <2>1, <2>4, Zenon
<1> QED
  BY <1>6, <1>7, <1>9, <1>10, <1>11, Zenon

\* An accepted text is clean, and its values are tokens with a word.
LEMMA AcceptedIsClean ==
  ASSUME NEW s \in Seq(Token), NssOk(s)
  PROVE  /\ s \in Seq(CleanToken) /\ Len(s) # 1
         /\ TrimEnd(s) = s /\ StripRqf(s) = s
         /\ \A k \in DOMAIN Components(s) :
              /\ k \in Keys /\ NssBytes(Components(s)[k])
              /\ Components(s)[k].word # ""
<1>1. Len(s) \in Nat /\ DOMAIN s = 1 .. Len(s) /\ s \in [1 .. Len(s) -> Token]
  BY LenProperties, Zenon
<1>2. \A i \in 1 .. Len(s) : s[i] \in CleanToken /\ s[i].word # ""
  BY <1>1 DEF NssOk, CleanToken
<1>3. s \in Seq(CleanToken)
  <2>1. s \in [1 .. Len(s) -> CleanToken]
    BY <1>1, <1>2, Zenon
  <2>2. \A n \in Nat : \A f \in [1 .. n -> CleanToken] : f \in Seq(CleanToken)
    OBVIOUS
  <2> QED
    BY <1>1, <2>1, <2>2, Zenon
<1>4. Len(s) # 1
  <2>1. Len(s) % 2 = 0
    BY Zenon DEF NssOk
  <2>2. 1 % 2 # 0
    OBVIOUS
  <2> QED
    BY <2>1, <2>2, Zenon
<1>5. ASSUME NEW k \in DOMAIN Components(s)
      PROVE  /\ k \in Keys /\ NssBytes(Components(s)[k])
             /\ Components(s)[k].word # ""
  <2>1. PICK i \in Pairs(s) : Known(KeyAt(s, i)) /\ KeyAt(s, i).word = k
    BY ComponentsDomain, Zenon
  <2>2. Components(s)[k] = ValueAt(s, i)
    BY <2>1, ComponentAt, Zenon
  <2>3. k \in Keys
    BY <2>1, Zenon DEF Known, IsName
  <2>4. 2 * i \in 1 .. Len(s)
    BY <1>1, <2>1 DEF Pairs
  <2>5. s[2 * i] \in CleanToken /\ s[2 * i].word # ""
    BY <1>2, <2>4
  <2> QED
    BY <2>2, <2>3, <2>5 DEF ValueAt, CleanToken
<1> QED
  BY <1>3, <1>4, <1>5, CleanTextKept

\* parse_nss and parse_urn read the same NSS alike: an accepted one has nothing
\* that only parse_urn would cut off.
LEMMA NssReadAsUrn ==
  ASSUME NEW parts \in Seq(ProperToken), ParseNss(parts).code = "ok"
  PROVE  ParseUrn(Urn(TRUE, parts)) = ParseNss(parts)
<1> DEFINE s == TrimEnd(parts)
<1>1. s \in Seq(Token)
  <2>1. s \in Seq(ProperToken)
    BY ProperTokens, TrimEndIn, Zenon
  <2> HIDE DEF s
  <2> QED
    BY <2>1, ProperTokens
<1>2. NssOk(s)
  <2>1. Fail("invalid_nss", NoAddress).code # "ok"
    BY DEF Fail
  <2> QED
    BY <2>1, Zenon DEF ParseNss
<1>3. ParseNss(parts) = ParseComponents(Components(s))
  BY <1>2, Zenon DEF ParseNss
<1> HIDE DEF s
<1>4. StripRqf(s) = s /\ TrimEnd(s) = s
  BY <1>1, <1>2, AcceptedIsClean
<1>5. ParseNss(s) = ParseComponents(Components(s))
  BY <1>2, <1>4, Zenon DEF ParseNss
<1>6. ParseUrn(Urn(TRUE, parts)) = ParseNss(StripRqf(s))
  <2>1. Urn(TRUE, parts).mhda = TRUE /\ Urn(TRUE, parts).parts = parts
    BY DEF Urn
  <2> QED
    BY <2>1, Zenon DEF ParseUrn, s
<1> QED
  BY <1>3, <1>4, <1>5, <1>6, Zenon

-----------------------------------------------------------------------------
(* What was read is written again *)

\* A component that is missing reads as nothing, and nothing as nothing.
LEMMA NothingRead ==
  /\ Nothing \in Token /\ Nothing.word = "" /\ Trim(Nothing) = Nothing
  /\ Normalize(Nothing) = Nothing /\ IsEmpty(Nothing)
  /\ PathOf(Nothing) = EmptyText
<1>1. Nothing = Plain("") /\ "" \in Words
  BY WordsAssumption DEF Nothing
<1>2. /\ Plain("") \in Token /\ Normalize(Plain("")) = Plain("")
      /\ IsEmpty(Plain("")) /\ Plain("").space = FALSE /\ Plain("").word = ""
  BY <1>1, NameToken, PlainFacts
<1>3. Trim(Plain("")) = Plain("")
  BY <1>2, CleanIsTrimmed
<1>4. PathOf(Nothing) = EmptyText
  BY <1>1, <1>2, Zenon DEF PathOf
<1> QED
  BY <1>1, <1>2, <1>3, <1>4, Zenon

\* A chain has a coin exactly when its text did, and its text had both keys.
LEMMA BuiltFromKeys ==
  ASSUME NEW m, Get(m, "ci") \in Token, BuildChain(m).code = "ok"
  PROVE  /\ "nt" \in DOMAIN m /\ "ci" \in DOMAIN m
         /\ BuildChain(m).chain.coin = <<>> <=> "ct" \notin DOMAIN m
<1> DEFINE nt    == Normalize(Get(m, "nt"))
           ci    == Trim(Get(m, "ci"))
           ct    == Trim(Get(m, "ct"))
           built == NewChain(nt, ci)
           b     == BuildChain(m)
<1>1. ci \in Token
  BY TrimTyped
<1>2. \A code, d : Failed(code, d).code = code
  BY DEF Failed
<1>3. "missing_network_type" # "ok" /\ "invalid_coin_type" # "ok"
  OBVIOUS
<1>4. ~ IsEmpty(nt) /\ built.code = "ok"
  BY <1>2, <1>3, Zenon DEF BuildChain
<1>5. ~ IsEmpty(ci) /\ built.chain.coin = <<>>
  BY <1>1, <1>4, NewChainOk, Zenon
<1>6. "nt" \in DOMAIN m
  BY <1>4, NothingRead, Zenon DEF Get
<1>7. "ci" \in DOMAIN m
  BY <1>5, NothingRead, Zenon DEF Get
<1>8. CASE "ct" \notin DOMAIN m
  <2>1. b = built
    BY <1>4, <1>8, Zenon DEF BuildChain
  <2> HIDE DEF b, built
  <2> QED
    BY <1>5, <1>6, <1>7, <1>8, <2>1, Zenon DEF b
<1>9. CASE "ct" \in DOMAIN m
  <2>1. b = Done(SetCoin(built.chain, ct.num))
    BY <1>2, <1>3, <1>4, <1>9, Zenon DEF BuildChain
  <2>2. built \in Result
    BY <1>1, NewChainResult, Zenon
  <2>3. ASSUME NEW c \in Chain, NEW n
        PROVE  Done(SetCoin(c, n)).chain.coin # <<>>
    <3>1. [c EXCEPT !.coin = <<n>>].coin = <<n>> /\ <<n>> # <<>>
      BY DEF Chain
    <3> QED
      BY <3>1 DEF Done, SetCoin
  <2>4. built.chain \in Chain
    <3> HIDE DEF built
    <3> QED
      BY <2>2 DEF Result
  <2>5. b.chain.coin # <<>>
    BY <2>1, <2>3, <2>4, Zenon
  <2> QED
    BY <1>6, <1>7, <1>9, <2>5, Zenon
<1> QED
  BY <1>8, <1>9

\* Only a missing path is read as the empty one.
LEMMA PathRead ==
  ASSUME NEW t \in ProperToken, t.word # "", NssBytes(t)
  PROVE  PathOf(Trim(t)) # EmptyText
<1>1. t \in Token /\ (t.word = "path" => t.path # EmptyText)
  BY DEF ProperToken
<1>2. Trim(t) = t /\ t.byte = "none"
  BY <1>1, CleanIsTrimmed DEF NssBytes
<1>3. t # Nothing
  BY NothingRead, Zenon
<1>4. [EmptyText EXCEPT !.head = "other"] # EmptyText
  <2>1. [EmptyText EXCEPT !.head = "other"].head = "other"
        /\ EmptyText.head # "other"
    BY DEF EmptyText
  <2> QED
    BY <2>1, Zenon
<1> QED
  BY <1>1, <1>2, <1>3, <1>4, Zenon DEF PathOf

\* A type other than root has a path that was given; root has none.
LEMMA DerivationGiven ==
  ASSUME NEW dt \in Token, NEW dp \in Token, DerivationAccepted(dt, dp),
         NEW a, Intact(a), a.path = <<DerivationRead(dt, dp)>>
  PROVE  /\ HasDerivation(a) <=> TypeNamed(dt) # "root"
         /\ HasDerivation(a) =>
              /\ dt # Nothing /\ PathOf(Trim(dp)) # EmptyText
              /\ Written(a)["dt"] # Nothing /\ Written(a)["dp"] # Nothing
         /\ ~ HasDerivation(a) =>
              /\ PathOf(Trim(dp)) = EmptyText
              /\ Written(a)["dt"] = Nothing /\ Written(a)["dp"] = Nothing
<1> DEFINE p == DerivationRead(dt, dp)
           t == TypeNamed(dt)
<1>1. /\ p \in Path /\ Sound(p) /\ p.type = t /\ t \in DerivationTypes
      /\ t # "root" => p.levels # <<>>
  BY DerivationReadFacts, Zenon
<1>2. t = "root" => PathOf(Trim(dp)) = EmptyText
  BY Zenon DEF DerivationAccepted
<1>3. t # "root" => dt # Nothing
  BY NothingRead, Zenon DEF TypeNamed
<1>4. t # "root" => PathOf(Trim(dp)) # EmptyText
  <2>1. LowerText(EmptyText) = EmptyText
    BY DEF LowerText, EmptyText
  <2>2. EmptyText.head # "m"
    BY DEF EmptyText
  <2>3. t # "root" => ~ Accepts(t, LowerText(EmptyText))
    BY <2>1, <2>2, Zenon DEF Accepts, ParseLevelsOk
  <2> QED
    BY <2>3, Zenon DEF DerivationAccepted
<1> HIDE DEF p
<1>5. a.path # <<>> /\ a.path[1] = p
  <2>1. a.path = <<p>>
    BY Zenon DEF p
  <2> QED
    BY <1>1, <2>1, OnePath, Zenon
<1>6. HasDerivation(a) <=> t # "root"
  <2>1. NoType \notin DerivationTypes
    BY DEF NoType, DerivationTypes, Bip44Family
  <2> QED
    BY <1>1, <1>5, <2>1, Zenon DEF HasDerivation, IsRoot
<1>7. HasDerivation(a) => Written(a)["dt"] # Nothing
  <2> SUFFICES ASSUME HasDerivation(a) PROVE Written(a)["dt"] # Nothing
    OBVIOUS
  <2>1. Written(a)["dt"] = Plain(t)
    BY <1>1, <1>5, WrittenAt, Zenon
  <2>2. t \in Words /\ t # ""
    <3>1. "" \notin DerivationTypes
      BY DEF DerivationTypes, Bip44Family
    <3> QED
      BY <1>1, <3>1, WordsAssumption
  <2> HIDE DEF t
  <2> QED
    BY <2>1, <2>2, NameToken, Zenon
<1>8. HasDerivation(a) => Written(a)["dp"] # Nothing
  <2> SUFFICES ASSUME HasDerivation(a) PROVE Written(a)["dp"] # Nothing
    OBVIOUS
  <2>1. Written(a)["dp"] = PathToken(Str(p))
    BY <1>5, WrittenAt, Zenon
  <2>2. Str(p) \in Text /\ Str(p).head = "m"
    BY <1>1, <1>6, SoundFacts
  <2>3. EmptyText.head # "m"
    BY DEF EmptyText
  <2>4. Str(p) # EmptyText
    BY <2>2, <2>3, Zenon
  <2> QED
    BY <2>1, <2>2, <2>4, PathTokenTyped, Zenon
<1>9. ~ HasDerivation(a) => Written(a)["dt"] = Nothing /\ Written(a)["dp"] = Nothing
  BY WrittenAt, Zenon
<1> QED
  BY <1>2, <1>3, <1>4, <1>6, <1>7, <1>8, <1>9, Zenon

\* A name that was read is one that was given.
LEMMA NameRead ==
  ASSUME NEW t \in Token
  PROVE  NameOf(t) = t.word
<1>1. Trim(t) \in Token /\ Trim(t).word = t.word
  <2>1. Trim(t).word = t.word
    BY DEF Trim, Token
  <2> QED
    BY <2>1, TrimTyped
<1>2. Lower(Trim(t)).word = Trim(t).word
  BY <1>1, LowerTyped, Zenon
<1> QED
  BY <1>1, <1>2, Zenon DEF NameOf, Normalize

\* The keys of an accepted text are those that the URN of the result has, but
\* for a dt that says root.
LEMMA ReadIsWritten ==
  ASSUME NEW s \in Seq(ProperToken), NssOk(s), NEW m, m = Components(s),
         NEW r, r = ParseComponents(m), r.code = "ok", NEW a, a = r.addr
  PROVE  /\ Intact(a) /\ Whole(a.chain)
         /\ \A k \in Keys \ {"dt"} : k \in DOMAIN m <=> Written(a)[k] # Nothing
         /\ HasDerivation(a) => "dt" \in DOMAIN m /\ Written(a)["dt"] # Nothing
         /\ ~ HasDerivation(a) => Written(a)["dt"] = Nothing
<1>1. s \in Seq(Token)
  BY ProperTokens
<1>2. BuildChain(m) \in Result
  BY <1>1, BuildChainResult
<1>3. \A k : Get(m, k) \in ProperToken
  BY ProperTokens, ComponentsIn, Zenon
<1>4. \A k : Get(m, k) \in Settable /\ Get(m, k) \in Token
  BY <1>3, SettableTokens, ProperTokens
<1>5. \A k \in DOMAIN m : Get(m, k).word # "" /\ NssBytes(Get(m, k))
  <2>1. \A k \in DOMAIN m : m[k].word # "" /\ NssBytes(m[k])
    BY <1>1, AcceptedIsClean, Zenon
  <2> QED
    BY <2>1, Zenon DEF Get
<1>6. \A k : k \notin DOMAIN m => Get(m, k) = Nothing
  BY Zenon DEF Get
<1>7. /\ r \in AddressResult
      /\ BuildChain(m).code = "ok"
      /\ DerivationAccepted(Get(m, "dt"), Get(m, "dp"))
      /\ a.chain = BuildChain(m).chain
      /\ a.path = <<DerivationRead(Get(m, "dt"), Get(m, "dp"))>>
      /\ a.algorithm = NameOf(Get(m, "aa"))
      /\ a.format = NameOf(Get(m, "af"))
      /\ \A k \in FreeForm : a.free[k] = Trim(Get(m, k))
  <2>1. \A k : Get(m, k) \in Settable
    BY <1>4
  <2> QED
    BY <1>2, <2>1, ParseComponentsResult
<1>8. Intact(a)
  BY <1>7, ResultFields, Zenon
<1>9. Whole(a.chain)
  BY <1>4, <1>7, BuiltIsWhole, Zenon
<1>10. /\ "nt" \in DOMAIN m /\ "ci" \in DOMAIN m
       /\ a.chain.coin = <<>> <=> "ct" \notin DOMAIN m
  BY <1>4, <1>7, BuiltFromKeys, Zenon
<1>11. Written(a)["nt"] # Nothing /\ Written(a)["ci"] # Nothing
  <2>1. a.chain.network # "" /\ a.chain.id # Nothing
    BY <1>9, Zenon DEF Whole
  <2>2. a.chain.network \in Words
    BY <1>8, NetworksAreWords, WordsAssumption DEF Intact, Clean, Chain
  <2>3. Plain(a.chain.network) # Nothing
    BY <2>1, <2>2, NameToken, Zenon
  <2> QED
    BY <2>1, <2>3, WrittenAt, Zenon
<1>12. Written(a)["ct"] # Nothing <=> a.chain.coin # <<>>
  <2>1. ASSUME a.chain.coin # <<>>
        PROVE  Number(a.chain.coin[1]) # Nothing
    <3>1. a.chain.coin \in Seq(Uint32) /\ Len(a.chain.coin) <= 1
      BY <1>8 DEF Intact, Clean, Chain
    <3>2. a.chain.coin[1] \in Uint32
      BY <2>1, <3>1, OneElement
    <3>3. a.chain.coin[1] \in Nat
      BY <3>2 DEF Uint32
    <3> QED
      BY <3>3, NumberTyped
  <2> QED
    BY <2>1, WrittenAt, Zenon
<1>13. /\ HasDerivation(a) <=> TypeNamed(Get(m, "dt")) # "root"
       /\ HasDerivation(a) =>
            /\ Get(m, "dt") # Nothing /\ PathOf(Trim(Get(m, "dp"))) # EmptyText
            /\ Written(a)["dt"] # Nothing /\ Written(a)["dp"] # Nothing
       /\ ~ HasDerivation(a) =>
            /\ PathOf(Trim(Get(m, "dp"))) = EmptyText
            /\ Written(a)["dt"] = Nothing /\ Written(a)["dp"] = Nothing
  <2> DEFINE dt == Get(m, "dt")
             dp == Get(m, "dp")
  <2>1. dt \in Token /\ dp \in Token
    BY <1>4
  <2>2. DerivationAccepted(dt, dp) /\ a.path = <<DerivationRead(dt, dp)>>
    BY <1>7
  <2> HIDE DEF dt, dp
  <2>3. /\ HasDerivation(a) <=> TypeNamed(dt) # "root"
        /\ HasDerivation(a) =>
             /\ dt # Nothing /\ PathOf(Trim(dp)) # EmptyText
             /\ Written(a)["dt"] # Nothing /\ Written(a)["dp"] # Nothing
        /\ ~ HasDerivation(a) =>
             /\ PathOf(Trim(dp)) = EmptyText
             /\ Written(a)["dt"] = Nothing /\ Written(a)["dp"] = Nothing
    BY <1>8, <2>1, <2>2, DerivationGiven
  <2> QED
    BY <2>3 DEF dt, dp
<1>14. "dp" \in DOMAIN m <=> HasDerivation(a)
  <2>1. CASE "dp" \in DOMAIN m
    <3>1. PathOf(Trim(Get(m, "dp"))) # EmptyText
      BY <1>3, <1>5, <2>1, PathRead, Zenon
    <3> QED
      BY <1>13, <2>1, <3>1, Zenon
  <2>2. CASE "dp" \notin DOMAIN m
    <3>1. PathOf(Trim(Get(m, "dp"))) = EmptyText
      BY <1>6, <2>2, NothingRead, Zenon
    <3> QED
      BY <1>13, <2>2, <3>1, Zenon
  <2> QED
    BY <2>1, <2>2
<1>15. HasDerivation(a) => "dt" \in DOMAIN m
  BY <1>6, <1>13, Zenon
<1>16. ASSUME NEW k
       PROVE  /\ k \in DOMAIN m <=> Get(m, k).word # ""
              /\ Plain(Get(m, k).word) # Nothing <=> Get(m, k).word # ""
  <2>1. k \in DOMAIN m <=> Get(m, k).word # ""
    BY <1>5, <1>6, NothingRead, Zenon
  <2>2. Get(m, k).word \in Words
    BY <1>4 DEF Token
  <2> QED
    BY <2>1, <2>2, NameToken, Zenon
<1>17. /\ "aa" \in DOMAIN m <=> Written(a)["aa"] # Nothing
       /\ "af" \in DOMAIN m <=> Written(a)["af"] # Nothing
  <2>1. /\ a.algorithm = Get(m, "aa").word
        /\ a.format = Get(m, "af").word
    BY <1>4, <1>7, NameRead, Zenon
  <2>2. /\ Written(a)["aa"] = Plain(a.algorithm)
        /\ Written(a)["af"] = Plain(a.format)
    BY WrittenAt, Zenon
  <2>3. "aa" \in DOMAIN m <=> Written(a)["aa"] # Nothing
    BY <1>16, <2>1, <2>2, Zenon
  <2>4. "af" \in DOMAIN m <=> Written(a)["af"] # Nothing
    BY <1>16, <2>1, <2>2, Zenon
  <2> QED
    BY <2>3, <2>4
<1>18. \A k \in FreeForm : k \in DOMAIN m <=> Written(a)[k] # Nothing
  <2> SUFFICES ASSUME NEW k \in FreeForm
               PROVE  k \in DOMAIN m <=> Written(a)[k] # Nothing
    OBVIOUS
  <2>1. Written(a)[k] = Trim(Get(m, k))
    BY <1>7, WrittenAt, Zenon
  <2>2. Trim(Get(m, k)).word = Get(m, k).word
    BY <1>4 DEF Trim, Token
  <2>3. k \in DOMAIN m => Written(a)[k] # Nothing
    BY <1>16, <2>1, <2>2, NothingRead, Zenon
  <2>4. k \notin DOMAIN m => Written(a)[k] = Nothing
    BY <1>6, <2>1, NothingRead, Zenon
  <2> QED
    BY <2>3, <2>4
<1>19. \A k \in Keys \ {"dt"} : k \in DOMAIN m <=> Written(a)[k] # Nothing
  <2>1. Keys \ {"dt"} = {"nt", "ci", "ct", "dp", "aa", "af"} \cup FreeForm
    BY DEF Keys, FreeForm
  <2>2. ASSUME NEW k \in {"nt", "ci", "ct", "dp", "aa", "af"}
        PROVE  k \in DOMAIN m <=> Written(a)[k] # Nothing
    BY <1>10, <1>11, <1>12, <1>13, <1>14, <1>17, <2>2, Zenon
  <2> QED
    BY <1>18, <2>1, <2>2, Zenon
<1> QED
  BY <1>8, <1>9, <1>13, <1>15, <1>19, Zenon

=============================================================================
