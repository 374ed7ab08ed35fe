---------------------------- MODULE ChainProofs ----------------------------
(***************************************************************************)
(* Theorems about the chain object, for every set of words, arguments and  *)
(* texts: its values stay clean, its key reads back, a failure changes     *)
(* nothing, and an accepted key is the canonical one.                      *)
(***************************************************************************)
EXTENDS Chain, ValueLemmas

-----------------------------------------------------------------------------
(* The object *)

\* A step of the object: what it installs is a clean chain, and the old one when
\* the call fails.
LEMMA StepIsClean ==
  ASSUME TypeOK, Next
  PROVE  /\ chain' \in Chain /\ Clean(chain')
         /\ read' \in Seq(Token)
         /\ outcome' \in Codes
         /\ outcome' # "ok" => chain' = chain
<1>1. chain \in Chain /\ Clean(chain)
  BY DEF TypeOK, Clean
<1>2. ASSUME NEW text \in Seq(Token), NEW result \in Result,
             result.code # "ok" => result.chain = chain,
             NEW name, Finish(name, text, result)
      PROVE  /\ chain' \in Chain /\ Clean(chain')
             /\ read' \in Seq(Token)
             /\ outcome' \in Codes
             /\ outcome' # "ok" => chain' = chain
  <2>1. result.chain \in Chain /\ Clean(result.chain) /\ result.code \in Codes
    BY DEF Result, ResultCodes, Codes
  <2>2. chain' = result.chain /\ read' = text /\ outcome' = result.code
    BY <1>2 DEF Finish
  <2> QED
    BY <1>2, <2>1, <2>2, Zenon
<1>3. ASSUME NEW built \in Result
      PROVE  LET kept == [built EXCEPT !.chain = IF built.code = "ok"
                                                   THEN @ ELSE chain]
             IN kept \in Result /\ (kept.code # "ok" => kept.chain = chain)
  <2> DEFINE kept == [built EXCEPT !.chain = IF built.code = "ok"
                                               THEN built.chain ELSE chain]
  <2>1. built.chain \in Chain /\ Clean(built.chain)
    BY DEF Result
  <2>2. CASE built.code = "ok"
    BY <2>2 DEF Result
  <2>3. CASE built.code # "ok"
    <3>1. chain \in {c \in Chain : Clean(c)}
      BY <1>1, Zenon
    <3>2. kept = [built EXCEPT !.chain = chain]
      BY <2>3, Zenon
    <3> QED
      BY <3>1, <3>2 DEF Result
  <2> QED
    BY <2>2, <2>3
<1>4. <<>> \in Seq(Token)
  OBVIOUS
<1>5. /\ NetworkArgs \subseteq Token /\ IdArgs \subseteq Token
      /\ CoinArgs \subseteq Uint32 /\ KeyTexts \subseteq Seq(Token)
  BY ChainArgsAssumption, KeyTextsAssumption
<1>6. CASE \E nt \in NetworkArgs : SetNetworkOf(nt)
  <2>1. PICK nt \in NetworkArgs : SetNetworkOf(nt)
    BY <1>6
  <2> QED
    BY <1>1, <1>2, <1>4, <2>1, SetNetworkResult, Zenon DEF SetNetworkOf
<1>7. CASE \E nt \in NetworkArgs, ci \in IdArgs : Construct(nt, ci)
  <2>1. PICK nt \in NetworkArgs, ci \in IdArgs : Construct(nt, ci)
    BY <1>7
  <2>2. NewChain(nt, ci) \in Result
    BY <1>5, NewChainResult, Zenon
  <2> QED
    BY <1>2, <1>3, <1>4, <2>1, <2>2, Zenon DEF Construct
<1>8. CASE \E ci \in IdArgs : SetChainIdOf(ci)
  <2>1. PICK ci \in IdArgs : SetChainIdOf(ci)
    BY <1>8
  <2> QED
    BY <1>1, <1>2, <1>4, <1>5, <2>1, SetChainIdResult, Zenon DEF SetChainIdOf
<1>9. CASE ClearCoinOf \/ \E n \in CoinArgs : SetCoinOf(n)
  <2>1. Done(ClearCoin(chain)) \in Result
        /\ \A n \in CoinArgs : Done(SetCoin(chain, n)) \in Result
    BY <1>1, <1>5, CoinSettersResult, Zenon
  <2>2. \A c : Done(c).code = "ok"
    BY DEF Done
  <2> QED
    BY <1>2, <1>4, <1>9, <2>1, <2>2, Zenon DEF ClearCoinOf, SetCoinOf
<1>10. CASE \E text \in KeyTexts : ReadNss(text) \/ ReadKey(text)
  <2>1. PICK text \in KeyTexts : ReadNss(text) \/ ReadKey(text)
    BY <1>10
  <2>2. /\ text \in Seq(Token)
        /\ FromNss(text) \in Result /\ FromKey(text) \in Result
    BY <1>5, ParsersResult, Zenon
  <2>3. CASE ReadNss(text)
    BY <1>2, <1>3, <2>2, <2>3, Zenon DEF ReadNss
  <2>4. CASE ReadKey(text)
    BY <1>2, <1>3, <2>2, <2>4, Zenon DEF ReadKey
  <2> QED
    BY <2>1, <2>3, <2>4
<1> QED
  BY <1>6, <1>7, <1>8, <1>9, <1>10 DEF Next

-----------------------------------------------------------------------------
(* Theorems *)

\* The default chain has the types.
LEMMA TypeInductive == Init => TypeOK
<1> SUFFICES ASSUME Init PROVE TypeOK
  OBVIOUS
<1>1. chain \in Chain /\ Clean(chain)
  BY NoChainClean, Zenon DEF Init
<1>2. read \in Seq(Token) /\ outcome \in Codes
  BY DEF Init, Codes
<1> QED
  BY <1>1, <1>2, Zenon DEF TypeOK, Clean

\* Whatever is called, the chain stays typed and its id clean.
THEOREM ChainTypeCorrect == Spec => []TypeOK
<1>1. TypeOK /\ [Next]_vars => TypeOK'
  <2> SUFFICES ASSUME TypeOK, [Next]_vars PROVE TypeOK'
    OBVIOUS
  <2>1. CASE Next
    BY <2>1, StepIsClean, Zenon DEF TypeOK, Clean
  <2>2. CASE UNCHANGED vars
    BY <2>2, Zenon DEF vars, TypeOK
  <2> QED
    BY <2>1, <2>2
<1> QED
  BY <1>1, TypeInductive, PTL DEF Spec

\* The key of a chain with both halves of its identity reads back, whatever
\* calls built the chain (chain::key, chain::from_key).
THEOREM KeysReadBack == Spec => []KeyReadsBack
<1>1. TypeOK => KeyReadsBack
  BY FromKeyOfKey, Zenon DEF TypeOK, Clean, KeyReadsBack
<1> QED
  BY <1>1, ChainTypeCorrect, PTL

\* A setter or a parser that throws leaves the chain alone.
THEOREM FailuresKeepChain == Spec => FailureKeepsChain
<1>1. TypeOK /\ [Next]_vars => [outcome' # "ok" => chain' = chain]_vars
  BY StepIsClean, Zenon
<1> QED
  BY <1>1, ChainTypeCorrect, PTL DEF Spec, FailureKeepsChain

\* What from_key accepts is the key of the chain it returns: no two texts stand
\* for one chain.
THEOREM KeysAreCanonical == Spec => []OneKeyPerChain
<1>1. Init => OneKeyPerChain
  BY DEF Init, OneKeyPerChain
<1>2. OneKeyPerChain /\ [Next]_vars => OneKeyPerChain'
  <2> SUFFICES ASSUME OneKeyPerChain, [Next]_vars,
                      op' = "from_key", outcome' = "ok"
               PROVE  TrimEnd(read') = ChainKey(chain')
    BY Zenon DEF OneKeyPerChain
  <2>1. CASE UNCHANGED vars
    BY <2>1, Zenon DEF vars, OneKeyPerChain
  <2>2. CASE \E text \in KeyTexts : ReadKey(text)
    <3>1. PICK text \in KeyTexts : ReadKey(text)
      BY <2>2
    <3> DEFINE built == FromKey(text)
               kept  == [built EXCEPT !.chain = IF built.code = "ok"
                                                  THEN @ ELSE chain]
    <3>2. text \in Seq(Token) /\ built \in Result
      BY KeyTextsAssumption, ParsersResult, Zenon
    <3>3. /\ kept.code = built.code
          /\ built.code = "ok" => kept.chain = built.chain
      <4> HIDE DEF built
      <4> QED
        BY <3>2 DEF Result
    <3>4. /\ read' = text /\ outcome' = kept.code /\ chain' = kept.chain
      BY <3>1, Zenon DEF ReadKey, Finish
    <3>5. built.code = "ok" /\ chain' = built.chain
      BY <3>3, <3>4
    <3>6. ChainKey(built.chain) = TrimEnd(text)
      BY <3>5, AcceptedIsKey, Zenon
    <3> QED
      BY <3>4, <3>5, <3>6, Zenon
  <2>3. CASE Next /\ ~ \E text \in KeyTexts : ReadKey(text)
    <3>1. op' # "from_key"
      BY <2>3 DEF Next, SetNetworkOf, Construct, SetChainIdOf, SetCoinOf,
                  ClearCoinOf, ReadNss, Finish
    <3> QED
      BY <3>1
  <2> QED
    BY <2>1, <2>2, <2>3
<1> QED
  BY <1>1, <1>2, PTL DEF Spec

-----------------------------------------------------------------------------
(* What from_nss accepted *)

\* The chain is what from_nss made of the text it read last.
SameAsNss ==
  (op = "from_nss" /\ outcome = "ok") => FromNss(read) = Done(chain)

ReadInv == TypeOK /\ SameAsNss

\* What from_nss accepted is kept with the chain it gave, at every step.
LEMMA ReadInductive == Spec => []ReadInv
<1>1. Init => SameAsNss
  BY DEF Init, SameAsNss
<1>2. TypeOK /\ SameAsNss /\ [Next]_vars => SameAsNss'
  <2> SUFFICES ASSUME SameAsNss, [Next]_vars,
                      op' = "from_nss", outcome' = "ok"
               PROVE  FromNss(read') = Done(chain')
    BY Zenon DEF SameAsNss
  <2>1. CASE UNCHANGED vars
    BY <2>1, Zenon DEF vars, SameAsNss
  <2>2. CASE \E text \in KeyTexts : ReadNss(text)
    <3>1. PICK text \in KeyTexts : ReadNss(text)
      BY <2>2
    <3> DEFINE built == FromNss(text)
               kept  == [built EXCEPT !.chain = IF built.code = "ok"
                                                  THEN @ ELSE chain]
    <3>2. text \in Seq(Token) /\ built \in Result
      BY KeyTextsAssumption, ParsersResult, Zenon
    <3>3. /\ kept.code = built.code
          /\ built.code = "ok" => kept.chain = built.chain
          /\ built = [code |-> built.code, chain |-> built.chain]
      <4> HIDE DEF built
      <4> QED
        BY <3>2 DEF Result
    <3>4. /\ read' = text /\ outcome' = kept.code /\ chain' = kept.chain
      BY <3>1, Zenon DEF ReadNss, Finish
    <3>5. built.code = "ok" /\ chain' = built.chain
      BY <3>3, <3>4
    <3> QED
      BY <3>3, <3>4, <3>5, Zenon DEF Done
  <2>3. CASE Next /\ ~ \E text \in KeyTexts : ReadNss(text)
    <3>1. op' # "from_nss"
      BY <2>3 DEF Next, SetNetworkOf, Construct, SetChainIdOf, SetCoinOf,
                  ClearCoinOf, ReadKey, Finish
    <3> QED
      BY <3>1
  <2> QED
    BY <2>1, <2>2, <2>3
<1> QED
  BY <1>1, <1>2, ChainTypeCorrect, PTL DEF Spec, ReadInv

\* An accepted text of more than one token has no whitespace left to trim.
LEMMA AcceptedIsTrimmed ==
  ASSUME NEW u \in Seq(Token), NssOk(u)
  PROVE  TrimEnd(u) = u
<1>1. \A i \in DOMAIN u : u[i] \in Token /\ ~ u[i].space
  <2>1. \A i \in DOMAIN u : u[i] \in Token
    OBVIOUS
  <2> QED
    BY <2>1, Zenon DEF NssOk, NssBytes
<1>2. Len(u) # 1
  <2>1. 1 % 2 # 0
    OBVIOUS
  <2> QED
    BY <2>1, Zenon DEF NssOk
<1>3. \A i \in DOMAIN u : Trim(u[i]) = u[i]
  BY <1>1, CleanIsTrimmed, Zenon
<1>4. u = [i \in DOMAIN u |-> u[i]]
  OBVIOUS
<1> DEFINE v == [i \in DOMAIN u |-> IF i = Len(u) THEN Trim(u[i]) ELSE u[i]]
<1>5. TrimEnd(u) = v
  BY <1>2, Zenon DEF TrimEnd
<1>6. \A i \in DOMAIN u : v[i] = u[i]
  BY <1>3
<1>7. v = u
  BY <1>4, <1>6
<1> QED
  BY <1>5, <1>7

\* What from_nss accepted passed the parser.
LEMMA ReadIsAccepted ==
  ASSUME ReadInv, op = "from_nss", outcome = "ok"
  PROVE  NssOk(TrimEnd(read))
<1>1. FromNss(read) = Done(chain)
  BY Zenon DEF ReadInv, SameAsNss
<1>2. Done(chain).code = "ok" /\ Failed("invalid_nss", NoChain).code # "ok"
  BY DEF Done, Failed
<1> QED
  BY <1>1, <1>2, Zenon DEF FromNss

\* An accepted text with the same known pairs names the same chain.
LEMMA SameChain ==
  ASSUME ReadInv, op = "from_nss", outcome = "ok",
         NEW s, s = TrimEnd(read), NEW u \in Seq(Token), NssOk(u),
         \A i \in Pairs(s) : Known(KeyAt(s, i)) =>
           \E j \in Pairs(u) : /\ KeyAt(u, j) = KeyAt(s, i)
                               /\ ValueAt(u, j) = ValueAt(s, i),
         \A i \in Pairs(u) : Known(KeyAt(u, i)) =>
           \E j \in Pairs(s) : /\ KeyAt(s, j) = KeyAt(u, i)
                               /\ ValueAt(s, j) = ValueAt(u, i)
  PROVE  FromNss(u) = Done(chain)
<1>1. FromNss(read) = Done(chain)
  BY Zenon DEF ReadInv, SameAsNss
<1>2. NssOk(s)
  BY ReadIsAccepted
<1>3. TrimEnd(u) = u
  BY AcceptedIsTrimmed
<1>4. Components(u) = Components(s)
  BY <1>2, SamePairs
<1> QED
  BY <1>1, <1>2, <1>3, <1>4, Zenon DEF FromNss

\* The text read is a sequence of tokens once it is trimmed.
LEMMA ReadTyped ==
  ASSUME ReadInv
  PROVE  TrimEnd(read) \in Seq(Token)
BY TrimEndTyped DEF ReadInv, TypeOK

\* The places of a pair in a text, its key on an odd one.
LEMMA PairPlaces ==
  ASSUME NEW s \in Seq(Token), Len(s) % 2 = 0, NEW i \in Pairs(s)
  PROVE  /\ i \in Nat
         /\ 2 * i - 1 \in DOMAIN s /\ (2 * i - 1) % 2 = 1
         /\ 2 * i \in DOMAIN s /\ (2 * i) % 2 = 0
<1>1. PICK h \in Nat : Len(s) = 2 * h /\ Len(s) \div 2 = h
  BY Halves
<1>2. i \in 1 .. h /\ DOMAIN s = 1 .. 2 * h
  BY <1>1 DEF Pairs
<1> QED
  BY <1>2

-----------------------------------------------------------------------------
(* Reading it again, reversed or with the case of its keys folded *)

\* The i-th pair of the reversed text is the i-th from the end.
Mirror(s, i) == Len(s) \div 2 + 1 - i

\* A text with its pairs reversed has the pairs of the text, mirrored.
LEMMA ReversedPairs ==
  ASSUME NEW s \in Seq(Token), Len(s) % 2 = 0, NEW u, u = Reversed(s)
  PROVE  /\ u \in Seq(Token) /\ Len(u) = Len(s)
         /\ \A i \in DOMAIN u : \E j \in DOMAIN s : u[i] = s[j]
         /\ \A i \in Pairs(s) :
              /\ Mirror(s, i) \in Pairs(s) /\ Mirror(s, Mirror(s, i)) = i
              /\ KeyAt(u, i) = KeyAt(s, Mirror(s, i))
              /\ ValueAt(u, i) = ValueAt(s, Mirror(s, i))
<1>1. PICK h \in Nat : Len(s) = 2 * h /\ Len(s) \div 2 = h
  BY Halves
<1>2. DOMAIN s = 1 .. 2 * h /\ DOMAIN u = 1 .. 2 * h
  BY <1>1 DEF Reversed
<1> DEFINE at(i) == IF i % 2 = 1 THEN 2 * h - i ELSE 2 * h + 2 - i
<1>3. \A i \in 1 .. 2 * h : at(i) \in 1 .. 2 * h /\ u[i] = s[at(i)]
  <2> SUFFICES ASSUME NEW i \in 1 .. 2 * h
               PROVE  at(i) \in 1 .. 2 * h /\ u[i] = s[at(i)]
    OBVIOUS
  <2>1. u[i] = IF i % 2 = 1 THEN s[(Len(s) + 1 - i) - 1]
                            ELSE s[(Len(s) + 1 - i) + 1]
    BY <1>2, Zenon DEF Reversed
  <2>2. (Len(s) + 1 - i) - 1 = 2 * h - i /\ (Len(s) + 1 - i) + 1 = 2 * h + 2 - i
    BY <1>1
  <2>3. at(i) \in 1 .. 2 * h
    OBVIOUS
  <2> QED
    BY <2>1, <2>2, <2>3, Zenon
<1>4. \A i \in 1 .. 2 * h : s[i] \in Token
  BY <1>2
<1>5. u \in [1 .. 2 * h -> Token]
  <2>1. u = [i \in 1 .. 2 * h |-> u[i]]
    BY <1>2, Zenon DEF Reversed
  <2> QED
    BY <1>3, <1>4, <2>1
<1>6. u \in Seq(Token) /\ Len(u) = 2 * h
  BY <1>1, <1>5
<1>7. ASSUME NEW i \in 1 .. h
      PROVE  /\ h + 1 - i \in 1 .. h /\ i = h + 1 - (h + 1 - i)
             /\ KeyAt(u, i) = KeyAt(s, h + 1 - i)
             /\ ValueAt(u, i) = ValueAt(s, h + 1 - i)
  <2>1. /\ 2 * i - 1 \in 1 .. 2 * h /\ 2 * i \in 1 .. 2 * h
        /\ at(2 * i - 1) = 2 * (h + 1 - i) - 1
        /\ at(2 * i) = 2 * (h + 1 - i)
    OBVIOUS
  <2> HIDE DEF at
  <2>2. u[2 * i - 1] = s[2 * (h + 1 - i) - 1] /\ u[2 * i] = s[2 * (h + 1 - i)]
    BY <1>3, <2>1, Zenon
  <2> QED
    BY <2>2 DEF KeyAt, ValueAt
<1>8. \A i \in DOMAIN u : \E j \in DOMAIN s : u[i] = s[j]
  <2> HIDE DEF at
  <2> QED
    BY <1>2, <1>3, Zenon
<1>9. Pairs(s) = 1 .. h /\ \A i : Mirror(s, i) = h + 1 - i
  BY <1>1 DEF Pairs, Mirror
<1>10. \A i \in Pairs(s) :
         /\ Mirror(s, i) \in Pairs(s) /\ Mirror(s, Mirror(s, i)) = i
         /\ KeyAt(u, i) = KeyAt(s, Mirror(s, i))
         /\ ValueAt(u, i) = ValueAt(s, Mirror(s, i))
  <2> SUFFICES ASSUME NEW i \in Pairs(s)
               PROVE  /\ Mirror(s, i) \in Pairs(s)
                      /\ Mirror(s, Mirror(s, i)) = i
                      /\ KeyAt(u, i) = KeyAt(s, Mirror(s, i))
                      /\ ValueAt(u, i) = ValueAt(s, Mirror(s, i))
    OBVIOUS
  <2>1. Mirror(s, i) = h + 1 - i /\ Mirror(s, Mirror(s, i)) = h + 1 - (h + 1 - i)
    BY <1>9, Zenon
  <2>2. /\ h + 1 - i \in 1 .. h /\ i = h + 1 - (h + 1 - i)
        /\ KeyAt(u, i) = KeyAt(s, h + 1 - i)
        /\ ValueAt(u, i) = ValueAt(s, h + 1 - i)
    BY <1>7, <1>9, Zenon
  <2> HIDE DEF at
  <2> QED
    BY <1>9, <2>1, <2>2, Zenon
<1> HIDE DEF at
<1> QED
  BY <1>1, <1>6, <1>8, <1>10, Zenon

\* An accepted text is accepted in any order, and says the same.
THEOREM OrderSaysNothing == Spec => []OrderIrrelevant
<1>1. ASSUME ReadInv, op = "from_nss", outcome = "ok"
      PROVE  FromNss(Reversed(TrimEnd(read))) = Done(chain)
  <2> DEFINE s == TrimEnd(read)
             u == Reversed(s)
  <2>1. s \in Seq(Token)
    BY <1>1, ReadTyped
  <2>2. ASSUME NssOk(s)
        PROVE  /\ NssOk(u)
               /\ \A i \in Pairs(s) : Known(KeyAt(s, i)) =>
                    \E j \in Pairs(u) : /\ KeyAt(u, j) = KeyAt(s, i)
                                        /\ ValueAt(u, j) = ValueAt(s, i)
               /\ \A i \in Pairs(u) : Known(KeyAt(u, i)) =>
                    \E j \in Pairs(s) : /\ KeyAt(s, j) = KeyAt(u, i)
                                        /\ ValueAt(s, j) = ValueAt(u, i)
    <3>1. Len(s) % 2 = 0
      BY <2>2, Zenon DEF NssOk
    <3>2. /\ u \in Seq(Token) /\ Len(u) = Len(s)
          /\ \A i \in DOMAIN u : \E j \in DOMAIN s : u[i] = s[j]
          /\ \A i \in Pairs(s) :
               /\ Mirror(s, i) \in Pairs(s) /\ Mirror(s, Mirror(s, i)) = i
               /\ KeyAt(u, i) = KeyAt(s, Mirror(s, i))
               /\ ValueAt(u, i) = ValueAt(s, Mirror(s, i))
      BY <2>1, <3>1, ReversedPairs, Zenon
    <3>3. Pairs(u) = Pairs(s)
      BY <3>2, Zenon DEF Pairs
    <3> HIDE DEF u, s
    <3>4. \A i \in DOMAIN u : u[i].word # "" /\ NssBytes(u[i])
      BY <2>2, <3>2, Zenon DEF NssOk
    <3>5. \A i \in Pairs(u) : KeyAt(u, i).word \in Keys => Known(KeyAt(u, i))
      BY <2>2, <3>2, <3>3, Zenon DEF NssOk
    <3>6. \A i, j \in Pairs(u) :
            (Known(KeyAt(u, i)) /\ KeyAt(u, i) = KeyAt(u, j)) => i = j
      <4> SUFFICES ASSUME NEW i \in Pairs(u), NEW j \in Pairs(u),
                          Known(KeyAt(u, i)), KeyAt(u, i) = KeyAt(u, j)
                   PROVE  i = j
        OBVIOUS
      <4>1. /\ Mirror(s, i) \in Pairs(s) /\ Mirror(s, j) \in Pairs(s)
            /\ Known(KeyAt(s, Mirror(s, i)))
            /\ KeyAt(s, Mirror(s, i)) = KeyAt(s, Mirror(s, j))
        BY <3>2, <3>3, Zenon
      <4>2. Mirror(s, i) = Mirror(s, j)
        <5>1. \A x, y \in Pairs(s) :
                (Known(KeyAt(s, x)) /\ KeyAt(s, x) = KeyAt(s, y)) => x = y
          BY <2>2, Zenon DEF NssOk
        <5> QED
          BY <4>1, <5>1, Zenon
      <4>3. /\ Mirror(s, Mirror(s, i)) = i
            /\ Mirror(s, Mirror(s, j)) = j
        BY <3>2, <3>3, Zenon
      <4>4. Mirror(s, Mirror(s, i)) = Mirror(s, Mirror(s, j))
        BY <4>2, Zenon
      <4> QED
        BY <4>3, <4>4, Zenon
    <3>7. NssOk(u)
      BY <3>1, <3>2, <3>4, <3>5, <3>6, Zenon DEF NssOk
    <3>8. ASSUME NEW i \in Pairs(s)
          PROVE  \E j \in Pairs(u) : /\ KeyAt(u, j) = KeyAt(s, i)
                                     /\ ValueAt(u, j) = ValueAt(s, i)
      <4>1. /\ Mirror(s, i) \in Pairs(s) /\ Mirror(s, Mirror(s, i)) = i
            /\ KeyAt(u, Mirror(s, i)) = KeyAt(s, Mirror(s, Mirror(s, i)))
            /\ ValueAt(u, Mirror(s, i)) = ValueAt(s, Mirror(s, Mirror(s, i)))
        BY <3>2, Zenon
      <4> QED
        BY <3>3, <4>1, Zenon
    <3> QED
      BY <3>2, <3>3, <3>7, <3>8, Zenon
  <2>3. u \in Seq(Token) \/ ~ NssOk(s)
    BY <2>1, ReversedPairs, Zenon DEF NssOk
  <2>4. NssOk(s)
    BY <1>1, ReadIsAccepted, Zenon
  <2> HIDE DEF u
  <2>5. FromNss(u) = Done(chain)
    BY <1>1, <2>2, <2>3, <2>4, SameChain, Zenon
  <2> QED
    BY <2>5 DEF u
<1>2. ReadInv => OrderIrrelevant
  BY <1>1, Zenon DEF OrderIrrelevant
<1> QED
  BY <1>2, ReadInductive, PTL

\* No component of an accepted text is passed over for the case of its key.
THEOREM CaseHidesNothing == Spec => []CaseDropsNothing
<1>1. ASSUME ReadInv, op = "from_nss", outcome = "ok"
      PROVE  FromNss(FoldedKeys(TrimEnd(read))) = Done(chain)
  <2> DEFINE s == TrimEnd(read)
             u == FoldedKeys(s)
  <2>1. s \in Seq(Token) /\ NssOk(s)
    BY <1>1, ReadTyped, ReadIsAccepted, Zenon
  <2>2. DOMAIN s = 1 .. Len(s) /\ Len(s) \in Nat /\ s \in [1 .. Len(s) -> Token]
    BY <2>1, LenProperties, Zenon
  <2> HIDE DEF s
  <2>3. ASSUME NEW t \in Token
        PROVE  /\ Lower(t) \in Token /\ Lower(t).word = t.word
               /\ NssBytes(Lower(t)) <=> NssBytes(t)
    BY LowerTyped, Zenon
  <2>4. /\ DOMAIN u = 1 .. Len(s)
        /\ \A i \in 1 .. Len(s) : u[i] = IF i % 2 = 1 THEN Lower(s[i]) ELSE s[i]
    BY <2>2, Zenon DEF FoldedKeys
  <2>5. \A i \in 1 .. Len(s) : u[i] \in Token
    BY <2>2, <2>3, <2>4
  <2>6. u = [i \in 1 .. Len(s) |-> u[i]]
    BY <2>2, <2>4, Zenon DEF FoldedKeys
  <2> HIDE DEF u
  <2>7. u \in Seq(Token) /\ Len(u) = Len(s)
    <3>1. u \in [1 .. Len(s) -> Token]
      BY <2>5, <2>6
    <3> QED
      BY <2>2, <2>4, <3>1
  <2>8. \A i \in Pairs(s) : /\ KeyAt(u, i) = Lower(KeyAt(s, i))
                            /\ KeyAt(s, i) \in Token
                            /\ ValueAt(u, i) = ValueAt(s, i)
    <3> SUFFICES ASSUME NEW i \in Pairs(s)
                 PROVE  /\ KeyAt(u, i) = Lower(KeyAt(s, i))
                        /\ KeyAt(s, i) \in Token
                        /\ ValueAt(u, i) = ValueAt(s, i)
      OBVIOUS
    <3>1. /\ 2 * i - 1 \in 1 .. Len(s) /\ (2 * i - 1) % 2 = 1
          /\ 2 * i \in 1 .. Len(s) /\ (2 * i) % 2 # 1
      <4>1. Len(s) % 2 = 0
        BY <2>1, Zenon DEF NssOk
      <4>2. /\ 2 * i - 1 \in DOMAIN s /\ (2 * i - 1) % 2 = 1
            /\ 2 * i \in DOMAIN s /\ (2 * i) % 2 = 0
        BY <2>1, <4>1, PairPlaces, Zenon
      <4> QED
        BY <2>2, <4>2
    <3> QED
      BY <2>2, <2>4, <3>1 DEF KeyAt, ValueAt
  <2>9. \A i \in Pairs(s) :
          \/ Known(KeyAt(s, i)) /\ KeyAt(u, i) = KeyAt(s, i)
          \/ ~ Known(KeyAt(s, i)) /\ KeyAt(u, i).word \notin Keys
               /\ ~ Known(KeyAt(u, i))
    <3> SUFFICES ASSUME NEW i \in Pairs(s)
                 PROVE  \/ /\ Known(KeyAt(s, i)) /\ KeyAt(u, i) = KeyAt(s, i)
                        \/ /\ ~ Known(KeyAt(s, i)) /\ KeyAt(u, i).word \notin Keys
                           /\ ~ Known(KeyAt(u, i))
      OBVIOUS
    <3>1. CASE Known(KeyAt(s, i))
      <4>1. KeyAt(s, i) = Plain(KeyAt(s, i).word) /\ KeyAt(s, i).word \in Words
        BY <2>8, <3>1 DEF Known, IsName, Token
      <4>2. Lower(KeyAt(s, i)) = KeyAt(s, i)
        <5>1. Trim(KeyAt(s, i)) = KeyAt(s, i)
          BY <4>1, PlainTyped, PlainFacts, CleanIsTrimmed
        <5> QED
          BY <4>1, <5>1, PlainIsNormal, Zenon DEF Normalize
      <4> QED
        BY <2>8, <3>1, <4>2, Zenon
    <3>2. CASE ~ Known(KeyAt(s, i))
      <4>1. KeyAt(s, i).word \notin Keys
        BY <2>1, <3>2, Zenon DEF NssOk
      <4>2. KeyAt(u, i).word \notin Keys
        BY <2>3, <2>8, <4>1, Zenon
      <4> QED
        BY <3>2, <4>2, Zenon DEF Known, IsName
    <3> QED
      BY <3>1, <3>2
  <2>10. NssOk(u)
    <3>1. Pairs(u) = Pairs(s)
      BY <2>7, Zenon DEF Pairs
    <3>2. \A i \in DOMAIN u : u[i].word # "" /\ NssBytes(u[i])
      <4>1. \A i \in 1 .. Len(s) : s[i].word # "" /\ NssBytes(s[i]) /\ s[i] \in Token
        BY <2>1, <2>2, Zenon DEF NssOk
      <4> QED
        BY <2>3, <2>4, <4>1, Zenon
    <3>3. \A i \in Pairs(u) : KeyAt(u, i).word \in Keys => Known(KeyAt(u, i))
      BY <2>9, <3>1, Zenon
    <3>4. \A i, j \in Pairs(u) :
            (Known(KeyAt(u, i)) /\ KeyAt(u, i) = KeyAt(u, j)) => i = j
      BY <2>1, <2>9, <3>1, Zenon DEF NssOk
    <3>5. Len(u) % 2 = 0
      BY <2>1, <2>7, Zenon DEF NssOk
    <3> QED
      BY <3>2, <3>3, <3>4, <3>5, Zenon DEF NssOk
  <2>11. Pairs(u) = Pairs(s)
    BY <2>7, Zenon DEF Pairs
  <2>12. FromNss(u) = Done(chain)
    BY <1>1, <2>7, <2>8, <2>9, <2>10, <2>11, SameChain, Zenon DEF s
  <2> QED
    BY <2>12, Zenon DEF u, s
<1>2. ReadInv => CaseDropsNothing
  BY <1>1, Zenon DEF CaseDropsNothing
<1> QED
  BY <1>2, ReadInductive, PTL

=============================================================================
