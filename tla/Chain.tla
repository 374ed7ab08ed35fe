------------------------------- MODULE Chain -------------------------------
(***************************************************************************)
(* One chain object: its setters, and the two parsers that replace it.     *)
(***************************************************************************)
EXTENDS ChainIdentity

CONSTANTS
  NetworkArgs, IdArgs, CoinArgs,   \* arguments of the setters
  KeyTexts                         \* texts passed to from_key and from_nss

ASSUME ChainArgsAssumption ==
         /\ NetworkArgs \subseteq Token
         /\ IdArgs \subseteq Token
         /\ CoinArgs \subseteq Uint32
ASSUME KeyTextsAssumption == KeyTexts \subseteq Seq(Token)

VARIABLES
  chain,     \* the caller's object
  read,      \* the text the last call parsed, <<>> when it parsed none
  op,        \* the last call
  outcome    \* its error code

vars == <<chain, read, op, outcome>>

Init == chain = NoChain /\ read = <<>> /\ op = "none" /\ outcome = "none"

\* The call ends with a result; a failed call leaves the object alone.
Finish(name, text, result) ==
  /\ op' = name
  /\ read' = text
  /\ outcome' = result.code
  /\ chain' = result.chain

\* chain = chain(nt, ci): a constructor that throws builds nothing.
Construct(nt, ci) ==
  LET built == NewChain(nt, ci)
  IN Finish("construct", <<>>, [built EXCEPT !.chain = IF built.code = "ok"
                                                          THEN @ ELSE chain])

SetNetworkOf(nt) == Finish("set_network", <<>>, SetNetwork(chain, nt))
SetChainIdOf(ci) == Finish("set_chain_id", <<>>, SetChainId(chain, ci))
SetCoinOf(n)     == Finish("set_coin", <<>>, Done(SetCoin(chain, n)))
ClearCoinOf      == Finish("clear_coin", <<>>, Done(ClearCoin(chain)))

\* chain = chain::from_nss(text)
ReadNss(text) ==
  LET built == FromNss(text)
  IN Finish("from_nss", text, [built EXCEPT !.chain = IF built.code = "ok"
                                                        THEN @ ELSE chain])

\* chain = chain::from_key(text)
ReadKey(text) ==
  LET built == FromKey(text)
  IN Finish("from_key", text, [built EXCEPT !.chain = IF built.code = "ok"
                                                        THEN @ ELSE chain])

Next ==
  \/ \E nt \in NetworkArgs :
       \/ SetNetworkOf(nt)
       \/ \E ci \in IdArgs : Construct(nt, ci)
  \/ \E ci \in IdArgs : SetChainIdOf(ci)
  \/ \E n \in CoinArgs : SetCoinOf(n)
  \/ ClearCoinOf
  \/ \E text \in KeyTexts : ReadNss(text) \/ ReadKey(text)

Spec == Init /\ [][Next]_vars

-----------------------------------------------------------------------------
(* Properties *)

Codes == {"none", "ok", "invalid_nss", "missing_network_type",
          "invalid_network_type", "missing_chain_id", "invalid_value",
          "invalid_coin_type", "coin_type_in_chain_key", "invalid_chain_key"}

\* The object keeps its types: a registered network or none, an id that is one
\* clean token, a 32-bit coin.
TypeOK ==
  /\ Clean(chain)
  /\ read \in Seq(Token)
  /\ outcome \in Codes

\* The key of a whole chain, read back, is the same identity without the coin:
\* no value the setters let in splits or truncates the key
\* (chain.hpp: from_key "parses a chain key produced by chain::key()").
KeyReadsBack ==
  Whole(chain) =>
    FromKey(ChainKey(chain)) = Done([chain EXCEPT !.coin = <<>>])

\* Two texts from_key takes for the same chain are the same text: whatever was
\* parsed is, whitespace around it apart, the key of the result
\* (chain.hpp: "every accepted input must BE the canonical string").
OneKeyPerChain ==
  (op = "from_key" /\ outcome = "ok") => TrimEnd(read) = ChainKey(chain)

\* The order of the pairs says nothing: reversed, an accepted NSS names the
\* same chain.  A repeated key would make the first or the last one win.
Reversed(parts) ==
  [i \in DOMAIN parts |->
     LET j == Len(parts) + 1 - i
     IN IF i % 2 = 1 THEN parts[j - 1] ELSE parts[j + 1]]

OrderIrrelevant ==
  (op = "from_nss" /\ outcome = "ok") =>
    FromNss(Reversed(TrimEnd(read))) = Done(chain)

\* No component is skipped for its spelling: a reader that folds the case of
\* the keys sees the same chain in an accepted NSS.
FoldedKeys(parts) ==
  [i \in DOMAIN parts |-> IF i % 2 = 1 THEN Lower(parts[i]) ELSE parts[i]]

CaseDropsNothing ==
  (op = "from_nss" /\ outcome = "ok") =>
    FromNss(FoldedKeys(TrimEnd(read))) = Done(chain)

\* A call that fails leaves the object as it was, the coin included
\* (chain.hpp: "on error the chain is left unchanged").
FailureKeepsChain == [][outcome' # "ok" => chain' = chain]_vars

\* SPEC.md:531-535: anything that is not byte-identical to the canonical key,
\* "non-canonical case" included, is rejected with ErrInvalidChainKey.
CaseFoldedKeyCode ==
  (/\ op = "from_key"
   /\ outcome # "ok"
   /\ [i \in DOMAIN read |-> Lower(read[i])] \in
        {ChainKey([NoChain EXCEPT !.network = n, !.id = Plain("1")])
           : n \in Networks})
    => outcome = "invalid_chain_key"

=============================================================================
