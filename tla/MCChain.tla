------------------------------ MODULE MCChain ------------------------------
(***************************************************************************)
(* Instances of Chain for TLC: texts one slip away from a chain key.       *)
(***************************************************************************)
EXTENDS Chain

WordsArg ==
  {"", "decimal", "hex", "path", "1", "x", "zz"} \cup Keys \cup DerivationTypes
  \cup Networks

Upper(t) == [t EXCEPT !.upper = TRUE]
Spaced(t) == [t EXCEPT !.space = TRUE]
Dirty(t, b) == [t EXCEPT !.byte = b]

NetworkSet == {Plain("evm"), Plain("sui"), Plain("zz"), Nothing,
               Upper(Plain("evm")), Spaced(Plain("evm"))}
IdSet == {Plain("1"), Upper(Plain("x")), Spaced(Plain("1")), Nothing,
          Dirty(Plain("1"), "colon"), Dirty(Plain("1"), "rqf"),
          Dirty(Plain("1"), "other")}
CoinSet == {0, 60}

-----------------------------------------------------------------------------

Nt == <<Plain("nt"), Plain("evm")>>
Ci == <<Plain("ci"), Plain("1")>>
Ct(t) == <<Plain("ct"), t>>

PairSet ==
  {Nt, Ci, <<Plain("nt"), Upper(Plain("evm"))>>, <<Plain("nt"), Plain("zz")>>,
   <<Plain("nt"), Nothing>>, <<Plain("ci"), Plain("x")>>,
   <<Upper(Plain("ci")), Plain("x")>>, <<Upper(Plain("nt")), Plain("evm")>>,
   <<Plain("ci"), Upper(Plain("x"))>>,
   <<Plain("ci"), Spaced(Plain("1"))>>, <<Plain("ci"), Dirty(Plain("1"), "rqf")>>,
   <<Plain("zz"), Plain("1")>>, <<Upper(Plain("zz")), Plain("nt")>>,
   <<Nothing, Plain("1")>>, <<Plain("wt"), Plain("x")>>,
   Ct(Number(60)), Ct([Number(60) EXCEPT !.word = "hex"]), Ct(Plain("x")),
   Ct(Number(2 * IndexLimit))}

\* Every sequence of up to three such pairs, with or without a dangling token.
KeyTextSet ==
  LET texts == {<<>>} \cup PairSet \cup {p \o q : p, q \in PairSet}
               \cup {Nt \o p \o q : p, q \in PairSet}
               \cup {p \o Nt \o Ci : p \in PairSet}
  IN texts \cup {t \o <<Plain("x")>> : t \in texts}

\* For the histories of calls, a few of them.
FewTexts ==
  {<<>>, Nt, Nt \o Ci, Ci \o Nt, Nt \o Ci \o Ct(Number(60)),
   Nt \o Ci \o Ct(Number(2 * IndexLimit)), Nt \o Ci \o <<Plain("zz"), Nothing>>,
   <<Plain("nt"), Upper(Plain("evm"))>> \o Ci,
   <<Upper(Plain("nt")), Plain("evm")>> \o Ci,
   Nt \o <<Plain("ci"), Dirty(Plain("1"), "other")>>}

\* A first call may read any of the texts, the later ones a few.
HistoryNext ==
  \/ Next
  \/ op = "none" /\ \E text \in KeyTextSet : ReadNss(text) \/ ReadKey(text)

HistorySpec == Init /\ [][HistoryNext]_vars

=============================================================================
