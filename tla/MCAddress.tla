----------------------------- MODULE MCAddress -----------------------------
(***************************************************************************)
(* Instances of Address for TLC: histories of setters, single URNs, and    *)
(* single constructions over the whole compatibility matrix.               *)
(***************************************************************************)
EXTENDS Address

WordsArg ==
  {"", "decimal", "hex", "path", "1", "x", "zz"} \cup Keys \cup DerivationTypes
  \cup Networks \cup Algorithms \cup Formats

Upper(t) == [t EXCEPT !.upper = TRUE]
Spaced(t) == [t EXCEPT !.space = TRUE]
Dirty(t, b) == [t EXCEPT !.byte = b]

Seg(n, mark) == [digits |-> TRUE, val |-> n, pad |-> FALSE, mark |-> mark]
Txt(segs) == [head |-> "m", segs |-> segs]
Dp(text) == PathToken(text)

WithNoArgs == {}
NoFree == [k \in FreeForm |-> {Nothing}]

-----------------------------------------------------------------------------
(* Histories *)

Bip44Text ==
  Txt(<<Seg(44, "'"), Seg(60, "H"), Seg(0, "'"), Seg(1, ""), Seg(5, "")>>)
Slip10Text == Txt(<<Seg(44, "'"), Seg(5, "")>>)

HistoryPaths ==
  {EmptyPath(NoType), EmptyPath("root"), EmptyPath("slip10"),
   ParsedPath("bip44", Bip44Text)}

Id == Upper(Plain("x"))

HistoryChains ==
  {NoChain, [NoChain EXCEPT !.network = "evm", !.id = Id, !.coin = <<0>>]}

HistoryNetworks == {Plain("evm"), Upper(Plain("evm"))}
HistoryIds == {Spaced(Id), Nothing, Dirty(Plain("1"), "colon")}
HistoryCoins == {0}
HistoryTypes == {"root", "slip10", "bip99"}
HistoryTexts == {EmptyText, Slip10Text, Bip44Text}

HistoryCts == {Spaced(Nothing), Number(60), [Number(60) EXCEPT !.word = "hex"],
               Number(2 * IndexLimit), Plain("x")}
HistoryDts == {Nothing, Spaced(Upper(Plain("bip44"))), Plain("slip10"),
               Plain("root"), Plain("zz")}
HistoryDps == {Spaced(Nothing), Spaced(Dp(Bip44Text)), Dp(Slip10Text),
               Dp([Bip44Text EXCEPT !.head = "M"]), Dirty(Dp(Bip44Text), "colon")}
HistoryAas == {Nothing, Upper(Plain("ed25519")), Plain("zz")}
HistoryAfs == {Nothing, Spaced(Plain("hex")), Dirty(Plain("hex"), "colon")}
HistoryFree ==
  [k \in FreeForm |->
     CASE k = "ap" -> {Nothing, Spaced(Upper(Plain("x"))), Dirty(Plain("x"), "rqf")}
       [] k = "as" -> {Nothing, Dirty(Plain("x"), "other")}
       [] k = "wt" -> {Nothing, Plain("ci"), Dirty(Plain("x"), "colon")}
       [] k = "wi" -> {Nothing, Dirty(Plain("x"), "colon")}]

HistoryUrn == Urn(TRUE, <<Plain("nt"), Plain("evm"), Plain("ci"), Id>>)
HistoryUrns == {HistoryUrn, Urn(FALSE, HistoryUrn.parts)}

\* A history may begin with a construction; one later on replaces the whole
\* object and begins it again.
HistoryNext ==
  \/ outcome = "none" /\ CallConstruct
  \/ CallSetter
  \/ CallPart
  \/ CallParser

HistorySpec == Init /\ [][HistoryNext]_vars

-----------------------------------------------------------------------------
(* URNs: pairs in every order, up to two beyond the identity *)

P(k, v) == <<Plain(k), v>>

Pairs1 ==
  {P("ct", Number(0)), P("ct", [Number(60) EXCEPT !.word = "hex"]),
   P("ct", Number(2 * IndexLimit)),
   P("dt", Upper(Plain("bip44"))), P("dt", Plain("slip10")), P("dt", Plain("root")),
   P("dt", Plain("zz")),
   P("dp", Dp(Bip44Text)), P("dp", Dp([Bip44Text EXCEPT !.head = "M"])),
   P("dp", Dp(Slip10Text)),
   P("dp", Dp([Bip44Text EXCEPT !.segs[2] = [@ EXCEPT !.pad = TRUE]])),
   P("dp", Dp([Bip44Text EXCEPT !.segs[1] = [@ EXCEPT !.pad = TRUE]])),
   P("aa", Upper(Plain("ed25519"))), P("aa", Plain("zz")),
   P("af", Plain("hex")), P("ap", Upper(Plain("x"))), P("as", Dirty(Plain("x"), "rqf")),
   P("wt", Plain("dt")), P("wi", Dirty(Plain("x"), "other")),
   P("wi", Spaced(Dirty(Plain("x"), "rqf"))),
   P("zz", Plain("dp")), <<Upper(Plain("dp")), Dp(Slip10Text)>>}

Identity == <<Plain("nt"), Plain("evm"), Plain("ci"), Plain("1")>>

UrnSet ==
  LET two   == {p \o q : p, q \in Pairs1}
      texts == {Identity \o p : p \in Pairs1} \cup {p \o Identity : p \in Pairs1}
               \cup {Identity \o p : p \in two} \cup {p \o Identity : p \in two}
               \cup {Identity \o P("dt", Plain("bip44")) \o p : p \in two}
               \cup {SubSeq(Identity, 1, 2) \o p : p \in Pairs1}
               \cup {Identity \o <<Plain("x")>>, <<>>, <<Dirty(Nothing, "rqf")>>}
  IN {Urn(TRUE, t) : t \in texts} \cup {Urn(FALSE, Identity)}

-----------------------------------------------------------------------------
(* The matrix: every network, algorithm and format, a path of every scheme *)

MatrixChains ==
  {[NoChain EXCEPT !.network = n, !.id = Plain("1")] : n \in Networks}

Hardened(text) == [text EXCEPT !.segs = [i \in DOMAIN @ |-> Seg(@[i].val, "'")]]

Five(purpose, coin) ==
  Txt(<<Seg(purpose, "'"), Seg(coin, "'"), Seg(0, "'"), Seg(0, ""), Seg(5, "")>>)

MatrixPaths ==
  {ParsedPath(t, Five(Purpose(t), coin)) : t \in Bip44Family, coin \in {60, 118}}
  \cup {ParsedPath("slip10", Hardened(Five(n, 784))) : n \in {44, 54, 74}}
  \cup {ParsedPath("slip10", Five(44, 60)), ParsedPath("slip10", Five(44, 118)),
        ParsedPath("bip32", Txt(<<Seg(0, "'"), Seg(0, ""), Seg(5, "'")>>)),
        ParsedPath("cip11", Five(44, 118)), ParsedPath("cip1852", Five(1852, 1815)),
        ParsedPath("zip32", Hardened(Txt(<<Seg(32, ""), Seg(133, ""), Seg(0, "")>>))),
        EmptyPath("bip44")}

Named(names) == {Nothing} \cup {Plain(n) : n \in names}
MatrixAas == Named(Algorithms)
MatrixAfs == Named(Formats)

=============================================================================
