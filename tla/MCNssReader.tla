---------------------------- MODULE MCNssReader ----------------------------
(***************************************************************************)
(* Instance of NssReader for TLC: every sequence of up to four pieces,     *)
(* with and without the prefix, whitespace and something cut off.          *)
(***************************************************************************)
EXTENDS NssReader, SequencesExt

WordsArg == {"", "decimal", "hex", "path", "x"} \cup Keys \cup DerivationTypes

\* nt, Nt, ci, x, nothing, " x", x space, x?y, x tab # y, a non-ASCII byte, and
\* bytes that quote escapes: newline, backslash, quote.
Pieces ==
  {<<110, 116>>, <<78, 116>>, <<99, 105>>, <<120>>, <<>>,
   <<32, 120>>, <<120, 32>>, <<120, 63, 121>>, <<120, 9, 35, 121>>,
   <<195, 10>>, <<92, 110, 34>>}

Joined(pieces) ==
  FoldLeft(LAMBDA text, piece : text \o <<Colon>> \o piece,
           Head(pieces), Tail(pieces))

Identity == <<KeyText["nt"], <<120>>, KeyText["ci"], <<120>>>>

Nsses ==
  {Joined(ps) : ps \in UNION {[1 .. n -> Pieces] : n \in 1 .. 3}}
  \cup {Joined(<<KeyText["nt"]>> \o ps) : ps \in [1 .. 3 -> Pieces]}
  \cup {Joined(Identity \o ps) : ps \in [1 .. 2 -> Pieces]}

\* "urn:mhda:", " URN:Mhda:" and "urn:mhd:"
Openings ==
  {PrefixMhda, <<32, 85, 82, 78, 58, 77, 104, 100, 97, 58>>,
   <<117, 114, 110, 58, 109, 104, 100, 58>>}

SourcesArg ==
  Nsses \cup {<<10>> \o s \o <<32>> : s \in Nsses}
  \cup {p \o s : p \in Openings, s \in Nsses}

=============================================================================
