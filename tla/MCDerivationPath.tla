-------------------------- MODULE MCDerivationPath --------------------------
(***************************************************************************)
(* Instances of DerivationPath for TLC.                                    *)
(***************************************************************************)
EXTENDS DerivationPath

Seg(n, mark) == [digits |-> TRUE, val |-> n, pad |-> FALSE, mark |-> mark]
Padded(n, mark) == [digits |-> TRUE, val |-> n, pad |-> TRUE, mark |-> mark]
Junk == [digits |-> FALSE, val |-> 0, pad |-> FALSE, mark |-> ""]
Txt(segs) == [head |-> "m", segs |-> segs]

-----------------------------------------------------------------------------
(* Histories: one object, any sequence of calls.  One type of each shape, an  *)
(* unregistered one, and arguments on both sides of every bound.              *)

ObjectTypes ==
  {"root", "bip32", "bip44", "slip10", "cip1852", "zip32", "bip99", NoType}
ObjectCoins == {0, 60}
ObjectAccounts == {3, IndexLimit}
ObjectCharges == {1, 257}
ObjectIndexes == {Hard(5), Soft(IndexLimit + 5)}

ObjectLevels ==
  {<<>>,
   <<Hard(44), Hard(60), Hard(3), Soft(1), Hard(5)>>,
   <<Hard(49), Hard(60), Hard(3), Soft(1), Hard(5)>>,
   <<Hard(44), Hard(60), Soft(3), Soft(1), Hard(5)>>,
   <<Hard(44), Hard(60)>>,
   <<Hard(1852), Hard(60), Hard(3), Soft(1), Hard(5)>>,
   <<Hard(32), Hard(133), Hard(3)>>,
   <<Hard(32), Hard(133), Hard(3), Soft(5)>>,
   <<Hard(32), Hard(133), Hard(3), Soft(5), Soft(5)>>,
   <<Hard(3), Soft(0), Hard(5)>>,
   <<Hard(3), Soft(IndexLimit)>>}

ObjectTexts ==
  {EmptyText,
   Txt(<<>>),
   Txt(<<Seg(44, "'"), Seg(60, "h"), Padded(7, "'"), Seg(0, ""), Seg(9, "")>>),
   Txt(<<Seg(44, "'"), Seg(60, "'"), Seg(7, "'"), Seg(0, ""),
         Seg(IndexLimit, "")>>),
   Txt(<<Seg(1852, "'"), Seg(1815, "'"), Seg(7, "'"), Seg(300, ""),
         Seg(9, "H")>>),
   Txt(<<Seg(32, "'"), Seg(133, "'"), Seg(7, "'")>>),
   Txt(<<Seg(32, "'"), Seg(133, "'"), Seg(7, "'"), Seg(9, "'")>>),
   Txt(<<Seg(7, "'"), Seg(1, ""), Seg(9, "")>>),
   Txt(<<Seg(7, "'"), Seg(2, ""), Seg(9, "")>>),
   Txt(<<Seg(7, "'"), Junk>>)}

-----------------------------------------------------------------------------
(* Grammar: every spelling near a valid path, under every type.               *)

Canonical ==
  {<<Seg(3, "'"), Seg(1, ""), Seg(5, "")>>,
   <<Seg(32, "'"), Seg(133, "'"), Seg(3, "'")>>,
   <<Seg(32, "'"), Seg(133, "'"), Seg(3, "'"), Seg(5, "")>>,
   <<Seg(44, "'"), Seg(118, "'"), Seg(3, "'"), Seg(0, ""), Seg(5, "'")>>,
   <<Seg(1852, "'"), Seg(1815, "'"), Seg(3, "'"), Seg(1, ""), Seg(5, "")>>}
  \cup {<<Seg(n, "'"), Seg(60, "'"), Seg(3, "'"), Seg(1, ""), Seg(5, "")>>
          : n \in {49, 54, 74, 84, 86}}

\* What a slip of the pen makes of one segment.
Misspelt(s) ==
  [digits : {TRUE}, val : {s.val, s.val + 1, 1, 2}, pad : BOOLEAN,
   mark : {"", "'", "h", "H"}]
  \cup {Junk, Seg(IndexLimit - 1, s.mark), Seg(IndexLimit, s.mark),
        Seg(2 * IndexLimit, s.mark)}

Perturbed(c) ==
  UNION {{[c EXCEPT ![i] = s] : s \in Misspelt(c[i])} : i \in DOMAIN c}
  \cup {Append(c, Seg(5, "")), SubSeq(c, 1, Len(c) - 1), <<c[1]>>,
        Append(c, Junk)}

GrammarTexts ==
  {EmptyText, Txt(<<>>)}
  \cup [head : {"m"}, segs : UNION {Perturbed(c) : c \in Canonical}]
  \cup [head : {"", "M", "other"}, segs : Canonical]

GrammarTypes == DerivationTypes \cup {"bip99"}

\* The texts no history uses: each is parsed once, by the first call, and how
\* far the recogniser takes it is all that is looked at.
Glances == GrammarTexts \ ObjectTexts

Glance ==
  /\ pc = "idle" /\ outcome = "none"
  /\ \E t \in GrammarTypes, text \in Glances : Parse(t, text)

\* A glance is not carried further: it ends in a refusal or for want of memory.
HistoryNext ==
  /\ Next \/ Glance
  /\ (call.op = "parse" /\ call.text \in Glances) => outcome' # outcome

HistorySpec == Init /\ [][HistoryNext]_vars

=============================================================================
