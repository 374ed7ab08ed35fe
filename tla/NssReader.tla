----------------------------- MODULE NssReader -----------------------------
(***************************************************************************)
(* The reading of a URN or NSS byte by byte: what parse_urn and parse_nss  *)
(* cut off, and the loop of parse_nss_map over the pairs that are left.    *)
(* NssText says the same of a text already taken apart into tokens; here   *)
(* the tokens are made, and an error message shows a piece of the text.    *)
(***************************************************************************)
EXTENDS NssText, Bytes

CONSTANT Sources   \* texts passed to the parsers

ASSUME SourcesAssumption == Sources \subseteq Seq(Byte)

VARIABLES
  entry,     \* the function called, "urn" for parse_urn, "nss" for parse_nss
  src,       \* its argument
  nss,       \* what it passes to parse_nss_map
  parts,     \* nss between its colons
  i,         \* the next pair of parts begins here
  out,       \* the map of known components built so far
  pc,        \* "enter", "map", "loop", "done"
  outcome,   \* the error code, "none" while the call runs
  shown      \* the quoted text of the error message, if it has one

vars == <<entry, src, nss, parts, i, out, pc, outcome, shown>>

Colon == 58

\* "urn:mhda:"
PrefixMhda == <<117, 114, 110, 58, 109, 104, 100, 97, 58>>

KeyText ==
  [nt |-> <<110, 116>>, ci |-> <<99, 105>>, ct |-> <<99, 116>>,
   dt |-> <<100, 116>>, dp |-> <<100, 112>>, aa |-> <<97, 97>>,
   af |-> <<97, 102>>, ap |-> <<97, 112>>, as |-> <<97, 115>>,
   wt |-> <<119, 116>>, wi |-> <<119, 105>>]

IsKnownComponent(s) == \E k \in Keys : KeyText[k] = s

\* The loop of split: the pieces before the separators, and where the piece
\* after the last one starts.
Cuts(s, sep) ==
  LET Cut[j \in 0 .. Len(s)] ==
        IF j = 0 THEN [pieces |-> <<>>, start |-> 1]
        ELSE LET cut == Cut[j - 1]
             IN IF s[j] # sep THEN cut
                ELSE [pieces |-> Append(cut.pieces, SubSeq(s, cut.start, j - 1)),
                      start  |-> j + 1]
  IN Cut[Len(s)]

\* Mutant: nothing is pushed for the piece after a final separator.
SplitLines(s, sep) ==
  LET cut == Cuts(s, sep)
  IN IF cut.start = Len(s) + 1 THEN cut.pieces
     ELSE Append(cut.pieces, SubSeq(s, cut.start, Len(s)))

\* One piece more than there are separators, empty ones included.
Split(s, sep) ==
  LET cut == Cuts(s, sep)
  IN Append(cut.pieces, SubSeq(s, cut.start, Len(s)))

\* Mutant: only the first byte is looked at.
CleanFirst(s) == s = <<>> \/ s[1] \in NssByte

Clean(s) == \A j \in DOMAIN s : s[j] \in NssByte

-----------------------------------------------------------------------------

Init ==
  /\ entry \in {"urn", "nss"}
  /\ src \in Sources
  /\ nss = <<>> /\ parts = <<>> /\ i = 1
  /\ out = <<>>
  /\ pc = "enter"
  /\ outcome = "none"
  /\ shown = <<>>

Throw(code, message) ==
  /\ outcome' = code
  /\ shown' = message
  /\ pc' = "done"

Return ==
  /\ outcome' = "ok"
  /\ pc' = "done"
  /\ UNCHANGED shown

\* parse_urn takes the prefix off, the r/q/f components, and the whitespace
\* before and after they are gone; parse_nss only trims.
Enter ==
  /\ pc = "enter"
  /\ \E trimmed \in {TrimBytes(src)} :
       \/ /\ entry = "nss"
          /\ nss' = trimmed /\ pc' = "map"
          /\ UNCHANGED <<outcome, shown>>
       \/ /\ entry = "urn" /\ HasPrefixFold(trimmed, PrefixMhda)
          /\ \E rest \in {SubSeq(trimmed, Len(PrefixMhda) + 1, Len(trimmed))} :
             \E kept \in {StripRqfBytes(rest)} : nss' = TrimRight(kept)
          /\ pc' = "map"
          /\ UNCHANGED <<outcome, shown>>
       \/ /\ entry = "urn" /\ ~ HasPrefixFold(trimmed, PrefixMhda)
          /\ Throw("invalid_urn", <<>>)
          /\ UNCHANGED nss
  /\ UNCHANGED <<entry, src, parts, i, out>>

\* The empty NSS has no components; a '?' or '#' is shown as it is.
Begin ==
  /\ pc = "map"
  /\ \/ /\ nss = <<>>
        /\ Return
        /\ UNCHANGED parts
     \/ /\ RqfMarks(nss) # {}
        /\ Throw("invalid_nss", <<>>)
        /\ UNCHANGED parts
     \/ /\ nss # <<>> /\ RqfMarks(nss) = {}
        /\ parts' = Split(nss, Colon)
        /\ IF Len(parts') % 2 # 0
             THEN Throw("invalid_nss", Quote(parts'[Len(parts')]))
           ELSE pc' = "loop" /\ UNCHANGED <<outcome, shown>>
  /\ UNCHANGED <<entry, src, nss, i, out>>

-----------------------------------------------------------------------------
(* The loop over the pairs *)

Key == parts[i]
Value == parts[i + 1]

InLoop == pc = "loop" /\ i < Len(parts)

Continue == i' = i + 2 /\ UNCHANGED <<pc, outcome, shown>>

\* The pair is refused: every message but the first shows the key.
RejectPair ==
  /\ InLoop
  /\ \/ Key = <<>>
     \/ ~ Clean(Key)
     \/ Value = <<>>
     \/ ~ Clean(Value)
     \/ ~ IsKnownComponent(Key) /\ IsKnownComponent(ToLower(Key))
     \/ Key \in DOMAIN out
  /\ Throw("invalid_nss", IF Key = <<>> THEN <<>> ELSE Quote(Key))
  /\ UNCHANGED <<entry, src, nss, parts, i, out>>

GoodPair == InLoop /\ Key # <<>> /\ Clean(Key) /\ Value # <<>> /\ Clean(Value)

\* Mutant: the index does not move on.
SkipPairStaying ==
  /\ GoodPair
  /\ ~ IsKnownComponent(ToLower(Key))
  /\ UNCHANGED vars

\* An unknown component is skipped with its value.
SkipPair ==
  /\ GoodPair
  /\ ~ IsKnownComponent(ToLower(Key))
  /\ Continue
  /\ UNCHANGED <<entry, src, nss, parts, out>>

KeepPair ==
  /\ GoodPair
  /\ IsKnownComponent(Key) /\ Key \notin DOMAIN out
  /\ out' = [k \in DOMAIN out \cup {Key} |-> IF k = Key THEN Value ELSE out[k]]
  /\ Continue
  /\ UNCHANGED <<entry, src, nss, parts>>

AfterLastPair ==
  /\ pc = "loop" /\ i > Len(parts)
  /\ Return
  /\ UNCHANGED <<entry, src, nss, parts, i, out>>

Next ==
  Enter \/ Begin \/ RejectPair \/ SkipPair \/ KeepPair \/ AfterLastPair

\* A call goes on until it returns.
Spec == Init /\ [][Next]_vars /\ WF_vars(Next)

-----------------------------------------------------------------------------
(* The same text as the tokens of NssText *)

WordOf(s) ==
  IF s = <<>> THEN ""
  ELSE IF IsKnownComponent(ToLower(s))
    THEN CHOOSE k \in Keys : KeyText[k] = ToLower(s)
  ELSE "x"

\* A piece of the text, and what the code tests of it.
TokenOf(s) ==
  LET body == TrimRight(StripRqfBytes(s))
  IN [word  |-> WordOf(body), num |-> 0, path |-> EmptyText,
      upper |-> \E j \in DOMAIN body : body[j] \in UpperCase,
      space |-> body # StripRqfBytes(s),
      byte  |-> IF body \notin Seq(NssByte) THEN "other"
                ELSE IF RqfMarks(s) # {} THEN "rqf" ELSE "none"]

\* Token k lies between the colons number k - 1 and k.
TokensOf(s) ==
  LET colons == {j \in DOMAIN s : s[j] = Colon}
      At(k)  == CHOOSE j \in colons : Cardinality(colons \cap 1 .. j) = k
      from(k) == IF k = 1 THEN 1 ELSE At(k - 1) + 1
      to(k)   == IF k > Cardinality(colons) THEN Len(s) ELSE At(k) - 1
  IN [k \in 1 .. Cardinality(colons) + 1 |->
        TokenOf(SubSeq(s, from(k), to(k)))]

\* src as the argument of the token model, which knows no leading whitespace.
Leading == IF Solid(src) = {} THEN 0 ELSE Min(Solid(src)) - 1
SrcTokens(skip) == TokensOf(SubSeq(src, Leading + skip + 1, Len(src)))

MhdaPrefixed == HasPrefixFold(TrimBytes(src), PrefixMhda)

NssTokens ==
  IF entry = "urn" THEN TrimEnd(StripRqf(TrimEnd(SrcTokens(Len(PrefixMhda)))))
  ELSE TrimEnd(SrcTokens(0))

Abstract(map) ==
  [k \in {WordOf(s) : s \in DOMAIN map} |-> TokenOf(map[KeyText[k]])]

\* A quoted text read back, its escapes undone.
HexValue(c) == IF c \in DecimalDigit THEN c - 48 ELSE c - 87

\* The byte meant by c, the last byte of a character in the given state.
Meant(state, c) ==
  CASE state.mode = "low" -> 16 * state.high + HexValue(c)
    [] state.mode = "escape" /\ c = 110 -> 10
    [] state.mode = "escape" /\ c = 114 -> 13
    [] state.mode = "escape" /\ c = 116 -> 9
    [] OTHER -> c

Unquote(q) ==
  LET body == SubSeq(q, 2, Len(q) - 1)
      Scan[j \in 0 .. Len(body)] ==
        IF j = 0 THEN [text |-> <<>>, mode |-> "plain", high |-> 0]
        ELSE LET state == Scan[j - 1]
             IN CASE state.mode = "plain" /\ body[j] = 92 ->
                       [state EXCEPT !.mode = "escape"]
                  [] state.mode = "escape" /\ body[j] = 120 ->
                       [state EXCEPT !.mode = "high"]
                  [] state.mode = "high" ->
                       [state EXCEPT !.mode = "low", !.high = HexValue(body[j])]
                  [] OTHER ->
                       [state EXCEPT !.text = Append(@, Meant(state, body[j])),
                                     !.mode = "plain"]
  IN Scan[Len(body)].text

-----------------------------------------------------------------------------
(* Properties *)

TypeOK ==
  /\ entry \in {"urn", "nss"} /\ src \in Seq(Byte)
  /\ nss \in Seq(Byte) /\ parts \in Seq(Seq(Byte))
  /\ i \in 1 .. Len(parts) + 1
  /\ \A k \in DOMAIN out :
       IsKnownComponent(k) /\ out[k] \in Seq(NssByte) \ {<<>>}
  /\ pc \in {"enter", "map", "loop", "done"}
  /\ outcome \in {"none", "ok", "invalid_urn", "invalid_nss"}

\* The bytes are taken apart into the pairs the token model speaks of: the loop
\* accepts exactly what NssOk accepts, and finds the same components, whatever
\* is trimmed, cut off or left empty on the way (nss_parser.cpp:32-90).
AgreesWithTokens ==
  pc = "done" =>
    /\ outcome = "ok" <=> (entry = "urn" => MhdaPrefixed) /\ NssOk(NssTokens)
    /\ outcome = "ok" => Abstract(out) = Components(NssTokens)

\* The text an error message quotes is one line of printable ASCII, and read
\* back it is a piece of the input, so two inputs are never shown alike
\* (detail.hpp:118-121: "cannot forge or colour log lines").
ShownAsIs ==
  shown # <<>> =>
    /\ \A j \in DOMAIN shown : shown[j] \in 32 .. 126
    /\ \E k \in DOMAIN parts : Unquote(shown) = parts[k]

\* The loop ends on every text: also a skipped pair moves it on
\* (nss_parser.cpp:48, 80).
Returns == <>(pc = "done")

=============================================================================
