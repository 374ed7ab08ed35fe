----------------------------- MODULE PathObject -----------------------------
(***************************************************************************)
(* The value class derivation_path: its seven fields, the functions that   *)
(* fill them, and the text it renders.  The same path is held twice, in    *)
(* the shortcut fields and in levels; str() reads the shortcuts for every  *)
(* type but slip10, levels() the other copy.                               *)
(***************************************************************************)
EXTENDS PathGrammar

\* The name of no type: the value of a default-constructed derivation_type.
NoType == ""

ZeroIndex == [index |-> 0, hard |-> FALSE]

\* A path with an index level, and one without.
WithIndex(t, coin, account, charge, index, levels) ==
  [type |-> t, coin |-> coin, account |-> account, charge |-> charge,
   index |-> index, hasIndex |-> TRUE, levels |-> levels]

WithoutIndex(t, coin, account, levels) ==
  [type |-> t, coin |-> coin, account |-> account, charge |-> 0,
   index |-> ZeroIndex, hasIndex |-> FALSE, levels |-> levels]

WithLevels(p, levels) ==
  [type |-> p.type, coin |-> p.coin, account |-> p.account,
   charge |-> p.charge, index |-> p.index, hasIndex |-> p.hasIndex,
   levels |-> levels]

\* A path of type t that was given no levels yet: what the default
\* constructor (t = NoType) and set_type leave.
EmptyPath(t) == WithoutIndex(t, 0, 0, <<>>)

\* Mutant: the charge kept in a byte.
FromShortcutsByteCharge(t, coin, account, charge, index) ==
  [type |-> t, coin |-> coin, account |-> account, charge |-> charge % 256,
   index |-> index, hasIndex |-> t # "root", levels |-> <<>>]

\* The five arguments of the constructor, before the levels are built.
FromShortcuts(t, coin, account, charge, index) ==
  [type |-> t, coin |-> coin, account |-> account, charge |-> charge,
   index |-> index, hasIndex |-> t # "root", levels |-> <<>>]

-----------------------------------------------------------------------------
(* From shortcuts to levels *)

HasFixedPrefix(t) == t \in Bip44Family \cup {"cip11", "cip1852", "zip32"}

\* The purpose and the coin a path of the type is rendered with: the stored
\* coin only in the BIP-44 family.
PrefixPurpose(t) ==
  CASE t = "bip44"   -> 44
    [] t = "bip49"   -> 49
    [] t = "bip54"   -> 54
    [] t = "bip74"   -> 74
    [] t = "bip84"   -> 84
    [] t = "bip86"   -> 86
    [] t = "cip11"   -> 44
    [] t = "cip1852" -> 1852
    [] t = "zip32"   -> 32

PrefixCoin(p) ==
  CASE p.type = "cip11"   -> 118
    [] p.type = "cip1852" -> 1815
    [] p.type = "zip32"   -> 133
    [] OTHER              -> p.coin

Hard(n) == [index |-> n, hard |-> TRUE]
Soft(n) == [index |-> n, hard |-> FALSE]

\* The levels the shortcuts of p spell out, for a type that has a fixed shape.
ShortcutLevels(p) ==
  CASE p.type = "bip32" -> <<Hard(p.account), Soft(p.charge), p.index>>
    [] p.type = "zip32" ->
         IF p.hasIndex
           THEN <<Hard(PrefixPurpose(p.type)), Hard(PrefixCoin(p)),
                  Hard(p.account), p.index>>
           ELSE <<Hard(PrefixPurpose(p.type)), Hard(PrefixCoin(p)),
                  Hard(p.account)>>
    [] OTHER -> <<Hard(PrefixPurpose(p.type)), Hard(PrefixCoin(p)),
                  Hard(p.account), Soft(p.charge), p.index>>

\* For slip10 the levels are the path: there is nothing to rebuild.
RebuildLevels(p) ==
  CASE p.type = "root"   -> WithLevels(p, <<>>)
    [] p.type = "slip10" -> p
    [] p.type = "bip32" \/ HasFixedPrefix(p.type) ->
         WithLevels(p, ShortcutLevels(p))

-----------------------------------------------------------------------------
(* From levels to shortcuts *)

\* The levels of a parsed text without the spelling of their digits.
TextLevels(text) ==
  [i \in DOMAIN text.segs |-> [index |-> RawLevels(text)[i].index,
                               hard  |-> RawLevels(text)[i].hard]]

\* The branches of parse_fresh: the shortcuts of an accepted text.  The coin of
\* cip11, cip1852 and zip32 is the literal, not the text's.
Fill(t, lvls) ==
  CASE t = "root"   -> EmptyPath(t)
    [] t = "bip32"  ->
         WithIndex(t, 0, lvls[1].index, lvls[2].index, lvls[3], <<>>)
    [] t \in Bip44Family ->
         WithIndex(t, lvls[2].index, lvls[3].index, lvls[4].index, lvls[5],
                   <<>>)
    [] t = "cip11"   ->
         WithIndex(t, 118, lvls[3].index, lvls[4].index, lvls[5], <<>>)
    [] t = "cip1852" ->
         WithIndex(t, 1815, lvls[3].index, lvls[4].index, lvls[5], <<>>)
    [] t = "slip10" /\ lvls = <<>> -> EmptyPath(t)
    [] t = "slip10" /\ lvls # <<>> -> WithIndex(t, 0, 0, 0, ZeroIndex, lvls)
    [] t = "zip32" /\ Len(lvls) = 4 ->
         WithIndex(t, 133, lvls[3].index, 0, lvls[4], <<>>)
    [] t = "zip32" /\ Len(lvls) # 4 ->
         WithoutIndex(t, 133, lvls[3].index, <<>>)

\* populate_shortcuts_from_levels: what from_levels renders its text from.
\* Levels of the wrong number, and those of slip10, leave the shortcuts at zero.
PopulateShortcuts(t, lvls) ==
  CASE t = "bip32" /\ Len(lvls) >= 3 ->
         WithIndex(t, 0, lvls[1].index, lvls[2].index, lvls[3], lvls)
    [] t \in Bip44Family \cup {"cip11", "cip1852"} /\ Len(lvls) >= 5 ->
         WithIndex(t, lvls[2].index, lvls[3].index, lvls[4].index, lvls[5],
                   lvls)
    [] t = "zip32" /\ Len(lvls) = 3 ->
         WithoutIndex(t, lvls[2].index, lvls[3].index, lvls)
    [] t = "zip32" /\ Len(lvls) >= 4 ->
         WithIndex(t, lvls[2].index, lvls[3].index, 0, lvls[4], lvls)
    [] t = "slip10" /\ lvls # <<>> -> WithIndex(t, 0, 0, 0, ZeroIndex, lvls)
    [] OTHER -> WithoutIndex(t, 0, 0, lvls)

-----------------------------------------------------------------------------
(* The text of a path *)

\* append_uint32 writes no leading zero, and every hardened level ends in "'".
Spell(l) == [digits |-> TRUE, val |-> l.index, pad |-> FALSE,
             mark |-> IF l.hard THEN "'" ELSE ""]

FormatLevels(lvls) ==
  [head |-> "m", segs |-> [i \in DOMAIN lvls |-> Spell(lvls[i])]]

\* str(): from levels for slip10, from the shortcuts for every other type; the
\* empty text while there are no levels.
Str(p) ==
  IF p.levels = <<>> THEN EmptyText
  ELSE CASE p.type = "slip10"  -> FormatLevels(p.levels)
         [] p.type = "bip32" \/ HasFixedPrefix(p.type) ->
              FormatLevels(ShortcutLevels(p))
         [] OTHER              -> EmptyText

-----------------------------------------------------------------------------
(* The parser as a function: what parse_path stores for an accepted text *)

ParsedPath(t, text) == RebuildLevels(Fill(t, TextLevels(text)))

\* A path that was given no levels, with every shortcut at zero, or exactly what
\* the parser makes of its own str().
Sound(p) ==
  \/ p = EmptyPath(p.type)
  \/ Accepts(p.type, Str(p)) /\ p = ParsedPath(p.type, Str(p))

Path == [type : DerivationTypes \cup {NoType}, coin : Uint32,
         account : Uint32, charge : Uint32, index : Level,
         hasIndex : BOOLEAN, levels : Seq(Level)]

=============================================================================
