------------------------------ MODULE NssText ------------------------------
(***************************************************************************)
(* The texts the library reads and writes outside derivation paths: the    *)
(* arguments of setters, and the namespace-specific string (NSS) of a URN  *)
(* as the sequence of tokens between its colons.  Of a token only what the *)
(* code tests is kept: its case-folded word, and what was done to it.      *)
(***************************************************************************)
EXTENDS PathGrammar

CONSTANT Words   \* the case-folded words that tokens are made of

\* The component keys of nss_parser.hpp.
Keys == {"nt", "ci", "ct", "dt", "dp", "aa", "af", "ap", "as", "wt", "wi"}

\* A decimal or 0x-prefixed number has the word "decimal" or "hex", a path the
\* word "path"; their contents are num and path.
ASSUME WordsAssumption ==
  {"", "decimal", "hex", "path"} \cup Keys \cup DerivationTypes \subseteq Words

\* upper: has an uppercase letter.  space: whitespace follows it (around it, for
\* the argument of a setter).  byte: a byte other than those of nss_byte is in
\* it: the separator ':', one of '?' and '#', or any other.
Token == [word : Words, num : Nat, path : Text, upper : BOOLEAN,
          space : BOOLEAN, byte : {"none", "colon", "rqf", "other"}]

\* Tokens of texts: one without a word has nothing else, and a path has a text.
ProperToken ==
  {t \in Token :
     /\ t.word = "" => t.num = 0 /\ t.path = EmptyText /\ ~ t.upper
     /\ t.word = "path" => t.path # EmptyText}

Plain(w) == [word |-> w, num |-> 0, path |-> EmptyText, upper |-> FALSE,
             space |-> FALSE, byte |-> "none"]

Nothing == Plain("")

Number(n) == [Plain("decimal") EXCEPT !.num = n]

PathToken(text) ==
  IF text = EmptyText THEN Nothing ELSE [Plain("path") EXCEPT !.path = text]

\* What the path parser makes of a token: no path, a path, or something else.
PathOf(t) ==
  IF t.word = "path" /\ t.byte = "none" THEN t.path
  ELSE IF t = Nothing THEN EmptyText
  ELSE [EmptyText EXCEPT !.head = "other"]

-----------------------------------------------------------------------------
(* detail.hpp *)

IsEmpty(t) == t.word = "" /\ t.byte = "none"

Trim(t) == [t EXCEPT !.space = FALSE]

\* In a path, lowercasing reaches the head and the hardening markers.
LowerText(text) ==
  [head |-> IF text.head = "M" THEN "m" ELSE text.head,
   segs |-> [i \in DOMAIN text.segs |->
               [text.segs[i] EXCEPT !.mark = IF @ = "H" THEN "h" ELSE @]]]

Lower(t) == [t EXCEPT !.upper = FALSE, !.path = LowerText(@)]

Normalize(t) == Lower(Trim(t))

\* Every byte of the token may stand in an NSS.
NssBytes(t) == ~ t.space /\ t.byte = "none"

\* What a field written verbatim may hold: nothing, or a text that is one token
\* of the NSS.
Storable(t) == t = Nothing \/ (NssBytes(t) /\ t.word # "")

\* parse_uint32: the number is plain decimal or hex and fits 32 bits.
IsUint32(t) ==
  NssBytes(t) /\ t.word \in {"decimal", "hex"} /\ t.num \in Uint32

\* The canonical spelling of an enum value in names.
IsName(t, names) == t.word \in names /\ t = Plain(t.word)

-----------------------------------------------------------------------------
(* NSS: the sequence of its tokens, <<>> for the empty text *)

TrimEnd(parts) ==
  IF Len(parts) = 1 /\ Trim(parts[1]) = Nothing THEN <<>>
  ELSE [i \in DOMAIN parts |->
          IF i = Len(parts) THEN Trim(parts[i]) ELSE parts[i]]

\* Everything from the first '?' or '#' on is cut off.
StripRqf(parts) ==
  LET cuts == {i \in DOMAIN parts : parts[i].byte = "rqf"}
  IN IF cuts = {} THEN parts
     ELSE LET cut == CHOOSE i \in cuts : \A j \in cuts : i <= j
          IN [SubSeq(parts, 1, cut) EXCEPT ![cut].byte = "none"]

\* key:value as it is written into a longer text: a ':' inside the value ends
\* it, and what follows becomes a token of its own.
Field(key, value) ==
  IF value.byte = "colon"
    THEN <<Plain(key), [value EXCEPT !.byte = "none"], Plain("x")>>
    ELSE <<Plain(key), value>>

-----------------------------------------------------------------------------
(* parse_nss_map *)

Pairs(parts) == 1 .. Len(parts) \div 2
KeyAt(parts, i) == parts[2 * i - 1]
ValueAt(parts, i) == parts[2 * i]

Known(key) == IsName(key, Keys)

\* Mutants: a repeated key is taken once; a key in the wrong case is unknown.
NssOkDuplicates(parts) ==
  /\ \A i \in DOMAIN parts : parts[i].word # "" /\ NssBytes(parts[i])
  /\ Len(parts) % 2 = 0
  /\ \A i \in Pairs(parts) :
       KeyAt(parts, i).word \in Keys => Known(KeyAt(parts, i))

NssOkAnyCase(parts) ==
  /\ \A i \in DOMAIN parts : parts[i].word # "" /\ NssBytes(parts[i])
  /\ Len(parts) % 2 = 0
  /\ \A i, j \in Pairs(parts) :
       (Known(KeyAt(parts, i)) /\ KeyAt(parts, i) = KeyAt(parts, j)) => i = j

\* An unknown key is skipped with its value, but both must still be clean.
NssOk(parts) ==
  /\ \A i \in DOMAIN parts : parts[i].word # "" /\ NssBytes(parts[i])
  /\ Len(parts) % 2 = 0
  /\ \A i \in Pairs(parts) :
       KeyAt(parts, i).word \in Keys => Known(KeyAt(parts, i))
  /\ \A i, j \in Pairs(parts) :
       (Known(KeyAt(parts, i)) /\ KeyAt(parts, i) = KeyAt(parts, j)) => i = j

\* The map from the known keys of an accepted NSS to their values.
Components(parts) ==
  LET known == {i \in Pairs(parts) : Known(KeyAt(parts, i))}
  IN [k \in {KeyAt(parts, i).word : i \in known} |->
        ValueAt(parts, CHOOSE i \in known : KeyAt(parts, i).word = k)]

Get(components, k) ==
  IF k \in DOMAIN components THEN components[k] ELSE Nothing

=============================================================================
