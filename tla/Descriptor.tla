----------------------------- MODULE Descriptor -----------------------------
(***************************************************************************)
(* What an address promises its callers: a set of named components.  An    *)
(* edit changes the component it is named for, or type and path together;  *)
(* a parser brings a whole descriptor or none; a call that fails brings    *)
(* nothing.                                                                *)
(***************************************************************************)
VARIABLES
  doc,      \* the components that are set: pairs of a name and a value
  last      \* "none", "built", "read", "refused", or the name of an edit

docVars == <<doc, last>>

\* Edits are named for their component; one may give a type, with or without a
\* path, and the old path goes with the old type.
Edits == {"nt", "ci", "ct", "derivation", "dp", "aa", "af", "ap", "as", "wt", "wi"}

Named(edit) == IF edit = "derivation" THEN {"dt", "dp"} ELSE {edit}

Names(d) == {component[1] : component \in d}

Changed == Names((doc \ doc') \cup (doc' \ doc))

\* A path without its type would name another key.
Coherent(d) == "dp" \in Names(d) => "dt" \in Names(d)

Whole(d) ==
  /\ {"nt", "ci"} \subseteq Names(d)
  /\ "dt" \in Names(d) <=> "dp" \in Names(d)

Init == doc = {} /\ last = "none"

\* Built of a chain and a path, without wallet metadata.
Build ==
  /\ last' = "built"
  /\ Coherent(doc')
  /\ Names(doc') \cap {"wt", "wi"} = {}

Edit(edit) ==
  /\ last' = edit
  /\ Coherent(doc')
  /\ Changed \subseteq Named(edit)

Read == last' = "read" /\ Whole(doc')

Refuse == last' = "refused" /\ doc' = doc

Next == Build \/ (\E edit \in Edits : Edit(edit)) \/ Read \/ Refuse

Spec == Init /\ [][Next]_docVars

=============================================================================
