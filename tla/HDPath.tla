------------------------------- MODULE HDPath -------------------------------
(***************************************************************************)
(* What a derivation_path promises its callers, without shortcuts, texts   *)
(* or intermediate states: a scheme and either no path or a path of that   *)
(* scheme.  It changes in one step, to a whole path, or to none when the   *)
(* scheme changes.                                                         *)
(***************************************************************************)
EXTENDS PathTemplates

VARIABLES
  type,     \* the scheme, "" while none was chosen
  levels    \* the path, <<>> for root and while there is none

absVars == <<type, levels>>

Init == type = "" /\ levels = <<>>

\* Construct, parse, or copy in a path of some scheme.
Assign ==
  /\ type' \in DerivationTypes
  /\ levels' \in Seq(Level)
  /\ ValidPath(type', levels')

\* The old path belongs to the old scheme and goes with it.
SwitchType == \E t \in DerivationTypes :
                /\ t # type
                /\ type' = t
                /\ levels' = <<>>

\* A fresh object takes the place of the old one.
Renew == type' = "" /\ levels' = <<>>

Next == Assign \/ SwitchType \/ Renew

Spec == Init /\ [][Next]_absVars

=============================================================================
