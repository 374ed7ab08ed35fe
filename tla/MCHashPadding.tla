--------------------------- MODULE MCHashPadding ---------------------------
(* Instance of HashPadding for TLC: every size up to three blocks and a bit. *)
EXTENDS HashPadding

SizesArg == 0 .. 200 \cup {247, 248, 255, 256}

=============================================================================
