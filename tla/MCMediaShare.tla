----------------------------- MODULE MCMediaShare -----------------------------
(* Small instances of the browser shares for TLC. *)
EXTENDS MediaShare, TLC

Symmetry == Permutations(Shares) \cup Permutations(Calls) \cup Permutations(Rows)
=============================================================================
