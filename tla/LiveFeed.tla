-------------------------------- MODULE LiveFeed --------------------------------
(***************************************************************************)
(* What a live observe pass promises of the highlights it publishes: they  *)
(* come in the order the windows were fired, each window at most once, and *)
(* none after the pass has finished.                                       *)
(***************************************************************************)
EXTENDS Integers, Sequences

VARIABLES
  published, \* the windows whose moment was accepted, numbered as fired
  closed     \* the pass has finished

Init == published = <<>> /\ closed = FALSE

Publish ==
  /\ ~closed
  /\ Len(published') = Len(published) + 1
  /\ LET w == published'[Len(published')]
     IN /\ published' = Append(published, w)
        /\ \A i \in DOMAIN published : published[i] < w
  /\ UNCHANGED closed

Close == closed' = TRUE /\ UNCHANGED published

Spec == Init /\ [][Publish \/ Close]_<<published, closed>>
=============================================================================
