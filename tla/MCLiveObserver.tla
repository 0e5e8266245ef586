---------------------------- MODULE MCLiveObserver ----------------------------
(* Small instances of the live observe pass for TLC. *)
EXTENDS LiveObserver
=============================================================================
