---------------------------- MODULE MCMediaSessions ----------------------------
(* Small instances of the media sessions for TLC. *)
EXTENDS MediaSessions, TLC

Symmetry == Permutations(Sids) \cup Permutations(Posts)
=============================================================================
