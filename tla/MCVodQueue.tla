------------------------------ MODULE MCVodQueue ------------------------------
(* Small instances of the VOD queue for TLC. *)
EXTENDS VodQueue
=============================================================================
