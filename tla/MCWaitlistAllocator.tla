-------------------------- MODULE MCWaitlistAllocator --------------------------
(* Small instances of the allocator over the send queue for TLC. *)
EXTENDS WaitlistAllocator
=============================================================================
