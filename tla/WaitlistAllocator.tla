-------------------------- MODULE WaitlistAllocator --------------------------
(***************************************************************************)
(* From a waitlist signup to its invitation: the hourly allocator of the   *)
(* email sender reads the admin's gate, claims the oldest signups by       *)
(* flipping them to `invited`, and enqueues one invite for each on the     *)
(* send queue of EmailQueue (services/email/src/allocator.ts); the server  *)
(* takes signups, sets the gate and invites an inbox by hand (api.ts),     *)
(* each in another process over the same database.                         *)
(***************************************************************************)
EXTENDS EmailQueue

CONSTANTS
  Signups,    \* the waitlist emails of the run, numbered in signup order
  Allocs,     \* the allocator polls that may overlap
  AllocBatch, \* EMAIL_ALLOCATOR_BATCH_SIZE
  MaxActs     \* bound: how often an admin sets the gate or invites by hand

ASSUME AllocatorAssumption ==
  /\ Signups \subseteq Nat /\ IsFiniteSet(Signups)
  /\ AllocBatch \in Nat \ {0} /\ MaxActs \in Nat

VARIABLES
  signup,   \* the waitlist: the status of each email
  open,     \* waitlist_gate.allocation_open
  aphase,   \* where each allocator poll is
  claimed,  \* the signups a poll has claimed and not yet enqueued an invite for
  byHand,   \* the signups an admin has flipped and not yet enqueued an invite for
  invite,   \* the signup whose invite each send carries, and who enqueued it
  missed,   \* history: the signups whose own insert or post failed, or that a
            \* stop took out of a poll's hands
  acts

waitVars == <<signup, open, aphase, claimed, byHand, invite, missed, acts>>
vars == <<queueVars, waitVars>>

NoInvite == [to |-> -1, by |-> "nobody"]

Init ==
  /\ QueueInit
  /\ signup = [p \in Signups |-> "absent"]
  /\ open = TRUE /\ acts = 0
  /\ aphase = [a \in Allocs |-> "idle"]
  /\ claimed = [a \in Allocs |-> {}] /\ byHand = {} /\ missed = {}
  /\ invite = [s \in Sends |-> NoInvite]
-----------------------------------------------------------------------------
\* addWaitlistEmail: an email already present is left as it is.
SignUp(p) ==
  /\ signup[p] = "absent"
  /\ \A q \in Signups : q < p => signup[q] # "absent"
  /\ signup' = [signup EXCEPT ![p] = "waitlisted"]
  /\ UNCHANGED <<queueVars, open, aphase, claimed, byHand, invite, missed, acts>>

SetGate ==
  /\ acts < MaxActs
  /\ open' = ~open /\ acts' = acts + 1
  /\ UNCHANGED <<queueVars, signup, aphase, claimed, byHand, invite, missed>>

\* The next send, of the invite of p.
EnqueueInvite(p, who) ==
  \E s \in Sends :
    /\ Enqueue(s)
    /\ invite' = [invite EXCEPT ![s] = [to |-> p, by |-> who]]

\* setWaitlistInvited, of any email and whatever its status, then the server
\* posts the invite to the sender: a lost or refused post is logged, no more.
AdminInvite(p) ==
  /\ acts < MaxActs /\ p \notin byHand
  /\ \A q \in Signups : q < p => signup[q] # "absent"
  /\ signup' = [signup EXCEPT ![p] = "invited"]
  /\ byHand' = byHand \cup {p} /\ missed' = missed \ {p} /\ acts' = acts + 1
  /\ UNCHANGED <<queueVars, open, aphase, claimed, invite>>

AdminPost(p) ==
  /\ p \in byHand /\ byHand' = byHand \ {p}
  /\ \/ up /\ EnqueueInvite(p, "admin") /\ UNCHANGED missed
     \/ (~up \/ DbFaults) /\ missed' = missed \cup {p} /\ UNCHANGED <<queueVars, invite>>
  /\ UNCHANGED <<signup, open, aphase, claimed, acts>>

\* tick: a closed gate ends it.
ReadGate(a) ==
  /\ up /\ aphase[a] = "idle" /\ open
  /\ \E p \in Signups : signup[p] = "waitlisted"
  /\ aphase' = [aphase EXCEPT ![a] = "open"]
  /\ UNCHANGED <<queueVars, signup, open, claimed, byHand, invite, missed, acts>>

\* Mutant of Flip: the claimed signups stay on the waitlist.
Flip_Forgotten(a, P) ==
  /\ claimed' = [claimed EXCEPT ![a] = P]
  /\ aphase' = [aphase EXCEPT ![a] = IF P = {} THEN "idle" ELSE "enqueue"]
  /\ UNCHANGED <<queueVars, signup, open, byHand, invite, missed, acts>>

\* The UPDATE ... RETURNING of claimWaitlistSignups.
Flip(a, P) ==
  /\ signup' = [p \in Signups |-> IF p \in P THEN "invited" ELSE signup[p]]
  /\ claimed' = [claimed EXCEPT ![a] = P]
  /\ aphase' = [aphase EXCEPT ![a] = IF P = {} THEN "idle" ELSE "enqueue"]
  /\ UNCHANGED <<queueVars, open, byHand, invite, missed, acts>>

ClaimSignups(a) ==
  LET batch == Oldest({p \in Signups : signup[p] = "waitlisted"}, AllocBatch)
  IN /\ aphase[a] = "open"
     /\ IF Sqlite
        THEN Flip(a, batch)
        ELSE /\ claimed' = [claimed EXCEPT ![a] = batch]
             /\ aphase' = [aphase EXCEPT ![a] = "selected"]
             /\ UNCHANGED <<queueVars, signup, open, byHand, invite, missed, acts>>

FlipSelected(a) == aphase[a] = "selected" /\ Flip(a, claimed[a])

\* Mutant of EnqueueClaimed: one failure ends the batch.
EnqueueClaimed_AbortsBatch(a) ==
  /\ aphase[a] = "enqueue"
  /\ \E p \in Oldest(claimed[a], 1) :
       \/ /\ EnqueueInvite(p, "allocator")
          /\ claimed' = [claimed EXCEPT ![a] = @ \ {p}]
          /\ UNCHANGED missed
       \/ /\ DbFaults
          /\ claimed' = [claimed EXCEPT ![a] = {}]
          /\ missed' = missed \cup {p}
          /\ UNCHANGED <<queueVars, invite>>
  /\ aphase' = [aphase EXCEPT ![a] = IF claimed'[a] = {} THEN "idle" ELSE @]
  /\ UNCHANGED <<signup, open, byHand, acts>>

\* enqueueOrLog, the oldest signup first: a failed insert is swallowed.
EnqueueClaimed(a) ==
  /\ aphase[a] = "enqueue"
  /\ \E p \in Oldest(claimed[a], 1) :
       /\ claimed' = [claimed EXCEPT ![a] = @ \ {p}]
       /\ \/ EnqueueInvite(p, "allocator") /\ UNCHANGED missed
          \/ DbFaults /\ missed' = missed \cup {p} /\ UNCHANGED <<queueVars, invite>>
  /\ aphase' = [aphase EXCEPT ![a] = IF claimed'[a] = {} THEN "idle" ELSE @]
  /\ UNCHANGED <<signup, open, byHand, acts>>

\* The signups that poll a has flipped and not yet enqueued an invite for.
InHand(a) == IF aphase[a] = "enqueue" THEN claimed[a] ELSE {}

\* The email sender stops: its polls and ticks are gone.
StopSender ==
  /\ Stop
  /\ aphase' = [a \in Allocs |-> "idle"] /\ claimed' = [a \in Allocs |-> {}]
  /\ missed' = missed \cup UNION {InHand(a) : a \in Allocs}
  /\ UNCHANGED <<signup, open, byHand, invite, acts>>

AllocStep(a) == ReadGate(a) \/ ClaimSignups(a) \/ FlipSelected(a) \/ EnqueueClaimed(a)

WaitNext ==
  \/ \E p \in Signups : SignUp(p) \/ AdminInvite(p) \/ AdminPost(p)
  \/ SetGate
  \/ \E a \in Allocs : AllocStep(a)
  \/ (QueueStep \/ Start) /\ UNCHANGED waitVars
  \/ StopSender

WaitSpec == Init /\ [][WaitNext]_vars

\* Polls fire as long as the process runs, the transport answers or times out,
\* a backoff passes and an admin's request is carried through.
WaitFairness ==
  /\ \A t \in Ticks : WF_vars(TickStep(t) /\ UNCHANGED waitVars)
  /\ \A s \in Sends : WF_vars(Elapse(s) /\ UNCHANGED waitVars)
  /\ \A a \in Allocs : WF_vars(AllocStep(a))
  /\ \A p \in Signups : WF_vars(AdminPost(p))

WaitFairSpec == WaitSpec /\ WaitFairness
-----------------------------------------------------------------------------
\* The invites of signup p that `who` has put on the queue.
Invites(p, who) == {s \in Sends : invite[s] = [to |-> p, by |-> who]}

\* db.ts:575-578: a signup is allocated exactly once, across polls, processes
\* and restarts: the allocator never puts two invites of one inbox on the queue.
AllocatedOnce == \A p \in Signups : Cardinality(Invites(p, "allocator")) <= 1

\* "One bad insert doesn't strand the rest of the batch": whatever inserts and
\* posts fail, whatever polls overlap and wherever the sender is stopped, an
\* invited email has an invite on the queue, is in the hands of who flipped it,
\* or was lost by its own failed insert or post or by a stop with it in hand,
\* and has not been invited again since.
InvitedIsQueued ==
  \A p \in Signups : signup[p] = "invited" =>
    \/ p \in byHand \/ \E a \in Allocs : p \in InHand(a)
    \/ \E s \in Sends : invite[s].to = p
    \/ p \in missed

\* A waitlisted email is invited by mail, or its send has used up its attempts,
\* as long as the gate is open in the end.
WaitlistedIsInvited ==
  \A p \in Signups :
    (signup[p] = "waitlisted" /\ [](open)) ~> (\E s \in Sends : invite[s].to = p /\ Settled(s))
=============================================================================
