---------------------------- MODULE SendLifecycle ----------------------------
(***************************************************************************)
(* What the email sender promises of each queued send, whatever the number *)
(* of workers: queued -> sending -> sent | failed, a failed send is tried  *)
(* again until MaxAttempts attempts have failed, an attempt hands at most  *)
(* one copy to the mail server, and a send is `sent` only after a copy was *)
(* handed over (docs/INTEGRATIONS.md:106, services/server/src/db.ts:        *)
(* 604-612).  EmailQueue implements it.                                    *)
(***************************************************************************)
EXTENDS Integers

CONSTANTS Sends, MaxAttempts

VARIABLES status, attempts, copies

vars == <<status, attempts, copies>>

Init ==
  /\ status = [s \in Sends |-> "absent"]
  /\ attempts = [s \in Sends |-> 0]
  /\ copies = [s \in Sends |-> 0]

Enqueue(s) ==
  /\ status[s] = "absent"
  /\ status' = [status EXCEPT ![s] = "queued"]
  /\ UNCHANGED <<attempts, copies>>

\* A worker reserves some sends, each still owed an attempt.
Reserve(S) ==
  /\ \A s \in S : status[s] \in {"queued", "failed"} /\ attempts[s] < MaxAttempts
  /\ status' = [s \in Sends |-> IF s \in S THEN "sending" ELSE status[s]]
  /\ UNCHANGED <<attempts, copies>>

\* The mail server takes the copy of this attempt, whether it says so or not.
HandOver(s) ==
  /\ status[s] = "sending" /\ copies[s] <= attempts[s]
  /\ copies' = [copies EXCEPT ![s] = @ + 1]
  /\ UNCHANGED <<status, attempts>>

Accept(s) ==
  /\ status[s] = "sending" /\ copies[s] > 0
  /\ status' = [status EXCEPT ![s] = "sent"]
  /\ UNCHANGED <<attempts, copies>>

Refuse(s) ==
  /\ status[s] = "sending" /\ attempts[s] < MaxAttempts
  /\ status' = [status EXCEPT ![s] = "failed"]
  /\ attempts' = [attempts EXCEPT ![s] = @ + 1]
  /\ UNCHANGED copies

Next ==
  \/ \E s \in Sends : Enqueue(s) \/ HandOver(s) \/ Accept(s) \/ Refuse(s)
  \/ \E S \in SUBSET Sends : Reserve(S)

Spec == Init /\ [][Next]_vars
=============================================================================
