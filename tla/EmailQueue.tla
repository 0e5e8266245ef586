------------------------------ MODULE EmailQueue ------------------------------
(***************************************************************************)
(* The durable send queue of the email sender: rows of email_sends, claimed*)
(* in batches by EmailWorker.tick, handed to the SMTP transport one by one *)
(* and marked sent, or failed with a backoff                               *)
(* (services/email/src/queue.ts, services/server/src/db.ts).               *)
(*                                                                         *)
(* The interval does not wait for a tick to end, and every process that    *)
(* shares the database polls it, so ticks overlap.  The UPDATE that claims *)
(* a batch is one atomic step in SQLite.  In Postgres the sub-select of    *)
(* the batch reads the statement's snapshot, and a row another statement   *)
(* updated since is updated again: only its id is re-checked.              *)
(***************************************************************************)
EXTENDS Integers, FiniteSets

CONSTANTS
  Sends,       \* the sends of the run, numbered in the order of created_at
  Ticks,       \* the polls that may overlap
  Batch,       \* EMAIL_BATCH_SIZE
  MaxAttempts, \* EMAIL_MAX_ATTEMPTS, the max_attempts of every row
  Sqlite,      \* TRUE: SqliteDb; FALSE: PostgresDb over a pool
  DbFaults,    \* whether a status update may throw
  MaxStops     \* bound: how often the process is stopped

ASSUME QueueAssumption ==
  /\ Sends \subseteq Nat /\ IsFiniteSet(Sends)
  /\ Batch \in Nat \ {0} /\ MaxAttempts \in Nat \ {0} /\ MaxStops \in Nat
  /\ Sqlite \in BOOLEAN /\ DbFaults \in BOOLEAN

VARIABLES
  row,     \* email_sends: the status, the attempts and whether a retry is due
  phase,   \* where each tick is
  todo,    \* the claimed rows a tick has not reached
  cur,     \* the row a tick delivers
  seen,    \* row.attempts as each tick's claim returned it
  copies,  \* history: copies of each send the mail server has taken
  up,      \* the email sender runs
  stops

tickVars == <<phase, todo, cur, seen>>
queueVars == <<row, phase, todo, cur, seen, copies, up, stops>>

Statuses == {"absent", "queued", "sending", "sent", "failed"}
Row == [status: Statuses, attempts: Nat, retry: {"none", "later", "due"}]
NewRow == [status |-> "queued", attempts |-> 0, retry |-> "none"]
NoSend == -1

TypeOK ==
  /\ row \in [Sends -> Row]
  /\ phase \in [Ticks -> {"idle", "selected", "next", "accepted", "refused"}]
  /\ todo \in [Ticks -> SUBSET Sends]
  /\ cur \in [Ticks -> Sends \cup {NoSend}]
  /\ \A t \in Ticks : phase[t] \in {"accepted", "refused"} => cur[t] \in Sends
  /\ seen \in [Ticks -> [Sends -> Nat]]
  /\ copies \in [Sends -> Nat]
  /\ up \in BOOLEAN /\ stops \in 0..MaxStops

QueueInit ==
  /\ row = [s \in Sends |-> [NewRow EXCEPT !.status = "absent"]]
  /\ phase = [t \in Ticks |-> "idle"]
  /\ todo = [t \in Ticks |-> {}]
  /\ cur = [t \in Ticks |-> NoSend]
  /\ seen = [t \in Ticks |-> [s \in Sends |-> 0]]
  /\ copies = [s \in Sends |-> 0]
  /\ up = TRUE /\ stops = 0

\* The row a tick works on and those it has yet to reach.
Held(t) ==
  CASE phase[t] = "next" -> todo[t]
    [] phase[t] \in {"accepted", "refused"} -> todo[t] \cup {cur[t]}
    [] OTHER -> {}
-----------------------------------------------------------------------------
\* enqueueEmailSend of the next send.
Enqueue(s) ==
  /\ row[s].status = "absent"
  /\ \A e \in Sends : e < s => row[e].status # "absent"
  /\ row' = [row EXCEPT ![s] = NewRow]
  /\ UNCHANGED <<tickVars, copies, up, stops>>

\* Mutant of Eligible: a row in delivery is eligible again.
Eligible_InFlight(s) ==
  \/ row[s].status \in {"queued", "sending"}
  \/ row[s].status = "failed" /\ row[s].attempts < MaxAttempts /\ row[s].retry = "due"

Eligible(s) ==
  \/ row[s].status = "queued"
  \/ row[s].status = "failed" /\ row[s].attempts < MaxAttempts /\ row[s].retry = "due"

\* ORDER BY created_at ASC LIMIT Batch.
Oldest(S, limit) == {s \in S : Cardinality({e \in S : e < s}) < limit}

\* The UPDATE ... RETURNING of a batch.
Reserve(t, S) ==
  /\ row' = [s \in Sends |-> IF s \in S THEN [row[s] EXCEPT !.status = "sending"] ELSE row[s]]
  /\ seen' = [seen EXCEPT ![t] = [s \in Sends |-> IF s \in S THEN row[s].attempts ELSE 0]]
  /\ todo' = [todo EXCEPT ![t] = S]
  /\ phase' = [phase EXCEPT ![t] = "next"]
  /\ UNCHANGED <<cur, copies, up, stops>>

\* The oldest eligible rows: reserved at once, or read from the snapshot.
ClaimBatch(t) ==
  LET batch == Oldest({s \in Sends : Eligible(s)}, Batch)
  IN /\ phase[t] = "idle" /\ batch # {}
     /\ IF Sqlite
        THEN Reserve(t, batch)
        ELSE /\ phase' = [phase EXCEPT ![t] = "selected"]
             /\ todo' = [todo EXCEPT ![t] = batch]
             /\ UNCHANGED <<row, cur, seen, copies, up, stops>>

\* The rows of the snapshot, updated as they are now.
ClaimSelected(t) == phase[t] = "selected" /\ Reserve(t, todo[t])

Claim(t) == up /\ (ClaimBatch(t) \/ ClaimSelected(t))

\* transport.send: taken or not, and an error even of a copy that was taken.
Deliver(t) ==
  /\ phase[t] = "next"
  /\ \E s \in todo[t], taken \in BOOLEAN, ok \in BOOLEAN :
       /\ ok => taken
       /\ copies' = [copies EXCEPT ![s] = IF taken THEN @ + 1 ELSE @]
       /\ cur' = [cur EXCEPT ![t] = s]
       /\ todo' = [todo EXCEPT ![t] = @ \ {s}]
       /\ phase' = [phase EXCEPT ![t] = IF ok THEN "accepted" ELSE "refused"]
  /\ UNCHANGED <<row, seen, up, stops>>

\* markEmailSent; when it throws, the copy that was sent counts as a failure.
MarkSent(t) ==
  /\ phase[t] = "accepted"
  /\ \/ /\ row' = [row EXCEPT ![cur[t]] = [@ EXCEPT !.status = "sent"]]
        /\ phase' = [phase EXCEPT ![t] = "next"]
     \/ /\ DbFaults
        /\ phase' = [phase EXCEPT ![t] = "refused"]
        /\ UNCHANGED row
  /\ UNCHANGED <<todo, cur, seen, copies, up, stops>>

\* Mutant of Failed: a failure does not count.
Failed_NotCounted(attempts) == [status |-> "failed", attempts |-> attempts - 1, retry |-> "later"]

\* Mutant of Failed: a failed row goes back to the head of the queue.
Failed_Requeues(attempts) ==
  [status |-> "queued", attempts |-> attempts, retry |-> "none"]

\* The row of markEmailFailed: a backoff while attempts are left.
Failed(attempts) ==
  [status |-> "failed", attempts |-> attempts,
   retry |-> IF attempts < MaxAttempts THEN "later" ELSE "none"]

\* When markEmailFailed throws, tick rejects and drops the rest of its batch.
MarkFailed(t) ==
  /\ phase[t] = "refused"
  /\ \/ /\ row' = [row EXCEPT ![cur[t]] = Failed(seen[t][cur[t]] + 1)]
        /\ phase' = [phase EXCEPT ![t] = "next"]
        /\ UNCHANGED todo
     \/ /\ DbFaults
        /\ phase' = [phase EXCEPT ![t] = "idle"]
        /\ todo' = [todo EXCEPT ![t] = {}]
        /\ UNCHANGED row
  /\ UNCHANGED <<cur, seen, copies, up, stops>>

End(t) ==
  /\ phase[t] = "next" /\ todo[t] = {}
  /\ phase' = [phase EXCEPT ![t] = "idle"]
  /\ UNCHANGED <<row, todo, cur, seen, copies, up, stops>>

\* next_attempt_at is reached.
Elapse(s) ==
  /\ row[s].retry = "later"
  /\ row' = [row EXCEPT ![s] = [@ EXCEPT !.retry = "due"]]
  /\ UNCHANGED <<tickVars, copies, up, stops>>

\* SIGTERM, a deploy or a crash: no handler is installed, the ticks are gone.
Stop ==
  /\ up /\ stops < MaxStops
  /\ up' = FALSE /\ stops' = stops + 1
  /\ phase' = [t \in Ticks |-> "idle"]
  /\ todo' = [t \in Ticks |-> {}]
  /\ UNCHANGED <<row, cur, seen, copies>>

Start == ~up /\ up' = TRUE /\ UNCHANGED <<row, tickVars, copies, stops>>

TickStep(t) ==
  Claim(t) \/ Deliver(t) \/ MarkSent(t) \/ MarkFailed(t) \/ End(t)

QueueStep == (\E t \in Ticks : TickStep(t)) \/ (\E s \in Sends : Elapse(s))

Next == (\E s \in Sends : up /\ Enqueue(s)) \/ QueueStep \/ Stop \/ Start

Spec == QueueInit /\ [][Next]_queueVars
-----------------------------------------------------------------------------
\* No two ticks hold the same row (queue.ts:32-33: "safe to call concurrently"):
\* what keeps an email from being sent once per overlapping poll.
OneClaimer ==
  \A t1, t2 \in Ticks : t1 # t2 => Held(t1) \cap Held(t2) = {}

\* An inbox gets at most MaxAttempts copies of a send, however often the status
\* update fails after the copy was taken, or the process is stopped.
CopiesBounded == \A s \in Sends : copies[s] <= MaxAttempts

\* A row says sent only when the mail server has taken a copy.
SentWasTaken == \A s \in Sends : row[s].status = "sent" => copies[s] > 0

\* The queue is an implementation of the life of a send: the status, the
\* attempts and the copies of the rows only move as SendLifecycle moves them.
Lifecycle == INSTANCE SendLifecycle WITH
  status <- [s \in Sends |-> row[s].status],
  attempts <- [s \in Sends |-> row[s].attempts]
ImplementsLifecycle == Lifecycle!Spec

\* While the process is not stopped and the database answers, every queued send
\* is sent, or has failed MaxAttempts times.
Settled(s) ==
  \/ row[s].status = "sent"
  \/ row[s].status = "failed" /\ row[s].attempts = MaxAttempts
=============================================================================
