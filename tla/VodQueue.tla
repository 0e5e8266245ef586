-------------------------------- MODULE VodQueue --------------------------------
(***************************************************************************)
(* The durable queue of VOD jobs: submitted, drained by the worker, claimed*)
(* and run through extraction, analysis and finalization with a checkpoint *)
(* of the decided windows; retried after a transient failure, resumed by   *)
(* hand, stopped by its owner, and recovered at boot                       *)
(* (services/server/src/api.ts, vod-resume.ts).                            *)
(*                                                                         *)
(* Every await of a pass and of a request is a step boundary.  The job row *)
(* is written through to SQLite in the step that changes it, so a crash    *)
(* loses the memory of the process and no row.                             *)
(***************************************************************************)
EXTENDS Integers, FiniteSets

CONSTANTS
  Jobs,        \* the VOD jobs of the run, numbered in the order of createdAt
  Concurrency, \* VOD_WORKER_CONCURRENCY
  MaxRetries,  \* VOD_RESUME_MAX_ATTEMPTS
  Windows,     \* decide windows of a video
  Every,       \* VOD_RESUME_CHECKPOINT_WINDOWS
  MaxEvents    \* bound: crashes, stop and resume requests of the run together

ASSUME VodAssumption ==
  /\ Jobs \subseteq Nat /\ IsFiniteSet(Jobs)
  /\ {Concurrency, Every} \subseteq Nat \ {0}
  /\ {MaxRetries, Windows, MaxEvents} \subseteq Nat

VARIABLES
  row,        \* the job records
  pass,       \* where the pass of each job is, and the windows it has decided
  processing, \* vodProcessing
  stops,      \* vodStops
  stopping,   \* the jobs whose stop request has signalled and not settled yet
  kick,       \* the jobs an enqueueVodJob is about to be called for
  timer,      \* the jobs with a scheduled resume drain
  boot,       \* what recoverStaleVodJobs has yet to do
  crashes,
  requests,   \* stop and resume requests made
  decided,    \* history: the decide windows billed for each job
  retries     \* history: the automatic retries of each job

vars == <<row, pass, processing, stops, stopping, kick, timer, boot,
          crashes, requests, decided, retries>>

Passing == {"extracting", "analyzing", "finalizing"}
Terminal == {"done", "failed", "cancelled"}

\* ended and open count the entries of resume.attempts with and without endedAt.
Row ==
  [status: {"absent", "queued"} \cup Passing \cup Terminal,
   retry: {"none", "later", "due"}, claims: Nat, total: Nat, ended: Nat, open: Nat,
   cursor: 0..Windows]

Pass ==
  [at: {"idle", "starting", "claiming", "extract", "analyze", "probe", "finalize", "exit"},
   cursor: 0..Windows, fresh: 0..Windows]

TypeOK ==
  /\ row \in [Jobs -> Row] /\ pass \in [Jobs -> Pass]
  /\ \A S \in {processing, stops, stopping, kick, timer} : S \subseteq Jobs
  /\ boot.queued \subseteq Jobs /\ boot.stale \subseteq Jobs /\ boot.drain \in BOOLEAN
  /\ crashes \in Nat /\ requests \in Nat /\ crashes + requests <= MaxEvents
  /\ decided \in [Jobs -> Nat] /\ retries \in [Jobs -> Nat]

NoPass == [at |-> "idle", cursor |-> 0, fresh |-> 0]
Booted == [queued |-> {}, stale |-> {}, drain |-> FALSE]
NewRow == [status |-> "queued", retry |-> "none", claims |-> 0, total |-> 0,
           ended |-> 0, open |-> 0, cursor |-> 0]

Init ==
  /\ row = [j \in Jobs |-> [NewRow EXCEPT !.status = "absent"]]
  /\ pass = [j \in Jobs |-> NoPass]
  /\ processing = {} /\ stops = {} /\ stopping = {} /\ kick = {} /\ timer = {}
  /\ boot = Booted
  /\ crashes = 0 /\ requests = 0
  /\ decided = [j \in Jobs |-> 0] /\ retries = [j \in Jobs |-> 0]

Event == crashes + requests < MaxEvents
Larger(a, b) == IF a < b THEN b ELSE a
history == <<crashes, requests, decided, retries>>
-----------------------------------------------------------------------------
(***************************************************************************)
(* The drain.                                                              *)
(***************************************************************************)

\* Mutant of Claimable: the drain does not skip a job whose retry is not due.
Claimable_NotDue(j, busy) ==
  row[j].status = "queued" /\ j \notin busy /\ j \notin stops

Claimable(j, busy) ==
  /\ row[j].status = "queued" /\ row[j].retry # "later"
  /\ j \notin busy /\ j \notin stops

\* The oldest Concurrency jobs that may run and do not, whatever runs already.
Drain(busy) ==
  LET ready == {j \in Jobs : Claimable(j, busy)}
      batch == {j \in ready : Cardinality({i \in ready : i < j}) < Concurrency}
  IN /\ processing' = busy \cup batch
     /\ pass' = [j \in Jobs |-> IF j \in batch THEN [NoPass EXCEPT !.at = "starting"]
                                ELSE IF j \in busy THEN pass[j] ELSE NoPass]

\* POST /jobs creates the row; enqueueVodJob follows after an await.
Submit(j) ==
  /\ row[j].status = "absent"
  /\ \A i \in Jobs : i < j => row[i].status # "absent"
  /\ row' = [row EXCEPT ![j] = NewRow]
  /\ kick' = kick \cup {j}
  /\ UNCHANGED <<pass, processing, stops, stopping, timer, boot, history>>

EnqueueVodJob(j) ==
  /\ j \in kick /\ kick' = kick \ {j}
  /\ Drain(processing)
  /\ UNCHANGED <<row, stops, stopping, timer, boot, history>>

\* nextAttemptAt is reached, and the timer set for it fires after that.
Elapse(j) ==
  /\ row[j].retry = "later"
  /\ row' = [row EXCEPT ![j].retry = "due"]
  /\ UNCHANGED <<pass, processing, stops, stopping, kick, timer, boot, history>>

TimerFires(j) ==
  /\ j \in timer /\ row[j].retry # "later"
  /\ timer' = timer \ {j}
  /\ Drain(processing)
  /\ UNCHANGED <<row, stops, stopping, kick, boot, history>>
-----------------------------------------------------------------------------
(***************************************************************************)
(* The pass.                                                               *)
(***************************************************************************)

Goto(j, at) == pass' = [pass EXCEPT ![j].at = at]
passRest == <<processing, stops, stopping, kick, boot, history>>

\* markJobCancelled.
Cancelled(r) ==
  IF r.status \in {"done", "failed"} THEN r
  ELSE [r EXCEPT !.status = "cancelled", !.retry = "none"]

\* A stopped pass throws VodCancelledError at its next check.
Unwind(j) ==
  /\ row' = [row EXCEPT ![j] = Cancelled(@)]
  /\ Goto(j, "exit")
  /\ UNCHANGED <<timer, passRest>>

\* runVodJob up to its check; what it awaits next lies before the claim.
StartPass(j) ==
  /\ pass[j].at = "starting"
  /\ IF j \in stops \/ row[j].status \in Terminal
     THEN Unwind(j)
     ELSE Goto(j, "claiming") /\ UNCHANGED <<row, timer, passRest>>

\* The claim and the first checkpoint in one patch, whatever the status is now.
Claim(j) ==
  /\ pass[j].at = "claiming"
  /\ row' = [row EXCEPT ![j] = [@ EXCEPT !.status = "extracting", !.retry = "none",
               !.claims = row[j].claims + 1, !.total = row[j].claims + 1,
               !.open = row[j].open + 1]]
  /\ pass' = [pass EXCEPT ![j] = [at |-> "extract", cursor |-> row[j].cursor, fresh |-> 0]]
  /\ UNCHANGED <<timer, passRest>>

Extracted(j) ==
  /\ pass[j].at = "extract"
  /\ IF j \in stops
     THEN Unwind(j)
     ELSE /\ row' = [row EXCEPT ![j].status = "analyzing"]
          /\ Goto(j, "analyze")
          /\ UNCHANGED <<timer, passRest>>

\* onDecidedWindow: every Every-th window of the attempt is checkpointed.
Decide(j) ==
  LET at == pass[j].cursor + 1
      fresh == pass[j].fresh + 1
  IN /\ pass[j].at = "analyze" /\ pass[j].cursor < Windows /\ j \notin stops
     /\ pass' = [pass EXCEPT ![j].cursor = at, ![j].fresh = fresh]
     /\ row' = [row EXCEPT ![j].cursor = IF fresh % Every = 0 THEN Larger(@, at) ELSE @]
     /\ decided' = [decided EXCEPT ![j] = @ + 1]
     /\ UNCHANGED <<processing, stops, stopping, kick, timer, boot,
                    crashes, requests, retries>>

\* The last check of the pass.
Analyzed(j) ==
  /\ pass[j].at = "analyze"
  /\ IF j \in stops
     THEN Unwind(j)
     ELSE /\ pass[j].cursor = Windows
          /\ Goto(j, "probe")
          /\ UNCHANGED <<row, timer, passRest>>

Finalizing(j) ==
  /\ pass[j].at = "probe"
  /\ row' = [row EXCEPT ![j].status = "finalizing"]
  /\ Goto(j, "finalize")
  /\ UNCHANGED <<timer, passRest>>

\* The last open attempt of the trail gets its endedAt.
Closed(r) == IF r.open = 0 THEN r ELSE [r EXCEPT !.ended = @ + 1, !.open = @ - 1]

\* Mutant of Done: the attempt stays open on the completed record.
Done_LeavesOpen(j) ==
  /\ pass[j].at = "finalize"
  /\ row' = [row EXCEPT ![j] = [@ EXCEPT !.status = "done", !.retry = "none", !.total = @,
               !.cursor = Larger(@, pass[j].cursor)]]
  /\ Goto(j, "exit")
  /\ UNCHANGED <<timer, passRest>>

Done(j) ==
  /\ pass[j].at = "finalize"
  /\ row' = [row EXCEPT ![j] = [Closed(@) EXCEPT !.status = "done", !.retry = "none",
               !.total = row[j].claims, !.cursor = Larger(row[j].cursor, pass[j].cursor)]]
  /\ Goto(j, "exit")
  /\ UNCHANGED <<timer, passRest>>

\* Mutant of Failure: the failed attempt is not closed on the trail.
Failure_LeavesOpen(j, status) ==
  [row[j] EXCEPT !.status = status, !.total = row[j].claims,
                 !.retry = IF status = "queued" THEN "later" ELSE @,
                 !.cursor = Larger(@, IF pass[j].fresh > 0 THEN pass[j].cursor ELSE 0)]

\* Mutant of Failure: the cursor of the attempt is the persisted one.
Failure_StaleCursor(j, status) ==
  [Closed(row[j]) EXCEPT !.status = status, !.total = row[j].claims,
                         !.retry = IF status = "queued" THEN "later" ELSE @]

\* The record of markJobFailed.  The cursor in memory covers the windows that
\* no checkpoint has reached.
Failure(j, status) ==
  [Closed(row[j]) EXCEPT !.status = status, !.total = row[j].claims,
                         !.retry = IF status = "queued" THEN "later" ELSE @,
                         !.cursor = Larger(@, IF pass[j].fresh > 0 THEN pass[j].cursor ELSE 0)]

\* A phase throws.  A stop makes it a cancellation; a resumable error is
\* retried while the attempts already closed are within the budget.
Fail(j) ==
  /\ pass[j].at \in {"extract", "analyze", "probe", "finalize"}
  /\ IF j \in stops
     THEN Unwind(j)
     ELSE \E resumable \in BOOLEAN :
            LET again == resumable /\ row[j].ended < MaxRetries
            IN /\ row' = [row EXCEPT ![j] = Failure(j, IF again THEN "queued" ELSE "failed")]
               /\ timer' = IF again THEN timer \cup {j} ELSE timer
               /\ retries' = IF again THEN [retries EXCEPT ![j] = @ + 1] ELSE retries
               /\ Goto(j, "exit")
               /\ UNCHANGED <<processing, stops, stopping, kick, boot,
                              crashes, requests, decided>>

Exit(j) ==
  /\ pass[j].at = "exit"
  /\ Drain(processing \ {j})
  /\ UNCHANGED <<row, stops, stopping, kick, timer, boot, history>>

PassStep(j) ==
  \/ StartPass(j) \/ Claim(j) \/ Extracted(j) \/ Decide(j) \/ Analyzed(j)
  \/ Finalizing(j) \/ Done(j) \/ Fail(j) \/ Exit(j)
-----------------------------------------------------------------------------
(***************************************************************************)
(* The stop and resume routes, and the boot.                               *)
(***************************************************************************)

\* POST /jobs/:id/stop signals the pass, awaits the release of its session ...
StopSignal(j) ==
  /\ Event /\ requests' = requests + 1
  /\ row[j].status \in {"queued"} \cup Passing
  /\ stops' = stops \cup {j} /\ stopping' = stopping \cup {j}
  /\ UNCHANGED <<row, pass, processing, kick, timer, boot, crashes, decided, retries>>

\* ... and makes the row terminal before it answers.
StopSettle(j) ==
  /\ j \in stopping /\ stopping' = stopping \ {j}
  /\ row' = [row EXCEPT ![j] = Cancelled(@)]
  /\ UNCHANGED <<pass, processing, stops, kick, timer, boot, history>>

\* armVodResume of a row that is neither queued, done nor cancelled.
Armed(r) ==
  [Closed(r) EXCEPT !.status = "queued", !.retry = "none",
                    !.total = Larger(r.total, r.ended + r.open) + 1]

\* POST /jobs/:id/resume of a failed job.
Resume(j) ==
  /\ Event /\ requests' = requests + 1
  /\ row[j].status = "failed"
  /\ row' = [row EXCEPT ![j] = Armed(@)]
  /\ kick' = kick \cup {j}
  /\ UNCHANGED <<pass, processing, stops, stopping, timer, boot,
                 crashes, decided, retries>>

\* The process dies and the next one reads the rows.
Restart ==
  /\ Event /\ crashes' = crashes + 1
  /\ pass' = [j \in Jobs |-> NoPass]
  /\ processing' = {} /\ stops' = {} /\ stopping' = {} /\ kick' = {} /\ timer' = {}
  /\ boot' = [queued |-> {j \in Jobs : row[j].status = "queued"},
              stale |-> {j \in Jobs : row[j].status \in Passing}, drain |-> TRUE]
  /\ UNCHANGED <<row, requests, decided, retries>>

\* Mutant of RecoverQueued: an armed retry gets no timer.
RecoverQueued_NoTimer(j) ==
  /\ j \in boot.queued /\ boot' = [boot EXCEPT !.queued = @ \ {j}]
  /\ UNCHANGED <<row, pass, processing, stops, stopping, kick, timer, history>>

\* A row queued at boot keeps its armed retry and gets a timer for it.
RecoverQueued(j) ==
  /\ j \in boot.queued /\ boot' = [boot EXCEPT !.queued = @ \ {j}]
  /\ timer' = IF row[j].retry = "later" THEN timer \cup {j} ELSE timer
  /\ UNCHANGED <<row, pass, processing, stops, stopping, kick, history>>

\* A row found in a pass is armed again, unless it was stopped since.
RecoverStale(j) ==
  /\ j \in boot.stale /\ boot' = [boot EXCEPT !.stale = @ \ {j}]
  /\ IF row[j].status \in Passing
     THEN row' = [row EXCEPT ![j] = Armed(@)] /\ kick' = kick \cup {j}
     ELSE UNCHANGED <<row, kick>>
  /\ UNCHANGED <<pass, processing, stops, stopping, timer, history>>

RecoverDrain ==
  /\ boot.drain /\ boot.queued = {} /\ boot.stale = {}
  /\ boot' = Booted
  /\ Drain(processing)
  /\ UNCHANGED <<row, stops, stopping, kick, timer, history>>

Recover == RecoverDrain \/ \E j \in Jobs : RecoverQueued(j) \/ RecoverStale(j)

Next ==
  \/ \E j \in Jobs :
       \/ Submit(j) \/ EnqueueVodJob(j) \/ Elapse(j) \/ TimerFires(j)
       \/ PassStep(j)
       \/ StopSignal(j) \/ StopSettle(j) \/ Resume(j)
  \/ Recover
  \/ Restart

Spec == Init /\ [][Next]_vars

\* The awaits of passes, requests and the boot are answered, and time passes.
Fairness ==
  /\ \A j \in Jobs :
       /\ WF_vars(PassStep(j)) /\ WF_vars(EnqueueVodJob(j)) /\ WF_vars(StopSettle(j))
       /\ WF_vars(Elapse(j)) /\ WF_vars(TimerFires(j))
  /\ WF_vars(Recover)

FairSpec == Spec /\ Fairness
-----------------------------------------------------------------------------
\* The attempt trail tells the truth through failures, crashes, resumes and
\* stops: one entry per claim, at most one of them open and none on a row no
\* pass holds, and totalAttempts is the number of claims (vod-resume.ts, AC9).
TrailMatchesClaims ==
  \A j \in Jobs :
    LET r == row[j] IN
    /\ r.claims = r.ended + r.open /\ r.open <= 1
    /\ r.status \in {"queued", "done", "failed"} => r.open = 0
    /\ r.status \in Passing \cup {"done", "failed"} => r.total = r.claims

\* No job is retried automatically more often than the budget, however crashes
\* and manual resumes mix with its failures.
RetryBudget == \A j \in Jobs : retries[j] <= MaxRetries

\* A decided window is paid for once: only a crash makes the next attempt
\* decide again, and at most the windows since the last checkpoint.
DecidesBounded == \A j \in Jobs : decided[j] <= Windows + crashes * (Every - 1)

\* No backoff is cut short: a drain started for another job, or by the boot,
\* never claims a job before its retry is due.
BackoffRespected ==
  \A j \in Jobs : row[j].retry = "later" => pass[j].at \in {"idle", "exit"}

\* A queued job always has something that will take it up: its timer while the
\* backoff runs, and a drain to come (of an enqueue, of the boot, of a running
\* pass) once it may run, unless its stop is settling.  A drain skipped, or a
\* timer lost at the boot, would leave it queued for good (drainVodQueue).
NoneStranded ==
  \A j \in Jobs : row[j].status = "queued" =>
    \/ j \in stopping \/ j \in timer
    \/ IF row[j].retry = "later" THEN j \in boot.queued
                                 ELSE boot.drain \/ kick # {} \/ processing # {}

\* No accepted job is stranded: a queued job comes to a terminal status,
\* whatever failures, stops, crashes and other jobs it meets.
JobSettles == \A j \in Jobs : row[j].status = "queued" ~> row[j].status \in Terminal

-----------------------------------------------------------------------------
(***************************************************************************)
(* What its comments say, and what the code does not keep.                 *)
(***************************************************************************)

\* "`cancelled` is terminal and operator-visible" (api.ts:2479): a stopped job
\* stays cancelled, never done or failed (vod-stop.test.ts:174-175).
CancelledIsFinal ==
  [][\A j \in Jobs : row[j].status = "cancelled" => row'[j].status = "cancelled"]_vars
=============================================================================
