--------------------------- MODULE DecideAdmission ---------------------------
(***************************************************************************)
(* The admission gate in front of the paid decide runner                   *)
(* (packages/livepeer-session/src/index.ts, class LivepeerClient): a       *)
(* bounded number of requests in flight, one FIFO queue ordered by call,   *)
(* a pause window shared by every waiter after a 503, a single probe when  *)
(* the window has elapsed, a queue budget per call, and a ceiling that a   *)
(* background capacity probe may lower.                                    *)
(*                                                                         *)
(* The gate runs on one event loop: every action is the code that runs     *)
(* between two awaits (a call arriving, a response read to its end, a      *)
(* timer firing).  Absolute deadlines are kept as the time left until      *)
(* them; an overdue timer stays at 0 until the loop gets to it.            *)
(***************************************************************************)
EXTENDS Integers, Sequences, FiniteSets, SequencesExt

CONSTANTS
  Calls,        \* the decide() calls of the run, each made once
  Jobs,         \* the jobs that announce themselves with beginDecideJob()
  Funded,       \* fundedDecideCeiling, DECIDE_CONCURRENCY
  MaxAttempts,  \* decideMaxAttempts
  MaxWait,      \* decideQueueMaxWaitMs, in ticks
  BackoffBase,  \* decideBackoffBaseMs, in ticks
  BackoffMax,   \* DECIDE_BACKOFF_MAX_MS, in ticks
  MaxWindow,    \* bound: pauseWindow stops counting once the window is at its cap
  RefreshEvery, \* decideCapacityRefreshMs, in ticks
  Advertised    \* the capacities the discovery may answer with

ASSUME GateAssumption ==
  /\ IsFiniteSet(Calls)
  /\ Funded \in Nat \ {0}
  /\ MaxAttempts \in Nat \ {0}
  /\ MaxWait \in Nat
  /\ BackoffBase \in Nat \ {0}
  /\ BackoffMax \in Nat \ {0}
  /\ MaxWindow \in Nat \ {0}
  /\ RefreshEvery \in Nat
  /\ Advertised \subseteq Nat

\* The doublings of a backoff window are positive numbers (2^n is beyond the
\* arithmetic of the provers; TLC evaluates this one).
ASSUME DoublingAssumption == \A n \in 0..(MaxWindow + MaxAttempts) : 2^n \in Nat \ {0}

VARIABLES
  gate,      \* the private fields of LivepeerClient that decide admission
  call,      \* the local variables of every decideAdmitted() invocation
  nextSeq,   \* decideSeq
  capacity,  \* the capacity refresh: its single flight, its age, stallStreak
  dropped,   \* decideDroppedCount
  baseline,  \* decideBaseline.dropped
  begun      \* history: decideDroppedCount when each job began, NotBegun before

vars == <<gate, call, nextSeq, capacity, dropped, baseline, begun>>

NoTimer == -1
NotBegun == -1
TimeLeft == Nat
Lesser(a, b) == IF a < b THEN a ELSE b
Greater(a, b) == IF a > b THEN a ELSE b

Ended == {"served", "challenged", "error", "dropped"}

Gate ==
  [queue: Seq(Calls),             \* decideQueue
   slots: SUBSET Calls,           \* calls holding a grant not yet released
   probes: SUBSET Calls,          \* those whose grant has probe = true
   inFlight: Nat,                 \* inFlightDecides
   effective: 1..Funded,          \* effectiveDecideCeiling
   pauseOpen: BOOLEAN,
   pauseLeft: TimeLeft,           \* pausedUntil - now, 0 once elapsed
   pauseWindow: 0..MaxWindow,
   probeOutstanding: BOOLEAN,
   pumpTimer: TimeLeft \cup {NoTimer}]

Call ==
  [status: {"idle", "admitting", "backoff"} \cup Ended,
   seq: Nat,
   attempt: 0..(MaxAttempts - 1),
   deadline: TimeLeft,            \* queue budget left
   backoff: TimeLeft]             \* sleep left after a 404

Capacity ==
  [probing: BOOLEAN, refresh: TimeLeft, stallStreak: 0..2]

TypeOK ==
  /\ gate \in Gate
  /\ call \in [Calls -> Call]
  /\ nextSeq \in Nat
  /\ capacity \in Capacity
  /\ dropped \in Nat
  /\ baseline \in Nat
  /\ begun \in [Jobs -> Nat \cup {NotBegun}]

Init ==
  /\ gate = [queue |-> <<>>, slots |-> {}, probes |-> {}, inFlight |-> 0,
             effective |-> Funded, pauseOpen |-> FALSE, pauseLeft |-> 0,
             pauseWindow |-> 0, probeOutstanding |-> FALSE,
             pumpTimer |-> NoTimer]
  /\ call = [c \in Calls |-> [status |-> "idle", seq |-> 0, attempt |-> 0,
                              deadline |-> 0, backoff |-> 0]]
  /\ nextSeq = 0
  /\ capacity = [probing |-> FALSE, refresh |-> 0, stallStreak |-> 0]
  /\ dropped = 0
  /\ baseline = 0
  /\ begun = [j \in Jobs |-> NotBegun]

-----------------------------------------------------------------------------
(***************************************************************************)
(* The synchronous helpers of the gate, as functions from gate to gate.    *)
(***************************************************************************)

Queued(g) == ToSet(g.queue)

\* The slot is taken without queueing.
TakeSlot(g, c) ==
  [g EXCEPT !.slots = @ \cup {c}, !.inFlight = @ + 1]

\* Mutant of GrantProbe: the probe is not counted in flight.
GrantProbe_Uncounted(g) ==
  [g EXCEPT !.slots = @ \cup {Head(g.queue)},
            !.probes = @ \cup {Head(g.queue)},
            !.probeOutstanding = TRUE,
            !.queue = Tail(@)]

\* The head of the queue is granted the single probe of a paused gate.
GrantProbe(g) ==
  [g EXCEPT !.slots = @ \cup {Head(g.queue)},
            !.probes = @ \cup {Head(g.queue)},
            !.inFlight = @ + 1,
            !.probeOutstanding = TRUE,
            !.queue = Tail(@)]

\* The first n waiters are granted a slot each; an emptied queue needs no timer.
GrantFirst(g, n) ==
  [g EXCEPT !.slots = @ \cup ToSet(SubSeq(g.queue, 1, n)),
            !.inFlight = @ + n,
            !.queue = SubSeq(@, n + 1, Len(@)),
            !.pumpTimer = IF n = Len(g.queue) THEN NoTimer ELSE @]

Room(g) == Lesser(Len(g.queue), Greater(0, g.effective - g.inFlight))

\* Mutant of Pump: a probe is granted over requests admitted before the pause.
Pump_ProbesOverInFlight(g) ==
  CASE g.queue = <<>>    -> [g EXCEPT !.pumpTimer = NoTimer]
    [] g.queue # <<>> /\ g.pauseLeft > 0 ->
         [g EXCEPT !.pumpTimer = IF @ = NoTimer THEN g.pauseLeft ELSE @]
    [] g.queue # <<>> /\ g.pauseLeft = 0 /\ g.pauseOpen ->
         IF g.probeOutstanding THEN g ELSE GrantProbe(g)
    [] OTHER             -> GrantFirst(g, Room(g))

Pump(g) ==
  CASE g.queue = <<>>    -> [g EXCEPT !.pumpTimer = NoTimer]
    [] g.queue # <<>> /\ g.pauseLeft > 0 ->
         [g EXCEPT !.pumpTimer = IF @ = NoTimer THEN g.pauseLeft ELSE @]
    [] g.queue # <<>> /\ g.pauseLeft = 0 /\ g.pauseOpen ->
         IF g.probeOutstanding \/ g.inFlight > 0 THEN g ELSE GrantProbe(g)
    [] OTHER             -> GrantFirst(g, Room(g))

\* Mutant of Enqueue: a retry goes to the tail of the queue.
Enqueue_Tail(g, seqOf, c) == [g EXCEPT !.queue = Append(@, c)]

\* The place of a call in the queue: before every call with a later sequence.
Enqueue(g, seqOf, c) ==
  LET at == Cardinality({i \in 1..Len(g.queue) : seqOf[g.queue[i]] <= seqOf[c]})
  IN [g EXCEPT !.queue = InsertAt(@, at + 1, c)]

\* A waiter whose budget expired leaves the queue, wherever it stands.
Withdraw(g, c) ==
  LET at == CHOOSE i \in 1..Len(g.queue) : g.queue[i] = c
  IN [g EXCEPT !.queue = RemoveAt(@, at)]

FastPath(g) ==
  /\ g.queue = <<>>
  /\ ~g.pauseOpen
  /\ g.pauseLeft = 0
  /\ g.inFlight < g.effective

Acquire(g, seqOf, c) ==
  IF FastPath(g) THEN TakeSlot(g, c) ELSE Pump(Enqueue(g, seqOf, c))

\* The finally block of an attempt: the probe marker, then release().
ReleaseSlot(g, c) ==
  [g EXCEPT !.slots = @ \ {c},
            !.probes = @ \ {c},
            !.inFlight = IF @ > 0 THEN @ - 1 ELSE 0,
            !.probeOutstanding = IF c \in g.probes THEN FALSE ELSE @]

Release(g, c) == Pump(ReleaseSlot(g, c))

Backoff(n) == Lesser(BackoffBase * 2^n, BackoffMax)

\* Up to a quarter of the window is added as jitter.
OpenPauseWindow(g, jitter) ==
  [g EXCEPT !.pauseWindow = Lesser(@ + 1, MaxWindow),
            !.pauseLeft = Backoff(g.pauseWindow) + jitter,
            !.pauseOpen = TRUE,
            !.probeOutstanding = FALSE]

Jitter(g) == 0..(Backoff(g.pauseWindow) \div 4)

NoteDecideSucceeded(g) ==
  IF g.pauseOpen
  THEN [g EXCEPT !.pauseOpen = FALSE, !.probeOutstanding = FALSE,
                 !.pauseLeft = 0, !.pauseWindow = 0]
  ELSE g

NoteDecide503(g, jitter) ==
  IF ~g.pauseOpen \/ g.pauseLeft = 0
  THEN OpenPauseWindow(g, jitter)
  ELSE [g EXCEPT !.probeOutstanding = FALSE]

-----------------------------------------------------------------------------
(***************************************************************************)
(* The handlers.                                                           *)
(***************************************************************************)

\* An ended invocation: its remaining local deadlines are gone with it.
End(c, status) ==
  call' = [call EXCEPT ![c] = [@ EXCEPT !.status = status,
                                        !.deadline = 0, !.backoff = 0]]

CallSeq == [c \in Calls |-> call[c].seq]

\* A refresh starts unless one is in flight; the decide path asks for one only
\* when the last is RefreshEvery old, beginDecideJob always does.
StartRefresh == [capacity EXCEPT !.probing = TRUE, !.refresh = RefreshEvery]
RefreshIfDue ==
  capacity' = IF capacity.refresh = 0 /\ ~capacity.probing
              THEN StartRefresh ELSE capacity

BeginDecideJob(j) ==
  /\ begun[j] = NotBegun
  /\ begun' = [begun EXCEPT ![j] = dropped]
  /\ baseline' = dropped
  /\ capacity' = IF capacity.probing THEN capacity ELSE StartRefresh
  /\ UNCHANGED <<gate, call, nextSeq, dropped>>

Start(c) ==
  /\ call[c].status = "idle"
  /\ call' = [call EXCEPT ![c] = [@ EXCEPT !.status = "admitting",
                                           !.seq = nextSeq,
                                           !.deadline = MaxWait]]
  /\ nextSeq' = nextSeq + 1
  /\ gate' = Acquire(gate, [CallSeq EXCEPT ![c] = nextSeq], c)
  /\ RefreshIfDue
  /\ UNCHANGED <<dropped, baseline, begun>>

\* Any completed answer but 402, 503 and the routing 404s.
Served(c) ==
  /\ c \in gate.slots
  /\ gate' = Release(NoteDecideSucceeded(gate), c)
  /\ End(c, "served")
  /\ UNCHANGED <<nextSeq, capacity, dropped, baseline, begun>>

\* A 402 challenge or a network error is thrown to the caller; neither closes
\* the pause.
Thrown(c) ==
  /\ c \in gate.slots
  /\ gate' = Release(gate, c)
  /\ \E outcome \in {"challenged", "error"} : End(c, outcome)
  /\ UNCHANGED <<nextSeq, capacity, dropped, baseline, begun>>

LastAttempt(c) == call[c].attempt >= MaxAttempts - 1

\* 503: the slot is released and, while attempts are left, the same
\* synchronous section asks for the next one.
NoCapacityRetry(c) ==
  /\ c \in gate.slots
  /\ ~LastAttempt(c)
  /\ \E jitter \in Jitter(gate) :
       gate' = Acquire(Release(NoteDecide503(gate, jitter), c), CallSeq, c)
  /\ call' = [call EXCEPT ![c].attempt = @ + 1]
  /\ RefreshIfDue
  /\ UNCHANGED <<nextSeq, dropped, baseline, begun>>

NoCapacityGiveUp(c) ==
  /\ c \in gate.slots
  /\ LastAttempt(c)
  /\ \E jitter \in Jitter(gate) :
       gate' = Release(NoteDecide503(gate, jitter), c)
  /\ End(c, "dropped")
  /\ dropped' = dropped + 1
  /\ UNCHANGED <<nextSeq, capacity, baseline, begun>>

\* 404 runner / session not found: the slot is released, then the attempt
\* sleeps its own exponential backoff outside the gate.
NotFound(c) ==
  /\ c \in gate.slots
  /\ gate' = Release(gate, c)
  /\ IF LastAttempt(c)
     THEN End(c, "error")
     ELSE call' = [call EXCEPT ![c] =
                     [@ EXCEPT !.status = "backoff",
                               !.attempt = call[c].attempt + 1,
                               !.backoff = Backoff(call[c].attempt)]]
  /\ UNCHANGED <<nextSeq, capacity, dropped, baseline, begun>>

RetryNotFound(c) ==
  /\ call[c].status = "backoff"
  /\ call[c].backoff = 0
  /\ call' = [call EXCEPT ![c].status = "admitting"]
  /\ gate' = Acquire(gate, CallSeq, c)
  /\ RefreshIfDue
  /\ UNCHANGED <<nextSeq, dropped, baseline, begun>>

\* Mutant of QueueTimeout: the waiter leaves the queue and is never rejected.
QueueTimeout_Silent(c) ==
  /\ c \in Queued(gate)
  /\ call[c].deadline = 0
  /\ gate' = Pump(Withdraw(gate, c))
  /\ dropped' = dropped + 1
  /\ UNCHANGED <<call, nextSeq, capacity, baseline, begun>>

\* The queue budget of a waiting call expires.
QueueTimeout(c) ==
  /\ c \in Queued(gate)
  /\ call[c].deadline = 0
  /\ gate' = Pump(Withdraw(gate, c))
  /\ End(c, "dropped")
  /\ dropped' = dropped + 1
  /\ UNCHANGED <<nextSeq, capacity, baseline, begun>>

PumpTimerFires ==
  /\ gate.pumpTimer = 0
  /\ gate' = Pump([gate EXCEPT !.pumpTimer = NoTimer])
  /\ UNCHANGED <<call, nextSeq, capacity, dropped, baseline, begun>>

\* Mutant of Recompute: a new ceiling waits for the next release.
Recompute_NoPump(g, ceiling) == gate' = [g EXCEPT !.effective = ceiling]

\* recomputeDecideCapacity pumps the queue only when the snapshot changed: its
\* ceiling, or (\E changed) only its provenance fields, which are not modelled.
Recompute(g, ceiling) ==
  \E changed \in {g.effective # ceiling, TRUE} :
    gate' = IF changed THEN Pump([g EXCEPT !.effective = ceiling])
                       ELSE [g EXCEPT !.effective = ceiling]

\* Mutant of Clamp: an advertised capacity above the funded ceiling raises it.
Clamp_NotFunded(n) == Greater(1, n)

Clamp(n) == Greater(1, Lesser(Funded, n))

\* The discovery answered: with a number, or without one (the last ceiling is
\* kept), and not with every runner unavailable.
CapacityAnswered ==
  /\ capacity.probing
  /\ \E ceiling \in {Clamp(n) : n \in Advertised} \cup {gate.effective} :
       Recompute(gate, ceiling)
  /\ capacity' = [capacity EXCEPT !.probing = FALSE, !.stallStreak = 0]
  /\ UNCHANGED <<call, nextSeq, dropped, baseline, begun>>

\* The discovery answered and every runner reported capacity_available = 0:
\* the second time in a row, the pause window opens.
CapacityStalled ==
  /\ capacity.probing
  /\ \E ceiling \in {Clamp(n) : n \in Advertised} \cup {gate.effective} :
       IF capacity.stallStreak >= 1
       THEN \E jitter \in Jitter(gate) :
              Recompute(OpenPauseWindow(gate, jitter), ceiling)
       ELSE Recompute(gate, ceiling)
  /\ capacity' = [capacity EXCEPT !.probing = FALSE,
                                  !.stallStreak = Lesser(@ + 1, 2)]
  /\ UNCHANGED <<call, nextSeq, dropped, baseline, begun>>

\* The discovery threw, timed out or answered null.
CapacityFailed ==
  /\ capacity.probing
  /\ Recompute(gate, gate.effective)
  /\ capacity' = [capacity EXCEPT !.probing = FALSE]
  /\ UNCHANGED <<call, nextSeq, dropped, baseline, begun>>

-----------------------------------------------------------------------------
(***************************************************************************)
(* The clock.  It moves only while some deadline is ahead.                 *)
(***************************************************************************)

Less1(t) == IF t > 0 THEN t - 1 ELSE t

Counting ==
  \/ gate.pauseLeft > 0
  \/ gate.pumpTimer > 0
  \/ capacity.refresh > 0
  \/ \E c \in Calls : call[c].deadline > 0 \/ call[c].backoff > 0

Tick ==
  /\ Counting
  /\ gate' = [gate EXCEPT !.pauseLeft = Less1(@), !.pumpTimer = Less1(@)]
  /\ call' = [c \in Calls |-> [call[c] EXCEPT !.deadline = Less1(@),
                                              !.backoff = Less1(@)]]
  /\ capacity' = [capacity EXCEPT !.refresh = Less1(@)]
  /\ UNCHANGED <<nextSeq, dropped, baseline, begun>>

\* Every call has ended and no timer is ahead: the process is idle.
Quiescent ==
  /\ \A c \in Calls : call[c].status \in Ended
  /\ \A j \in Jobs : begun[j] # NotBegun
  /\ ~capacity.probing
  /\ ~Counting
  /\ UNCHANGED vars

Respond(c) ==
  \/ Served(c)
  \/ Thrown(c)
  \/ NoCapacityRetry(c)
  \/ NoCapacityGiveUp(c)
  \/ NotFound(c)

RefreshEnds == CapacityAnswered \/ CapacityStalled \/ CapacityFailed

Next ==
  \/ \E j \in Jobs : BeginDecideJob(j)
  \/ \E c \in Calls : Start(c) \/ Respond(c) \/ RetryNotFound(c) \/ QueueTimeout(c)
  \/ PumpTimerFires
  \/ RefreshEnds
  \/ Tick
  \/ Quiescent

Spec == Init /\ [][Next]_vars

\* Responses arrive, timers fire, the refresh ends by its own timeout and time
\* passes; nothing obliges a caller to call.
Fairness ==
  /\ \A c \in Calls : /\ WF_vars(Respond(c))
                      /\ WF_vars(RetryNotFound(c))
                      /\ WF_vars(QueueTimeout(c))
  /\ WF_vars(PumpTimerFires)
  /\ WF_vars(RefreshEnds)
  /\ WF_vars(Tick)

FairSpec == Spec /\ Fairness
-----------------------------------------------------------------------------
(***************************************************************************)
(* What the gate must guarantee.                                           *)
(***************************************************************************)

\* The counter the gate admits by is the number of grants still out, whatever
\* mixture of answers, retries and probes handed them out and back; a grant
\* leaked or released twice would drift it (inFlightDecides, makeRelease).
SlotAccounting == gate.inFlight = Cardinality(gate.slots)

\* Discovery can only lower admission: never more paid requests in flight than
\* the funded ceiling, also while the effective ceiling moves under them.
FundedCeiling == Cardinality(gate.slots) <= Funded

\* A probe is alone in flight, and the pause it probes is still open: a
\* request admitted before the pause never overlaps it, and nothing but its
\* own answer can close the pause under it.
ProbeIsAlone ==
  gate.probes # {} => gate.slots = gate.probes /\ gate.inFlight = 1 /\ gate.pauseOpen

\* No lost wake-up: a call waits only behind a full gate or, during a pause,
\* for an answer still out or the timer of the pump, whatever was granted,
\* withdrawn, raised or lowered before; a release or a new ceiling that did not
\* pump would leave it to its queue budget (pumpDecideQueue).
NoLostWakeup ==
  gate.queue # <<>> =>
    IF gate.pauseOpen THEN gate.inFlight > 0 \/ gate.pumpTimer # NoTimer
                      ELSE gate.inFlight >= gate.effective

Granted == gate'.slots \ gate.slots

\* First called, first served: a step grants a slot to no call while an older
\* one is left waiting, on the fast path and after retries too.
NoOvertaking ==
  [][\A c \in Granted, d \in Queued(gate') : call'[c].seq < call'[d].seq]_vars

\* Every call that is made ends: answered, thrown to its caller or dropped.
EveryCallEnds ==
  \A c \in Calls : call[c].status = "admitting" ~> call[c].status \in Ended

-----------------------------------------------------------------------------
(***************************************************************************)
(* What its comments say and the code does not do.                         *)
(***************************************************************************)

\* "exactly ONE probe is granted per window": the step that ends a probe does
\* not hand the same window's probe to the next waiter.
OneProbePerWindow ==
  [][gate.probes # {} /\ gate'.probes # {} => gate'.probes = gate.probes]_vars
=============================================================================
