# highlights.live in TLA+

Models, model-checking runs and proofs about the concurrent core of
highlights.live: the server that cuts highlights out of sports footage, the
client through which it pays for inference, the live shares it decides
while they run, the ledgers by which a live run tells goals apart, the media
node that carries the shares, and the workers that mail invites.
Every definition is translated from the TypeScript it names in
`PROJECT.json` ("map"); paths below are relative to `src/`.

The repository is a Node monorepo. Each process is one event loop, so an action
of a model is the code that runs between two awaits, and the interleavings are
those of handlers, timers, other processes on the same database, and crashes.

## 1. The system

| component | code | state it keeps | operations | model |
|---|---|---|---|---|
| Decide admission gate | `packages/livepeer-session/src/index.ts` | slots in flight, FIFO of waiters, pause window and probe, effective ceiling, drop counters | admit, release, pump, 402/404/503/error exits, capacity refresh, begin a job | `DecideAdmission` |
| Highlight store and review | `services/server/src/store.ts`, `api.ts`, `highlight-postable.ts`, `entitlements.ts` | maps and index of the store, `highlights` table, quota ledger | insert once per key, review, export, delete, load, debit | `HighlightReview` (partly: patches and jobs of the store are left) |
| Rejected-clip sweep | `services/server/src/lifecycle.ts`, `index.ts` | nothing of its own | re-check, unlink, delete on an interval | `HighlightReview` |
| Email send queue | `services/email/src/queue.ts`, `services/server/src/db.ts` | `email_sends` rows | enqueue, claim, deliver, mark, back off | `EmailQueue`, `SendLifecycle` |
| Waitlist allocator | `services/email/src/allocator.ts`, `db.ts`, `api.ts` | waitlist rows, gate | sign up, open or close, invite by hand, allocate | `WaitlistAllocator` |
| VOD job queue and resume | `services/server/src/api.ts`, `vod-resume.ts` | job rows with attempts and cursor, worker set, stop set, timers | submit, drain, claim, checkpoint, fail, retry, stop, resume, recover | `VodQueue` (partly: `file` jobs over SQLite) |
| Live decide pass of a share | `services/server/src/observe-loop.ts`, `audio-trigger.ts`, `media-rail.ts` | frames, pending triggers, budget, windows in flight, queue of verdicts | observe a frame, fire, settle, accept, flush | `LiveObserver`, `LiveFeed` |
| Browser shares | `services/server/src/api.ts`, `media-rail.ts` | `browserJobs`, `browserFinalizing`, the share's rail, live clip cuts | callbacks, build a rail, publish, cut, finish | `MediaShare`, `ShareEnd` |
| Live decide admission | `services/server/src/live-decide-admission.ts` | one holder, shared depth | admit, release, register, depth | `MediaShare` |
| Media sessions | `services/media/src/server.ts`, `sessions-ledger.ts`, `payments.ts`, `rtc.ts`; `services/server/src/api.ts`, `store.ts`, `db.ts` | the node's active map and timers, open-session file; `media_sessions` rows | provision, adopt, attach, drop, time out, tear down, notify, boot | `MediaSessions`, `ShareEnd` |
| Goal ledgers of a live run | `services/server/src/analyzer.ts` (`LiveRunShared`, `acceptVideoDecision`) | delivered goals, goal-shaped rows, demoted rows, credited transitions | accept, suppress, demote, promote in place, attest late | `GoalVerdict` |
| Live confirm lane | `services/server/src/live-confirm-async.ts`, `live-frame-reread.ts`, `api.ts` | entries to confirm, chain of pumps, attempts, budget | arm, pump, dive, adopt, drop, read frames again | `GoalVerdict` |
| Payment refresh | `services/server/src/payment.ts`, livepeer-session | signer state of a session | periodic payment, 480/481/482 answers | planned |
| Perceive session ledger | `services/server/src/perceive-ledger.ts` | a file of funded sessions | register, unregister, release at boot | planned |
| Media node, the rest | `services/media/src` | boot log, relays | publish frames, snapshot | boot log planned, relays are I/O |
| Accounts and invite codes | `services/server/src/auth.ts` | users, single-use codes | register, claim a code | planned |
| RTMP rail | `services/server/src/live.ts`, `live-capture.ts` | live jobs, ingest sessions | start, window, stop | not modelled: its decide pass is the observer of `LiveObserver` |
| Job records and settlement | `services/server/src/job-settlement.ts`, `store.ts` | sums over an ended job, media session rows | settle, report | statuses and rows in `VodQueue`, `MediaShare`, `MediaSessions`; the sums are left out |
| Billing | `services/server/src/billing.ts`, `funnel.ts` | Stripe customers, events | checkout, webhook | not modelled: external service |
| Analyzer, the rest | `services/server/src/analyzer.ts` | frames, captions, candidates | perceive, fuse, decide | not modelled: heuristics measured on footage |
| Event schemas, caption grounding | `packages/events` | none | validate, match | not modelled: stateless |
| Datasets and training | `services/server/src/dataset*.ts`, `services/train` | opt-in datasets | retain, purge, train | not modelled yet |
| Perceive, decide, speech runners | `services/perceive`, `services/decide`, `services/asr` | none between requests | infer | not modelled: stateless services |
| Web application | `webapp` | views | calls of the API | not modelled |
| Deployment, evaluation, scripts | `docker`, `infra`, `evals`, `scripts` | none | - | not modelled |

How they meet. A VOD job or a live rail analyses windows; every window asks the
livepeer-session client for a decide, and all of them wait in its one gate. A
detected moment becomes a highlight row, its insertion debits the owner's
monthly quota if it adds a moment to its job (rows whose windows overlap are one)
and credits it if it bridges two, a rejection credits it, and the sweep removes
rejected clips after a grace. The server writes waitlist rows and admin gates in a database
the email service polls from another process. Payments and perceive sessions
keep a funded session alive for the decides. A browser share is a job of the
control plane, a paid session on the media node and a recording the browser
uploads: the node relays observations and audio to the share's rail, which
decides and publishes while the share runs; either side may end it, and tells
the other. An accepted verdict of a live run goes through the run's goal
ledgers; a goal nothing measured is published as a celebration, which a later
read of the scoreboard or a confirm dive, run off the accept path, may promote.

What is hard in it:

- **two processes**: the media node and the control plane each end a share, and
  each can crash between a call and its answer; callbacks are sent once, or, at
  a boot, up to three times;
- **ordering**: decides run side by side and answer in any order, frames are
  relayed late, what is published must be in the order of the content;
- **interleaving**: waiters, timers and answers on one gate; overlapping
  intervals (sweep, send poll, allocator poll) none of which waits for its last
  run; reviews against the sweep; stops against a running pass;
- **late answers**: a dive is decided on a row that a later read, or an accept,
  may have promoted meanwhile; one score transition is read by many windows;
- **stale reads over awaits**: the sweep re-checks a record and then awaits
  three times; a pass checks its stop and then awaits before it claims; a
  claim in Postgres reads a snapshot;
- **crashes**: between an unlink and a delete, between two checkpoints, between
  a claim and a mark;
- **retries and timeouts**: 503 episodes, queue budgets, send backoffs, job
  backoffs;
- **limits**: the funded ceiling, the retry budgets, the clamp of the ledger.

What makes each component correct:

- gate: no slot leaks, the ceiling and the pause are respected, one probe at a
  time, first called first served, no lost wake-up, every call ends;
- highlights: one row per idempotency key, no moment that is kept unpaid, a purge
  is complete and final, every due clip is purged;
- send queue: one holder per row, a bounded number of copies per inbox,
  `sent` means sent, every send settles;
- allocator: one allocation per signup, a failed insert or a stop loses no
  signup but its own, everyone is invited while the gate is open;
- decide pass: triggers add no decides, each anchors one window at most, content
  order, `finish()` returns;
- share: ends once and as first asked, everything its settled rail accepted has
  a clip or a reason, its slot and depth are given back;
- goal ledgers: a measured transition makes one goal, a hinted one again only a
  horizon later, what made a row a goal stays, confirm calls are one for a row and
  within the budget, every armed dive gets a verdict, is counted as dropped, or was
  pushed out of the list by newer ones;
- media session: lost sessions and only those fail a share, no timer ends a
  session in use, nothing stays paid without a client;
- VOD queue: a truthful attempt trail, bounded retries and re-billing, backoff
  kept, every job settles.

The individual hazards, each at its line, are in `PROJECT.json` ("hazards").

## 2. The modules

**`DecideAdmission`** - class `LivepeerClient`. `gate` is the private fields
(`decideQueue`, `inFlightDecides`, `pausedUntil` ...), `call` the locals of each
`decideAdmitted` invocation, `capacity` the single-flight capacity refresh. The
synchronous helpers (`pumpDecideQueue`, `acquireDecideSlot`, `makeRelease`,
`noteDecide503` ...) are functions from gate to gate (`Pump`, `Acquire`,
`Release`, `NoteDecide503` ...); a handler composes those the code runs before
its next await, e.g. a 503 is note, release, pump, re-acquire in one step
(`NoCapacityRetry`). Deadlines are kept as time left; a timer that is due stays
at 0 until the loop runs it, so timers race answers freely. Left out: what the
ticket of a request contains, and the header refresh inside one attempt.

**`HighlightReview`** - `mem`/`keys` are the maps of `Store`, `db` the table,
`object` the clip files, `used` the ledger. Every mutation goes through
`WriteThrough`: the map at once, the table in the same step over SQLite, later
and in any order over a Postgres pool, or never over the "faulty" backend whose
calls may fail. `Persist`, `PersistSaved` and `PersistSettle` are
`persistLiveHighlight`: the rows of the job are counted in moments (`Moments`:
the overlap chains of the rows that are not rejected), the row is inserted, they
are counted again when its write returns, and the change decides whether a slot
is debited, given back, or neither (`Charge`, held in `tally`). Over SQLite
the write returns before any other handler can run, so the two counts and the
insert are one step; over the pool every handler may run between them. A clip's
window is a constant, its row starts accepted or pending (`AutoPublish`).
`Review`/`Export`/`ReviewSettle` the routes, `Sweep*`
one run of `runRejectSweep` split at each await, `Restart` a crash and `load`.
A clip always has a file, and the quota month is that of the settling step.

**`SendLifecycle`** - the abstract life of a send: what the docs and the
database interface promise of one row, without polls or processes.

**`EmailQueue`** - `row` is `email_sends`, and `phase`, `todo`, `cur`, `seen`
the locals of each `tick`. `Claim` is the `UPDATE ... RETURNING` as one step over SQLite;
over Postgres it is two (`ClaimBatch` takes the ids of the snapshot,
`ClaimSelected` updates them), which is what READ COMMITTED gives a statement
whose outer WHERE only compares ids. Delivery may be taken with its
acknowledgement lost, updates may throw, the process may stop. A backoff's
length is not modelled: it is "later" and then "due".

**`WaitlistAllocator`** - extends `EmailQueue`: sign-up, gate, manual invite,
and the allocator's poll, whose invites go on the same send queue. A signup is in
hand (`InHand`) from its flip to its insert; `missed` is a history variable, the
signups whose own insert or post failed, or that a stop took out of a poll's
hands: no guard reads it.

**`VodQueue`** - `row` is the job record (status, retry, claim counter, attempt
trail as numbers of ended and open entries, cursor), `pass` where `runVodJob`
is, `processing`/`stops`/`timer` the worker's sets. One action per section
between awaits: `StartPass` (stop check) and `Claim` are apart because a
readdir and a stat lie between them; `StopSignal` and `StopSettle` because the
route awaits the release of the session. Windows are decided in order, so the
cursor is a number. Left out: an owner deleted meanwhile, database calls that
fail, Postgres, the sums of tokens and cost.

**`LiveObserver`** - class `LiveObserver` with its `TriggerWindowScheduler`,
behind a `MediaRailObserver`. A frame and the fire it causes are one action,
since a pipelined rail's `fire()` awaits nothing, and it takes every trigger the
audio tap holds by then, none or several (`Tapped`): `StaleFrame` is
`noteStaleFrame`, `FreshFrame` is `maybeFire` and `fire` with every gate in its
order (`Outcome`). What the other shares, the signal and the live slot say is
chosen freely. `Settle` is a decide that ends, `DrainReady` one turn of the
loop, `Accept` one `applyEntry`; `FlushTail` and `FlushEnds` are `flush()`
between its two drains. Content time is in units, tokens in tenths. A trigger
keeps what became of it and the number of windows fired before it (`seen`),
which only a property reads. Left out: the contents of a window, the delivery
metrics, the serial fork of a rail without `onDecideStaged`.

**`LiveFeed`** - the abstract feed: an increasing sequence of moments that is
closed once and then stays.

**`MediaShare`** - the routes of a browser share. A callback is named, and a
rail bears the name of the callback that built it, so that `ensureMediaRail`'s
race is visible: `Relay` or `Tap` finds no rail, `Ensured` builds one after the
awaits, whatever happened to the share meanwhile. `Observe` is `onObservation`
with the slot (`Admits`) and the depth (`DepthFor`) of `LiveDecideAdmission`;
`Decided` ends a decide with a highlight or none, `Publish` inserts its row and
schedules its live cut. `Stop` to `Conclude` are `finishBrowserJob`, split at
its awaits, for either outcome. Waits are over at any time after they began.

**`MediaSessions`** - the same share as two processes see it. `post` is a request
for a session, of the control plane or of a client that asks the node itself;
`sess` the node's active map, `row` the table of the control plane, `ledger` the
open-session file, `notice` the callbacks under way, with whether another
session was live when they were sent. Armed timers fire at any time until they
are cleared. `NodeCrash` and `ServerRestart` take down what lives in memory.
Left out: frames, the ICE exchange, metering, a second media node.

**`ShareEnd`** - the abstract end of a share: its outcome is decided once, its
status follows, and a restart of the server may fail it. `MediaShare` and
`MediaSessions` both implement it.

**`GoalVerdict`** - one live run (`LiveRunShared`) behind `observeAcceptOnly`. A
window bears the unit of content at which it closes, its row the same name, a
goal the unit in which the scoreboard first shows it. A read of it
(`Reads`) is the transition and the frame it is read at, which may be any later
one: perceive's score channel is sticky for sixty seconds, and a board misread
and read well again shows the same transition anew. A hint carries such a read
from any distance and claims nothing; a window's own reads lie inside it and must
claim the transition (`Measured`). `row` is what the
highlight row says of the verdict, with what made it a goal (`how`), the
transition that did (`key`) and the window that measured it (`by`); `events`, `shaped`, `deferred`, `credited` are the
ledgers of the run. An accept is one action from its claim of a transition
(`Measured`) to the late read at its end (`Settle`): `PassedOver`, `Inserted`,
`InPlace`, `Repeated` and `Demoted` are the ways out of `acceptVideoDecision`.
It is one action although the cut of its clip is awaited in the middle: the
confirm lane is all that runs meanwhile, and it writes nothing the accept
reads. `Reread` is the pass over frames that were kept, under the run's budget.
The confirm lane is a chain of pumps, one for each armed row, run one at a time
(`PumpStarts` to `PumpEnds`) and split at the awaits of the dive and of the
write. `evicted` is a history variable: the entries that newer ones pushed out of
the list before a pump took them. What a window, a hint or a dive sees is free: any
read of the span the code allows, or none. `Repeated` arms no dive: it needs
a goal that a signal attests without a measured delta, and a row so attested is
never armed (`analyzer.ts:8164-8173`, 8243), while an armed one is demoted by the gate
before the repeat is asked (6029-6079). How many units a window may close
at is a bound (`Closes`). Left out: the texts (whether there is copy for a
promotion is free), scores that jump by two goals, which attest no demoted row, the merging
of celebrations, the inline confirm that the lane replaces, and VOD passes,
which share the functions and none of these ledgers' later lanes.

**`MC*`** give TLC its symmetry sets and alternatives of constants;
**`*Proofs`** hold the theorems. A definition named `X_Something` with the
comment "Mutant of X" is a plausible bug of X, there to show that the
properties can fail; nothing else uses it.

## 3. The runs

Time bounds, event bounds and numbers of actors are CONSTANTS of the
configurations.

| run | instance | what it shows |
|---|---|---|
| `decide_gate` | 3 calls, ceiling 2, 2 attempts, waits and backoffs of 1-2 ticks, advertised capacity 1 or 3 | slot accounting, funded ceiling, the probe alone; no grant past an older waiter; no waiter without a wake-up |
| `decide_gate_live` | 2 calls and a job, fair | every call ends |
| `highlight_review` | 3 clips, each overlapping the next, with keys of their own or the second redetecting the first (SQLite), or all of one key (Postgres, failing Postgres), rows that start pending, 2 requests, 1 sweep, 1 crash, month and grace of a tick | unique keys, no orphaned file, moments that are kept are paid for, no resurrection |
| `highlight_purge` | 2 clips, 2 requests, 2 overlapping sweeps, SQLite, fair | a due clip is purged or restored |
| `highlight_restored` | 1 clip | violated: a clip accepted while its file is being unlinked is deleted |
| `wait_allocator` | 2 signups, 2 sends, 2 overlapping allocators and 2 overlapping polls, batches of 2, 2 attempts, 1 admin act, faults, 1 stop, SQLite | one allocation per signup, an invited inbox is queued, in hand or lost by its own failure, one holder per send, copies bounded, the queue implements `SendLifecycle` |
| `wait_live` | 2 signups, 1 poll of each kind, batch 2, 1 admin act, Postgres without faults, fair | everyone is invited and the invite settles |
| `vod_queue` | 2 jobs, 1 slot, 1 retry, 2 windows, checkpoint every 2, one crash, stop or manual resume, fair | truthful trail, retry budget, billed windows, backoff, no queued job without something to take it up, every job settles |
| `live_observer` | content of 4 units, cadence and window of 2, frames up to 1 late, 2 triggers, of one frame or of two, and a list of 1, depth 2, faults, fair | decide rate, one window per trigger, content order, a drain for a settled head, implements `LiveFeed`, `finish()` returns |
| `media_share` | 2 shares, 2 callbacks, 2 highlights of one window start, depth 2, the slot on | implements `ShareEnd`, nothing accepted is left without clip or reason, slot and depth are given back |
| `media_sessions` | 1 share, 2 requests, 2 sessions, 2 sockets, a crash of the node, a restart of the server, fair | implements `ShareEnd`, only a loss fails a share, sockets survive timers, paid sessions end |
| `goal_verdict` | 5 units of content, windows of 2 that close at 1, 2, 3 and 5, 2 transitions, 1 of them hinted, lookahead 1, horizon 3, 1 demoted row and 2 dives held, 1 dive in each 3 units, 1 frame read, failing writes, fair | one goal for a measured transition or one a horizon later by a hint, a verdict moves once, calls bounded, every armed dive settles, is dropped or pushed out |

Why the bounds are enough. The gate needs three calls for one in flight, one
probing and one waiting, or one overtaking; an advertised capacity of 3 is above
the ceiling and 1 below it; two attempts reach both "retry" and "give up".
Two clips of one key are what idempotency is about; three whose windows form a
chain are what the charge is about, since the last to come may extend a moment,
make one of its own or bridge two. Over the pool and its failures the three have one key,
and the run has one row there: the charges of several rows that wait at once over
the pool are in the theorem and not in the run. Two requests are what a race of
reviews is about; one tick of grace and of month cross both boundaries; a second
crash only repeats a load that reads nothing but the table. Two polls give every
overlap of claims, since a property names two; a third send is left on the
table when a batch is full (`wait_live`). Two jobs over one slot make a drain choose; two
windows per checkpoint make the one between checkpoints; the safety properties
of `vod_queue` were also explored with two events, 4 million states. Two
triggers over a list of one drop the older, in two frames or in one; a late frame of one unit crosses a
window's edge and a cadence; two windows in flight are what order is about. Its
safety was also explored with a list of 64, and with the rate cap on (`Keep`
of 3 and of 7 tenths). Two callbacks are two rails of one share, or one of each of two that
compete for the slot; two highlights of one start are two cuts of one file. Two
sessions of one share are the old and the new one, or two of a race; a socket
more, a third request or a second crash only repeat what two already did, since
every property speaks of one session or of a pair. Five units of content hold two
transitions that overlapping windows share, a window past the lookahead of the
first, one past the horizon of the first goal, which a hint may measure again, and
spans of the burst and the budget that end inside the content, so that each is met
on both sides. Rows of units 1, 3 and 5 are far enough apart (`Kick`) to be
three demotions, so that a list of two dives pushes the oldest out and a list of one demoted
row its older; that a read matches two demoted rows is beyond this run. What a run shows on its instance of a safety property is proved for every
instance (section 4); the bounds matter for the liveness properties alone, and for
trust in the definitions.

`TypeOK` is proved of every module (`TypeCorrect`, section 4), for every value of its
constants, and so is no property of a run.

`CHECK_DEADLOCK FALSE` stands where the modelled system comes to rest: all
requests answered, every send settled or stranded, every job terminal. The gate
has an explicit `Quiescent` step instead, so its run does check deadlock: a
state in which a caller waits and nothing can happen would be one.

### Fairness

Only what the runtime owes is fair, and only weakly: an answer arrives or the
request's own timeout ends it, an expired timer fires, an interval keeps
polling, an await is answered and time passes. No caller has to call, no user to review, no
admin to open the gate. `decide_gate_live` assumes nothing about which answer
comes. `wait_live` excludes stops and database faults because the code has no
recovery for a row left in `sending` (section 5); `vod_queue` includes both the
crash and the stop. In `live_observer` a decide ends (the client bounds it) and
an accept ends, with a result or an error; frames need not come. In
`media_sessions` the two timers of a session fire if they stay armed, which the
event loop owes; no client has to come, no release has to be answered. In
`goal_verdict` the timer of a chained pump fires, a confirm call answers or
meets its time bound, and the write of a verdict returns or throws (`PumpSteps`: the
pumps of a run go one at a time, so one of these is the next); no window
has to come and no dive to confirm anything. `highlight_purge` has no crash: a
restart forgets the sweep and the next interval starts one, and what a crash
leaves behind is in `NoOrphanObject` and `NoResurrection`.

## 4. The proofs

| theorem | for every | states |
|---|---|---|
| `DecideAdmissionProofs`: `TypeCorrect`, `SlotAccountingHolds`, `FundedCeilingHolds`, `ProbeIsAloneHolds`, `NoLostWakeupHolds` | number of calls, ceiling, attempts, delays, advertised capacities | the invariants of those names |
| `DecideAdmissionProofs`: `NoOvertakingHolds` | the same | no step grants a slot past an older waiter |
| `EmailQueueProofs`: `TypeCorrect` | number of sends, polls, batch, attempts, stops; faults or none; either database | the type invariant |
| `EmailQueueProofs`: `OneClaimerHolds`, `CopiesBoundedHolds`, `SentWasTakenHolds` | the same, given `Sqlite` | the invariants of those names |
| `EmailQueueProofs`: `ImplementsLifecycleHolds` | the same, given `Sqlite` | every step of the queue is a step of `SendLifecycle` or leaves it alone |
| `EmailQueueProofs`: `WaitlistUsesQueue` | number of signups, allocator polls and admin acts; either database | `WaitSpec => Spec`: the allocator with the queue is a behaviour of the queue |
| `EmailQueueProofs`: `WaitOneClaimerHolds`, `WaitCopiesBoundedHolds`, `WaitImplementsLifecycle`, `AllocatedOnceHolds` | the same, given `Sqlite` | the properties of `wait_allocator`, of the composition |
| `EmailQueueProofs`: `InvitedIsQueuedHolds` | the same, either database, faults and stops or none | the invariant of `wait_allocator` |
| `HighlightReviewProofs`: `TypeCorrect`, `UniqueKeyHolds` | number of clips, keyings, requests, sweep runs, crashes; grace and month; all three backends | the invariants of those names |
| `HighlightReviewProofs`: `NoOrphanObjectHolds`, `NoResurrectionHolds` | the same (both speak of SQLite) | the properties of those names |
| `HighlightReviewProofs`: `QuotaCoversMomentsHolds` | the same, any windows (it speaks of runs without faults and crashes, where no two of an overlap, a reject and a pool come together) | every moment that is kept is paid for |
| `LiveObserverProofs`: `TypeCorrect`, `DecideRateHolds`, `OneWindowHolds`, `HeadIsDrainedHolds` | cadence, window, lead and latency, depth, list of triggers, rate cap, content; faults or none | the invariants of those names |
| `LiveObserverProofs`: `ContentOrderHolds` | the same, given `LateFramesPoor` | windows are fired in the order of their content |
| `LiveObserverProofs`: `ImplementsFeedHolds` | the same | every step of the pass is a step of `LiveFeed` or leaves it alone |
| `MediaShareProofs`: `TypeCorrect`, `SettledByStopHolds`, `GivenBackHolds` | number of shares, callbacks, highlights and starts, depth and decides, the slot on or off | the invariants of those names |
| `MediaShareProofs`: `ImplementsShareEndHolds` | the same | every step of the shares is a step of `ShareEnd` or leaves it alone |
| `VodQueueProofs`: `TypeCorrect`, `TrailMatchesClaimsHolds`, `RetryBudgetHolds`, `BackoffRespectedHolds`, `DecidesBoundedHolds`, `NoneStrandedHolds` | number of jobs, worker slots, windows, retries, checkpoint cadence, crashes, stops and resumes | the invariants of those names |
| `MediaSessionsProofs`: `TypeCorrect`, `FailedOnlyIfLostHolds`, `SocketSurvivesHolds` | number of shares, requests, sessions, sockets, crashes and restarts | the properties of those names |
| `MediaSessionsProofs`: `ImplementsShareEndHolds` | the same | every step of the two processes is a step of `ShareEnd` or leaves it alone |
| `GoalVerdictProofs`: `TypeCorrect`, `MeasuredOnceHolds`, `CallsBoundedHolds`, `VerdictMovesOnceHolds` | length of content, set of transitions and of hints, window, spans, caps and budgets, reads at any distance | the properties of those names |

**The gate.** The counter alone is not inductive: a release must know that the
counter is positive, a grant that the waiter holds no slot yet, and the ceiling
that a probe is granted over an idle runner only. The invariant is
`TypeOK /\ GateOK(gate)` and "a call is admitting exactly when it is queued or in
flight". `GateOK` says of the gate alone that the counter is the number of
slots, at most the funded ceiling, that the queue repeats nobody and shares
nobody with the slots, and that probes are slots, alone, under an open
pause. One lemma per helper shows that it is kept and which calls are queued
and in flight after; a handler's lemma composes them, as the handler composes
the helpers. The facts about sequences (inserting, removing, splitting a
sequence without duplicates) and finite sets come first. Assumptions: those of
`GateAssumption` and that the doublings of the backoff are positive
(`DoublingAssumption`, evaluated by TLC: the provers have no exponentiation).

That no call is overtaken needs the order too (`OrderInv`): the calls bear distinct
numbers of arrival and the queue is sorted by them. A retry that comes
back in line is inserted before every younger waiter; a pump grants a prefix of
the queue; the fast path grants only past an empty one. The delicate step is the
503, which notes, releases, pumps and takes its place again in one turn: the
pump comes before the place is taken, so it must grant nobody, and it does
not, since the gate is paused by then for a positive time. This is what
`DoublingAssumption` is for.

That no wake-up is lost (`NoLostWakeup`) needs that the marks of a pause agree
(`Steady`): a closed pause has no window to wait for, and a probe marked
outstanding is in flight. Then a pump leaves nobody behind wherever the gate stands
(`PumpWakes`): it waits for a timer it has armed, or for an answer still out,
or the gate is full. Each handler ends in a pump, or lets nobody wait who did
not, or leaves the gate as it was; the helpers that run before the pump only
have to keep the marks.

**The send queue.** That no two polls hold a row follows from "a held row is
`sending`, and a claim takes none that is". The bound on copies needs to know
how many copies each status can account for (`CopiesOf`), that a row not yet
delivered by its holder has handed over none in this attempt (`ListedIsOwed`),
and that the attempts a claim returned are still those of the row
(`HeldIsSending`), which is where another claimer would break it. `Sqlite` is an
assumption of the theorems and not of the module: over Postgres the statement is
false, as the same form of statement shows for the allocator (section 5).
`SentWasTaken`, that a send reads `sent` only when a mail server took it, is
proved and not run: the check of `wait_allocator` that the queue implements
`SendLifecycle` implies it. The refinement
maps a row to its status and attempts and copies to themselves; claims are
`Reserve`, a lost acknowledgement is `HandOver`, ends, stops and elapsed
backoffs are stutters.

**The allocator.** The runs check the composition, the theorems above speak of
the queue alone: `WaitlistUsesQueue` closes the gap. Its invariant `WaitInv` is
the types and "a poll is on its way only while the process is up"; given that,
an invite that the allocator or a route posts is the queue's `Enqueue`, and
everything else leaves the queue alone. `AllocatedOnce` needs four facts more
(`OnceInv`): no poll stands between the two halves of a claim (this is `Sqlite`),
a signup is on the list of one poll at most, a listed one has been flipped and
has no invite of the allocator yet, and every invite of the allocator is of a
flipped signup. `InvitedIsQueued` does not need `Sqlite`: over Postgres two polls
may flip a row twice, and it then is in the hands of both. Nor does it need that
nothing fails: `QueuedStep` follows each signup from its flip, and whatever takes
it out of a poll's hands queues its invite, or is its own failed insert, which
`enqueueOrLog` logs and drops, or a stop (section 5). What it rules out is that
the failure of one takes the others with it. `HandsKept` is the argument once,
for every action: hands, misses and invites only move forward.

**The highlight rows.** `UniqueKey` speaks of the map, but a restart makes the
map from the table, so the invariant speaks of a row wherever it may be: in the
map, in the table, or in a write on its way (`Exists`). `KeysOK`: a moment with
a row anywhere is in the key index and has no second row anywhere. It is kept
by an insert because the route tests the index in the step that writes the map;
by a delete because the index keeps the key; by a restart because what the
index forgets has no row in the table and no write under way. `IdleOK` is what makes an insert the first of its
clip. Over SQLite the table is the map after each step (`SqliteOK`), from which
`NoOrphanObject` follows at the step that deletes the row, whose file the same run
unlinked, and `NoResurrection` at the restart, which loads what the map was.

`QuotaCoversMoments` speaks of the states in which nothing is under way; its
invariant `Balanced` holds in between: the moments that are kept, the
rejections that have yet to give a slot back and the inserts that have yet to
(`Owing(-1)`, `Charging(-1)`) are together at most the total of the ledger, the
inserts that have yet to debit it and the restores that have. Whoever owes has a
write to wait for (`WritesOK`), so nothing owes when all is quiet. The charge of
a moment copes with overlaps, rejections and a pool one at a time, and so does the
proof (`OneAtATime`). Where no kept rows overlap, every row is a moment
(`MomentsApart`), and an insert or a rejection moves one side of the balance by
the one slot it owes. Where rows overlap, nothing has been rejected and the insert
is one step over SQLite: one more row adds at most one moment (`MomentAdded`: its
chain is new, or swallows others), and the charge is the sign of the change, so
the slots that are given back never exceed the moments that went. Over the
pool with neither, an insert that waits finds its own row among those it counts
(`Counted`), so it will debit. A debit or a
credit moves one from a side of the balance into the total; the clamp at zero can only
make the total larger. `SeenOK` ties the condition to the state: until a restart a
rejected row, or a sweep that runs, tells of a request that rejected. The total is a
sum over the months, which the community
module defines by recursion: that the recursive function exists, and that changing
one month changes the sum by the difference, is shown by minimal counterexamples
(`WFMin`), since induction proper is out of reach.
`ReviewAssumption` says also that clips, requests and runs are different things:
each has a write of its own.

**The VOD queue.** None of the safety properties is inductive. The
invariant is `Sets /\ Functions /\ Worker /\ Boot` (a pass holds its worker slot;
a record the boot has yet to recover has no pass) and, for each job,
`JobOK(row, pass, retries, decided, crashes * (Every - 1))`, where `Every` is the
cadence of the checkpoints. `JobOK` has three parts. `TrailOK`: the claims are the ended
attempts and the open one, and an attempt is open exactly while a pass is
between its claim and its end or a crash or a stop left it so. `RetriesOK`: the automatic
retries are among the ended attempts, which is what the code counts them by.
`BilledOK`: outside a pass the windows billed exceed the cursor by no more than
the crashes cost; during one they exceed the cursor of the pass by no more, and
that cursor is ahead of the record's by less than a period. The last is the
step that needs arithmetic (`ModStep`): a crash falls back to the record's
cursor, so it costs at most `Every - 1` windows. A cancelled record may know of
fewer windows than were billed, since the stop it shows may have come before the
pass wrote its cursor; the bound on the total holds for it all the same, because
only a record that was queued when its pass started is ever claimed. One lemma per change of a record or a pass says
that it keeps `JobOK`, one per handler composes them; jobs meet only in the worker
set, and a drain is shown to start claimable jobs and to touch no other.

`NoneStranded` does tie the jobs together: one waits because others are running. Its
invariant `Waits` adds two facts. `Marked`: a stop mark, which makes a
drain pass a job over, is on a queued job only while its stop settles; it is
what the stop, the resume and the boot have to agree about. `BootDrains`:
what the boot has still to queue has the boot's drain behind it. The step to show is
that of a drain: if anything is claimable it leaves the worker busy
(`DrainTakes`: the least claimable job is below any positive limit), and a busy
worker drains again when it is done. So whatever took the last drain away put a
running pass in its place.
Assumption: `VodAssumption`.

**The media sessions.** The invariant is `TypeOK /\ TimersOK /\ LedgerOK /\
FailedOK /\ AskedOK`. `TimersOK`: an armed timer means that no socket is
attached, which is what `SocketSurvives` comes down to at the step that fires.
`LedgerOK`: the file names sessions that are open, closing or lost, a node that
is down has none open, and a loss is reported only of a lost session. `FailedOK`: a share fails by a restart of
the server, or by a session of its own that was lost; it needs `LedgerOK`, since
the boot takes the file's word. `AskedOK`: the node is asked to close only once
the outcome is decided. The refinement maps status and verdict to themselves: a
stop, or a notice that arrives at an undecided share, is `Decide`; a restart of
the server is `Sweep`; the rest are stutters. Assumption: `SessionAssumption`.

**The goal verdicts.** The invariant is `TypeOK /\ BoardOK /\ BudgetOK /\
PumpOK`. `BoardOK` is about the rows, the ledger of delivered goals and that of
claims: every scored row has an event with its transition, noted by the accept
that measured it, its transition is hinted or claimed, and two scored rows of one
transition are as `MeasuredOnce` says. The step that matters is a window that measures
a transition again (`NotSuppressed`): it lies a horizon past the accept of every
event of that transition, for the ledger would have suppressed it, so a
horizon past every scored row of it; and if it claimed the transition from its
own reads, nobody had claimed it before, so the row scored before it was one a
hint carried. `Claimed` keeps "hinted or claimed" of what is measured.
Nothing is asked of the constants: a re-read may come from any distance.
`BudgetOK` bounds the stamps spent, of which the
calls are a subset: it holds of a new stamp because stamps come in the order of
the content, and that is `PumpOK`, where the pump that runs is the oldest of its
chain and everything spent is no newer than it. That a goal keeps what made it
one is a property of each writer of a row (`SameGoals`, `AdoptedKeeps`), given
that no row is there before its window (`BoardOK`). Assumption:
`VerdictAssumption`.

**The decide pass.** `RateOK` is the conservation law behind the rate: what was
fired, in tenths, and what is left of the budget together never exceed the first
window's allowance plus the refill of the content time that has passed. The
budget may be overdrawn by the 0.6 of an anchored window and by the forced window
of the flush; both are in the bound. `TriggersOK` relates each trigger to the
windows: a pending one has none and lies in no window fired since it was
accepted, because a frame that fires takes what it covers off the list. `FeedOK`
is the order between what is published, what is being accepted and what is
queued; of those being accepted there is one at most, which is where the guard of
`drainReady` is needed, since several drains run at once. The refinement maps a
published window to itself and the end of the flush to the feed's. `HeadIsDrained` is
kept by every step alone: a decide that settles schedules a drain, a drain takes
what has settled at the head of the line as it ends, or holds a failure, and a
window joins at the tail. `ContentOrder` is an
invariant together with "while the pass is live, the budget is at most the refill
of the content time since the newest window": a frame behind that window finds at
most the refill of its lateness less one, and `LateFramesPoor`, `(Skew - 1) *
(10 \div Cadence) < 4`, says that this is too little to anchor another. Without the
hypothesis it is false (section 5). The run has frames one unit late.

**The shares of `MediaShare`.** `EndOK` says where the end of a share stands:
its status follows its verdict at the last step, and from the settle on its
`ended` rail, if it had one, is closed. `RowOK` is `SettledByStop` carried through the stages of
`finishBrowserJob`: a row of the settled rail has its clip or its error, or the
cut loop still has it on its list. It holds at the settle because a done rail that
settles has no decide in flight (`BackOK`), so no row of it is published after
the list is made; a rail of another callback may publish later, and its rows are
outside the statement as they are outside the list. `BackOK` is `GivenBack` at every
stage, for a share whose only rail is the settled one. `RailOK` bounds the decides of a rail by the callbacks that
are over, so that no count leaves its type. The refinement is that of the media
sessions: a stop or a close that is the first is `Decide`, the last step (`Conclude`) is its end.
Assumption: `ShareAssumption`.

Every safety property of the passing runs, invariants and action properties, is
proved, and the step part of every refinement. Not proved is what holds under fairness
(`EveryCallEnds`, `DuePurged`, `WaitlistedIsInvited`, `JobSettles`,
`FinishReturns`, `PaidEnds`, `ArmedSettles`): liveness is out of this prover's
reach and stays with TLC. Of three of these the core is a safety property, and is
proved: `NoLostWakeup` of `EveryCallEnds`, `NoneStranded` of `JobSettles`,
`HeadIsDrained` of `FinishReturns`. Each says that what must move next has
something that will move it; what is left to fairness is that it does.

## 5. Where the code and its comments part

One disagreement is a run that TLC violates ("findings" in `PROJECT.json`):
`highlight_restored`, a clip accepted while the sweep awaits the unlink of its
file.
The following statements are properties of the modules, under "what its
comments say"; each fails on a small instance, and none is checked by a run:

- `DecideAdmission.OneProbePerWindow` (`livepeer-session/src/index.ts:1009-1010`,
  "exactly ONE probe is granted per window"): a probe that ends in a 402, a 404 or
  a transport error (1135) hands the same window's probe to the next waiter;
  fails on the instance of `decide_gate`;
- `WaitlistAllocator.AllocatedOnce` over Postgres (`services/server/src/db.ts:575-578`,
  "race-free across ticks/processes"): the outer WHERE of the statement at 2025
  compares ids only, so a second claimer that waited for the row lock flips the
  row again; fails with `Sqlite = FALSE`, two signups and two allocators. The
  claim of sends at 2126 has the same form;
- `LiveObserver.NothingPublishedPastFailure` (`observe-loop.ts:1018-1020`, "Later
  windows are NOT applied"): the failed head ends one call of `drainReady`, and
  the call that the next window's end scheduled goes on behind it; fails on the
  instance of `live_observer`;
- `MediaShare.DepthGivenBack` (`media-rail.ts:436-439`, `live-decide-admission.ts:138`
  "always paired with releaseLiveJob"): a rail that two callbacks built, or that
  one built after the share ended, keeps its share registered, and every later
  share decides at a smaller depth; fails on the instance of `media_share`;
- `MediaShare.OneWriterPerClip` (`api.ts:1499-1500`, "so two ffmpeg runs can never
  write the same clip file"): the drain gives up after thirty seconds, and a clip's
  name holds only its clamped start (1090), so two highlights share a file; fails
  on the same instance;
- `VodQueue.CancelledIsFinal` (`api.ts:2479-2482`, "`cancelled` is terminal and
  operator-visible", and the test `vod-stop.test.ts:174-175`): the stop check at
  2718 and the claim are awaits apart, and nothing looks between the last check of
  a pass and its final status patches, so the pass overwrites the stop; fails with
  one job;
- `GoalVerdict.OneRowPerTransition` (`analyzer.ts:4660`, "one score transition, one
  scoring row"): a row promoted by a late read is not noted among the delivered
  goals and claims nothing, so a later window that measures the same transition
  inserts a second goal; fails on the instance of `goal_verdict`;
- `MediaSessions.OneSessionPerJob` (`services/media/src/server.ts:314`, "a job owns
  ONE live session"): the check at 321 and the insertion at 353 are an await
  apart; fails with two requests and no crash.

Others were met while modelling:

- "Windows are ISSUED in content order" (`observe-loop.ts:962`) holds only while
  frames come nearly in order: one late by two units fires, at a cadence
  of two, a window behind the newest, on the 0.4 of a token that is enough for an
  anchored one. `LiveObserver.ContentOrder` fails with `Skew` of 2; the run has
  frames one unit late, and the proof says which lateness is harmless;
- a window that settles behind a failed head waits for the next settle, or for the
  flush, to be published: the drain that met the failure has ended;

- a dive without a verdict never stamps `confirmAttestation`, although
  `live-confirm-async.ts:387-391` says that both arms do: `runDueConfirmDives`
  drops it (743-747) before `confirmDiveAdoption` sees it;
- "one dive per distinct goal" (`live-confirm-async.ts:20`) is not enforced: each pump
  takes every entry up to its own window, so its list holds one entry and the
  rule that reuses the dive of a neighbour (20, 166-167) never applies;
- "every failure ... is counted as dropped" (`live-confirm-async.ts:28-29`): an entry
  pushed out by the cap of 16 (`analyzer.ts:4607`) before its pump runs, which
  `ArmedSettles` excepts, and a write of the verdict
  that throws, are in no counter;
- a confirm call that ends after the share's counters were read is billed to
  nobody (`live-confirm-async.ts:735-742`, `api.ts:1555-1585`);
- an accept that promotes a demoted row drops its own row even when there is no
  copy for the promotion (`api.ts:515-523`), so the goal is on no row
  (`analyzer.ts:6195-6262`);
- "a non-goal window must not consume a transition" (`analyzer.ts:7937`) guards
  the pooled reads only: the window's own timeline is claimed for before the shape
  of the verdict is asked (7929);
- the header of `live-decide-admission.ts` (32-38) promises one live decide in
  flight across all rails; a holder past its idle horizon, a depth above one and
  the two rails of one share each break it;
- a WebRTC offer within the grace of a session does not cancel its teardown, and a
  peer that goes may not be noticed: `rtc.ts:343-348` subscribes to a string;
- a close notice sent with no other session live ends a share whose next session
  opened while the notice was under way (`api.ts:5669-5674`);
- the answer to a late provision makes the row of an ended share active again
  (`api.ts:906`);
- a lost session is "reported exactly once" (`sessions-ledger.ts:106-107`), but the
  file is emptied before the reports are sent, and a report whose share takes
  longer to end than its 2.5 seconds is sent again (`server.ts:1250-1262`);
- `startPayment` may throw after the session entered the map (`server.ts:353-356`):
  it stays open with neither payment nor timer nor a line in the ledger;
- two first calls of `/ingest` each reserve a perceive session (`api.ts:5703-5706`);
- triggers dropped from a full list are in no counter (`audio-trigger.ts:266`);
- the counters of a job are relative to a baseline that the next job overwrites
  (`livepeer-session/src/index.ts:770`);
- the comment that a 503'd attempt "goes back to the tail"
  (`index.ts:1057-1058`) contradicts the ordered re-insertion at 970-974, which
  the model follows;
- over Postgres two writes of one row may land in the wrong order
  (`store.ts:333`), so the map and the table disagree after a restart;
- a delete that fails leaves a row whose file is gone (`store.ts:349`), an unlink
  that fails a file without a row (`lifecycle.ts:108`);
- "`slotsDebited === moments` always holds" (`highlight-postable.ts:410`) is
  `HighlightReview.SlotsAreMoments`, and the ledger may fall short of the moments. An
  overlap and a rejection, over SQLite: the second of two overlapping clips is not
  charged, rejecting the first gives its slot back, and the second is left
  unpaid. A rejection and a pool: a clip rejected while the insert of another waits is
  counted before and not after, so the other is not charged, and the rejection gives its
  slot back all the same. An overlap and a pool: two clips that lie apart and
  a third that bridges them all wait at once; the first is charged, the second finds no
  more moments than before, the third gives a slot back, and the one moment is unpaid.
  `QuotaCoversMoments` says that it needs two of the three. The ledger may also exceed
  the moments: a row that bridges three moments gives one slot back, a refund in
  a later month is clamped (`entitlements.ts:101`), a rejection before the debit of
  its clip is clamped and the debit follows (`api.ts:449`), and a purge or a restore
  in another month moves slots between months. A billing call that throws leaves a
  moment undebited (`api.ts:449-451`);
- a send in `sending` when the process stops, or when `markEmailFailed` throws, is never
  claimed again (`queue.ts:49`), a signup claimed when it stops is never
  mailed (`allocator.ts:44`), and a gate closed during a poll does not stop that
  poll (`allocator.ts:41`);
- each drain starts up to `VOD_WORKER_CONCURRENCY` jobs whatever runs already
  (`api.ts:3819`);
- a checkpoint write queued behind a slow database can reopen a closed attempt
  (`api.ts:2837`).

## 6. Plan

In order, the most important first:

1. `PaymentRefresh` and `PerceiveLedger`: overlapping refreshes over one signer
   state; the ledger file read, modified and written around awaits, and the
   release at boot.
2. `MediaLifecycle`, `BetaGate`, and the job part of the `Store` with
   `deleteJob`.

Not modelled, and not planned: what the analyzer sees in pixels, captions and
model answers, caption grounding and the runners (most of the repository's
lines) are heuristics and stateless services whose correctness is measured on
footage; the web application shows what the API
says; deployment and evaluation are scripts.

## 7. Running

    tlc -config DecideAdmission.cfg MCDecideAdmission.tla
    tlapm DecideAdmissionProofs.tla

The module of each configuration is in `PROJECT.json` ("runs"). The longest runs,
`vod_queue`, `media_sessions`, `wait_allocator`, `live_observer` and `goal_verdict`,
take about two minutes each.
