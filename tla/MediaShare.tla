------------------------------- MODULE MediaShare -------------------------------
(***************************************************************************)
(* The browser shares of one control plane (services/server/src/api.ts,    *)
(* media-rail.ts, live-decide-admission.ts): callbacks of the media node   *)
(* feed the decide rail of a share, which the first callback creates; a    *)
(* rail's decides publish highlights; each highlight is cut while the      *)
(* share runs; the end of the share settles the rail, waits for the live   *)
(* cuts and cuts what is left.                                             *)
(*                                                                         *)
(* One process, one thread: the code between two awaits is one step.  A    *)
(* callback is named, and a rail bears the name of the callback that       *)
(* created it.  How a rail decides is module LiveObserver: here a decide   *)
(* is in flight until it ends with a highlight or without one.             *)
(***************************************************************************)
EXTENDS Naturals, FiniteSets

CONSTANTS
  Shares,     \* browser jobs
  Calls,      \* bound: HTTP callbacks
  Rows,       \* bound: highlight rows
  Starts,     \* window starts, in the tenths of a second a clip name keeps
  Admission,  \* decideAdmission
  MaxPerRail, \* maxInFlight
  SlotOn,     \* LIVE_DECIDE_ADMISSION
  NoShare, NoCall

ASSUME ShareAssumption ==
  /\ {Admission, MaxPerRail} \subseteq Nat \ {0}
  /\ SlotOn \in BOOLEAN
  /\ NoShare \notin Shares /\ NoCall \notin Calls
  /\ IsFiniteSet(Calls)

VARIABLES
  status,     \* the status of the job record
  registry,   \* browserJobs: the shares the routes accept calls for
  recording,  \* whether the share's recording holds footage
  call,       \* the callbacks and where each one is
  current,    \* bj.rail
  rail,       \* the rails created
  registered, \* activeLiveJobs
  holder,     \* holderJobId
  idle,       \* the holder has not asked for holderIdleTtlMs
  row,        \* the highlight rows
  live,       \* the live cut of each row
  stage,      \* where finishBrowserJob is
  verdict,    \* the outcome its first caller gave
  ended,      \* the rail it settled
  todo,       \* rows it has still to cut
  cutting     \* rows whose clip it is writing

slotVars == <<registered, holder, idle>>
railVars == <<current, rail, slotVars>>
rowVars == <<row, live>>
stopVars == <<status, registry, stage, verdict, ended, todo, cutting>>
vars == <<recording, call, railVars, rowVars, stopVars>>

NoRail == [share |-> NoShare, open |-> FALSE, fed |-> FALSE, deciding |-> 0]
NoRow == [share |-> NoShare, from |-> NoCall, start |-> 0, uri |-> FALSE, err |-> FALSE]

CallState == {"idle", "tapping", "ensuring", "ingesting", "over"}
LiveState == {"none", "waiting", "first", "retry", "second", "over"}
Stage == {"none", "flush", "closing", "drain", "cut", "bare", "miss", "over"}
Ended == {"done", "failed"}
MaxDecides == Cardinality(Calls) + 1

TypeOK ==
  /\ status \in [Shares -> Ended \cup {"active"}]
  /\ registry \subseteq Shares
  /\ recording \in [Shares -> BOOLEAN]
  /\ call \in [Calls -> [st: CallState, share: Shares \cup {NoShare}]]
  /\ current \in [Shares -> Calls \cup {NoCall}]
  /\ rail \in [Calls -> [share: Shares \cup {NoShare}, open: BOOLEAN, fed: BOOLEAN,
                         deciding: 0..MaxDecides]]
  /\ registered \subseteq Shares /\ holder \in Shares \cup {NoShare} /\ idle \in BOOLEAN
  /\ row \in [Rows -> [share: Shares \cup {NoShare}, from: Calls \cup {NoCall},
                       start: Starts \cup {0}, uri: BOOLEAN, err: BOOLEAN]]
  /\ live \in [Rows -> LiveState]
  /\ stage \in [Shares -> Stage] /\ verdict \in [Shares -> Ended \cup {"none"}]
  /\ ended \in [Shares -> Calls \cup {NoCall}]
  /\ todo \subseteq Rows /\ cutting \subseteq todo

Init ==
  /\ status = [j \in Shares |-> "active"]
  /\ registry = Shares
  /\ recording = [j \in Shares |-> FALSE]
  /\ call = [c \in Calls |-> [st |-> "idle", share |-> NoShare]]
  /\ current = [j \in Shares |-> NoCall]
  /\ rail = [c \in Calls |-> NoRail]
  /\ registered = {} /\ holder = NoShare /\ idle = FALSE
  /\ row = [h \in Rows |-> NoRow] /\ live = [h \in Rows |-> "none"]
  /\ stage = [j \in Shares |-> "none"] /\ verdict = [j \in Shares |-> "none"]
  /\ ended = [j \in Shares |-> NoCall]
  /\ todo = {} /\ cutting = {}

RowsOf(j) == {h \in Rows : row[h].share = j}
RailsOf(j) == {c \in Calls : rail[c].share = j}
Running(j) == status[j] = "active" /\ j \in registry /\ stage[j] = "none"
Larger(a, b) == IF a < b THEN b ELSE a
Smaller(a, b) == IF a < b THEN a ELSE b
-----------------------------------------------------------------------------
(***************************************************************************)
(* The decide slot and the decide depth the live shares have in common.    *)
(***************************************************************************)

DepthFor(jobs) ==
  LET active == Cardinality(jobs)
  IN IF active <= 1 THEN MaxPerRail ELSE Smaller(MaxPerRail, Larger(1, Admission \div active))

Admits(j) == ~SlotOn \/ holder \in {NoShare, j} \/ idle

Admit(j) ==
  /\ holder' = IF SlotOn THEN j ELSE holder
  /\ idle' = FALSE

HolderIdles ==
  /\ holder # NoShare /\ ~idle
  /\ idle' = TRUE
  /\ UNCHANGED <<recording, call, current, rail, registered, holder, rowVars, stopVars>>
-----------------------------------------------------------------------------
(***************************************************************************)
(* The callbacks.                                                          *)
(***************************************************************************)

\* The rail r as the constructor leaves it in R, or as it was.
Feed(R, jobs, r, decides) ==
  rail' = [R EXCEPT ![r].fed = @ \/ R[r].open, ![r].deciding = @ + decides]

\* onObservation: a closed rail ignores the frame; an open one may fire.
Observe(R, jobs, r) ==
  \/ Feed(R, jobs, r, 0) /\ UNCHANGED <<holder, idle>>
  \/ /\ R[r].open /\ R[r].deciding < DepthFor(jobs) /\ Admits(R[r].share)
     /\ Feed(R, jobs, r, 1) /\ Admit(R[r].share)

\* A callback finds the share's rail, or waits for the reads that build one.
Relay(c, j) ==
  /\ call[c].st = "idle" /\ j \in registry
  /\ IF current[j] = NoCall
     THEN /\ call' = [call EXCEPT ![c] = [st |-> "ensuring", share |-> j]]
          /\ UNCHANGED <<rail, holder, idle>>
     ELSE /\ call' = [call EXCEPT ![c] = [st |-> "over", share |-> j]]
          /\ Observe(rail, registered, current[j])
  /\ UNCHANGED <<recording, current, registered, rowVars, stopVars>>

\* An audio chunk goes to perceive first, and looks for the rail afterwards: the
\* share it was accepted for may have ended.
Tap(c, j) ==
  /\ call[c].st = "idle" /\ j \in registry
  /\ call' = [call EXCEPT ![c] = [st |-> "tapping", share |-> j]]
  /\ UNCHANGED <<recording, railVars, rowVars, stopVars>>

Tapped(c) ==
  /\ call[c].st = "tapping"
  /\ call' = [call EXCEPT ![c].st = IF current[call[c].share] = NoCall THEN "ensuring" ELSE "over"]
  /\ UNCHANGED <<recording, railVars, rowVars, stopVars>>

\* The reads are over: the rail is built, whatever happened to the share.
Ensured(c) ==
  LET j == call[c].share
      R == [rail EXCEPT ![c] = [NoRail EXCEPT !.share = j, !.open = TRUE]]
  IN /\ call[c].st = "ensuring"
     /\ call' = [call EXCEPT ![c].st = "over"]
     /\ current' = [current EXCEPT ![j] = c]
     /\ registered' = IF MaxPerRail > 1 THEN registered \cup {j} ELSE registered
     /\ Observe(R, registered', c)
     /\ UNCHANGED <<recording, rowVars, stopVars>>

\* No owner, no user, a failed read: the callback goes without a rail.
EnsureFails(c) ==
  /\ call[c].st = "ensuring"
  /\ call' = [call EXCEPT ![c].st = "over"]
  /\ UNCHANGED <<recording, railVars, rowVars, stopVars>>

\* A frame of the legacy rail is decided inside its own request.
Ingest(c, j) ==
  /\ call[c].st = "idle" /\ j \in registry
  /\ call' = [call EXCEPT ![c] = [st |-> "ingesting", share |-> j]]
  /\ UNCHANGED <<recording, railVars, rowVars, stopVars>>

Upload(j) ==
  /\ j \in registry /\ ~recording[j]
  /\ recording' = [recording EXCEPT ![j] = TRUE]
  /\ UNCHANGED <<call, railVars, rowVars, stopVars>>
-----------------------------------------------------------------------------
(***************************************************************************)
(* The highlights and their live cuts.                                     *)
(***************************************************************************)

\* The row is readable at once; its cut is scheduled while the job is active.
Publish(h, j, from, start) ==
  /\ row[h] = NoRow
  /\ row' = [row EXCEPT ![h] = [NoRow EXCEPT !.share = j, !.from = from, !.start = start]]
  /\ live' = [live EXCEPT ![h] = IF status[j] = "active" /\ j \in registry THEN "waiting" ELSE "none"]

Verdict(j, from) ==
  \/ UNCHANGED rowVars
  \/ \E h \in Rows, start \in Starts : Publish(h, j, from, start)

Decided(r) ==
  /\ rail[r].deciding > 0
  /\ rail' = [rail EXCEPT ![r].deciding = @ - 1]
  /\ Verdict(rail[r].share, r)
  /\ UNCHANGED <<recording, call, current, slotVars, stopVars>>

Ingested(c) ==
  /\ call[c].st = "ingesting"
  /\ call' = [call EXCEPT ![c].st = "over"]
  /\ Verdict(call[c].share, c)
  /\ UNCHANGED <<recording, railVars, stopVars>>

\* waitForRecordingFlush ends: the footage is there, or it is left to the stop.
Flushed(h) ==
  /\ live[h] = "waiting"
  /\ live' = [live EXCEPT ![h] = IF Running(row[h].share) /\ recording[row[h].share] /\ ~row[h].uri
                                 THEN "first" ELSE "over"]
  /\ UNCHANGED <<recording, call, railVars, row, stopVars>>

WaitTimesOut(h) ==
  /\ live[h] = "waiting"
  /\ live' = [live EXCEPT ![h] = "over"]
  /\ UNCHANGED <<recording, call, railVars, row, stopVars>>

LiveCutOk(h) ==
  /\ live[h] \in {"first", "second"}
  /\ row' = [row EXCEPT ![h].uri = TRUE, ![h].err = FALSE]
  /\ live' = [live EXCEPT ![h] = "over"]
  /\ UNCHANGED <<recording, call, railVars, stopVars>>

LiveCutFails(h) ==
  /\ live[h] \in {"first", "second"}
  /\ live' = [live EXCEPT ![h] = IF live[h] = "first" THEN "retry" ELSE "over"]
  /\ UNCHANGED <<recording, call, railVars, row, stopVars>>

\* The retry looks at the finalisation, not at the status of the job.
LiveCutRetries(h) ==
  LET j == row[h].share
  IN /\ live[h] = "retry"
     /\ live' = [live EXCEPT ![h] = IF row[h].uri \/ j \notin registry \/ stage[j] # "none"
                                    THEN "over" ELSE "second"]
     /\ UNCHANGED <<recording, call, railVars, row, stopVars>>
-----------------------------------------------------------------------------
(***************************************************************************)
(* finishBrowserJob.                                                       *)
(***************************************************************************)

\* The tail is decided once, then no frame is taken.
Finish(r, tail) ==
  rail' = [rail EXCEPT ![r].open = FALSE, ![r].deciding = IF rail[r].fed /\ tail THEN @ + 1 ELSE @]

\* Mutant of Stop: a second caller does not find the first one's promise.
Stop_NoJoin(j, outcome) ==
  /\ j \in registry
  /\ stage' = [stage EXCEPT ![j] = "closing"]
  /\ verdict' = [verdict EXCEPT ![j] = outcome]
  /\ UNCHANGED <<recording, call, railVars, rowVars, status, registry, ended, todo, cutting>>

\* Mutant of Stop: the end of a failed share closes the rail and nothing more.
Stop_KeepsDepth(j, outcome) ==
  /\ outcome = "failed" /\ j \in registry /\ stage[j] = "none"
  /\ verdict' = [verdict EXCEPT ![j] = outcome]
  /\ ended' = [ended EXCEPT ![j] = current[j]]
  /\ stage' = [stage EXCEPT ![j] = "closing"]
  /\ rail' = [c \in Calls |-> IF c = current[j] THEN [rail[c] EXCEPT !.open = FALSE] ELSE rail[c]]
  /\ UNCHANGED <<recording, call, current, slotVars, rowVars, status, registry, todo, cutting>>

\* POST /stop or a session-closed callback; a later caller joins the first.
Stop(j, outcome) ==
  /\ j \in registry /\ stage[j] = "none"
  /\ verdict' = [verdict EXCEPT ![j] = outcome]
  /\ ended' = [ended EXCEPT ![j] = current[j]]
  /\ IF current[j] = NoCall
     THEN stage' = [stage EXCEPT ![j] = "closing"] /\ UNCHANGED <<rail, registered>>
     ELSE IF outcome = "done"
     THEN /\ stage' = [stage EXCEPT ![j] = "flush"]
          /\ \E tail \in BOOLEAN : Finish(current[j], tail)
          /\ UNCHANGED registered
     ELSE /\ stage' = [stage EXCEPT ![j] = "closing"]
          /\ rail' = [rail EXCEPT ![current[j]].open = FALSE]
          /\ registered' = registered \ {j}
  /\ UNCHANGED <<recording, call, current, holder, idle, rowVars, status, registry, todo, cutting>>

\* Mutant of FlushEnds: finish() does not wait for the decides in flight.
FlushEnds_NoWait(j) ==
  /\ stage[j] = "flush"
  /\ stage' = [stage EXCEPT ![j] = "closing"]
  /\ registered' = registered \ {j}
  /\ holder' = IF holder = j THEN NoShare ELSE holder
  /\ UNCHANGED <<recording, call, current, rail, idle, rowVars, status, registry, verdict, ended,
                 todo, cutting>>

\* finish() returns: the slot and the depth registration are given back.
FlushEnds(j) ==
  /\ stage[j] = "flush" /\ rail[ended[j]].deciding = 0
  /\ stage' = [stage EXCEPT ![j] = "closing"]
  /\ registered' = registered \ {j}
  /\ holder' = IF holder = j THEN NoShare ELSE holder
  /\ UNCHANGED <<recording, call, current, rail, idle, rowVars, status, registry, verdict, ended,
                 todo, cutting>>

\* The perceive and media sessions are closed, the last chunk is waited for: the
\* recording is looked for once.
SessionsClosed(j) ==
  /\ stage[j] = "closing"
  /\ stage' = [stage EXCEPT ![j] = IF recording[j] THEN "drain" ELSE "bare"]
  /\ UNCHANGED <<recording, call, railVars, rowVars, status, registry, verdict, ended, todo, cutting>>

\* The live cuts have ended or thirty seconds have passed: the rows without a
\* clip at this instant are the ones the loop visits.
Drained(j) ==
  /\ stage[j] \in {"drain", "bare"}
  /\ stage' = [stage EXCEPT ![j] = IF @ = "drain" THEN "cut" ELSE "miss"]
  /\ todo' = todo \cup {h \in RowsOf(j) : ~row[h].uri}
  /\ UNCHANGED <<recording, call, railVars, rowVars, status, registry, verdict, ended, cutting>>

StopCut(j, h) ==
  /\ stage[j] = "cut" /\ h \in todo \cap RowsOf(j) /\ cutting \cap RowsOf(j) = {}
  /\ cutting' = cutting \cup {h}
  /\ UNCHANGED <<recording, call, railVars, rowVars, status, registry, stage, verdict, ended, todo>>

\* Without a recording every row says so.
StopMisses(j, h) ==
  /\ stage[j] = "miss" /\ h \in todo \cap RowsOf(j)
  /\ row' = [row EXCEPT ![h].err = TRUE]
  /\ todo' = todo \ {h}
  /\ UNCHANGED <<recording, call, railVars, live, status, registry, stage, verdict, ended, cutting>>

StopCutEnds(h, ok) ==
  /\ h \in cutting
  /\ cutting' = cutting \ {h} /\ todo' = todo \ {h}
  /\ row' = IF ok THEN [row EXCEPT ![h].uri = TRUE] ELSE [row EXCEPT ![h].err = TRUE]
  /\ UNCHANGED <<recording, call, railVars, live, status, registry, stage, verdict, ended>>

Conclude(j) ==
  /\ stage[j] \in {"cut", "miss"} /\ todo \cap RowsOf(j) = {}
  /\ stage' = [stage EXCEPT ![j] = "over"]
  /\ registry' = registry \ {j}
  /\ status' = [status EXCEPT ![j] = verdict[j]]
  /\ UNCHANGED <<recording, call, railVars, rowVars, verdict, ended, todo, cutting>>
-----------------------------------------------------------------------------
CallStep(c) == Tapped(c) \/ Ensured(c) \/ EnsureFails(c) \/ Ingested(c) \/ Decided(c)

CutStep(h) ==
  \/ Flushed(h) \/ WaitTimesOut(h) \/ LiveCutOk(h) \/ LiveCutFails(h) \/ LiveCutRetries(h)
  \/ \E ok \in BOOLEAN : StopCutEnds(h, ok)

StopStep(j) ==
  \/ FlushEnds(j) \/ SessionsClosed(j) \/ Drained(j) \/ Conclude(j)
  \/ \E h \in Rows : StopCut(j, h) \/ StopMisses(j, h)

Next ==
  \/ HolderIdles
  \/ \E c \in Calls : CallStep(c) \/ \E j \in Shares : Relay(c, j) \/ Tap(c, j) \/ Ingest(c, j)
  \/ \E h \in Rows : CutStep(h)
  \/ \E j \in Shares : Upload(j) \/ StopStep(j) \/ \E outcome \in Ended : Stop(j, outcome)

Spec == Init /\ [][Next]_vars
-----------------------------------------------------------------------------
\* A share ends once, the way its first stop or close asked: the two triggers of
\* finishBrowserJob never run it twice nor change its outcome.
End == INSTANCE ShareEnd
ImplementsShareEnd == End!Spec

\* Every highlight that the rail of a share accepted before the share was done
\* has a clip or the reason why it has none: finish() settles the rail before the
\* cut loop looks at the rows.
SettledByStop ==
  \A h \in Rows : \A j \in Shares :
    /\ row[h].share = j /\ status[j] = "done"
    /\ row[h].from = ended[j] /\ ended[j] # NoCall
    => row[h].uri \/ row[h].err

\* A share that has ended and never had another rail than the one its end
\* settled is out of the depth sharing, and after finish() out of the slot.
GivenBack ==
  \A j \in Shares :
    status[j] \in Ended /\ RailsOf(j) \subseteq {ended[j]}
    => j \notin registered /\ (status[j] = "done" => holder # j)

-----------------------------------------------------------------------------
(***************************************************************************)
(* What its comments say and the code does not do: neither holds.          *)
(***************************************************************************)

\* No share is left in the depth sharing once it has ended (media-rail.ts,
\* release: "a leaked registration would shrink every later live stream's depth").
DepthGivenBack == \A j \in Shares : status[j] \in Ended => j \notin registered

\* Two cuts never write the same clip file (api.ts, drainLiveClipCuts: "so two
\* ffmpeg runs can never write the same clip file").
Writing == {h \in Rows : live[h] \in {"first", "second"} \/ h \in cutting}
OneWriterPerClip ==
  /\ \A h \in cutting : live[h] \notin {"first", "second"}
  /\ \A g, h \in Writing :
       row[g].share = row[h].share /\ row[g].start = row[h].start => g = h
=============================================================================
