------------------------------ MODULE LiveObserver ------------------------------
(***************************************************************************)
(* The decide pass of one live share (services/server/src/observe-loop.ts, *)
(* audio-trigger.ts, media-rail.ts): frames arrive with their content time,*)
(* a frame fires a window when the cadence or an audio trigger is due and  *)
(* the decide budget allows it, the decides run side by side, and their    *)
(* verdicts are accepted one at a time from the head of a queue.           *)
(*                                                                         *)
(* The code between two awaits is one step, so a frame and the fire it     *)
(* causes are one action: on a pipelined rail fire() awaits nothing.  Time *)
(* is the content time of the frames, in units; budget tokens are counted  *)
(* in tenths.                                                              *)
(***************************************************************************)
EXTENDS Integers, Sequences, FiniteSets

CONSTANTS
  Cadence,     \* cadenceS
  Window,      \* windowS
  Lead,        \* AUDIO_TRIGGER_LEAD_S
  Coalesce,    \* AUDIO_TRIGGER_COALESCE_S
  MaxLatency,  \* AUDIO_TRIGGER_MAX_ANCHOR_LATENCY_S
  MaxStale,    \* AUDIO_TRIGGER_MAX_STALE_S
  PendingCap,  \* triggers the scheduler keeps (64)
  MaxInFlight, \* LIVE_OBSERVE_IN_FLIGHT
  Keep,        \* LIVE_DECIDE_KEEP_RATIO in tenths, 10 when it is off
  SignalGate,  \* observeSignalGate
  Families,    \* stageA, stageB
  Faults,      \* whether a decide or an accept may throw
  MaxTs,       \* bound: content time of the last frame
  MaxGap,      \* bound: content time between two frames
  Skew,        \* bound: how late a relayed frame may arrive
  MaxTriggers  \* bound: audio triggers accepted

ASSUME LiveAssumption ==
  /\ {Cadence, MaxInFlight, PendingCap, Keep} \subseteq Nat \ {0}
  /\ Keep <= 10 /\ 10 % Cadence = 0
  /\ {Window, Lead, Coalesce, MaxLatency, MaxStale} \subseteq Nat
  /\ {MaxTs, MaxGap, Skew, MaxTriggers} \subseteq Nat
  /\ SignalGate \in BOOLEAN /\ Faults \in BOOLEAN
  /\ MaxLatency <= Window /\ Lead <= MaxLatency

VARIABLES
  clock,      \* the newest content time seen (lastBudgetTs)
  tail,       \* the content time of the frame recorded last
  lastFire,   \* lastFireTs
  tokens,     \* budgetTokens
  credit,     \* decideCredit
  lastKept,   \* lastOpportunityTs
  triggers,   \* the triggers accepted, with what became of each
  lastOnset,  \* lastAcceptedOnsetByFamily
  wins,       \* the windows fired
  queue,      \* pending: windows issued and not applied
  drains,     \* drainReady calls scheduled or running on applyChain
  applyError, \* the window whose failure is held for flush, 0 for none
  published,  \* the windows whose moment was accepted, in that order
  phase

fireVars == <<clock, tokens, lastFire, credit, lastKept>>
drainVars == <<drains, applyError, published>>
vars == <<fireVars, tail, triggers, lastOnset, wins, queue, drainVars, phase>>

NoTs == -1
Times == 0..MaxTs
Opt(S) == S \cup {NoTs}
WinIds == DOMAIN wins

WinState == {"running", "done", "failed", "accepting", "applied"}
TriggerState == {"pending", "fired", "covered", "expired", "lost"}
Phase == {"live", "flush", "tail", "finished", "released"}

TypeOK ==
  /\ {clock, tail, lastFire, lastKept} \subseteq Opt(Times)
  /\ tokens \in -20..10 /\ credit \in 0..20
  /\ triggers \in Seq([family: Families, onset: Times, st: TriggerState, seen: Nat])
  /\ lastOnset \in [Families -> Opt(Times)]
  /\ wins \in Seq([ts: Times, trigger: 0..MaxTriggers, forced: BOOLEAN, st: WinState])
  /\ queue \in Seq(WinIds) /\ published \in Seq(WinIds)
  /\ drains \in Nat /\ applyError \in 0..Len(wins)
  /\ phase \in Phase

Init ==
  /\ clock = NoTs /\ tail = NoTs /\ lastFire = NoTs /\ lastKept = NoTs
  /\ tokens = 10 /\ credit = 10
  /\ triggers = <<>> /\ lastOnset = [f \in Families |-> NoTs]
  /\ wins = <<>> /\ queue = <<>> /\ published = <<>>
  /\ drains = 0 /\ applyError = 0
  /\ phase = "live"

Larger(a, b) == IF a < b THEN b ELSE a
Smaller(a, b) == IF a < b THEN a ELSE b
Distance(a, b) == IF a < b THEN b - a ELSE a - b
InFlight == {w \in WinIds : wins[w].st = "running"}
Accepting == {w \in WinIds : wins[w].st = "accepting"}
-----------------------------------------------------------------------------
(***************************************************************************)
(* The trigger scheduler.                                                  *)
(***************************************************************************)

Pending(T) == {i \in DOMAIN T : T[i].st = "pending"}
Move(T, S, st) == [i \in DOMAIN T |-> IF i \in S THEN [T[i] EXCEPT !.st = st] ELSE T[i]]

\* The last trigger of a family among the first n heard.
LastOf(heard, n, f) ==
  LET mine == {k \in 1..n : heard[k].family = f}
  IN CHOOSE k \in mine : \A j \in mine : j <= k

\* lastAcceptedOnsetByFamily once the first n of those heard are recorded.
Onsets(heard, n) ==
  [f \in Families |-> IF \E k \in 1..n : heard[k].family = f
                      THEN heard[LastOf(heard, n, f)].onset ELSE lastOnset[f]]

\* record: a trigger close to the last one of its family is the same event.
Accepts(heard, i) ==
  LET last == Onsets(heard, i - 1)[heard[i].family]
  IN last = NoTs \/ Distance(heard[i].onset, last) >= Coalesce

\* A full list drops its oldest entries, which no counter notes.
Recorded(heard) ==
  LET all == triggers \o [i \in 1..Len(heard) |->
                            [family |-> heard[i].family, onset |-> heard[i].onset,
                             st |-> "pending", seen |-> Len(wins)]]
      over == {i \in Pending(all) : Cardinality({k \in Pending(all) : k > i}) >= PendingCap}
  IN Move(all, over, "lost")

\* What the frame at ts takes from the queue of the audio tap, in that order: the
\* triggers that the scheduler accepts, often none.
Tapped(ts) ==
  LET reach == (ts - MaxLatency)..(ts + 1) \cap Times
      batches == UNION {[1..n -> [family: Families, onset: reach]] :
                          n \in 0..(MaxTriggers - Len(triggers))}
  IN {heard \in batches : \A i \in DOMAIN heard : Accepts(heard, i)}

Expired(T, ts) == Move(T, {i \in Pending(T) : T[i].onset < ts - MaxStale}, "expired")
Covered(T, lo, hi) == Move(T, {i \in Pending(T) : T[i].onset \in lo..hi}, "covered")

Due(T, ts) == {i \in Pending(T) : ts - T[i].onset \in Lead..MaxLatency}

\* peekDue: the earliest onset, of equal ones the first queued; 0 for none.
PeekDue(T, ts) ==
  LET S == Due(T, ts)
  IN IF S = {} THEN 0
     ELSE CHOOSE i \in S : \A k \in S :
            T[i].onset < T[k].onset \/ (T[i].onset = T[k].onset /\ i <= k)
-----------------------------------------------------------------------------
(***************************************************************************)
(* A frame.                                                                *)
(***************************************************************************)

Refill(ts) ==
  IF clock = NoTs THEN tokens
  ELSE Smaller(10, tokens + Larger(ts - clock, 0) * (10 \div Cadence))

CadenceDue(ts) == lastFire = NoTs \/ ts - lastFire >= Cadence

\* Mutant of Affordable: an anchored window is free of the budget.
Affordable_AnchoredFree(ts, trigger) ==
  IF trigger # 0 THEN TRUE ELSE CadenceDue(ts) /\ Refill(ts) >= 10

\* An anchored window may be fired up to 0.6 of a cadence early.
Affordable(ts, trigger) ==
  IF trigger # 0 THEN Refill(ts) >= 4 ELSE CadenceDue(ts) /\ Refill(ts) >= 10

\* The checks of fire() in its order: the budget, the share of the decide
\* admission the job has now, the signal gate (which passes every anchored
\* window), the box's live slot, and the rate cap, which sees one opportunity
\* per cadence and decides the fraction Keep of them.
Outcome(ts, trigger, depth, signal, admitted) ==
  IF ~Affordable(ts, trigger) \/ Cardinality(InFlight) >= depth THEN "refused"
  ELSE IF SignalGate /\ trigger = 0 /\ ~signal THEN "gated"
  ELSE IF ~admitted THEN "refused"
  ELSE IF Keep = 10 THEN "decides"
  ELSE IF lastKept # NoTs /\ ts - lastKept < Cadence THEN "refused"
  ELSE IF credit + Keep < 10 THEN "dropped" ELSE "decides"

Outcomes(ts, trigger) ==
  {Outcome(ts, trigger, depth, signal, admitted) :
     depth \in 1..MaxInFlight, signal \in BOOLEAN, admitted \in BOOLEAN}

\* Mutant of Issue: the trigger that anchors the window stays pending.
Issue_KeepsTrigger(ts, trigger, T, forced) ==
  /\ lastFire' = ts
  /\ tokens' = Refill(ts) - 10
  /\ triggers' = Move(Covered(T, ts - Window, ts), {trigger} \ {0}, "pending")
  /\ wins' = Append(wins, [ts |-> ts, trigger |-> trigger, forced |-> forced, st |-> "running"])
  /\ queue' = (IF forced THEN <<>> ELSE queue) \o <<Len(wins) + 1>>

\* fire() once nothing refuses the window; its anchor is consumed, and every
\* other trigger inside it is covered by it.  The forced tail of a flush finds
\* the queue empty.
Issue(ts, trigger, T, forced) ==
  /\ lastFire' = ts
  /\ tokens' = Refill(ts) - 10
  /\ triggers' = Covered(Move(T, {trigger} \ {0}, "fired"), ts - Window, ts)
  /\ wins' = Append(wins, [ts |-> ts, trigger |-> trigger, forced |-> forced, st |-> "running"])
  /\ queue' = (IF forced THEN <<>> ELSE queue) \o <<Len(wins) + 1>>

\* Mutant of Frame: the clock of the budget follows a late frame back.
Frame_ClockBack(ts, heard) ==
  /\ phase = "live"
  /\ ts \in (IF clock = NoTs THEN {0} ELSE ((clock - Skew)..(clock + MaxGap)) \cap Times)
  /\ heard \in Tapped(ts)
  /\ clock' = ts /\ tail' = ts
  /\ lastOnset' = Onsets(heard, Len(heard))
  /\ UNCHANGED <<drainVars, phase>>

\* onObservation records the frame and its triggers before anything else.
Frame(ts, heard) ==
  /\ phase = "live"
  /\ ts \in (IF clock = NoTs THEN {0} ELSE ((clock - Skew)..(clock + MaxGap)) \cap Times)
  /\ heard \in Tapped(ts)
  /\ clock' = Larger(clock, ts) /\ tail' = ts
  /\ lastOnset' = Onsets(heard, Len(heard))
  /\ UNCHANGED <<drainVars, phase>>

\* noteStaleFrame: a frame behind the lag budget moves the cadence on.  The
\* triggers no later window can hold are counted as covered.
StaleFrame(ts, heard) ==
  LET late == lastFire = NoTs \/ ts - lastFire >= Cadence
  IN /\ Frame(ts, heard)
     /\ tokens' = Refill(ts)
     /\ lastFire' = IF late THEN ts ELSE lastFire
     /\ triggers' = IF late THEN Covered(Recorded(heard), 0, ts - Window) ELSE Recorded(heard)
     /\ UNCHANGED <<credit, lastKept, wins, queue>>

\* fire() on a fresh frame.  A refused window leaves the cadence due, a gated
\* or dropped one moves it on; none of them touches the triggers.
FreshFrame(ts, heard) ==
  LET T == Expired(Recorded(heard), ts)
      trigger == PeekDue(T, ts)
      skips == tokens' = Refill(ts) /\ triggers' = T /\ UNCHANGED <<wins, queue>>
  IN /\ Frame(ts, heard)
     /\ \E o \in Outcomes(ts, trigger) :
          /\ \/ o = "refused" /\ skips /\ UNCHANGED lastFire
             \/ o \in {"gated", "dropped"} /\ skips /\ lastFire' = ts
             \/ o = "decides" /\ Issue(ts, trigger, T, FALSE)
          /\ lastKept' = IF Keep < 10 /\ o \in {"dropped", "decides"} THEN ts ELSE lastKept
          /\ credit' = CASE Keep < 10 /\ o = "dropped" -> credit + Keep
                         [] Keep < 10 /\ o = "decides" -> credit + Keep - 10
                         [] OTHER -> credit

ObserveFrame ==
  \E ts \in Times : \E heard \in Tapped(ts) : StaleFrame(ts, heard) \/ FreshFrame(ts, heard)
-----------------------------------------------------------------------------
(***************************************************************************)
(* The decides and the drain.                                              *)
(***************************************************************************)

SetWin(w, st) == wins' = [wins EXCEPT ![w].st = st]
passRest == <<fireVars, tail, triggers, lastOnset>>

\* The decide of a window resolves or rejects, and schedules a drain.
Settle(w) ==
  /\ w \in InFlight
  /\ \E st \in {"done"} \cup (IF Faults THEN {"failed"} ELSE {}) : SetWin(w, st)
  /\ drains' = drains + 1
  /\ UNCHANGED <<passRest, queue, applyError, published, phase>>

\* Mutant of DrainReady: a call applies one window and ends.
DrainReady_OneWindow ==
  /\ drains > 0 /\ Accepting = {}
  /\ drains' = drains - 1
  /\ IF queue = <<>> \/ wins[Head(queue)].st = "running"
     THEN UNCHANGED <<wins, queue, applyError>>
     ELSE /\ queue' = Tail(queue)
          /\ IF wins[Head(queue)].st = "failed"
             THEN applyError' = Head(queue) /\ UNCHANGED wins
             ELSE SetWin(Head(queue), "accepting") /\ UNCHANGED applyError
  /\ UNCHANGED <<passRest, published, phase>>

\* One turn of drainReady's loop.  A failed head ends this call of it; the
\* next call goes on with the window behind it.
DrainReady ==
  /\ drains > 0 /\ Accepting = {}
  /\ IF queue = <<>> \/ wins[Head(queue)].st = "running"
     THEN drains' = drains - 1 /\ UNCHANGED <<wins, queue, applyError>>
     ELSE /\ queue' = Tail(queue)
          /\ IF wins[Head(queue)].st = "failed"
             THEN applyError' = Head(queue) /\ drains' = drains - 1 /\ UNCHANGED wins
             ELSE SetWin(Head(queue), "accepting") /\ UNCHANGED <<drains, applyError>>
  /\ UNCHANGED <<passRest, published, phase>>

\* accept() answers whether the moment is published, and the loop goes on, or it throws and ends the call.
Accept(w) ==
  /\ w \in Accepting
  /\ \/ /\ SetWin(w, "applied")
        /\ published' \in {published, Append(published, w)}
        /\ UNCHANGED <<drains, applyError>>
     \/ /\ Faults /\ SetWin(w, "failed")
        /\ drains' = drains - 1
        /\ applyError' = IF applyError = 0 THEN w ELSE applyError
        /\ UNCHANGED published
  /\ UNCHANGED <<passRest, queue, phase>>
-----------------------------------------------------------------------------
(***************************************************************************)
(* The end of the share.                                                   *)
(***************************************************************************)

\* finish() queues one flush when a frame was seen.
Finish ==
  /\ phase = "live"
  /\ phase' = IF clock = NoTs THEN "finished" ELSE "flush"
  /\ UNCHANGED <<passRest, wins, queue, drainVars>>

\* release(): the session is lost, nothing is flushed.
Release ==
  /\ phase = "live" /\ phase' = "released"
  /\ UNCHANGED <<passRest, wins, queue, drainVars>>

\* Mutant of Drained: drainAll waits for an empty queue only.
Drained_NoError == Accepting = {} /\ queue = <<>>

\* drainAll ends: everything is applied, or a failure is held and what is
\* queued behind it is discarded.
Drained == Accepting = {} /\ (queue = <<>> \/ applyError # 0)

\* The newest frame is fired whatever the budget, the depth and the cap say.
FlushTail(admitted) ==
  /\ phase = "flush" /\ Drained /\ phase' = "tail"
  /\ \/ admitted /\ Issue(tail, 0, triggers, TRUE)
     \/ /\ ~admitted
        /\ tokens' = Refill(tail) /\ queue' = <<>>
        /\ UNCHANGED <<lastFire, triggers, wins>>
  /\ UNCHANGED <<clock, credit, lastKept, tail, lastOnset, drainVars>>

\* Mutant of FlushEnds: the tail window is not drained before the share ends.
FlushEnds_NoDrain ==
  /\ phase = "tail" /\ phase' = "finished"
  /\ triggers' = Move(triggers, Pending(triggers), "expired")
  /\ applyError' = 0
  /\ UNCHANGED <<fireVars, tail, lastOnset, wins, queue, drains, published>>

\* The pending triggers expire, and the failure is thrown to finish().
FlushEnds ==
  /\ phase = "tail" /\ Drained /\ phase' = "finished"
  /\ queue' = <<>>
  /\ triggers' = Move(triggers, Pending(triggers), "expired")
  /\ applyError' = 0
  /\ UNCHANGED <<fireVars, tail, lastOnset, wins, drains, published>>

Flush == (\E admitted \in BOOLEAN : FlushTail(admitted)) \/ FlushEnds
DecideStep == \E w \in WinIds : Settle(w) \/ Accept(w)

Next == ObserveFrame \/ DecideStep \/ DrainReady \/ Finish \/ Release \/ Flush

Spec == Init /\ [][Next]_vars

\* A decide ends or times out, an accept ends, and promises run on.
FairSpec ==
  /\ Spec
  /\ WF_vars(DecideStep) /\ WF_vars(DrainReady) /\ WF_vars(Flush)
-----------------------------------------------------------------------------
(***************************************************************************)
(* Properties.                                                             *)
(***************************************************************************)

\* Audio triggers add no decides: over the whole pass the fired windows stay
\* within one per cadence of content time, plus the 0.6 an anchored window may
\* borrow; late frames and stale frames gain nothing (observe-loop.ts:651-656).
DecideRateBounded ==
  LET fired == {w \in WinIds : ~wins[w].forced}
  IN Cardinality(fired) * 10 <= 16 + Larger(clock, 0) * (10 \div Cadence)

\* A trigger anchors at most one window, one that holds its onset within the
\* latency the contract gives; a trigger still pending lies in no window fired
\* since it was accepted (audio-trigger.ts:259-303).
OneWindowPerTrigger ==
  \A i \in DOMAIN triggers :
    LET t == triggers[i]
        anchored == {w \in WinIds : wins[w].trigger = i}
    IN /\ Cardinality(anchored) = IF t.st = "fired" THEN 1 ELSE 0
       /\ \A w \in anchored : wins[w].ts - t.onset \in Lead..MaxLatency
       /\ t.st = "pending" =>
            \A w \in WinIds : w > t.seen => t.onset \notin (wins[w].ts - Window)..wins[w].ts

\* Windows are fired, hence published, in the order of their content, though a
\* frame may be relayed late and move the cadence clock back.  It holds as long
\* as the budget a late frame finds is below the 0.4 an anchored window takes,
\* (Skew - 1) * (10 \div Cadence) < 4: a later one may be anchored behind the
\* newest window.
ContentOrder ==
  \A v, w \in WinIds : v < w /\ ~wins[w].forced => wins[v].ts <= wins[w].ts

\* Acceptance is in order, one at a time, and over when the share is.
Feed == INSTANCE LiveFeed WITH closed <- phase = "finished"
ImplementsFeed == Feed!Spec

\* No settled window is left at the head of the line: a drain is on its way to
\* it until a failure is held, in whatever order the decides came back.  Only a
\* settle schedules drains: one that stopped early would leave the window
\* unpublished, and drainAll spinning on a decide that has long ended.
HeadIsDrained ==
  queue # <<>> /\ wins[Head(queue)].st \in {"done", "failed"} => drains > 0 \/ applyError # 0

\* finish() returns: the flush ends whatever the decides do.
FinishReturns == phase = "flush" ~> phase = "finished"

-----------------------------------------------------------------------------
(***************************************************************************)
(* What its comments say and the code does not do.                         *)
(***************************************************************************)

\* The comment at observe-loop.ts:1018-1020: a failed decide aborts the pass,
\* nothing is published past it.
NothingPublishedPastFailure ==
  \A i \in DOMAIN published, w \in WinIds : wins[w].st = "failed" => published[i] < w
=============================================================================
