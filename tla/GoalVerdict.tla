------------------------------ MODULE GoalVerdict ------------------------------
(***************************************************************************)
(* How the moments of one live run become goals (services/server/src/      *)
(* analyzer.ts, live-confirm-async.ts, live-frame-reread.ts, api.ts).      *)
(*                                                                         *)
(* Judged windows are accepted one at a time, in the order of the content. *)
(* A goal-shaped window with a measured attestation becomes a goal row;    *)
(* without one it is demoted to a celebration, which two lanes may still   *)
(* promote: a later read of the scoreboard, or a confirm dive that runs    *)
(* off the accept path.  The scoreboard is read many times over, so the    *)
(* run keeps ledgers of the transitions credited, of the goals delivered   *)
(* and of the rows still waiting.                                          *)
(*                                                                         *)
(* Content time is in units.  A window bears the unit t at which it closes *)
(* and spans [t - Width, t]; its row bears the same name.  A goal bears    *)
(* the unit in which the scoreboard first shows it; a read of the          *)
(* transition bears the frame it is read at, then or later: a scoreboard   *)
(* that is misread and reads well again shows the same transition anew.    *)
(***************************************************************************)
EXTENDS Naturals, FiniteSets

CONSTANTS
  Content,      \* bound: units of content
  Closes,       \* bound: the units at which a window may close
  Goals,        \* the score transitions
  Hinted,       \* those that a hint of perceive may carry
  Width,        \* the judged window
  Lookahead,    \* LIVE_DEFERRED_ATTESTATION_LOOKAHEAD_S, LIVE_CONFIRM_LOOKAHEAD_S
  Burst,        \* goalBurstWindowS
  Kick,         \* SHOOTOUT_KICK_DEDUP_S
  Horizon,      \* GOAL_SAME_TRANSITION_HORIZON_S
  Reach,        \* GOAL_DUPLICATE_REACH_S
  Clip,         \* clipBeforeS, clipAfterS
  MaxDeferred,  \* cap of the demoted rows a run holds
  MaxPending,   \* cap of the dives a run holds
  MaxDives,     \* LIVE_CONFIRM_MAX_DIVES_PER_300S
  BudgetWindow, \* LIVE_CONFIRM_BUDGET_WINDOW_S
  MaxFrames,    \* LIVE_FRAME_REREAD_MAX_FRAMES
  MaxOcr,       \* LIVE_FRAME_REREAD_MAX_OCR_CALLS_PER_RUN
  Faults        \* whether a write of a verdict may fail

Windows == 1..Content
NoGoal == 0
NoDive == 0

ASSUME VerdictAssumption ==
  /\ {Content, Width, Lookahead, Burst, Kick, Horizon, Reach, Clip, MaxDeferred, MaxPending,
      MaxDives, BudgetWindow, MaxFrames, MaxOcr} \subseteq Nat
  /\ Closes \subseteq Windows /\ Goals \subseteq Windows /\ Hinted \subseteq Goals
  /\ Kick <= Burst /\ Burst <= Horizon
  /\ MaxDeferred > 0 /\ MaxPending > 0
  /\ Faults \in BOOLEAN

VARIABLES
  now,       \* the newest window accepted
  row,       \* the highlight row of each window
  events,    \* acceptedGoalEvents
  shaped,    \* deliveredGoalShapedEvents
  deferred,  \* deferredGoalAttestations
  credited,  \* creditedScoreTransitions
  plan,      \* the demoted rows whose frames this accept has still to read again
  reread,    \* frameRereadAttempts
  ocr,       \* frameRereadOcrCallCount
  pending,   \* pendingConfirmDiveEntries
  evicted,   \* the entries that newer ones pushed out of it before a pump took them
  chain,     \* the pumps the confirm hook has chained for this run
  pump,      \* the pump that runs: its dives still to start and the one in flight
  attempted, \* confirmDiveAttempts
  spent,     \* the stamps of confirmBudget
  calls,     \* the confirm calls made
  dropped    \* the dives counted as dropped

board == <<row, events, shaped, deferred>>
ledger == <<now, credited, plan, reread, ocr>>
lane == <<pump, attempted, spent, calls, dropped>>
vars == <<board, ledger, pending, evicted, chain, lane>>

NoRow == [lane |-> "none", mark |-> "none", how |-> "none", key |-> NoGoal, by |-> 0,
          dive |-> "none"]
NoRead == [key |-> NoGoal, at |-> 0]
NoPump == [of |-> NoDive, todo |-> {}, dive |-> NoDive, saving |-> FALSE]

Row == [lane: {"none", "celebration", "goal"},
        mark: {"none", "provisional", "refuted"},       \* provisionalGoal
        how: {"none", "gate", "place", "late", "dive"}, \* what made it a goal
        key: Goals \cup {NoGoal},                       \* the transition that did
        by: 0..Content,                                 \* the accept that measured it
        dive: {"none", "armed", "stamped"}]             \* descriptor, confirmAttestation
Event == [from: 0..Content, to: Nat, at: Windows, key: Goals \cup {NoGoal}, anchor: 0..Content]
Stamp == [at: Windows, of: Windows]

TypeOK ==
  /\ now \in 0..Content
  /\ row \in [Windows -> Row]
  /\ events \subseteq Event
  /\ shaped \subseteq Windows /\ deferred \subseteq Windows
  /\ credited \subseteq Goals
  /\ plan \subseteq Windows /\ reread \subseteq Windows
  /\ ocr \in 0..MaxOcr
  /\ pending \subseteq Windows /\ evicted \subseteq Windows /\ chain \subseteq Windows
  /\ pump \in [of: Windows \cup {NoDive}, todo: SUBSET Windows, dive: Windows \cup {NoDive},
               saving: BOOLEAN]
  /\ attempted \subseteq Windows
  /\ spent \subseteq Stamp /\ calls \subseteq spent
  /\ dropped \subseteq Windows

Init ==
  /\ now = 0
  /\ row = [t \in Windows |-> NoRow]
  /\ events = {} /\ shaped = {} /\ deferred = {}
  /\ credited = {}
  /\ plan = {} /\ reread = {} /\ ocr = 0
  /\ pending = {} /\ evicted = {} /\ chain = {} /\ pump = NoPump
  /\ attempted = {} /\ spent = {} /\ calls = {} /\ dropped = {}

Oldest(t, S) == t \in S /\ \A u \in S : t <= u
Capped(S, cap) == IF Cardinality(S) > cap THEN {t \in S : ~Oldest(t, S)} ELSE S
Lo(t) == IF t < Width THEN 0 ELSE t - Width
Within(t, u, span) == t < u + span /\ u < t + span

\* The pump runs from its start, or from the end of a dive, to its next await in
\* one turn of the event loop.
Yielded == pump.of = NoDive \/ pump.dive # NoDive
-----------------------------------------------------------------------------
(***************************************************************************)
(* The ledgers.                                                            *)
(***************************************************************************)

\* The reads of transitions that the frames of a span may give.
Reads(lo, hi) == {d \in [key: Goals, at: lo..hi] : d.key <= d.at}

\* What window t measured of the score: a read that a hint carries, of any frame
\* before; one of its own timeline or of the pooled reads, whose transition it must
\* be the first to claim; or none.
Measured(t, d) ==
  \/ d \in Reads(0, t) /\ d.key \in Hinted /\ UNCHANGED credited
  \/ d \in Reads(Lo(t), t) /\ d.key \notin credited /\ credited' = credited \cup {d.key}
  \/ d = NoRead /\ UNCHANGED credited

Readings(t) == Reads(0, t) \cup {NoRead}

\* goalBurstSuppression
Suppressed(t, key) ==
  IF key = NoGoal
  THEN (\E e \in events : t - e.at < Burst) \/ (\E s \in shaped : t - s < Kick)
  ELSE \E e \in events : e.key = key /\ t - e.at < Horizon

\* findRepeatGoalEvent
Repeats(anchor) ==
  LET overlap(e) == anchor < e.to + Clip /\ e.from < anchor + Clip
  IN /\ \A e \in events : ~overlap(e)
     /\ \E e \in events : Within(anchor, e.anchor, Reach + 1)

\* scoreboardDeltaAttestsDeferredWindow; readAt is at or after every window held.
Matches(D, i) == {e \in D : i \in Lo(e)..(e + Lookahead)}

Owned(E, e, i) ==
  \E v \in E : i \in v.from..v.to \/ (e < v.anchor /\ v.anchor <= i)

GoalRow(r, how, key, by) ==
  [r EXCEPT !.lane = "goal", !.mark = "none", !.how = how, !.key = key, !.by = by]

\* attestDeferredGoalHighlight: a goal stays, as does a row without copy for a goal.
Attested(r, how, key, by) == IF r.lane = "goal" THEN {r} ELSE {r, GoalRow(r, how, key, by)}

\* resolveDeferredGoalAttestation of the board with rows R, goals E and demoted rows D.
Resolve(R, E, D, d) ==
  LET mine(e) == d # NoRead /\ Matches(D, d.at) = {e}
  IN \/ /\ \A e \in D : ~mine(e)
        /\ row' = R /\ deferred' = D
     \/ \E e \in D :
        /\ mine(e)
        /\ deferred' = D \ {e}
        /\ \E r \in IF Owned(E, e, d.at) THEN {R[e]} ELSE Attested(R[e], "late", d.key, 0) :
             row' = [R EXCEPT ![e] = r]

\* planDueRereads, of which those without enough reads of the new score are planned.
DueRereads(D, t) == {e \in D : t >= e + Lookahead /\ e \notin reread}
-----------------------------------------------------------------------------
(***************************************************************************)
(* observeAcceptOnly with acceptVideoDecision.  An accept awaits the cut of *)
(* its clip; what the confirm lane writes meanwhile it has not read, so it *)
(* is one action.                                                          *)
(***************************************************************************)

Turn(t) == t \in Closes /\ plan = {} /\ Yielded /\ t > now /\ now' = t

\* The end of every accept: the read of the scoreboard, the window's own or a
\* pooled one, may resolve a demoted row; then the frames are read again.
Settle(t, d, R, E, D) ==
  /\ events' = E
  /\ \E late \in IF d # NoRead THEN {d} ELSE Reads(Lo(t), t) \cup {NoRead} : Resolve(R, E, D, late)
  /\ plan' \in SUBSET DueRereads(deferred', t)
  /\ UNCHANGED <<reread, ocr, lane>>

NoDives == UNCHANGED <<pending, evicted, chain>>

\* A window that is rejected, not goal-shaped, or a repeat of a delivered moment.
\* It claims the transition it measures all the same.
PassedOver(t) == \E d \in Readings(t) :
  /\ Turn(t) /\ Measured(t, d)
  /\ Settle(t, d, row, events, deferred)
  /\ NoDives /\ UNCHANGED shaped

\* promoteDeferredGoalForAccept: the demoted row that the accept's own read belongs
\* to, if there is one.
Promotable(i) ==
  {e \in Matches(deferred, i) : Matches(deferred, i) = {e} /\ ~Owned(events, e, i)}

\* The instant a clip is anchored at: the frame of the read if the window has it,
\* else any of the window.
Anchors(t, d) == IF d # NoRead /\ d.at >= Lo(t) THEN {d.at} ELSE Lo(t)..t

\* A goal whose transition was measured, or which a goal-line signal attests.
Inserted(t) == \E d \in Readings(t) : \E anchor \in Anchors(t, d) :
  /\ Turn(t) /\ Measured(t, d)
  /\ ~Suppressed(t, d.key)
  /\ IF d = NoRead THEN ~Repeats(anchor) ELSE Promotable(d.at) = {}
  /\ LET goal == [from |-> IF anchor < Clip THEN 0 ELSE anchor - Clip, to |-> anchor + Clip,
                  at |-> t, key |-> d.key, anchor |-> anchor]
     IN Settle(t, d, [row EXCEPT ![t] = GoalRow(NoRow, "gate", d.key, t)],
               events \cup {goal}, deferred)
  /\ shaped' = shaped \cup {t}
  /\ NoDives

\* Mutant of InPlace: the goal is not noted as delivered
InPlace_NotNoted(t) == \E d \in Reads(0, t) : \E e \in Promotable(d.at) :
  /\ Turn(t) /\ Measured(t, d)
  /\ ~Suppressed(t, d.key)
  /\ \E r \in Attested(row[e], "place", d.key, t) :
       Settle(t, d, [row EXCEPT ![e] = r], events, deferred \ {e})
  /\ NoDives /\ UNCHANGED shaped

\* The read belongs to a row that was demoted: that row is promoted, if there is
\* copy for it, and the accept inserts none.
InPlace(t) == \E d \in Reads(0, t) : \E e \in Promotable(d.at) : \E anchor \in Lo(e)..e :
  /\ Turn(t) /\ Measured(t, d)
  /\ ~Suppressed(t, d.key)
  /\ LET goal == [from |-> Lo(e), to |-> e, at |-> t, key |-> d.key, anchor |-> anchor]
     IN \E r \in Attested(row[e], "place", d.key, t) :
          Settle(t, d, [row EXCEPT ![e] = r], events \cup {goal}, deferred \ {e})
  /\ NoDives /\ UNCHANGED shaped

\* A signal attests a goal, but the clip lies beside that of one delivered before.
\* The signal that attests it rules a dive out.
Repeated(t) == \E anchor \in Lo(t)..t :
  /\ Turn(t) /\ Measured(t, NoRead)
  /\ ~Suppressed(t, NoGoal)
  /\ Repeats(anchor)
  /\ Settle(t, NoRead, [row EXCEPT ![t] = [NoRow EXCEPT !.lane = "celebration"]], events, deferred)
  /\ shaped' = shaped \cup {t}
  /\ NoDives

\* The demoted row waits for a later read of the scoreboard, the oldest gives way.
Held(t) == Capped(deferred \cup {t}, MaxDeferred)

\* Its dive is listed, the oldest gives way, and a pump is chained behind those of
\* the earlier rows.
Arms(t) ==
  /\ pending' = Capped(pending \cup {t}, MaxPending)
  /\ evicted' = evicted \cup ((pending \ pending') \ (pump.todo \cup {pump.dive}))
  /\ chain' = chain \cup {t}

\* Nothing measured attests the goal: a celebration, provisional if there is a cue.
\* A dive is armed unless the verdict or a claim of the scoreboard rules it out.
Demoted(t) == \E cue, armed \in BOOLEAN :
  /\ Turn(t) /\ Measured(t, NoRead)
  /\ ~Suppressed(t, NoGoal)
  /\ Settle(t, NoRead,
            [row EXCEPT ![t] = [NoRow EXCEPT !.lane = "celebration",
                                  !.mark = IF cue THEN "provisional" ELSE "none",
                                  !.dive = IF armed THEN "armed" ELSE "none"]],
            events, Held(t))
  /\ shaped' = shaped \cup {t}
  /\ IF armed THEN Arms(t) ELSE NoDives

\* runFrameRereadPass: the frames found are read, within the budget of the run.
Spends(n) == n <= MaxFrames /\ ocr + n <= MaxOcr /\ ocr' = ocr + n

\* rereadDemotedWindowsFromPersistedFrames, one window: what its frames show may
\* resolve a demoted row.
Reread == \E e \in plan, n \in 0..MaxOcr :
  /\ Oldest(e, plan) /\ Yielded
  /\ ocr < MaxOcr /\ Spends(n)
  /\ reread' = reread \cup {e}
  /\ plan' = plan \ {e}
  /\ \E d \in Reads(Lo(e), e + Lookahead) \cup {NoRead} : Resolve(row, events, deferred, d)
  /\ UNCHANGED <<now, events, shaped, credited, pending, evicted, chain, lane>>

BudgetGone ==
  /\ plan # {} /\ Yielded /\ ocr = MaxOcr
  /\ plan' = {}
  /\ UNCHANGED <<now, board, credited, reread, ocr, pending, evicted, chain, lane>>
-----------------------------------------------------------------------------
(***************************************************************************)
(* The confirm lane: one pump at a time for a run.                         *)
(***************************************************************************)

accepts == <<board, ledger>>

\* Mutant of Due: what was attempted is planned again
Due_Again(t) == {e \in pending : e <= t}

\* planDueConfirmDives at the close of the lookahead of window t.  Each earlier pump
\* took every entry up to its own window, so the list holds one entry at most and
\* the rule that reuses the dive of a neighbour never applies.
Due(t) == {e \in pending : e <= t /\ e \notin attempted}

PumpStarts == \E t \in chain :
  /\ Oldest(t, chain) /\ pump.of = NoDive
  /\ pump' = [NoPump EXCEPT !.of = t, !.todo = Due(t)]
  /\ UNCHANGED <<accepts, pending, evicted, chain, attempted, spent, calls, dropped>>

\* The next entry of the pump's list, when no dive is in flight.
Entry(e) == Oldest(e, pump.todo) /\ pump.dive = NoDive

Drop(e) == pending' = pending \ {e} /\ dropped' = dropped \cup {e}

\* Mutant of Busy: the entry waits for a pump that never comes
Busy_Queued(e) ==
  /\ Entry(e)
  /\ pump' = [pump EXCEPT !.todo = @ \ {e}]
  /\ UNCHANGED <<accepts, pending, evicted, dropped, chain, attempted, spent, calls>>

\* The decide pool is saturated, by the dives of other runs.
Busy(e) ==
  /\ Entry(e)
  /\ Drop(e)
  /\ pump' = [pump EXCEPT !.todo = @ \ {e}]
  /\ UNCHANGED <<accepts, evicted, chain, attempted, spent, calls>>

Affordable == Cardinality({s \in spent : s.at + BudgetWindow > pump.of}) < MaxDives

OverBudget(e) ==
  /\ Entry(e) /\ ~Affordable
  /\ attempted' = attempted \cup {e}
  /\ Drop(e)
  /\ pump' = [pump EXCEPT !.todo = @ \ {e}]
  /\ UNCHANGED <<accepts, evicted, chain, spent, calls>>

Begins(e) ==
  /\ Entry(e) /\ Affordable
  /\ attempted' = attempted \cup {e}
  /\ spent' = spent \cup {[at |-> pump.of, of |-> e]}
  /\ pump' = [pump EXCEPT !.todo = @ \ {e}, !.dive = e]
  /\ UNCHANGED <<accepts, pending, evicted, chain, calls, dropped>>

Diving == pump.dive # NoDive /\ ~pump.saving
Called == calls' = calls \cup {s \in spent : s.of = pump.dive}

\* No frames were kept, or the call failed, timed out or gave no verdict.
DiveFails ==
  /\ Diving
  /\ Called \/ UNCHANGED calls
  /\ Drop(pump.dive)
  /\ pump' = [pump EXCEPT !.dive = NoDive]
  /\ UNCHANGED <<accepts, evicted, chain, attempted, spent>>

\* Mutant of Adopted: the lane of the row is not looked at again
Adopted_Blind(r, verdict) ==
  LET read == [r EXCEPT !.dive = "stamped"]
  IN IF verdict = "confirmed" THEN GoalRow(read, "dive", NoGoal, 0)
     ELSE [read EXCEPT !.mark = IF @ = "provisional" THEN "refuted" ELSE @]

\* confirmDiveAdoption of a verdict by row r.
Adopted(r, verdict) ==
  LET read == [r EXCEPT !.dive = "stamped"]
  IN CASE r.lane = "goal" -> read
       [] r.lane # "goal" /\ verdict = "confirmed" -> GoalRow(read, "dive", NoGoal, 0)
       [] r.lane # "goal" /\ verdict # "confirmed" ->
            [read EXCEPT !.mark = IF @ = "provisional" THEN "refuted" ELSE @]

\* The verdict is in the row at once; its write to the table is awaited.
Answers == \E verdict \in {"confirmed", "unconfirmed"} :
  /\ Diving
  /\ Called
  /\ row' = [row EXCEPT ![pump.dive] = Adopted(@, verdict)]
  /\ pump' = [pump EXCEPT !.saving = TRUE]
  /\ UNCHANGED <<events, shaped, deferred, ledger, pending, evicted, chain, attempted, spent, dropped>>

Saved ==
  /\ pump.saving
  /\ pending' = pending \ {pump.dive}
  /\ pump' = [pump EXCEPT !.dive = NoDive, !.saving = FALSE]
  /\ UNCHANGED <<accepts, evicted, chain, attempted, spent, calls, dropped>>

\* A write that throws ends the pump; its entry stays, as one attempted.
SaveFails ==
  /\ Faults /\ pump.saving
  /\ pump' = NoPump
  /\ chain' = chain \ {pump.of}
  /\ UNCHANGED <<accepts, pending, evicted, attempted, spent, calls, dropped>>

PumpEnds ==
  /\ pump.of # NoDive /\ pump.todo = {} /\ pump.dive = NoDive
  /\ pump' = NoPump
  /\ chain' = chain \ {pump.of}
  /\ UNCHANGED <<accepts, pending, evicted, attempted, spent, calls, dropped>>
-----------------------------------------------------------------------------
Accept(t) == PassedOver(t) \/ Inserted(t) \/ InPlace(t) \/ Repeated(t) \/ Demoted(t)
TakesEntry(e) == Busy(e) \/ OverBudget(e) \/ Begins(e)

Next ==
  \/ \E t \in Windows : Accept(t) \/ TakesEntry(t)
  \/ Reread \/ BudgetGone
  \/ PumpStarts \/ PumpEnds
  \/ DiveFails \/ Answers \/ Saved \/ SaveFails

\* A timer of the chain fires, the loop runs, a confirm call answers or is timed
\* out, a write returns or throws: one of these is the pump's next step.  No window
\* has to come.
PumpSteps ==
  \/ PumpStarts \/ PumpEnds
  \/ \E e \in Windows : TakesEntry(e)
  \/ DiveFails \/ Answers \/ Saved \/ SaveFails

Fairness == WF_vars(PumpSteps)

Spec == Init /\ [][Next]_vars /\ Fairness
-----------------------------------------------------------------------------
(***************************************************************************)
(* What must hold.                                                         *)
(***************************************************************************)

Scored(r) == r.how \in {"gate", "place"} /\ r.key # NoGoal

\* A score transition is measured by the overlapping windows of its moment, and anew
\* whenever the scoreboard is read again.  It makes two goals, inserted or promoted,
\* only if a hint carries it, and then a horizon apart: one that a window claims of
\* its own reads makes one (analyzer.ts:4365-4381, 4483-4494, 6189-6240).
MeasuredOnce == \A t, u \in Windows :
  t # u /\ Scored(row[t]) /\ Scored(row[u]) /\ row[t].key = row[u].key
  => row[t].key \in Hinted /\ ~Within(row[t].by, row[u].by, Horizon)

\* Three lanes may promote a row, and a dive answers long after it began: what made
\* a row a goal stays (live-confirm-async.ts:410, api.ts:509).
VerdictMovesOnce == [][\A t \in Windows :
  row[t].lane = "goal" => [row'[t] EXCEPT !.dive = row[t].dive] = row[t]]_vars

\* The confirm calls are paid for: one for a row however often a pump finds its
\* entry, and a bounded number in each span of content (live-confirm-async.ts:119-135,
\* 725-732).
CallsBounded ==
  /\ \A r, s \in calls : r.of = s.of => r = s
  /\ \A r \in calls :
       Cardinality({s \in calls : s.at <= r.at /\ s.at + BudgetWindow > r.at}) <= MaxDives

\* A row published with a dive gets its verdict or is counted as dropped, whatever
\* of the dive and its writes fails, unless newer rows push its entry out of the list
\* before a pump takes it (analyzer.ts:4601-4608, live-confirm-async.ts:700-758).
ArmedSettles == \A t \in Closes :
  row[t].dive = "armed" ~> row[t].dive = "stamped" \/ t \in dropped \/ t \in evicted
-----------------------------------------------------------------------------
(***************************************************************************)
(* What its comments say, and what the code does not keep.                 *)
(***************************************************************************)

\* "one score transition, one scoring row" (analyzer.ts:4660).  A row promoted by a
\* late read is not among the delivered goals, so a window that measures the same
\* transition later inserts another.
OneRowPerTransition == \A t, u \in Windows :
  /\ row[t].lane = "goal" /\ row[u].lane = "goal"
  /\ row[t].key = row[u].key /\ row[t].key # NoGoal
  => t = u
=============================================================================
