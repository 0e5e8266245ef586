-------------------------- MODULE GoalVerdictProofs --------------------------
(***************************************************************************)
(* Proofs about GoalVerdict, for every length of content, every set of     *)
(* score transitions and every setting of the windows, spans, caps and     *)
(* budgets that VerdictAssumption allows.                                  *)
(***************************************************************************)
EXTENDS GoalVerdict, FiniteSetTheorems, TLAPS

Keys == Goals \cup {NoGoal}
PumpType == [of: Windows \cup {NoDive}, todo: SUBSET Windows, dive: Windows \cup {NoDive},
             saving: BOOLEAN]

\* TypeOK in parts.
BoardTyped ==
  /\ row \in [Windows -> Row]
  /\ events \subseteq Event
  /\ shaped \subseteq Windows /\ deferred \subseteq Windows
LedgerTyped ==
  /\ now \in 0..Content
  /\ credited \subseteq Goals
  /\ plan \subseteq Windows /\ reread \subseteq Windows
  /\ ocr \in 0..MaxOcr
LaneTyped ==
  /\ pending \subseteq Windows /\ evicted \subseteq Windows /\ chain \subseteq Windows
  /\ pump \in PumpType
  /\ attempted \subseteq Windows
  /\ spent \subseteq Stamp /\ calls \subseteq spent
  /\ dropped \subseteq Windows

\* Of rows R, goals E, demoted rows D and claims C when window n was the last: no row
\* is of a window to come, a scored row has an event of its accept and a transition
\* that a hint carries or that is claimed, and two of one transition are apart.
BoardOK(R, E, D, C, n) ==
  /\ \A t \in Windows : t > n => R[t] = NoRow
  /\ \A t \in D : t <= n
  /\ \A e \in E : e.at <= n
  /\ \A t \in Windows : Scored(R[t]) =>
       /\ \E e \in E : e.key = R[t].key /\ e.at = R[t].by
       /\ R[t].key \in Hinted \cup C
  /\ \A t, u \in Windows :
       t # u /\ Scored(R[t]) /\ Scored(R[u]) /\ R[t].key = R[u].key
       => R[t].key \in Hinted /\ ~Within(R[t].by, R[u].by, Horizon)

\* The stamps of S that count at content time t.
InSpan(S, t) == {s \in S : s.at <= t /\ s.at + BudgetWindow > t}

\* The budget is spent in the order of the content, once for each row attempted.
BudgetOK ==
  /\ IsFiniteSet(spent)
  /\ \A s \in spent : s.of \in attempted
  /\ \A r, s \in spent : r.of = s.of => r = s
  /\ \A r \in spent : Cardinality(InSpan(spent, r.at)) <= MaxDives

\* The pump is the oldest of the chain, and everything spent before it is older.
PumpOK ==
  /\ \A c \in chain : c <= now
  /\ pump.of # NoDive => Oldest(pump.of, chain)
  /\ pump.todo # {} => pump.of # NoDive
  /\ pump.todo \cap attempted = {}
  /\ pump.dive <= now /\ \A e \in pump.todo : e <= now
  /\ \A s \in spent : s.at <= now /\ \A c \in chain : s.at <= c

IInv == TypeOK /\ BoardOK(row, events, deferred, credited, now) /\ BudgetOK /\ PumpOK

\* The rows of R that are goals are the same in S.
SameGoals(R, S) == \A t \in Windows : R[t].lane = "goal" => S[t] = R[t]
-----------------------------------------------------------------------------
LEMMA TypeParts == TypeOK <=> BoardTyped /\ LedgerTyped /\ LaneTyped
BY DEF TypeOK, BoardTyped, LedgerTyped, LaneTyped, PumpType

\* The same of the next state.
LEMMA NextParts == ASSUME BoardTyped', LedgerTyped', LaneTyped' PROVE TypeOK'
BY DEF TypeOK, BoardTyped, LedgerTyped, LaneTyped, PumpType

\* The constants one by one.
LEMMA Constants ==
  /\ Content \in Nat /\ Width \in Nat /\ Lookahead \in Nat /\ Horizon \in Nat /\ Clip \in Nat
  /\ MaxDives \in Nat /\ BudgetWindow \in Nat /\ MaxOcr \in Nat
  /\ Goals \subseteq 1..Content
  /\ NoGoal \notin Goals /\ NoGoal = 0 /\ NoDive = 0 /\ Windows = 1..Content
BY VerdictAssumption DEF Windows, NoGoal, NoDive

\* The rows that the actions write.
LEMMA RowsTyped ==
  /\ NoRow \in Row
  /\ \A r \in Row, g \in Keys, how \in {"gate", "place", "late", "dive"}, by \in 0..Content :
       LET s == GoalRow(r, how, g, by)
       IN  s \in Row /\ s.how = how /\ s.key = g /\ s.by = by /\ s.lane = "goal"
<1>1. NoRow \in Row
  <2>1. 0 \in 0..Content
    BY Constants
  <2> QED
    BY <2>1 DEF NoRow, Row
<1>2. ASSUME NEW r \in Row, NEW g \in Keys, NEW how \in {"gate", "place", "late", "dive"},
             NEW by \in 0..Content
      PROVE  LET s == GoalRow(r, how, g, by)
             IN  s \in Row /\ s.how = how /\ s.key = g /\ s.by = by /\ s.lane = "goal"
  BY DEF Row, GoalRow, Keys
<1> QED
  BY <1>1, <1>2

LEMMA InitInv == Init => IInv
<1> SUFFICES ASSUME Init PROVE IInv
  OBVIOUS
<1>1. TypeOK
  BY Constants, RowsTyped DEF Init, TypeOK, NoPump
<1>2. BoardOK(row, events, deferred, credited, now)
  BY Constants DEF Init, BoardOK, Scored, NoRow
<1>3. BudgetOK /\ PumpOK
  BY FS_EmptySet, Constants DEF Init, BudgetOK, PumpOK, NoPump
<1> QED
  BY <1>1, <1>2, <1>3 DEF IInv
-----------------------------------------------------------------------------
(***************************************************************************)
(* The board.                                                              *)
(***************************************************************************)

\* A later window may be the newest, and more be claimed.
LEMMA BoardGrows ==
  ASSUME NEW R, NEW E \in SUBSET Event, NEW D \in SUBSET Windows, NEW C, NEW B, C \subseteq B,
         NEW n \in 0..Content, NEW m \in Windows, n < m, BoardOK(R, E, D, C, n)
  PROVE  BoardOK(R, E, D, B, m)
<1>1. \A t \in Windows : (t > m => t > n) /\ (t <= n => t <= m)
  BY Constants
<1>2. \A e \in E : e.at \in Windows
  BY DEF Event
<1> QED
  BY <1>1, <1>2 DEF BoardOK

\* A late read makes at most one row of D a goal, and none that was one.
LEMMA ResolveKeeps ==
  ASSUME NEW R \in [Windows -> Row], NEW E \in SUBSET Event, NEW D \in SUBSET Windows,
         NEW C, NEW d, d.key \in Keys, NEW n \in 0..Content,
         BoardOK(R, E, D, C, n), Resolve(R, E, D, d)
  PROVE  /\ row' \in [Windows -> Row] /\ deferred' \subseteq D
         /\ BoardOK(row', E, deferred', C, n)
         /\ SameGoals(R, row')
<1>1. CASE row' = R /\ deferred' = D
  BY <1>1 DEF SameGoals
<1>2. ASSUME NEW e \in D, deferred' = D \ {e},
             NEW r \in {R[e]} \cup Attested(R[e], "late", d.key, 0), row' = [R EXCEPT ![e] = r]
      PROVE  /\ row' \in [Windows -> Row] /\ deferred' \subseteq D
             /\ BoardOK(row', E, deferred', C, n)
             /\ SameGoals(R, row')
  <2>1. R[e] \in Row /\ e \in Windows
    OBVIOUS
  <2>2. r = R[e] \/ (R[e].lane # "goal" /\ r = GoalRow(R[e], "late", d.key, 0))
    BY DEF Attested
  <2>3. r \in Row /\ (r = R[e] \/ (R[e].lane # "goal" /\ ~Scored(r)))
    <3>1. 0 \in 0..Content
      BY Constants
    <3>2. \A s \in Row, g \in Keys, by \in 0..Content :
             GoalRow(s, "late", g, by) \in Row /\ GoalRow(s, "late", g, by).how = "late"
      BY RowsTyped
    <3>3. GoalRow(R[e], "late", d.key, 0) \in Row /\ GoalRow(R[e], "late", d.key, 0).how = "late"
      BY <2>1, <3>1, <3>2
    <3> QED
      BY <2>1, <2>2, <3>3 DEF Scored
  <2>4. \A t \in Windows : row'[t] = IF t = e THEN r ELSE R[t]
    BY <1>2
  <2>5. row' \in [Windows -> Row]
    BY <1>2, <2>3
  <2>6. SameGoals(R, row')
    BY <2>3, <2>4 DEF SameGoals
  <2>7. BoardOK(row', E, deferred', C, n)
    <3>1. \A t \in Windows : t > n => row'[t] = NoRow
      BY <2>1, <2>4, Constants DEF BoardOK
    <3>2. \A t \in Windows : Scored(row'[t]) => row'[t] = R[t]
      BY <2>3, <2>4
    <3> QED
      BY <1>2, <3>1, <3>2 DEF BoardOK
  <2> QED
    BY <1>2, <2>5, <2>6, <2>7
<1> QED
  BY <1>1, <1>2 DEF Resolve

\* The ledger of goals suppresses a second measure of a scored transition for a
\* horizon, the ledger of claims any but those that a hint carries.
LEMMA NotSuppressed ==
  ASSUME IInv, NEW t \in Windows, t > now, NEW d, d.key \in Goals,
         Measured(t, d), ~Suppressed(t, d.key),
         NEW u \in Windows, Scored(row[u]), row[u].key = d.key
  PROVE  d.key \in Hinted /\ ~Within(row[u].by, t, Horizon)
<1>1. PICK e \in events : e.key = d.key /\ e.at = row[u].by
  BY DEF IInv, BoardOK
<1>2. e.at \in Windows /\ e.at <= now /\ now \in 0..Content
  BY <1>1 DEF IInv, BoardOK, TypeOK, Event
<1>3. ~(t - e.at < Horizon)
  BY <1>1, Constants DEF Suppressed
<1>4. ~(t < row[u].by + Horizon)
  BY <1>1, <1>2, <1>3, Constants
<1>5. d.key \in Hinted
  BY Constants DEF Measured, NoRead, IInv, BoardOK
<1> QED
  BY <1>4, <1>5 DEF Within

\* What Measured leaves: a claim is never lost, and what is measured is of a hint or
\* claimed.
LEMMA Claimed ==
  ASSUME IInv, NEW t \in Windows, NEW d, Measured(t, d)
  PROVE  /\ d.key \in Keys /\ (d # NoRead <=> d.key # NoGoal)
         /\ credited \subseteq credited' /\ credited' \subseteq Goals
         /\ d.key # NoGoal => d.key \in Hinted \cup credited'
<1> DEFINE Result == /\ d.key \in Keys /\ (d # NoRead <=> d.key # NoGoal)
                     /\ credited \subseteq credited' /\ credited' \subseteq Goals
                     /\ d.key # NoGoal => d.key \in Hinted \cup credited'
<1>1. credited \subseteq Goals
  BY DEF IInv, TypeOK
<1>2. NoRead.key = NoGoal /\ NoGoal \notin Goals
  BY Constants DEF NoRead
<1>3. CASE d \in Reads(0, t) /\ d.key \in Hinted /\ UNCHANGED credited
  <2>1. d.key \in Goals
    BY <1>3 DEF Reads
  <2> QED
    BY <1>1, <1>2, <1>3, <2>1 DEF Keys
<1>4. CASE d \in Reads(Lo(t), t) /\ d.key \notin credited /\ credited' = credited \cup {d.key}
  <2>1. d.key \in Goals
    BY <1>4 DEF Reads
  <2> QED
    BY <1>1, <1>2, <1>4, <2>1 DEF Keys
<1>5. CASE d = NoRead /\ UNCHANGED credited
  BY <1>1, <1>2, <1>5 DEF Keys
<1> QED
  BY <1>3, <1>4, <1>5 DEF Measured
-----------------------------------------------------------------------------
(***************************************************************************)
(* The accepts.                                                            *)
(***************************************************************************)

\* The lane after an accept that lists its dive, or does not.
LEMMA ListedKeeps ==
  ASSUME IInv, NEW t \in Windows, Turn(t), NoDives \/ Arms(t), UNCHANGED lane
  PROVE  LaneTyped' /\ BudgetOK' /\ PumpOK'
<1> USE DEF IInv
<1>0. LaneTyped /\ now \in 0..Content /\ t > now /\ now' = t
  BY TypeParts DEF LedgerTyped, Turn
<1>1. pending' \subseteq Windows /\ evicted' \subseteq Windows
      /\ (chain' = chain \/ chain' = chain \cup {t})
  BY <1>0 DEF NoDives, Arms, Capped, LaneTyped
<1>2. LaneTyped'
  BY <1>0, <1>1 DEF LaneTyped, lane
<1>3. BudgetOK'
  BY DEF BudgetOK, InSpan, lane
<1>4. PumpOK'
  <2>1. \A c \in chain : c <= now /\ c <= t
    BY <1>0, Constants DEF PumpOK, LaneTyped
  <2>2. \A c \in chain' : c <= now'
    BY <1>0, <1>1, <2>1, Constants
  <2>3. pump.of # NoDive => Oldest(pump.of, chain')
    BY <1>1, <2>1 DEF PumpOK, Oldest
  <2>4. \A s \in spent : s.at <= now' /\ \A c \in chain' : s.at <= c
    <3>1. \A s \in spent : s.at \in Windows /\ s.at <= now
      BY <1>0 DEF LaneTyped, Stamp, PumpOK
    <3>2. \A s \in spent : s.at <= t
      BY <1>0, <3>1, Constants
    <3> QED
      BY <1>0, <1>1, <3>2 DEF PumpOK
  <2>5. pump.dive <= now' /\ \A e \in pump.todo : e <= now'
    BY <1>0, Constants DEF PumpOK, LaneTyped, PumpType
  <2> QED
    BY <2>2, <2>3, <2>4, <2>5 DEF PumpOK, lane
<1> QED
  BY <1>2, <1>3, <1>4

\* An accept that leaves rows R, goals E and demoted rows D.
LEMMA AcceptInv ==
  ASSUME IInv, NEW t \in Windows, NEW d,
         NEW R \in [Windows -> Row], NEW E \in SUBSET Event, NEW D \in SUBSET Windows,
         Turn(t), Measured(t, d), Settle(t, d, R, E, D), NoDives \/ Arms(t),
         shaped' \subseteq Windows,
         BoardOK(R, E, D, credited', t), SameGoals(row, R)
  PROVE  IInv' /\ SameGoals(row, row')
<1>1. now' = t /\ t \in 0..Content /\ events' = E
  BY Constants DEF Turn, Settle
<1>2. PICK late \in {d, NoRead} \cup Reads(Lo(t), t) : Resolve(R, E, D, late)
  BY DEF Settle
<1>a. late.key \in Keys
  <2>1. d.key \in Keys
    BY Claimed
  <2> QED
    BY <2>1 DEF Reads, NoRead, Keys
<1>3. /\ row' \in [Windows -> Row] /\ deferred' \subseteq D
      /\ BoardOK(row', E, deferred', credited', t)
      /\ SameGoals(R, row')
  BY <1>1, <1>2, <1>a, ResolveKeeps
<1>4. BoardTyped' /\ BoardOK(row, events, deferred, credited, now)'
  BY <1>1, <1>3 DEF BoardTyped
<1>5. LedgerTyped'
  <2>1. credited' \subseteq Goals
    BY Claimed
  <2>2. plan' \subseteq Windows
    BY <1>3 DEF Settle, DueRereads
  <2> QED
    BY <1>1, <2>1, <2>2, TypeParts DEF LedgerTyped, Settle, IInv
<1>6. LaneTyped' /\ BudgetOK' /\ PumpOK'
  BY ListedKeeps DEF Settle
<1>7. SameGoals(row, row')
  BY <1>3 DEF SameGoals
<1> QED
  BY <1>4, <1>5, <1>6, <1>7, NextParts DEF IInv

\* A new row of a window, celebration or goal, that is not scored.
LEMMA NewRow ==
  ASSUME IInv, NEW t \in Windows, Turn(t), Measured(t, NoRead), NEW r \in Row, ~Scored(r),
         NEW D \in SUBSET (deferred \cup {t})
  PROVE  LET R == [row EXCEPT ![t] = r]
         IN  /\ R \in [Windows -> Row] /\ D \subseteq Windows
             /\ BoardOK(R, events, D, credited', t) /\ SameGoals(row, R)
<1> DEFINE R == [row EXCEPT ![t] = r]
<1>0. BoardTyped /\ now \in 0..Content /\ now < t
  BY TypeParts DEF IInv, LedgerTyped, Turn
<1>1. \A u \in Windows : R[u] = IF u = t THEN r ELSE row[u]
  BY <1>0 DEF BoardTyped
<1>2. BoardOK(row, events, deferred, credited', t)
  BY <1>0, Claimed, BoardGrows DEF BoardTyped, IInv
<1>3. row[t] = NoRow
  BY <1>0 DEF IInv, BoardOK
<1>4. BoardOK(R, events, D, credited', t)
  <2>1. \A u \in Windows : u > t => R[u] = NoRow
    BY <1>1, <1>2, Constants DEF BoardOK
  <2>2. \A u \in D : u <= t
    BY <1>2, Constants DEF BoardOK
  <2>3. \A u \in Windows : Scored(R[u]) => R[u] = row[u]
    BY <1>1
  <2> HIDE DEF R
  <2> QED
    BY <1>2, <2>1, <2>2, <2>3 DEF BoardOK
<1>5. SameGoals(row, R)
  BY <1>1, <1>3 DEF SameGoals, NoRow
<1> QED
  BY <1>0, <1>4, <1>5 DEF BoardTyped

\* A goal delivered by window t as row e, which was none, and its event.
LEMMA GoalNoted ==
  ASSUME IInv, NEW t \in Windows, Turn(t), NEW d, Measured(t, d), ~Suppressed(t, d.key),
         NEW e \in Windows, e = t \/ e \in deferred,
         NEW r \in Row, (r.key = d.key /\ r.by = t) \/ r = row[e],
         row[e].lane = "goal" => r = row[e],
         NEW goal \in Event, goal.at = t, goal.key = d.key,
         NEW D \in SUBSET deferred
  PROVE  LET R == [row EXCEPT ![e] = r]
         IN  /\ R \in [Windows -> Row]
             /\ BoardOK(R, events \cup {goal}, D, credited', t) /\ SameGoals(row, R)
<1> DEFINE R == [row EXCEPT ![e] = r]
<1>0. BoardTyped /\ now \in 0..Content /\ now < t
  BY TypeParts DEF IInv, LedgerTyped, Turn
<1>1. \A u \in Windows : R[u] = IF u = e THEN r ELSE row[u]
  BY <1>0 DEF BoardTyped
<1>2. BoardOK(row, events, deferred, credited', t)
  BY <1>0, Claimed, BoardGrows DEF BoardTyped, IInv
<1>3. e <= t
  BY <1>2, Constants DEF BoardOK
<1>4. \A u \in Windows : u > t => R[u] = NoRow
  BY <1>1, <1>2, <1>3, Constants DEF BoardOK
<1>5. \A v \in events \cup {goal} : v.at <= t
  BY <1>2, Constants DEF BoardOK
<1>6. ASSUME NEW u \in Windows, Scored(row[u]), row[u].key = d.key
      PROVE  d.key \in Hinted /\ ~Within(row[u].by, t, Horizon)
  <2>1. d.key \in Goals
    BY <1>6, Claimed DEF Scored, Keys
  <2> QED
    BY <1>0, <1>6, <2>1, NotSuppressed
<1>7. \A u \in Windows : Scored(R[u]) => R[u] = row[u] \/ (u = e /\ R[u].key = d.key /\ R[u].by = t)
  BY <1>1
<1>8. ASSUME NEW u \in Windows, Scored(R[u])
      PROVE  /\ \E v \in events \cup {goal} : v.key = R[u].key /\ v.at = R[u].by
             /\ R[u].key \in Hinted \cup credited'
  <2>1. CASE R[u] = row[u]
    BY <1>2, <1>8, <2>1 DEF BoardOK
  <2>2. CASE R[u].key = d.key /\ R[u].by = t
    <3>1. d.key \in Hinted \cup credited'
      BY <1>8, <2>2, Claimed DEF Scored
    <3> QED
      BY <2>2, <3>1
  <2> QED
    BY <1>7, <1>8, <2>1, <2>2
<1>9. ASSUME NEW u \in Windows, NEW v \in Windows, u # v, Scored(R[u]), Scored(R[v]),
             R[u].key = R[v].key
      PROVE  R[u].key \in Hinted /\ ~Within(R[u].by, R[v].by, Horizon)
  <2> HIDE DEF R
  <2>1. CASE R[u] = row[u] /\ R[v] = row[v]
    BY <1>2, <1>9, <2>1 DEF BoardOK
  <2>2. CASE R[u] = row[u] /\ R[v].key = d.key /\ R[v].by = t
    BY <1>6, <1>9, <2>2
  <2>3. CASE R[v] = row[v] /\ R[u].key = d.key /\ R[u].by = t
    BY <1>6, <1>9, <2>3 DEF Within
  <2> QED
    BY <1>7, <1>9, <2>1, <2>2, <2>3
<1>10. BoardOK(R, events \cup {goal}, D, credited', t)
  <2> HIDE DEF R
  <2> QED
    BY <1>2, <1>4, <1>5, <1>8, <1>9 DEF BoardOK
<1>11. SameGoals(row, R)
  BY <1>1 DEF SameGoals
<1> QED
  BY <1>0, <1>10, <1>11 DEF BoardTyped

LEMMA PassedOverInv ==
  ASSUME IInv, NEW t \in Windows, PassedOver(t) PROVE IInv' /\ SameGoals(row, row')
<1>1. PICK d : Turn(t) /\ Measured(t, d) /\ Settle(t, d, row, events, deferred)
  BY DEF PassedOver
<1>2. BoardTyped /\ now \in 0..Content /\ now < t
  BY <1>1, TypeParts DEF IInv, LedgerTyped, Turn
<1>3. BoardOK(row, events, deferred, credited', t)
  BY <1>1, <1>2, Claimed, BoardGrows DEF BoardTyped, IInv
<1>4. shaped' \subseteq Windows /\ NoDives
  BY <1>2 DEF PassedOver, BoardTyped
<1>5. SameGoals(row, row)
  BY DEF SameGoals
<1> QED
  BY <1>1, <1>2, <1>3, <1>4, <1>5, AcceptInv DEF BoardTyped

LEMMA InsertedInv ==
  ASSUME IInv, NEW t \in Windows, Inserted(t) PROVE IInv' /\ SameGoals(row, row')
<1> DEFINE Goal(d, anchor) ==
             [from |-> IF anchor < Clip THEN 0 ELSE anchor - Clip, to |-> anchor + Clip,
              at |-> t, key |-> d.key, anchor |-> anchor]
           Scores(d, anchor) ==
             /\ Turn(t) /\ Measured(t, d) /\ ~Suppressed(t, d.key)
             /\ Settle(t, d, [row EXCEPT ![t] = GoalRow(NoRow, "gate", d.key, t)],
                       events \cup {Goal(d, anchor)}, deferred)
<1>a. PICK d \in Readings(t) : \E anchor \in Anchors(t, d) : Scores(d, anchor)
  BY DEF Inserted
<1>1. PICK anchor \in Anchors(t, d) : Scores(d, anchor)
  BY <1>a
<1> DEFINE goal == Goal(d, anchor)
           r == GoalRow(NoRow, "gate", d.key, t)
           R == [row EXCEPT ![t] = r]
<1>2. BoardTyped /\ now \in 0..Content /\ now < t
  BY <1>1, TypeParts DEF IInv, LedgerTyped, Turn
<1>3. d.key \in Keys
  BY <1>1, Claimed
<1>4. goal \in Event
  <2>1. anchor \in 0..Content
    <3>1. Lo(t)..t \subseteq 0..Content
      BY Constants DEF Lo
    <3>2. d # NoRead => d.at \in 0..t
      BY <1>a DEF Readings, Reads
    <3> QED
      BY <3>1, <3>2, Constants DEF Anchors
  <2>2. (IF anchor < Clip THEN 0 ELSE anchor - Clip) \in 0..Content /\ anchor + Clip \in Nat
    BY <2>1, Constants
  <2> QED
    BY <1>3, <2>1, <2>2 DEF Event, Keys
<1>5. r \in Row /\ r.key = d.key /\ r.by = t
  BY <1>3, Constants, RowsTyped
<1>6. row[t].lane # "goal"
  BY <1>2 DEF IInv, BoardOK, NoRow
<1>7. goal.at = t /\ goal.key = d.key
  OBVIOUS
<1> HIDE DEF goal, r
<1>8. /\ R \in [Windows -> Row] /\ SameGoals(row, R)
      /\ BoardOK(R, events \cup {goal}, deferred, credited', t)
  BY <1>1, <1>4, <1>5, <1>6, <1>7, GoalNoted
<1>9. Turn(t) /\ Measured(t, d) /\ Settle(t, d, R, events \cup {goal}, deferred)
  BY <1>1 DEF goal, r
<1>10. shaped' \subseteq Windows /\ NoDives
  BY <1>2 DEF Inserted, BoardTyped
<1>11. events \cup {goal} \in SUBSET Event /\ deferred \in SUBSET Windows
  BY <1>2, <1>4 DEF BoardTyped
<1> HIDE DEF R
<1> QED
  BY <1>8, <1>9, <1>10, <1>11, AcceptInv

LEMMA InPlaceInv ==
  ASSUME IInv, NEW t \in Windows, InPlace(t) PROVE IInv' /\ SameGoals(row, row')
<1> DEFINE Goal(d, e, anchor) ==
             [from |-> Lo(e), to |-> e, at |-> t, key |-> d.key, anchor |-> anchor]
           Promotes(d, e, anchor) ==
             /\ Turn(t) /\ Measured(t, d) /\ ~Suppressed(t, d.key)
             /\ \E r \in Attested(row[e], "place", d.key, t) :
                  Settle(t, d, [row EXCEPT ![e] = r], events \cup {Goal(d, e, anchor)},
                         deferred \ {e})
<1>a. PICK d \in Reads(0, t) :
        \E e \in Promotable(d.at) : \E anchor \in Lo(e)..e : Promotes(d, e, anchor)
  BY DEF InPlace
<1>b. PICK e \in Promotable(d.at) : \E anchor \in Lo(e)..e : Promotes(d, e, anchor)
  BY <1>a
<1>1. PICK anchor \in Lo(e)..e : Promotes(d, e, anchor)
  BY <1>b
<1> DEFINE goal == Goal(d, e, anchor)
<1>2. PICK r \in Attested(row[e], "place", d.key, t) :
        Settle(t, d, [row EXCEPT ![e] = r], events \cup {goal}, deferred \ {e})
  BY <1>1
<1> DEFINE R == [row EXCEPT ![e] = r]
<1>3. BoardTyped /\ now \in 0..Content /\ now < t
  BY <1>1, TypeParts DEF IInv, LedgerTyped, Turn
<1>4. e \in deferred /\ e \in Windows
  BY <1>3 DEF Promotable, Matches, BoardTyped
<1>5. d.key \in Keys
  BY <1>1, Claimed
<1>6. goal \in Event
  <2>1. Lo(e) \in 0..Content /\ e \in Nat /\ anchor \in 0..Content
    BY <1>4, Constants DEF Lo
  <2> QED
    BY <1>5, <2>1 DEF Event, Keys
<1>7. row[e] \in Row
  BY <1>3, <1>4 DEF BoardTyped
<1>8. /\ r \in Row /\ ((r.key = d.key /\ r.by = t) \/ r = row[e])
      /\ row[e].lane = "goal" => r = row[e]
  <2>0. t \in 0..Content
    BY Constants
  <2>1. LET s == GoalRow(row[e], "place", d.key, t) IN s \in Row /\ s.key = d.key /\ s.by = t
    BY <1>5, <1>7, <2>0, RowsTyped
  <2> QED
    BY <1>7, <2>1 DEF Attested
<1>9. goal.at = t /\ goal.key = d.key
  OBVIOUS
<1> HIDE DEF goal
<1>10. /\ R \in [Windows -> Row] /\ SameGoals(row, R)
       /\ BoardOK(R, events \cup {goal}, deferred \ {e}, credited', t)
  BY <1>1, <1>4, <1>6, <1>8, <1>9, GoalNoted
<1>11. shaped' \subseteq Windows /\ NoDives
  BY <1>3 DEF InPlace, BoardTyped
<1>12. events \cup {goal} \in SUBSET Event /\ deferred \ {e} \in SUBSET Windows
  BY <1>3, <1>6 DEF BoardTyped
<1> HIDE DEF R
<1>13. Settle(t, d, R, events \cup {goal}, deferred \ {e})
  BY <1>2 DEF R
<1> QED
  BY <1>1, <1>10, <1>11, <1>12, <1>13, AcceptInv

LEMMA RepeatedInv ==
  ASSUME IInv, NEW t \in Windows, Repeated(t) PROVE IInv' /\ SameGoals(row, row')
<1> DEFINE r == [NoRow EXCEPT !.lane = "celebration"]
           R == [row EXCEPT ![t] = r]
<1>1. Turn(t) /\ Measured(t, NoRead) /\ Settle(t, NoRead, R, events, deferred)
  BY DEF Repeated
<1>2. r \in Row /\ ~Scored(r)
  <2>1. r \in Row
    BY RowsTyped DEF Row
  <2>2. r.how = "none"
    BY DEF NoRow
  <2> QED
    BY <2>1, <2>2 DEF Scored
<1>3. BoardTyped
  BY TypeParts DEF IInv
<1> HIDE DEF r
<1>4. R \in [Windows -> Row] /\ BoardOK(R, events, deferred, credited', t) /\ SameGoals(row, R)
  BY <1>1, <1>2, NewRow
<1>5. shaped' \subseteq Windows /\ NoDives
  BY <1>3 DEF Repeated, BoardTyped
<1> HIDE DEF R
<1> QED
  BY <1>1, <1>3, <1>4, <1>5, AcceptInv DEF BoardTyped

LEMMA DemotedInv ==
  ASSUME IInv, NEW t \in Windows, Demoted(t) PROVE IInv' /\ SameGoals(row, row')
<1>1. PICK cue, armed \in BOOLEAN :
        /\ Turn(t) /\ Measured(t, NoRead)
        /\ Settle(t, NoRead,
                  [row EXCEPT ![t] = [NoRow EXCEPT !.lane = "celebration",
                                        !.mark = IF cue THEN "provisional" ELSE "none",
                                        !.dive = IF armed THEN "armed" ELSE "none"]],
                  events, Held(t))
        /\ shaped' = shaped \cup {t}
        /\ IF armed THEN Arms(t) ELSE NoDives
  BY DEF Demoted
<1> DEFINE r == [NoRow EXCEPT !.lane = "celebration",
                   !.mark = IF cue THEN "provisional" ELSE "none",
                   !.dive = IF armed THEN "armed" ELSE "none"]
           R == [row EXCEPT ![t] = r]
<1>2. r \in Row /\ ~Scored(r)
  <2>1. ASSUME NEW m \in {"none", "provisional"}, NEW v \in {"none", "armed"}
        PROVE  [NoRow EXCEPT !.lane = "celebration", !.mark = m, !.dive = v] \in Row
    BY RowsTyped DEF Row
  <2>2. r.how = "none"
    BY DEF NoRow
  <2>3. r \in Row
    BY <2>1
  <2> QED
    BY <2>2, <2>3 DEF Scored
<1>3. BoardTyped
  BY TypeParts DEF IInv
<1>4. Held(t) \in SUBSET (deferred \cup {t})
  BY DEF Held, Capped
<1> HIDE DEF r
<1>5. R \in [Windows -> Row] /\ Held(t) \in SUBSET Windows
      /\ BoardOK(R, events, Held(t), credited', t) /\ SameGoals(row, R)
  BY <1>1, <1>2, <1>4, NewRow
<1>6. shaped' \subseteq Windows /\ (NoDives \/ Arms(t))
  BY <1>1, <1>3 DEF BoardTyped
<1>7. Turn(t) /\ Measured(t, NoRead) /\ Settle(t, NoRead, R, events, Held(t))
  BY <1>1 DEF r
<1> HIDE DEF R
<1> QED
  BY <1>3, <1>5, <1>6, <1>7, AcceptInv DEF BoardTyped

\* A frame read again, or none for want of budget.
LEMMA RereadInv ==
  ASSUME IInv, Reread \/ BudgetGone PROVE IInv' /\ SameGoals(row, row')
<1>0. BoardTyped /\ LedgerTyped /\ LaneTyped
  BY TypeParts DEF IInv
<1>1. BoardTyped' /\ BoardOK(row, events, deferred, credited, now)' /\ SameGoals(row, row')
  <2>1. CASE Reread
    <3>a. PICK e : \E d \in Reads(Lo(e), e + Lookahead) \cup {NoRead} : Resolve(row, events, deferred, d)
      BY <2>1 DEF Reread
    <3>1. PICK d : d.key \in Keys /\ Resolve(row, events, deferred, d)
      BY <3>a DEF Reads, NoRead, Keys
    <3>2. /\ row' \in [Windows -> Row] /\ deferred' \subseteq deferred
          /\ BoardOK(row', events, deferred', credited, now)
          /\ SameGoals(row, row')
      BY <1>0, <3>1, ResolveKeeps DEF BoardTyped, LedgerTyped, IInv
    <3> QED
      BY <1>0, <2>1, <3>2 DEF Reread, BoardTyped
  <2>2. CASE BudgetGone
    BY <1>0, <2>2 DEF BudgetGone, board, BoardTyped, SameGoals, IInv
  <2> QED
    BY <2>1, <2>2
<1>2. LedgerTyped'
  <2>1. ocr' \in 0..MaxOcr
    BY <1>0, Constants DEF Reread, BudgetGone, Spends, LedgerTyped
  <2> QED
    BY <1>0, <2>1 DEF Reread, BudgetGone, LedgerTyped
<1>3. UNCHANGED <<now, pending, evicted, chain, lane>>
  BY DEF Reread, BudgetGone
<1>4. LaneTyped'
  BY <1>0, <1>3 DEF LaneTyped, lane
<1>5. BudgetOK' /\ PumpOK'
  BY <1>3 DEF IInv, BudgetOK, InSpan, PumpOK, Oldest, lane
<1> QED
  BY <1>1, <1>2, <1>4, <1>5, NextParts DEF IInv
-----------------------------------------------------------------------------
(***************************************************************************)
(* The confirm lane.                                                       *)
(***************************************************************************)

\* A step of the lane that leaves what the accepts write alone.
LEMMA LaneInv ==
  ASSUME IInv, UNCHANGED accepts, LaneTyped', BudgetOK', PumpOK'
  PROVE  IInv' /\ SameGoals(row, row')
<1>1. UNCHANGED <<row, events, shaped, deferred, now, credited, plan, reread, ocr>>
  BY DEF accepts, board, ledger
<1>2. BoardTyped' /\ LedgerTyped'
  BY <1>1, TypeParts DEF IInv, BoardTyped, LedgerTyped
<1>3. BoardOK(row, events, deferred, credited, now)' /\ SameGoals(row, row')
  BY <1>1 DEF IInv, SameGoals
<1> QED
  BY <1>2, <1>3, NextParts DEF IInv

\* The same when nothing is spent and the pump, which is or was the oldest of the
\* chain, has no more to do than before.
LEMMA NothingSpent ==
  ASSUME IInv, UNCHANGED <<now, spent>>, attempted \subseteq attempted', chain' \subseteq chain,
         pump'.of \in {pump.of, NoDive}, pump'.of # NoDive => chain' = chain,
         pump'.dive \in {pump.dive, NoDive},
         pump'.todo \subseteq pump.todo \ (attempted' \ attempted),
         pump'.todo # {} => pump'.of # NoDive
  PROVE  BudgetOK' /\ PumpOK'
<1>1. BudgetOK'
  BY DEF IInv, BudgetOK, InSpan
<1>2. NoDive <= now
  BY Constants DEF IInv, TypeOK
<1>3. PumpOK'
  BY <1>2 DEF IInv, PumpOK, Oldest
<1> QED
  BY <1>1, <1>3

LEMMA PumpStartsInv == ASSUME IInv, PumpStarts PROVE IInv' /\ SameGoals(row, row')
<1>0. LaneTyped
  BY TypeParts DEF IInv
<1>1. PICK t \in chain : Oldest(t, chain) /\ pump.of = NoDive
                         /\ pump' = [NoPump EXCEPT !.of = t, !.todo = Due(t)]
  BY DEF PumpStarts
<1>2. pump' = [of |-> t, todo |-> Due(t), dive |-> NoDive, saving |-> FALSE]
  BY <1>1 DEF NoPump
<1>3. t \in Windows /\ Due(t) \subseteq Windows /\ Due(t) \cap attempted = {}
  BY <1>0 DEF Due, LaneTyped
<1>4. pump' \in PumpType
  BY <1>2, <1>3 DEF PumpType
<1>5. UNCHANGED <<pending, evicted, chain, attempted, spent, calls, dropped>> /\ UNCHANGED accepts
  BY DEF PumpStarts
<1>6. LaneTyped'
  BY <1>0, <1>4, <1>5 DEF LaneTyped
<1>7. now' = now
  BY <1>5 DEF accepts, ledger
<1>8. BudgetOK'
  BY <1>5 DEF IInv, BudgetOK, InSpan
<1>9. PumpOK'
  <2>1. pump'.of = t /\ pump'.todo = Due(t) /\ pump'.dive = NoDive /\ t # NoDive
    BY <1>2, <1>3, Constants
  <2>2. NoDive <= now /\ \A e \in Due(t) : e <= now
    <3>1. t <= now /\ now \in 0..Content
      BY <1>1 DEF IInv, PumpOK, TypeOK
    <3> QED
      BY <1>0, <1>3, <3>1, Constants DEF Due, LaneTyped
  <2> QED
    BY <1>1, <1>3, <1>5, <1>7, <2>1, <2>2 DEF IInv, PumpOK, Oldest
<1> QED
  BY <1>5, <1>6, <1>8, <1>9, LaneInv

\* The entry is dropped before its dive.
LEMMA DroppedInv ==
  ASSUME IInv, NEW e \in Windows, Busy(e) \/ OverBudget(e) PROVE IInv' /\ SameGoals(row, row')
<1>0. LaneTyped
  BY TypeParts DEF IInv
<1>1. /\ pump' = [pump EXCEPT !.todo = @ \ {e}] /\ Drop(e)
      /\ attempted' = attempted \/ attempted' = attempted \cup {e}
      /\ UNCHANGED <<evicted, chain, spent, calls>> /\ UNCHANGED accepts
  BY DEF Busy, OverBudget
<1>2. /\ pump' \in PumpType /\ pump'.of = pump.of /\ pump'.todo = pump.todo \ {e}
      /\ pump'.dive = pump.dive
  BY <1>0, <1>1 DEF LaneTyped, PumpType
<1>3. LaneTyped'
  BY <1>0, <1>1, <1>2 DEF LaneTyped, Drop
<1>4. now' = now
  BY <1>1 DEF accepts, ledger
<1>5. pump'.todo # {} => pump'.of # NoDive
  BY <1>2 DEF IInv, PumpOK
<1>6. BudgetOK' /\ PumpOK'
  BY <1>1, <1>2, <1>4, <1>5, NothingSpent
<1> QED
  BY <1>1, <1>3, <1>6, LaneInv

\* One stamp more, as new as the newest and within the budget.
LEMMA SpendsOne ==
  ASSUME NEW S \in SUBSET Stamp, IsFiniteSet(S), NEW p \in Windows, NEW e \in Windows,
         \A s \in S : s.at <= p,
         Cardinality({s \in S : s.at + BudgetWindow > p}) < MaxDives,
         \A r \in S : Cardinality(InSpan(S, r.at)) <= MaxDives
  PROVE  LET T == S \cup {[at |-> p, of |-> e]}
         IN  IsFiniteSet(T) /\ \A r \in T : Cardinality(InSpan(T, r.at)) <= MaxDives
<1> DEFINE x == [at |-> p, of |-> e]
           T == S \cup {x}
           C == {s \in S : s.at + BudgetWindow > p}
<1>1. IsFiniteSet(T) /\ IsFiniteSet(C)
  BY FS_AddElement, FS_Subset
<1>2. IsFiniteSet(C \cup {x}) /\ Cardinality(C \cup {x}) <= MaxDives
  <2>1. Cardinality(C) \in Nat
    BY <1>1, FS_CardinalityType
  <2>2. IsFiniteSet(C \cup {x})
        /\ (Cardinality(C \cup {x}) = Cardinality(C) \/ Cardinality(C \cup {x}) = Cardinality(C) + 1)
    BY <1>1, FS_AddElement
  <2> HIDE DEF x
  <2> QED
    BY <2>1, <2>2, Constants
<1>3. Cardinality(InSpan(T, p)) <= MaxDives
  <2>1. InSpan(T, p) \subseteq C \cup {x}
    BY DEF InSpan
  <2>2. Cardinality(InSpan(T, p)) <= Cardinality(C \cup {x})
    BY <1>2, <2>1, FS_Subset
  <2>3. Cardinality(InSpan(T, p)) \in Nat /\ Cardinality(C \cup {x}) \in Nat
    BY <1>2, <2>1, FS_Subset, FS_CardinalityType
  <2> QED
    BY <1>2, <2>2, <2>3, Constants
<1>4. ASSUME NEW r \in S, r.at # p PROVE Cardinality(InSpan(T, r.at)) <= MaxDives
  <2>1. r.at < p
    BY <1>4, Constants DEF Stamp
  <2>2. InSpan(T, r.at) = InSpan(S, r.at)
    BY <2>1, Constants DEF InSpan, Stamp
  <2> QED
    BY <2>2
<1>5. \A r \in T : Cardinality(InSpan(T, r.at)) <= MaxDives
  <2>1. x.at = p
    OBVIOUS
  <2> HIDE DEF x
  <2> SUFFICES ASSUME NEW r \in T PROVE Cardinality(InSpan(T, r.at)) <= MaxDives
    OBVIOUS
  <2>2. r.at = p \/ (r \in S /\ r.at # p)
    BY <2>1
  <2> QED
    BY <1>3, <1>4, <2>2
<1> QED
  BY <1>1, <1>5

LEMMA BeginsInv ==
  ASSUME IInv, NEW e \in Windows, Begins(e) PROVE IInv' /\ SameGoals(row, row')
<1> DEFINE x == [at |-> pump.of, of |-> e]
<1>0. LaneTyped
  BY TypeParts DEF IInv
<1>1. /\ e \in pump.todo /\ Affordable
      /\ attempted' = attempted \cup {e} /\ spent' = spent \cup {x}
      /\ pump' = [pump EXCEPT !.todo = @ \ {e}, !.dive = e]
      /\ UNCHANGED <<pending, evicted, chain, calls, dropped>> /\ UNCHANGED accepts
  BY DEF Begins, Entry, Oldest
<1>2. /\ pump' \in PumpType /\ pump'.of = pump.of /\ pump'.todo = pump.todo \ {e}
      /\ pump'.dive = e
  BY <1>0, <1>1 DEF LaneTyped, PumpType
<1>3. pump.of \in Windows /\ pump.of \in chain /\ e \notin attempted
  BY <1>0, <1>1 DEF LaneTyped, PumpType, IInv, PumpOK, Oldest
<1>4. x \in Stamp /\ x.of = e /\ x.at = pump.of
  BY <1>3 DEF Stamp
<1>5. now' = now
  BY <1>1 DEF accepts, ledger
<1>6. \A s \in spent : s.at <= pump.of
  BY <1>3 DEF IInv, PumpOK
<1>7. IsFiniteSet(spent') /\ \A r \in spent' : Cardinality(InSpan(spent', r.at)) <= MaxDives
  BY <1>0, <1>1, <1>3, <1>6, SpendsOne DEF LaneTyped, IInv, BudgetOK, Affordable
<1> HIDE DEF x
<1>8. LaneTyped'
  BY <1>0, <1>1, <1>2, <1>4 DEF LaneTyped
<1>9. BudgetOK'
  <2>1. \A s \in spent' : s.of \in attempted'
    BY <1>1, <1>4 DEF IInv, BudgetOK
  <2>2. \A r, s \in spent' : r.of = s.of => r = s
    BY <1>1, <1>3, <1>4 DEF IInv, BudgetOK
  <2> QED
    BY <1>7, <2>1, <2>2 DEF BudgetOK, InSpan
<1>10. PumpOK'
  <2>1. \A s \in spent' : s.at <= now /\ \A c \in chain : s.at <= c
    BY <1>1, <1>3, <1>4 DEF IInv, PumpOK, Oldest
  <2>2. pump'.of # NoDive => Oldest(pump'.of, chain')
    BY <1>1, <1>2 DEF IInv, PumpOK, Oldest
  <2>3. pump'.todo \cap attempted' = {} /\ (pump'.todo # {} => pump'.of # NoDive)
    BY <1>1, <1>2 DEF IInv, PumpOK
  <2>4. pump'.dive <= now /\ \A u \in pump'.todo : u <= now
    BY <1>1, <1>2 DEF IInv, PumpOK
  <2> QED
    BY <1>1, <1>5, <2>1, <2>2, <2>3, <2>4 DEF IInv, PumpOK
<1> QED
  BY <1>1, <1>8, <1>9, <1>10, LaneInv

\* The end of a dive, or of the pump, that leaves the board alone.
LEMMA EndsInv ==
  ASSUME IInv, DiveFails \/ Saved \/ SaveFails \/ PumpEnds PROVE IInv' /\ SameGoals(row, row')
<1>0. LaneTyped
  BY TypeParts DEF IInv
<1>1. UNCHANGED <<evicted, attempted, spent>> /\ UNCHANGED accepts /\ chain' \subseteq chain
  BY DEF DiveFails, Saved, SaveFails, PumpEnds
<1>2. pump' \in PumpType /\ pump'.of \in {pump.of, NoDive} /\ pump'.todo \subseteq pump.todo
      /\ pump'.dive \in {pump.dive, NoDive}
      /\ (pump'.of # NoDive => chain' = chain) /\ (pump'.todo # {} => pump'.of = pump.of)
  <2>1. CASE DiveFails \/ Saved
    <3>1. chain' = chain
      BY <2>1 DEF DiveFails, Saved
    <3>2. /\ pump' \in PumpType /\ pump'.of = pump.of /\ pump'.todo = pump.todo
          /\ pump'.dive = NoDive
      BY <1>0, <2>1 DEF DiveFails, Saved, LaneTyped, PumpType
    <3> QED
      BY <3>1, <3>2
  <2>2. CASE SaveFails \/ PumpEnds
    <3>1. pump' = NoPump
      BY <2>2 DEF SaveFails, PumpEnds
    <3>2. NoPump \in PumpType /\ NoPump.of = NoDive /\ NoPump.todo = {}
          /\ NoPump.dive = NoDive
      BY DEF NoPump, PumpType
    <3> QED
      BY <3>1, <3>2
  <2> QED
    BY <2>1, <2>2
<1>3. pump'.todo # {} => pump'.of # NoDive
  BY <1>2 DEF IInv, PumpOK
<1>4. now' = now
  BY <1>1 DEF accepts, ledger
<1>5. BudgetOK' /\ PumpOK'
  BY <1>1, <1>2, <1>3, <1>4, NothingSpent
<1>6. /\ pending' \subseteq Windows /\ dropped' \subseteq Windows /\ calls' \subseteq spent
  BY <1>0 DEF DiveFails, Saved, SaveFails, PumpEnds, Diving, Drop, Called, LaneTyped, PumpType
<1>7. LaneTyped'
  BY <1>0, <1>1, <1>2, <1>6 DEF LaneTyped
<1> QED
  BY <1>1, <1>5, <1>7, LaneInv

\* A row keeps what made it a goal; only the dive it reads is stamped.
Keeps(r, s) == r.lane = "goal" => [s EXCEPT !.dive = r.dive] = r

LEMMA AdoptedKeeps ==
  ASSUME NEW r \in Row, NEW verdict \in {"confirmed", "unconfirmed"}
  PROVE  LET s == Adopted(r, verdict)
         IN  /\ s \in Row /\ Keeps(r, s)
             /\ Scored(s) => Scored(r) /\ s.key = r.key /\ s.by = r.by
<1> DEFINE read == [r EXCEPT !.dive = "stamped"]
           refuted == [read EXCEPT !.mark = IF @ = "provisional" THEN "refuted" ELSE @]
<1>1. read \in Row /\ read.how = r.how /\ read.key = r.key /\ read.by = r.by /\ Keeps(r, read)
  BY DEF Row, Keeps
<1>2. refuted \in Row /\ refuted.how = r.how /\ refuted.key = r.key /\ refuted.by = r.by
  BY DEF Row
<1>3. LET s == GoalRow(read, "dive", NoGoal, 0) IN s \in Row /\ ~Scored(s)
  <2>1. 0 \in 0..Content /\ NoGoal \in Keys
    BY Constants DEF Keys
  <2>2. LET s == GoalRow(read, "dive", NoGoal, 0) IN s \in Row /\ s.how = "dive"
    BY <1>1, <2>1, RowsTyped
  <2> QED
    BY <2>2 DEF Scored
<1>4. CASE r.lane = "goal"
  BY <1>1, <1>4 DEF Adopted, Scored
<1>5. CASE r.lane # "goal" /\ verdict = "confirmed"
  BY <1>3, <1>5 DEF Adopted, Keeps
<1>6. CASE r.lane # "goal" /\ verdict # "confirmed"
  BY <1>2, <1>6 DEF Adopted, Keeps, Scored
<1> QED
  BY <1>4, <1>5, <1>6

LEMMA AnswersInv ==
  ASSUME IInv, Answers PROVE IInv' /\ \A t \in Windows : Keeps(row[t], row'[t])
<1>0. BoardTyped /\ LedgerTyped /\ LaneTyped
  BY TypeParts DEF IInv
<1> DEFINE d == pump.dive
<1>1. PICK verdict \in {"confirmed", "unconfirmed"} : row' = [row EXCEPT ![d] = Adopted(@, verdict)]
  BY DEF Answers
<1>2. /\ d # NoDive /\ calls' = calls \cup {s \in spent : s.of = d}
      /\ pump' = [pump EXCEPT !.saving = TRUE]
      /\ UNCHANGED <<events, shaped, deferred, pending, evicted, chain, attempted, spent, dropped>>
      /\ UNCHANGED <<now, credited, plan, reread, ocr>>
  BY DEF Answers, Diving, Called, ledger
<1>3. d \in Windows /\ row[d] \in Row
  BY <1>0, <1>2 DEF LaneTyped, PumpType, BoardTyped
<1> DEFINE s == Adopted(row[d], verdict)
<1>4. s \in Row /\ Keeps(row[d], s) /\ (Scored(s) => Scored(row[d]) /\ s.key = row[d].key /\ s.by = row[d].by)
  BY <1>3, AdoptedKeeps
<1> HIDE DEF s
<1>5. row' = [row EXCEPT ![d] = s]
  BY <1>1 DEF s
<1>6. \A t \in Windows : row'[t] = IF t = d THEN s ELSE row[t]
  BY <1>0, <1>3, <1>5 DEF BoardTyped
<1>7. row' \in [Windows -> Row]
  BY <1>0, <1>4, <1>5 DEF BoardTyped
<1>8. \A t \in Windows : Keeps(row[t], row'[t])
  <2>1. \A t \in Windows : row[t] \in Row
    BY <1>0 DEF BoardTyped
  <2>2. \A r \in Row : Keeps(r, r)
    BY DEF Keeps, Row
  <2> QED
    BY <1>4, <1>6, <2>1, <2>2
<1>9. \A t \in Windows : Scored(row'[t]) =>
        Scored(row[t]) /\ row'[t].key = row[t].key /\ row'[t].by = row[t].by
  BY <1>4, <1>6
<1>10. BoardOK(row', events, deferred, credited, now)
  <2>1. d <= now
    BY DEF IInv, PumpOK
  <2>2. \A t \in Windows : t > now => row'[t] = NoRow
    BY <1>0, <1>3, <1>6, <2>1, Constants DEF IInv, BoardOK, LedgerTyped
  <2> HIDE DEF d
  <2> QED
    BY <1>9, <2>2 DEF IInv, BoardOK
<1>11. BoardTyped' /\ LedgerTyped' /\ BoardOK(row, events, deferred, credited, now)'
  BY <1>0, <1>2, <1>7, <1>10 DEF BoardTyped, LedgerTyped
<1>12. /\ pump' \in PumpType /\ pump'.of = pump.of /\ pump'.todo = pump.todo
       /\ pump'.dive = pump.dive
  BY <1>0, <1>2 DEF LaneTyped, PumpType
<1>13. LaneTyped'
  BY <1>0, <1>2, <1>12 DEF LaneTyped
<1>14. pump'.todo # {} => pump'.of # NoDive
  BY <1>12 DEF IInv, PumpOK
<1>15. BudgetOK' /\ PumpOK'
  BY <1>2, <1>12, <1>14, NothingSpent
<1> QED
  BY <1>8, <1>11, <1>13, <1>15, NextParts DEF IInv
-----------------------------------------------------------------------------
(***************************************************************************)
(* The theorems.                                                           *)
(***************************************************************************)

\* Every step keeps the invariant, and every goal what made it one.
LEMMA StepInv ==
  ASSUME IInv, [Next]_vars PROVE IInv' /\ \A t \in Windows : Keeps(row[t], row'[t])
<1> DEFINE Kept == \A t \in Windows : Keeps(row[t], row'[t])
<1>0. SameGoals(row, row') => Kept
  <2>1. \A t \in Windows : row[t] \in Row
    BY DEF IInv, TypeOK
  <2>2. \A r \in Row : Keeps(r, r)
    BY DEF Keeps, Row
  <2>3. \A t \in Windows : row[t].lane # "goal" => Keeps(row[t], row'[t])
    BY DEF Keeps
  <2> QED
    BY <2>1, <2>2, <2>3 DEF SameGoals
<1>1. ASSUME NEW t \in Windows, Accept(t) PROVE IInv' /\ Kept
  BY <1>0, <1>1, PassedOverInv, InsertedInv, InPlaceInv, RepeatedInv, DemotedInv DEF Accept
<1>2. ASSUME NEW e \in Windows, TakesEntry(e) PROVE IInv' /\ Kept
  BY <1>0, <1>2, DroppedInv, BeginsInv DEF TakesEntry
<1>3. ASSUME Reread \/ BudgetGone PROVE IInv' /\ Kept
  BY <1>0, <1>3, RereadInv
<1>4. ASSUME PumpStarts \/ PumpEnds \/ DiveFails \/ Saved \/ SaveFails PROVE IInv' /\ Kept
  BY <1>0, <1>4, PumpStartsInv, EndsInv
<1>5. ASSUME Answers PROVE IInv' /\ Kept
  BY <1>5, AnswersInv
<1>6. ASSUME UNCHANGED vars PROVE IInv' /\ Kept
  <2>1. UNCHANGED accepts /\ UNCHANGED <<pending, evicted, chain, lane>>
    BY <1>6 DEF vars, accepts
  <2>2. LaneTyped' /\ BudgetOK' /\ PumpOK'
    <3>1. LaneTyped'
      BY <2>1, TypeParts DEF IInv, LaneTyped, lane
    <3>2. BudgetOK' /\ PumpOK'
      BY <2>1 DEF IInv, BudgetOK, InSpan, PumpOK, Oldest, accepts, ledger, lane
    <3> QED
      BY <3>1, <3>2
  <2> QED
    BY <1>0, <2>1, <2>2, LaneInv
<1> HIDE DEF Kept
<1>7. IInv' /\ Kept
  BY <1>1, <1>2, <1>3, <1>4, <1>5, <1>6 DEF Next
<1> QED
  BY <1>7 DEF Kept

\* The invariant holds in every reachable state.
LEMMA InvHolds == Spec => []IInv
<1>1. IInv /\ [Next]_vars => IInv'
  BY StepInv
<1> QED
  BY <1>1, InitInv, PTL DEF Spec

\* Every variable has its type, whatever the verdicts, reads and dives do.
THEOREM TypeCorrect == Spec => []TypeOK
<1>1. IInv => TypeOK
  BY DEF IInv
<1> QED
  BY <1>1, InvHolds, PTL

\* A transition that a window claims of its own reads makes one goal, and one that a
\* hint carries again and again makes goals a horizon apart, inserted by a window or
\* promoted in place (analyzer.ts:4365-4381, 4483-4494, 6189-6240).
THEOREM MeasuredOnceHolds == Spec => []MeasuredOnce
<1>1. IInv => MeasuredOnce
  BY DEF IInv, BoardOK, MeasuredOnce
<1> QED
  BY <1>1, InvHolds, PTL

\* The confirm calls are one for a row and bounded in each span of content
\* (live-confirm-async.ts:119-135, 725-732).
THEOREM CallsBoundedHolds == Spec => []CallsBounded
<1>1. ASSUME IInv PROVE CallsBounded
  <2>1. calls \subseteq spent
    BY <1>1 DEF IInv, TypeOK
  <2>2. \A r, s \in calls : r.of = s.of => r = s
    BY <1>1, <2>1 DEF IInv, BudgetOK
  <2>3. ASSUME NEW r \in calls
        PROVE  Cardinality({s \in calls : s.at <= r.at /\ s.at + BudgetWindow > r.at}) <= MaxDives
    <3> DEFINE C == {s \in calls : s.at <= r.at /\ s.at + BudgetWindow > r.at}
    <3>1. IsFiniteSet(InSpan(spent, r.at)) /\ Cardinality(InSpan(spent, r.at)) <= MaxDives
      BY <1>1, <2>1, FS_Subset DEF IInv, BudgetOK, InSpan
    <3>2. C \subseteq InSpan(spent, r.at)
      BY <2>1 DEF InSpan
    <3>3. IsFiniteSet(C) /\ Cardinality(C) <= Cardinality(InSpan(spent, r.at))
      BY <3>1, <3>2, FS_Subset
    <3>4. Cardinality(C) \in Nat /\ Cardinality(InSpan(spent, r.at)) \in Nat
      BY <3>1, <3>3, FS_CardinalityType
    <3> QED
      BY <3>1, <3>3, <3>4, Constants
  <2> QED
    BY <2>2, <2>3 DEF CallsBounded
<1> QED
  BY <1>1, InvHolds, PTL

\* What made a row a goal stays, whichever lane answers later
\* (live-confirm-async.ts:410, api.ts:509).
THEOREM VerdictMovesOnceHolds == Spec => VerdictMovesOnce
<1>1. IInv /\ [Next]_vars
      => [\A t \in Windows :
            row[t].lane = "goal" => [row'[t] EXCEPT !.dive = row[t].dive] = row[t]]_vars
  BY StepInv DEF Keeps
<1> QED
  BY <1>1, InvHolds, PTL DEF Spec, VerdictMovesOnce
=============================================================================
