--------------------------- MODULE LiveObserverProofs ---------------------------
(***************************************************************************)
(* Proofs about LiveObserver, for every cadence, window, latency contract, *)
(* decide depth, rate cap and pattern of triggers, decides and failures:   *)
(* the decide rate, the one window of a trigger, the order of what is      *)
(* published and the drain that is due to a settled head; and the order of *)
(* the windows, for frames that are not later than the budget an anchored  *)
(* window needs.                                                           *)
(***************************************************************************)
EXTENDS LiveObserver, FiniteSetTheorems, SequenceTheorems, WellFoundedInduction, TLAPS

Rate == 10 \div Cadence
Before == {"live", "flush"}

TriggerType == [family: Families, onset: Times, st: TriggerState, seen: Nat]
WinType == [ts: Times, trigger: 0..MaxTriggers, forced: BOOLEAN, st: WinState]

\* Nothing is fired before the first frame.
ClockOK ==
  /\ clock = NoTs => wins = <<>> /\ queue = <<>> /\ phase \notin {"flush", "tail"}
  /\ clock # NoTs => tail # NoTs

\* What was fired and what is left of the budget came from the clock; only the
\* forced window of the flush overdraws the 0.6 an anchored one may borrow.
RateOK ==
  /\ phase \in Before =>
       /\ -6 <= tokens /\ Len(wins) * 10 + tokens <= 10 + Larger(clock, 0) * Rate
       /\ \A w \in WinIds : ~wins[w].forced
  /\ DecideRateBounded

\* A fired trigger has its one window, another has none.
TriggerOK(i) ==
  LET t == triggers[i]
  IN /\ t.st # "fired" => \A w \in WinIds : wins[w].trigger # i
     /\ t.st = "fired" =>
          \E w \in WinIds :
            /\ wins[w].trigger = i /\ wins[w].ts - t.onset \in Lead..MaxLatency
            /\ \A v \in WinIds : wins[v].trigger = i => v = w
     /\ t.st = "pending" =>
          \A w \in WinIds : w > t.seen => t.onset \notin (wins[w].ts - Window)..wins[w].ts

TriggersOK ==
  /\ Len(triggers) <= MaxTriggers
  /\ \A w \in WinIds : wins[w].trigger <= Len(triggers)
  /\ \A i \in DOMAIN triggers : TriggerOK(i)

\* One window is accepted at a time, behind what is published and before what is
\* queued, by a drain that runs; after the flush there is none.
FeedOK ==
  /\ \A i, k \in DOMAIN queue : i < k => queue[i] < queue[k]
  /\ \A p \in DOMAIN published, i \in DOMAIN queue : published[p] < queue[i]
  /\ \A a \in Accepting :
       /\ drains > 0
       /\ \A b \in Accepting : a = b
       /\ \A i \in DOMAIN queue : a < queue[i]
       /\ \A p \in DOMAIN published : published[p] < a
  /\ phase = "finished" => Accepting = {} /\ queue = <<>>

IInv == TypeOK /\ ClockOK /\ RateOK /\ TriggersOK /\ FeedOK

\* A late frame finds less budget than an anchored window takes, if it is behind
\* the newest window.
OrderOK ==
  /\ phase = "live" /\ wins # <<>> => tokens <= (clock - wins[Len(wins)].ts) * Rate
  /\ ContentOrder

\* TypeOK in parts.
FireTyped ==
  /\ {clock, tail, lastFire, lastKept} \subseteq Opt(Times)
  /\ tokens \in -20..10 /\ credit \in 0..20
TriggerTyped == triggers \in Seq(TriggerType) /\ lastOnset \in [Families -> Opt(Times)]
WinTyped == wins \in Seq(WinType)
FeedTyped ==
  /\ queue \in Seq(WinIds) /\ published \in Seq(WinIds)
  /\ drains \in Nat /\ applyError \in 0..Len(wins)

\* B is the list A after a frame: new triggers have seen every window so far, the
\* fired ones are the same, and none is pending again.
Grown(A, B) ==
  /\ B \in Seq(TriggerType) /\ Len(A) <= Len(B) /\ Len(B) <= MaxTriggers
  /\ \A i \in DOMAIN B :
       IF i \in DOMAIN A
       THEN /\ B[i].onset = A[i].onset /\ B[i].seen = A[i].seen
            /\ B[i].st = "fired" <=> A[i].st = "fired"
            /\ B[i].st = "pending" => A[i].st = "pending"
       ELSE B[i].st # "fired" /\ B[i].seen = Len(wins)

\* The windows are the same but for what became of their decides.
SameWins ==
  /\ wins' \in Seq(WinType) /\ Len(wins') = Len(wins)
  /\ \A w \in WinIds : /\ wins'[w].ts = wins[w].ts /\ wins'[w].trigger = wins[w].trigger
                       /\ wins'[w].forced = wins[w].forced

\* A frame at ts that fires nothing, and one that fires a window of its own: the
\* earliest trigger due anchors it, if one is due.
Skips(ts) == tokens' = Refill(ts) /\ UNCHANGED <<wins, queue>> /\ Grown(triggers, triggers')
Fires(ts) ==
  \E T \in Seq(TriggerType), trigger \in Nat :
    /\ Grown(triggers, T) /\ trigger \in {0} \cup Due(T, ts)
    /\ Refill(ts) >= 4 /\ Issue(ts, trigger, T, FALSE)
-----------------------------------------------------------------------------
(***************************************************************************)
(* The operators of the pass.                                              *)
(***************************************************************************)

\* A nonempty set of naturals has a least element.
LEMMA Least == ASSUME NEW S \in SUBSET Nat, S # {} PROVE \E m \in S : \A k \in S : m <= k
<1> DEFINE Less == {p \in Nat \X Nat : p[1] < p[2]}
<1>1. IsWellFoundedOn(Less, Nat)
  BY NatLessThanWellFounded DEF OpToRel
<1> HIDE DEF Less
<1>2. PICK m \in S : \A k \in S : <<k, m>> \notin Less
  BY <1>1, WFMin
<1>3. ASSUME NEW k \in S PROVE m <= k
  <2>1. <<k, m>> \in Nat \X Nat
    OBVIOUS
  <2>2. ~(k < m)
    BY <1>2, <2>1 DEF Less
  <2> QED
    BY <2>2
<1> QED
  BY <1>3

\* A sequence with one element more.
LEMMA OneMore ==
  ASSUME NEW S, NEW q \in Seq(S), NEW e \in S, NEW r, r = q \o <<e>>
  PROVE  /\ r \in Seq(S) /\ Len(r) = Len(q) + 1 /\ r[Len(q) + 1] = e
         /\ Len(q) \in Nat /\ DOMAIN q = 1..Len(q) /\ DOMAIN r = 1..(Len(q) + 1)
         /\ \A i \in DOMAIN q : r[i] = q[i] /\ q[i] \in S /\ i \in Nat /\ i < Len(q) + 1
         /\ \A i \in DOMAIN r : i \in DOMAIN q \/ i = Len(q) + 1
<1>1. r = Append(q, e)
  BY AppendIsConcat
<1>2. /\ r \in Seq(S) /\ Len(r) = Len(q) + 1 /\ r[Len(q) + 1] = e
      /\ \A i \in 1..Len(q) : r[i] = q[i]
  BY <1>1, AppendProperties
<1>3. Len(q) \in Nat /\ DOMAIN q = 1..Len(q) /\ \A i \in DOMAIN q : q[i] \in S
  OBVIOUS
<1>4. DOMAIN r = 1..(Len(q) + 1)
  BY <1>2
<1> QED
  BY <1>2, <1>3, <1>4

\* The parts make up TypeOK.
LEMMA TypeParts == TypeOK <=> FireTyped /\ TriggerTyped /\ WinTyped /\ FeedTyped /\ phase \in Phase
BY DEF TypeOK, FireTyped, TriggerTyped, WinTyped, FeedTyped, TriggerType, WinType

\* The same of the next state.
LEMMA NextParts ==
  ASSUME FireTyped', TriggerTyped', WinTyped', FeedTyped', phase' \in Phase PROVE TypeOK'
BY DEF TypeOK, FireTyped, TriggerTyped, WinTyped, FeedTyped, TriggerType, WinType

\* The budget refills at a rate of naturals.
LEMMA RateNat == Rate \in Nat
BY LiveAssumption DEF Rate

\* What Move does to a list of triggers.
LEMMA MoveProps ==
  ASSUME NEW T \in Seq(TriggerType), NEW S, NEW st \in TriggerState
  PROVE  /\ Move(T, S, st) \in Seq(TriggerType) /\ Len(Move(T, S, st)) = Len(T)
         /\ DOMAIN Move(T, S, st) = DOMAIN T
         /\ \A i \in DOMAIN T :
              /\ Move(T, S, st)[i].onset = T[i].onset /\ Move(T, S, st)[i].seen = T[i].seen
              /\ Move(T, S, st)[i].st = IF i \in S THEN st ELSE T[i].st
<1> DEFINE M == Move(T, S, st)
<1>1. \A i \in DOMAIN T : T[i] \in TriggerType
  OBVIOUS
<1>2. \A i \in DOMAIN T : [T[i] EXCEPT !.st = st] \in TriggerType
  BY <1>1 DEF TriggerType
<1>3. M = [i \in 1..Len(T) |-> IF i \in S THEN [T[i] EXCEPT !.st = st] ELSE T[i]]
  BY DEF Move
<1>4. M \in Seq(TriggerType) /\ Len(M) = Len(T) /\ DOMAIN M = DOMAIN T
  <2>1. Len(T) \in Nat /\ \A i \in 1..Len(T) : M[i] \in TriggerType
    BY <1>1, <1>2, <1>3
  <2> QED
    BY <1>3, <2>1
<1>5. \A i \in DOMAIN T : /\ M[i].onset = T[i].onset /\ M[i].seen = T[i].seen
                          /\ M[i].st = IF i \in S THEN st ELSE T[i].st
  BY <1>1, <1>3 DEF TriggerType
<1> QED
  BY <1>4, <1>5

\* Pending triggers that are covered, expired or lost leave a grown list grown.
LEMMA MoveGrows ==
  ASSUME NEW A, NEW T, Grown(A, T), NEW S \in SUBSET Pending(T), 
         NEW st \in {"covered", "expired", "lost"}
  PROVE  Grown(A, Move(T, S, st))
<1>1. T \in Seq(TriggerType) /\ st \in TriggerState
  BY DEF Grown, TriggerState
<1>2. \A i \in S : T[i].st = "pending"
  BY DEF Pending
<1> QED
  BY <1>1, <1>2, MoveProps DEF Grown

\* The windows are numbered from 1.
LEMMA WinLen ==
  ASSUME WinTyped
  PROVE  /\ Len(wins) \in Nat /\ WinIds = 1..Len(wins)
         /\ \A w \in WinIds : wins[w] \in WinType
BY DEF WinTyped, WinIds

\* Of a family heard, one trigger is the last.
LEMMA LastHeard ==
  ASSUME NEW heard, NEW n \in Nat, NEW f, \E k \in 1..n : heard[k].family = f
  PROVE  LastOf(heard, n, f) \in 1..n
<1> DEFINE mine == {k \in 1..n : heard[k].family = f}
           S == {n - k : k \in mine}
<1>1. S \in SUBSET Nat /\ S # {}
  OBVIOUS
<1> HIDE DEF S
<1>2. PICK m \in S : \A j \in S : m <= j
  BY <1>1, Least
<1>3. PICK k \in mine : m = n - k
  BY <1>2 DEF S
<1>4. ASSUME NEW j \in mine PROVE j <= k
  <2>1. n - j \in S
    BY DEF S
  <2> QED
    BY <1>2, <1>3, <2>1
<1>5. \E i \in mine : \A j \in mine : j <= i
  BY <1>4
<1> HIDE DEF mine
<1>6. LastOf(heard, n, f) \in mine
  BY <1>5 DEF LastOf, mine
<1> QED
  BY <1>6 DEF mine

\* The triggers a frame brings are new, and each is of a family.
LEMMA RecordedGrows ==
  ASSUME TriggerTyped, WinTyped, Len(triggers) <= MaxTriggers, NEW ts \in Times,
         NEW heard \in Tapped(ts)
  PROVE  Grown(triggers, Recorded(heard)) /\ Onsets(heard, Len(heard)) \in [Families -> Opt(Times)]
<1>1. PICK n \in 0..(MaxTriggers - Len(triggers)) : heard \in [1..n -> [family: Families, onset: Times]]
  BY DEF Tapped
<1>2. triggers \in Seq(TriggerType) /\ Len(triggers) \in Nat /\ MaxTriggers \in Nat
  BY LiveAssumption DEF TriggerTyped
<1>3. n \in Nat /\ Len(triggers) + n <= MaxTriggers /\ Len(heard) = n
      /\ \A i \in 1..n : heard[i].family \in Families /\ heard[i].onset \in Times
  BY <1>1, <1>2
<1> DEFINE fresh == [i \in 1..Len(heard) |->
                       [family |-> heard[i].family, onset |-> heard[i].onset,
                        st |-> "pending", seen |-> Len(wins)]]
           all == triggers \o fresh
           over == {i \in Pending(all) : Cardinality({k \in Pending(all) : k > i}) >= PendingCap}
<1>4. /\ fresh \in Seq(TriggerType) /\ Len(fresh) = n
      /\ \A i \in 1..n : fresh[i].st = "pending" /\ fresh[i].seen = Len(wins)
  <2>1. \A i \in 1..n : fresh[i] \in TriggerType
    BY <1>3, WinLen DEF TriggerType, TriggerState
  <2> QED
    BY <1>3, <2>1
<1> HIDE DEF fresh
<1>5. /\ all \in Seq(TriggerType) /\ Len(all) = Len(triggers) + n
      /\ \A i \in 1..Len(triggers) : all[i] = triggers[i]
      /\ \A i \in 1..(Len(triggers) + n) : i > Len(triggers) => all[i] = fresh[i - Len(triggers)]
  BY <1>2, <1>3, <1>4
<1>6. ASSUME NEW i \in DOMAIN all, i \notin DOMAIN triggers
      PROVE  all[i].st # "fired" /\ all[i].seen = Len(wins)
  <2>1. i \in 1..(Len(triggers) + n) /\ i > Len(triggers)
    BY <1>2, <1>3, <1>5, <1>6
  <2>2. i - Len(triggers) \in 1..n
    BY <1>2, <1>3, <2>1
  <2> QED
    BY <1>4, <1>5, <2>1, <2>2
<1> HIDE DEF all
<1>7. Grown(triggers, all)
  BY <1>2, <1>3, <1>5, <1>6 DEF Grown
<1>8. over \in SUBSET Pending(all)
  OBVIOUS
<1>9. Recorded(heard) = Move(all, over, "lost")
  BY DEF Recorded, all, fresh
<1> HIDE DEF over
<1>10. Grown(triggers, Recorded(heard))
  BY <1>7, <1>8, <1>9, MoveGrows
<1>11. ASSUME NEW f \in Families PROVE Onsets(heard, Len(heard))[f] \in Opt(Times)
  <2>1. CASE \E k \in 1..n : heard[k].family = f
    BY <1>3, <2>1, LastHeard DEF Onsets, Opt
  <2>2. CASE ~\E k \in 1..n : heard[k].family = f
    BY <1>3, <2>2 DEF Onsets, TriggerTyped
  <2> QED
    BY <2>1, <2>2
<1>12. Onsets(heard, Len(heard)) \in [Families -> Opt(Times)]
  BY <1>11 DEF Onsets
<1> QED
  BY <1>10, <1>12

\* The trigger that is due is one of the list, pending, with its onset in reach.
LEMMA DueProps ==
  ASSUME NEW T \in Seq(TriggerType), NEW ts \in Times
  PROVE  /\ PeekDue(T, ts) \in Nat /\ PeekDue(T, ts) \in {0} \cup Due(T, ts)
         /\ \A i \in Due(T, ts) : /\ i \in DOMAIN T /\ i > 0 /\ T[i].st = "pending"
                                  /\ ts - T[i].onset \in Lead..MaxLatency
<1> DEFINE S == Due(T, ts)
<1>1. \A i \in S : /\ i \in DOMAIN T /\ i \in Nat \ {0} /\ T[i].st = "pending" /\ T[i].onset \in Nat
                   /\ ts - T[i].onset \in Lead..MaxLatency
  <2>1. \A i \in DOMAIN T : i \in Nat \ {0} /\ T[i] \in TriggerType
    OBVIOUS
  <2>2. \A i \in DOMAIN T : T[i].onset \in Nat
    BY <2>1, LiveAssumption DEF TriggerType, Times
  <2> QED
    BY <2>1, <2>2 DEF Due, Pending
<1>2. CASE S = {}
  BY <1>1, <1>2 DEF PeekDue
<1>3. CASE S # {}
  <2>1. PICK m \in {T[i].onset : i \in S} : \A k \in {T[i].onset : i \in S} : m <= k
    <3>1. {T[i].onset : i \in S} \in SUBSET Nat /\ {T[i].onset : i \in S} # {}
      BY <1>1, <1>3
    <3> QED
      BY <3>1, Least
  <2> DEFINE I == {i \in S : T[i].onset = m}
  <2>2. I \in SUBSET Nat /\ I # {}
    BY <1>1, <2>1
  <2>3. PICK i \in I : \A k \in I : i <= k
    BY <2>2, Least
  <2>4. \A k \in S : T[i].onset < T[k].onset \/ (T[i].onset = T[k].onset /\ i <= k)
    <3> SUFFICES ASSUME NEW k \in S PROVE T[i].onset < T[k].onset \/ (T[i].onset = T[k].onset /\ i <= k)
      OBVIOUS
    <3>1. T[i].onset = m /\ i \in S /\ m <= T[k].onset
      BY <2>1, <2>3
    <3>2. T[k].onset = m => i <= k
      BY <2>3
    <3> QED
      BY <1>1, <3>1, <3>2
  <2>5. PeekDue(T, ts) \in S
    BY <1>3, <2>3, <2>4 DEF PeekDue
  <2> QED
    BY <1>1, <2>5
<1> QED
  BY <1>2, <1>3

\* What a frame at ts adds to the budget: what the clock gained, up to one window.
LEMMA RefillProps ==
  ASSUME FireTyped, NEW ts \in Times, clock = NoTs => ts = 0, tokens \in Int
  PROVE  \E e \in Nat :
           /\ Larger(Larger(clock, ts), 0) = Larger(clock, 0) + e
           /\ clock # NoTs => Larger(clock, ts) = clock + e
           /\ Refill(ts) \in Int /\ Refill(ts) <= 10 /\ tokens <= Refill(ts)
           /\ Refill(ts) <= tokens + e * Rate
<1>1. clock \in Int /\ (clock = NoTs \/ clock >= 0) /\ ts \in Nat /\ tokens <= 10
  BY LiveAssumption DEF FireTyped, Opt, Times, NoTs
<1>2. CASE clock = NoTs
  <2>1. Refill(ts) = tokens /\ ts = 0
    BY <1>2 DEF Refill
  <2>2. 0 * Rate = 0
    BY RateNat
  <2>3. Larger(Larger(clock, ts), 0) = 0 /\ Larger(clock, 0) = 0
    BY <1>2, <2>1 DEF Larger, NoTs
  <2> QED
    BY <1>1, <1>2, <2>1, <2>2, <2>3
<1>3. CASE clock # NoTs
  <2> DEFINE e == Larger(ts - clock, 0)
  <2>1. e \in Nat /\ Larger(clock, ts) = clock + e /\ clock + e >= 0
    BY <1>1, <1>3 DEF Larger
  <2>2. Larger(Larger(clock, ts), 0) = Larger(clock, 0) + e
    BY <1>1, <1>3, <2>1 DEF Larger
  <2>3. Refill(ts) = Smaller(10, tokens + e * Rate)
    BY <1>3 DEF Refill, Rate
  <2>4. e * Rate \in Nat
    BY <2>1, RateNat
  <2> HIDE DEF e
  <2>5. Refill(ts) \in Int /\ Refill(ts) <= 10 /\ tokens <= Refill(ts) /\ Refill(ts) <= tokens + e * Rate
    BY <1>1, <2>3, <2>4 DEF Smaller
  <2> QED
    BY <2>1, <2>2, <2>5
<1> QED
  BY <1>2, <1>3

\* A frame that fires, and one that does not.
LEMMA FrameKinds ==
  ASSUME IInv, ObserveFrame
  PROVE  \E ts \in Times :
           /\ phase = "live" /\ UNCHANGED <<drainVars, phase>>
           /\ clock' = Larger(clock, ts) /\ tail' = ts
           /\ clock = NoTs => ts = 0
           /\ clock # NoTs => ts >= clock - Skew
           /\ lastOnset' \in [Families -> Opt(Times)]
           /\ {lastFire', lastKept'} \subseteq Opt(Times)
           /\ credit' \in 0..20
           /\ Skips(ts) \/ Fires(ts)
<1>1. FireTyped /\ TriggerTyped /\ WinTyped /\ Len(triggers) <= MaxTriggers
  BY TypeParts DEF IInv, TriggersOK
<1>2. PICK ts \in Times : \E heard \in Tapped(ts) : StaleFrame(ts, heard) \/ FreshFrame(ts, heard)
  BY DEF ObserveFrame
<1>3. PICK heard \in Tapped(ts) : StaleFrame(ts, heard) \/ FreshFrame(ts, heard)
  BY <1>2
<1>4. /\ phase = "live" /\ UNCHANGED <<drainVars, phase>>
      /\ clock' = Larger(clock, ts) /\ tail' = ts /\ lastOnset' = Onsets(heard, Len(heard))
      /\ clock = NoTs => ts = 0
      /\ clock # NoTs => ts >= clock - Skew
  <2>1. Frame(ts, heard)
    BY <1>3 DEF StaleFrame, FreshFrame
  <2>2. clock \in Int /\ ts \in Int /\ Skew \in Nat /\ MaxGap \in Nat
    BY <1>1, LiveAssumption DEF FireTyped, Opt, Times, NoTs
  <2> QED
    BY <2>1, <2>2 DEF Frame
<1>5. Grown(triggers, Recorded(heard)) /\ lastOnset' \in [Families -> Opt(Times)]
  BY <1>1, <1>4, RecordedGrows
<1>6. /\ lastFire \in Opt(Times) /\ lastKept \in Opt(Times) /\ ts \in Opt(Times)
      /\ credit \in 0..20 /\ Keep \in 1..10
  <2>1. Keep \in Nat \ {0} /\ Keep <= 10
    BY LiveAssumption
  <2>2. Keep \in 1..10
    BY <2>1
  <2> QED
    BY <1>1, <2>2 DEF FireTyped, Opt
<1>7. CASE StaleFrame(ts, heard)
  <2>1. lastFire' \in Opt(Times) /\ lastKept' \in Opt(Times) /\ credit' \in 0..20
    BY <1>6, <1>7 DEF StaleFrame
  <2>2. Grown(triggers, triggers')
    <3>1. Grown(triggers, Covered(Recorded(heard), 0, ts - Window))
      BY <1>5, MoveGrows DEF Covered
    <3> QED
      BY <1>5, <1>7, <3>1 DEF StaleFrame
  <2>3. Skips(ts)
    BY <1>7, <2>2 DEF StaleFrame, Skips
  <2> QED
    BY <1>4, <1>5, <2>1, <2>3
<1>8. CASE FreshFrame(ts, heard)
  <2> DEFINE T == Expired(Recorded(heard), ts)
             trigger == PeekDue(T, ts)
  <2>1. Grown(triggers, T) /\ T \in Seq(TriggerType)
    <3>1. Grown(triggers, T)
      BY <1>5, MoveGrows DEF Expired
    <3> QED
      BY <3>1 DEF Grown
  <2>2. PICK o \in Outcomes(ts, trigger) :
          /\ \/ /\ o = "refused" /\ tokens' = Refill(ts) /\ triggers' = T /\ UNCHANGED <<wins, queue>>
                /\ UNCHANGED lastFire
             \/ /\ o \in {"gated", "dropped"} /\ tokens' = Refill(ts) /\ triggers' = T
                /\ UNCHANGED <<wins, queue>> /\ lastFire' = ts
             \/ o = "decides" /\ Issue(ts, trigger, T, FALSE)
          /\ lastKept' = IF Keep < 10 /\ o \in {"dropped", "decides"} THEN ts ELSE lastKept
          /\ credit' = CASE Keep < 10 /\ o = "dropped" -> credit + Keep
                         [] Keep < 10 /\ o = "decides" -> credit + Keep - 10
                         [] OTHER -> credit
    BY <1>8 DEF FreshFrame
  <2>3. PICK depth \in 1..MaxInFlight, signal \in BOOLEAN, admitted \in BOOLEAN :
          o = Outcome(ts, trigger, depth, signal, admitted)
    BY <2>2 DEF Outcomes
  <2>4. trigger \in Nat /\ trigger \in {0} \cup Due(T, ts)
    BY <2>1, DueProps
  <2> HIDE DEF T, trigger
  <2>5. /\ o = "decides" => Affordable(ts, trigger)
        /\ Keep < 10 /\ o = "dropped" => credit + Keep < 10
        /\ Keep < 10 /\ o = "decides" => ~(credit + Keep < 10)
    BY <2>3 DEF Outcome
  <2>6. credit' \in 0..20
    <3>1. CASE Keep < 10 /\ o = "dropped"
      BY <1>6, <2>2, <2>5, <3>1
    <3>2. CASE Keep < 10 /\ o = "decides"
      BY <1>6, <2>2, <2>5, <3>2
    <3>3. CASE ~(Keep < 10 /\ o = "dropped") /\ ~(Keep < 10 /\ o = "decides")
      BY <1>6, <2>2, <3>3
    <3> QED
      BY <3>1, <3>2, <3>3
  <2>7. {lastFire', lastKept'} \subseteq Opt(Times)
    BY <1>6, <2>2 DEF Issue
  <2>8. Skips(ts) \/ Fires(ts)
    <3>1. CASE o = "decides"
      <4>1. Refill(ts) >= 4
        <5>1. clock = NoTs => ts = 0
          BY <1>4
        <5>2. tokens \in Int
          BY <1>1 DEF FireTyped
        <5>3. Refill(ts) \in Int
          BY <1>1, <5>1, <5>2, RefillProps
        <5> QED
          BY <2>5, <3>1, <5>3 DEF Affordable
      <4> QED
        BY <2>1, <2>2, <2>4, <3>1, <4>1 DEF Fires
    <3>2. CASE o # "decides"
      BY <2>1, <2>2, <3>2 DEF Skips
    <3> QED
      BY <3>1, <3>2
  <2> QED
    BY <1>4, <1>5, <2>6, <2>7, <2>8
<1> QED
  BY <1>3, <1>7, <1>8
-----------------------------------------------------------------------------
(***************************************************************************)
(* The windows and the triggers.                                           *)
(***************************************************************************)

\* A window fired behind the others.
Added(ts, trigger, forced) ==
  /\ wins' \in Seq(WinType) /\ Len(wins') = Len(wins) + 1
  /\ \A w \in WinIds : wins'[w] = wins[w]
  /\ wins'[Len(wins) + 1].ts = ts /\ wins'[Len(wins) + 1].trigger = trigger
  /\ wins'[Len(wins) + 1].forced = forced /\ wins'[Len(wins) + 1].st = "running"

\* Issue adds one window.
LEMMA IssueAdds ==
  ASSUME WinTyped, NEW ts \in Times, NEW T \in Seq(TriggerType), Len(T) <= MaxTriggers,
         NEW trigger \in {0} \cup DOMAIN T, NEW forced \in BOOLEAN, Issue(ts, trigger, T, forced)
  PROVE  Added(ts, trigger, forced)
<1> DEFINE new == [ts |-> ts, trigger |-> trigger, forced |-> forced, st |-> "running"]
<1>1. trigger \in 0..MaxTriggers
  BY LiveAssumption
<1>2. new \in WinType
  BY <1>1 DEF WinType, WinState
<1>3. wins' = Append(wins, new) /\ wins \in Seq(WinType) /\ Len(wins) \in Nat
  BY WinLen DEF Issue, WinTyped
<1>4. new.ts = ts /\ new.trigger = trigger /\ new.forced = forced /\ new.st = "running"
  OBVIOUS
<1> HIDE DEF new
<1>5. /\ wins' \in Seq(WinType) /\ Len(wins') = Len(wins) + 1
      /\ \A w \in 1..Len(wins) : wins'[w] = wins[w]
      /\ wins'[Len(wins) + 1] = new
  BY <1>2, <1>3, AppendProperties
<1> QED
  BY <1>4, <1>5, WinLen DEF Added

\* The triggers keep to their windows when no window is added.
LEMMA GrownKeeps ==
  ASSUME IInv, SameWins, Grown(triggers, triggers') PROVE TriggersOK'
<1>1. TriggerTyped /\ WinTyped
  BY TypeParts DEF IInv
<1>2. WinIds' = WinIds /\ WinIds = 1..Len(wins) /\ Len(wins) \in Nat
  BY <1>1, WinLen DEF SameWins, WinIds
<1>3. \A w \in WinIds : wins'[w].ts = wins[w].ts /\ wins'[w].trigger = wins[w].trigger
  BY DEF SameWins
<1>4. /\ triggers \in Seq(TriggerType) /\ triggers' \in Seq(TriggerType)
      /\ Len(triggers) <= Len(triggers') /\ Len(triggers') <= MaxTriggers
      /\ Len(triggers) \in Nat /\ Len(triggers') \in Nat
  BY <1>1 DEF TriggerTyped, Grown
<1>5. \A w \in WinIds : wins[w].trigger \in Nat /\ wins[w].trigger <= Len(triggers)
  BY <1>1, WinLen DEF IInv, TriggersOK, WinType
<1>6. \A w \in WinIds' : wins'[w].trigger <= Len(triggers')
  BY <1>2, <1>3, <1>4, <1>5
<1>7. ASSUME NEW i \in DOMAIN triggers' PROVE TriggerOK(i)'
  <2>1. CASE i \in DOMAIN triggers
    <3>1. /\ triggers'[i].onset = triggers[i].onset /\ triggers'[i].seen = triggers[i].seen
          /\ triggers'[i].st = "fired" <=> triggers[i].st = "fired"
          /\ triggers'[i].st = "pending" => triggers[i].st = "pending"
      BY <2>1 DEF Grown
    <3>2. TriggerOK(i)
      BY <2>1 DEF IInv, TriggersOK
    <3> QED
      BY <1>2, <1>3, <3>1, <3>2 DEF TriggerOK
  <2>2. CASE i \notin DOMAIN triggers
    <3>1. triggers'[i].st # "fired" /\ triggers'[i].seen = Len(wins)
      BY <2>2 DEF Grown
    <3>2. i > Len(triggers)
      BY <1>4, <2>2
    <3>3. \A w \in WinIds : wins'[w].trigger # i
      BY <1>3, <1>4, <1>5, <3>2
    <3> QED
      BY <1>2, <3>1, <3>3 DEF TriggerOK
  <2> QED
    BY <2>1, <2>2
<1> QED
  BY <1>4, <1>6, <1>7 DEF TriggersOK

\* A window that is fired takes its anchor and covers every other trigger in it.
LEMMA IssueKeeps ==
  ASSUME IInv, NEW ts \in Times, NEW T, Grown(triggers, T), NEW trigger \in {0} \cup Due(T, ts),
         NEW forced \in BOOLEAN, Issue(ts, trigger, T, forced)
  PROVE  TriggersOK' /\ triggers' \in Seq(TriggerType) /\ Added(ts, trigger, forced)
<1>1. TriggerTyped /\ WinTyped
  BY TypeParts DEF IInv
<1>2. T \in Seq(TriggerType) /\ Len(T) \in Nat /\ Len(triggers) \in Nat
      /\ Len(triggers) <= Len(T) /\ Len(T) <= MaxTriggers
  BY <1>1 DEF Grown, TriggerTyped
<1>3. trigger # 0 => /\ trigger \in DOMAIN T /\ T[trigger].st = "pending"
                     /\ ts - T[trigger].onset \in Lead..MaxLatency
  BY <1>2, DueProps
<1>4. Added(ts, trigger, forced)
  BY <1>1, <1>2, <1>3, IssueAdds
<1> DEFINE M == Move(T, {trigger} \ {0}, "fired")
           C == {i \in Pending(M) : M[i].onset \in (ts - Window)..ts}
<1>5. /\ M \in Seq(TriggerType) /\ Len(M) = Len(T) /\ DOMAIN M = DOMAIN T
      /\ \A i \in DOMAIN T : /\ M[i].onset = T[i].onset /\ M[i].seen = T[i].seen
                             /\ M[i].st = IF i = trigger THEN "fired" ELSE T[i].st
  <2>1. "fired" \in TriggerState /\ \A i \in DOMAIN T : i # 0
    BY <1>2 DEF TriggerState
  <2> QED
    BY <1>2, <2>1, MoveProps
<1>6. triggers' = Move(M, C, "covered") /\ \A i \in C : M[i].st = "pending"
  BY DEF Issue, Covered, Pending
<1>7. \A i \in DOMAIN M : i \in C <=> M[i].st = "pending" /\ M[i].onset \in (ts - Window)..ts
  BY DEF Pending
<1> HIDE DEF M, C
<1>8. /\ triggers' \in Seq(TriggerType) /\ Len(triggers') = Len(T) /\ DOMAIN triggers' = DOMAIN T
      /\ \A i \in DOMAIN T :
           /\ triggers'[i].onset = T[i].onset /\ triggers'[i].seen = T[i].seen
           /\ i = trigger => triggers'[i].st = "fired"
           /\ i # trigger => (triggers'[i].st = "fired" <=> T[i].st = "fired")
           /\ triggers'[i].st = "pending" =>
                T[i].st = "pending" /\ T[i].onset \notin (ts - Window)..ts
  <2>1. "covered" \in TriggerState
    BY DEF TriggerState
  <2> QED
    BY <1>5, <1>6, <1>7, <2>1, MoveProps
<1>9. /\ WinIds = 1..Len(wins) /\ WinIds' = 1..(Len(wins) + 1) /\ Len(wins) \in Nat
      /\ \A w \in WinIds : wins[w].trigger \in Nat /\ wins[w].trigger <= Len(triggers)
  BY <1>1, <1>4, WinLen DEF Added, WinIds, IInv, TriggersOK, WinType
<1> DEFINE n == Len(wins) + 1
<1>10. /\ \A w \in WinIds : wins'[w] = wins[w] /\ w # n
       /\ \A w \in WinIds' : w \in WinIds \/ w = n
       /\ n \in WinIds' /\ WinIds \subseteq WinIds'
       /\ wins'[n].ts = ts /\ wins'[n].trigger = trigger
  BY <1>4, <1>9 DEF Added
<1> HIDE DEF n
<1>11. \A w \in WinIds' : wins'[w].trigger <= Len(triggers')
  <2>1. trigger \in Nat /\ trigger <= Len(T)
    BY <1>2, <1>3
  <2> QED
    BY <1>2, <1>8, <1>9, <1>10, <2>1
<1>12. ASSUME NEW i \in DOMAIN triggers' PROVE TriggerOK(i)'
  <2>1. i \in DOMAIN T /\ i \in Nat \ {0}
    BY <1>2, <1>8
  <2>2. i \in DOMAIN triggers =>
          /\ TriggerOK(i) /\ T[i].onset = triggers[i].onset /\ T[i].seen = triggers[i].seen
          /\ T[i].st = "fired" <=> triggers[i].st = "fired"
          /\ T[i].st = "pending" => triggers[i].st = "pending"
    BY <2>1 DEF Grown, IInv, TriggersOK
  <2>3. i \notin DOMAIN triggers =>
          /\ T[i].st # "fired" /\ T[i].seen = Len(wins) /\ \A w \in WinIds : wins[w].trigger # i
    <3> SUFFICES ASSUME i \notin DOMAIN triggers
                 PROVE  /\ T[i].st # "fired" /\ T[i].seen = Len(wins)
                        /\ \A w \in WinIds : wins[w].trigger # i
      OBVIOUS
    <3>1. T[i].st # "fired" /\ T[i].seen = Len(wins)
      BY <2>1 DEF Grown
    <3>2. i > Len(triggers)
      BY <1>1, <1>2, <2>1 DEF TriggerTyped
    <3> QED
      BY <1>2, <1>9, <2>1, <3>1, <3>2
  <2>4. T[i].st # "fired" => \A w \in WinIds : wins[w].trigger # i
    BY <2>2, <2>3 DEF TriggerOK
  <2>5. triggers'[i].st # "fired" => \A w \in WinIds' : wins'[w].trigger # i
    BY <1>8, <1>10, <2>1, <2>4
  <2>6. ASSUME triggers'[i].st = "fired"
        PROVE  \E w \in WinIds' :
                 /\ wins'[w].trigger = i /\ wins'[w].ts - triggers'[i].onset \in Lead..MaxLatency
                 /\ \A v \in WinIds' : wins'[v].trigger = i => v = w
    <3>1. CASE i = trigger
      <4>1. T[i].st = "pending" /\ ts - T[i].onset \in Lead..MaxLatency
        BY <1>3, <2>1, <3>1
      <4> QED
        BY <1>8, <1>10, <2>1, <2>4, <3>1, <4>1
    <3>2. CASE i # trigger
      <4>1. T[i].st = "fired"
        BY <1>8, <2>1, <2>6, <3>2
      <4>2. i \in DOMAIN triggers /\ triggers[i].st = "fired"
        BY <2>2, <2>3, <4>1
      <4>3. PICK w \in WinIds : /\ wins[w].trigger = i
                                /\ wins[w].ts - triggers[i].onset \in Lead..MaxLatency
                                /\ \A v \in WinIds : wins[v].trigger = i => v = w
        BY <2>2, <4>2 DEF TriggerOK
      <4>4. triggers'[i].onset = triggers[i].onset
        BY <1>8, <2>1, <2>2, <4>2
      <4> QED
        BY <1>10, <3>2, <4>3, <4>4
    <3> QED
      BY <3>1, <3>2
  <2>7. ASSUME triggers'[i].st = "pending"
        PROVE  \A w \in WinIds' : w > triggers'[i].seen =>
                 triggers'[i].onset \notin (wins'[w].ts - Window)..wins'[w].ts
    <3>1. T[i].st = "pending" /\ T[i].onset \notin (ts - Window)..ts
      BY <1>8, <2>1, <2>7
    <3>2. \A w \in WinIds : w > T[i].seen => T[i].onset \notin (wins[w].ts - Window)..wins[w].ts
      BY <1>9, <2>2, <2>3, <3>1 DEF TriggerOK
    <3> QED
      BY <1>8, <1>10, <2>1, <3>1, <3>2
  <2> QED
    BY <2>5, <2>6, <2>7 DEF TriggerOK
<1>13. Len(triggers') <= MaxTriggers
  BY <1>2, <1>8
<1> QED
  BY <1>4, <1>8, <1>11, <1>12, <1>13 DEF TriggersOK
-----------------------------------------------------------------------------
(***************************************************************************)
(* The frames.                                                             *)
(***************************************************************************)

\* The rate is bounded by what the windows cost and what is left of the budget.
LEMMA RateFromTokens ==
  ASSUME wins' \in Seq(WinType), \A w \in WinIds' : ~wins'[w].forced,
         clock' \in Int, tokens' \in Int, -6 <= tokens',
         Len(wins') * 10 + tokens' <= 10 + Larger(clock', 0) * Rate
  PROVE  DecideRateBounded'
<1> DEFINE fired == {w \in WinIds' : ~wins'[w].forced}
<1>1. fired = 1..Len(wins') /\ Len(wins') \in Nat
  BY DEF WinIds
<1>2. Cardinality(fired) = Len(wins')
  <2> DEFINE n == Len(wins')
  <2>1. fired = 1..n /\ n \in Nat
    BY <1>1
  <2> HIDE DEF fired, n
  <2>2. Cardinality(1..n) = IF 1 > n THEN 0 ELSE n - 1 + 1
    BY <2>1, FS_Interval
  <2>3. Cardinality(fired) = n
    BY <2>1, <2>2
  <2> QED
    BY <2>3 DEF n
<1>3. Larger(clock', 0) * Rate \in Int
  BY RateNat DEF Larger
<1>4. Len(wins') * 10 <= 16 + Larger(clock', 0) * Rate
  BY <1>1, <1>3
<1> HIDE DEF fired
<1>5. Cardinality(fired) * 10 <= 16 + Larger(clock', 0) * Rate
  BY <1>2, <1>4
<1> QED
  BY <1>5 DEF DecideRateBounded, Rate, fired

\* The queue and the drains when a window is fired behind the others.
LEMMA FeedAdds ==
  ASSUME IInv, NEW ts, NEW trigger, NEW forced \in BOOLEAN, Added(ts, trigger, forced),
         queue' = (IF forced THEN <<>> ELSE queue) \o <<Len(wins) + 1>>,
         UNCHANGED drainVars, phase' # "finished"
  PROVE  FeedTyped' /\ FeedOK'
<1> DEFINE n == Len(wins) + 1
           Q == IF forced THEN <<>> ELSE queue
<1>1. WinTyped /\ FeedTyped
  BY TypeParts DEF IInv
<1>2. /\ WinIds = 1..Len(wins) /\ WinIds' = 1..n /\ Len(wins) \in Nat /\ Len(wins') = n
      /\ \A w \in WinIds : w \in WinIds' /\ w < n
  BY <1>1, WinLen DEF Added, WinIds
<1>3. Q \in Seq(WinIds) /\ Len(Q) \in Nat
  BY <1>1 DEF FeedTyped
<1>4. /\ queue' = Q \o <<n>> /\ DOMAIN Q = 1..Len(Q)
      /\ \A i, k \in DOMAIN Q : i < k => Q[i] < Q[k]
      /\ \A p \in DOMAIN published, i \in DOMAIN Q : published[p] < Q[i]
      /\ \A a \in Accepting, i \in DOMAIN Q : a < Q[i]
  BY <1>3 DEF IInv, FeedOK
<1> HIDE DEF Q
<1>5. /\ queue' \in Seq(WinIds') /\ DOMAIN queue' = 1..(Len(Q) + 1)
      /\ \A i \in DOMAIN Q : queue'[i] = Q[i] /\ Q[i] \in WinIds /\ i \in Nat /\ i < Len(Q) + 1
      /\ queue'[Len(Q) + 1] = n
      /\ \A i \in DOMAIN queue' : i \in DOMAIN Q \/ i = Len(Q) + 1
  <2>1. n \in WinIds' /\ WinIds \subseteq WinIds'
    BY <1>2
  <2> HIDE DEF n
  <2>2. Q \in Seq(WinIds') /\ \A i \in DOMAIN Q : Q[i] \in WinIds
    BY <1>3, <2>1
  <2>3. queue' = Q \o <<n>>
    BY <1>4
  <2> DEFINE r == queue'
             S == WinIds'
  <2>4. Q \in Seq(S) /\ n \in S /\ r = Q \o <<n>>
    BY <2>1, <2>2, <2>3
  <2> HIDE DEF r, S
  <2>5. /\ r \in Seq(S) /\ r[Len(Q) + 1] = n /\ DOMAIN r = 1..(Len(Q) + 1)
        /\ \A i \in DOMAIN Q : r[i] = Q[i] /\ i \in Nat /\ i < Len(Q) + 1
        /\ \A i \in DOMAIN r : i \in DOMAIN Q \/ i = Len(Q) + 1
    BY <2>4, OneMore
  <2> QED
    BY <2>2, <2>5 DEF r, S
<1>6. Accepting' = Accepting
  BY <1>2 DEF Accepting, Added
<1>7. FeedTyped'
  <2>1. Q \in Seq(WinIds') /\ published \in Seq(WinIds') /\ n \in WinIds'
    BY <1>1, <1>2, <1>3 DEF FeedTyped
  <2>2. queue' \in Seq(WinIds')
    BY <1>5
  <2>3. drains' \in Nat /\ applyError' \in 0..Len(wins') /\ published' = published
    BY <1>1, <1>2 DEF FeedTyped, drainVars
  <2> QED
    BY <2>1, <2>2, <2>3 DEF FeedTyped
<1>8. \A i, k \in DOMAIN queue' : i < k => queue'[i] < queue'[k]
  <2> SUFFICES ASSUME NEW i \in DOMAIN queue', NEW k \in DOMAIN queue', i < k
               PROVE  queue'[i] < queue'[k]
    OBVIOUS
  <2>1. i \in DOMAIN Q
    BY <1>3, <1>5
  <2>2. queue'[i] = Q[i] /\ Q[i] < n
    BY <1>2, <1>5, <2>1
  <2> HIDE DEF n
  <2>3. CASE k \in DOMAIN Q
    BY <1>4, <1>5, <2>1, <2>3
  <2>4. CASE k = Len(Q) + 1
    BY <1>5, <2>2, <2>4
  <2> QED
    BY <1>5, <2>3, <2>4
<1>9. \A p \in DOMAIN published', i \in DOMAIN queue' : published'[p] < queue'[i]
  <2>1. \A p \in DOMAIN published : published[p] \in WinIds
    BY <1>1 DEF FeedTyped
  <2> QED
    BY <1>2, <1>3, <1>4, <1>5, <2>1 DEF drainVars
<1>10. \A a \in Accepting' : /\ drains' > 0
                             /\ \A b \in Accepting' : a = b
                             /\ \A i \in DOMAIN queue' : a < queue'[i]
                             /\ \A p \in DOMAIN published' : published'[p] < a
  <2>1. \A a \in Accepting : a \in WinIds
    BY DEF Accepting
  <2>2. \A a \in Accepting, i \in DOMAIN queue' : a < queue'[i]
    BY <1>2, <1>4, <1>5, <2>1
  <2> QED
    BY <1>6, <2>2 DEF IInv, FeedOK, drainVars
<1> QED
  BY <1>7, <1>8, <1>9, <1>10 DEF FeedOK

\* The budget after a frame that fires nothing, and after one that fires a window.
LEMMA FrameRate ==
  ASSUME IInv, NEW ts \in Times, clock = NoTs => ts = 0, clock' = Larger(clock, ts),
         phase \in Before, phase' = phase,
         \/ tokens' = Refill(ts) /\ wins' = wins
         \/ \E trigger : tokens' = Refill(ts) - 10 /\ Refill(ts) >= 4 /\ Added(ts, trigger, FALSE)
  PROVE  RateOK' /\ tokens' \in -20..10
<1>1. FireTyped /\ WinTyped
  BY TypeParts DEF IInv
<1>2. /\ tokens \in Int /\ -6 <= tokens /\ Len(wins) * 10 + tokens <= 10 + Larger(clock, 0) * Rate
      /\ \A w \in WinIds : ~wins[w].forced
  BY <1>1 DEF IInv, RateOK, FireTyped
<1>3. PICK e \in Nat : /\ Larger(clock', 0) = Larger(clock, 0) + e
                       /\ Refill(ts) \in Int /\ Refill(ts) <= 10 /\ tokens <= Refill(ts)
                       /\ Refill(ts) <= tokens + e * Rate
  BY <1>1, <1>2, RefillProps
<1>4. Larger(clock, 0) \in Nat /\ clock' \in Int /\ Len(wins) \in Nat
  BY <1>1, WinLen DEF FireTyped, Opt, Times, NoTs, Larger
<1>5. Larger(clock', 0) * Rate = Larger(clock, 0) * Rate + e * Rate
      /\ Larger(clock, 0) * Rate \in Nat /\ e * Rate \in Nat
  BY <1>3, <1>4, RateNat
<1> DEFINE X == Larger(clock, 0) * Rate
           Y == e * Rate
<1>6. /\ X \in Nat /\ Y \in Nat /\ Larger(clock', 0) * Rate = X + Y
       /\ Len(wins) * 10 + tokens <= 10 + X /\ Refill(ts) <= tokens + Y
  BY <1>2, <1>3, <1>5
<1>7. Refill(ts) \in Int /\ Refill(ts) <= 10 /\ -6 <= Refill(ts)
  BY <1>2, <1>3
<1> HIDE DEF X, Y
<1>8. CASE tokens' = Refill(ts) /\ wins' = wins
  <2>1. tokens' \in Int /\ -6 <= tokens' /\ tokens' \in -20..10
    BY <1>7, <1>8
  <2>2. Len(wins') * 10 + tokens' <= 10 + Larger(clock', 0) * Rate
    BY <1>2, <1>4, <1>6, <1>7, <1>8
  <2>3. wins' \in Seq(WinType) /\ \A w \in WinIds' : ~wins'[w].forced
    BY <1>1, <1>2, <1>8 DEF WinTyped, WinIds
  <2> QED
    BY <1>4, <2>1, <2>2, <2>3, RateFromTokens DEF RateOK
<1>9. CASE \E trigger : /\ tokens' = Refill(ts) - 10 /\ Refill(ts) >= 4
                        /\ Added(ts, trigger, FALSE)
  <2>1. tokens' \in Int /\ -6 <= tokens' /\ tokens' \in -20..10
    BY <1>7, <1>9
  <2>2. Len(wins') * 10 + tokens' <= 10 + Larger(clock', 0) * Rate
    <3>1. Len(wins') = Len(wins) + 1 /\ tokens' = Refill(ts) - 10
      BY <1>9 DEF Added
    <3> QED
      BY <1>2, <1>4, <1>6, <1>7, <3>1
  <2>3. wins' \in Seq(WinType) /\ \A w \in WinIds' : ~wins'[w].forced
    <3>1. WinIds = 1..Len(wins) /\ WinIds' = 1..(Len(wins) + 1)
      BY <1>1, <1>9, WinLen DEF Added, WinIds
    <3> QED
      BY <1>2, <1>4, <1>9, <3>1 DEF Added
  <2> QED
    BY <1>4, <2>1, <2>2, <2>3, RateFromTokens DEF RateOK
<1> QED
  BY <1>8, <1>9

\* A frame keeps the invariant.
LEMMA FrameInv == ASSUME IInv, ObserveFrame PROVE IInv'
<1>1. FireTyped /\ TriggerTyped /\ WinTyped /\ FeedTyped
  BY TypeParts DEF IInv
<1>2. PICK ts \in Times :
        /\ phase = "live" /\ UNCHANGED <<drainVars, phase>>
        /\ clock' = Larger(clock, ts) /\ tail' = ts
        /\ clock = NoTs => ts = 0
        /\ lastOnset' \in [Families -> Opt(Times)]
        /\ {lastFire', lastKept'} \subseteq Opt(Times)
        /\ credit' \in 0..20
        /\ Skips(ts) \/ Fires(ts)
  BY FrameKinds
<1>3. clock' \in Times /\ tail' \in Times /\ ts \in Nat
  BY <1>1, <1>2 DEF FireTyped, Opt, Times, NoTs, Larger
<1>4. ClockOK'
  BY <1>2, <1>3 DEF ClockOK, Times, NoTs
<1>5. phase \in Before /\ phase' = phase /\ phase' \in Phase /\ phase' # "finished"
  BY <1>2 DEF Before, Phase
<1>6. CASE Skips(ts)
  <2>1. RateOK' /\ tokens' \in -20..10
    BY <1>2, <1>5, <1>6, FrameRate DEF Skips
  <2>2. FireTyped'
    BY <1>2, <1>3, <2>1 DEF FireTyped, Opt
  <2>3. wins' = wins /\ queue' = queue /\ Grown(triggers, triggers')
    BY <1>6 DEF Skips
  <2>4. TriggerTyped' /\ WinTyped' /\ FeedTyped'
    BY <1>1, <1>2, <2>3 DEF TriggerTyped, WinTyped, FeedTyped, Grown, drainVars, WinIds
  <2>5. TriggersOK'
    <3>1. SameWins
      BY <1>1, <2>3 DEF SameWins, WinTyped
    <3> QED
      BY <2>3, <3>1, GrownKeeps
  <2>6. FeedOK'
    BY <1>2, <2>3 DEF IInv, FeedOK, Accepting, WinIds, drainVars
  <2> QED
    BY <1>4, <1>5, <2>1, <2>2, <2>4, <2>5, <2>6, NextParts DEF IInv
<1>7. CASE Fires(ts)
  <2>1. PICK T \in Seq(TriggerType), trigger \in Nat :
          /\ Grown(triggers, T) /\ trigger \in {0} \cup Due(T, ts)
          /\ Refill(ts) >= 4 /\ Issue(ts, trigger, T, FALSE)
    BY <1>7 DEF Fires
  <2>2. TriggersOK' /\ triggers' \in Seq(TriggerType) /\ Added(ts, trigger, FALSE)
    BY <2>1, IssueKeeps
  <2>3. /\ tokens' = Refill(ts) - 10 /\ lastFire' = ts
        /\ queue' = (IF FALSE THEN <<>> ELSE queue) \o <<Len(wins) + 1>>
    BY <2>1 DEF Issue
  <2>4. RateOK' /\ tokens' \in -20..10
    BY <1>2, <1>5, <2>1, <2>2, <2>3, FrameRate
  <2>5. FireTyped'
    BY <1>2, <1>3, <2>4 DEF FireTyped, Opt
  <2>6. TriggerTyped' /\ WinTyped'
    BY <1>2, <2>2 DEF TriggerTyped, WinTyped, Added
  <2>7. UNCHANGED drainVars /\ FALSE \in BOOLEAN
    BY <1>2
  <2>8. FeedTyped' /\ FeedOK'
    BY <1>5, <2>2, <2>3, <2>7, FeedAdds
  <2> QED
    BY <1>4, <1>5, <2>2, <2>4, <2>5, <2>6, <2>8, NextParts DEF IInv
<1> QED
  BY <1>2, <1>6, <1>7
-----------------------------------------------------------------------------
(***************************************************************************)
(* The decides, the drain and the end of the share.                        *)
(***************************************************************************)

\* A window whose decide ended, or that is being accepted, is the same window.
LEMMA SetWinProps ==
  ASSUME WinTyped, NEW w \in WinIds, NEW st \in WinState, SetWin(w, st)
  PROVE  /\ SameWins /\ WinIds' = WinIds
         /\ \A v \in WinIds : wins'[v].st = IF v = w THEN st ELSE wins[v].st
<1> DEFINE new == [wins[w] EXCEPT !.st = st]
<1>1. Len(wins) \in Nat /\ WinIds = 1..Len(wins) /\ \A v \in WinIds : wins[v] \in WinType
  BY WinLen
<1>2. /\ new \in WinType /\ new.ts = wins[w].ts /\ new.trigger = wins[w].trigger
      /\ new.forced = wins[w].forced /\ new.st = st
  BY <1>1 DEF WinType
<1>3. wins' = [wins EXCEPT ![w] = new]
  BY DEF SetWin
<1> HIDE DEF new
<1>4. wins' \in Seq(WinType) /\ Len(wins') = Len(wins) /\ WinIds' = WinIds
  BY <1>1, <1>2, <1>3, ExceptSeq DEF WinTyped, WinIds
<1>5. \A v \in WinIds : wins'[v] = IF v = w THEN new ELSE wins[v]
  BY <1>1, <1>3 DEF WinTyped, WinIds
<1> QED
  BY <1>2, <1>4, <1>5 DEF SameWins

\* A step that fires nothing and reads no frame keeps all but the queue.
LEMMA RestKept ==
  ASSUME IInv, SameWins, Grown(triggers, triggers'), UNCHANGED <<fireVars, tail, lastOnset>>,
         phase' \in Phase, phase' \in Before => phase \in Before,
         clock = NoTs => queue' = <<>> /\ phase' \notin {"flush", "tail"}
  PROVE  /\ FireTyped' /\ TriggerTyped' /\ WinTyped'
         /\ ClockOK' /\ RateOK' /\ TriggersOK'
<1>1. FireTyped /\ TriggerTyped /\ WinTyped
  BY TypeParts DEF IInv
<1>2. FireTyped' /\ TriggerTyped' /\ WinTyped'
  BY <1>1 DEF FireTyped, TriggerTyped, WinTyped, fireVars, SameWins, Grown
<1>3. WinIds = 1..Len(wins) /\ WinIds' = WinIds /\ Len(wins') = Len(wins) /\ Len(wins) \in Nat
  BY <1>1, WinLen DEF SameWins, WinIds
<1>4. ClockOK'
  <2>1. clock = NoTs => wins' = <<>>
    <3>1. wins = <<>> => Len(wins') = 0
      BY <1>3
    <3> QED
      BY <1>2, <3>1 DEF IInv, ClockOK, WinTyped
  <2> QED
    BY <2>1 DEF IInv, ClockOK, fireVars
<1>5. {w \in WinIds' : ~wins'[w].forced} = {w \in WinIds : ~wins[w].forced}
  BY <1>3 DEF SameWins
<1>6. DecideRateBounded'
  BY <1>5 DEF IInv, RateOK, DecideRateBounded, fireVars
<1>7. RateOK'
  <2>1. phase' \in Before =>
          /\ -6 <= tokens' /\ Len(wins') * 10 + tokens' <= 10 + Larger(clock', 0) * Rate
          /\ \A w \in WinIds' : ~wins'[w].forced
    BY <1>3 DEF IInv, RateOK, fireVars, SameWins
  <2> QED
    BY <1>6, <2>1 DEF RateOK
<1> QED
  BY <1>2, <1>4, <1>7, GrownKeeps

\* A list that does not change has grown.
LEMMA GrownSelf == ASSUME IInv, UNCHANGED triggers PROVE Grown(triggers, triggers')
BY TypeParts DEF IInv, TriggersOK, Grown, TriggerTyped

\* A decide ends, and asks for a drain.
LEMMA SettleInv == ASSUME IInv, NEW w \in WinIds, Settle(w) PROVE IInv'
<1>1. WinTyped /\ FeedTyped /\ phase \in Phase
  BY TypeParts DEF IInv
<1>2. /\ wins[w].st = "running" /\ drains' = drains + 1
      /\ UNCHANGED <<fireVars, tail, triggers, lastOnset, queue, applyError, published, phase>>
  BY DEF Settle, InFlight, passRest
<1>3. PICK st \in {"done", "failed"} : SetWin(w, st)
  BY DEF Settle
<1>4. /\ SameWins /\ WinIds' = WinIds
      /\ \A v \in WinIds : wins'[v].st = IF v = w THEN st ELSE wins[v].st
  BY <1>1, <1>3, SetWinProps DEF WinState
<1>5. Accepting' = Accepting
  BY <1>2, <1>4 DEF Accepting
<1>6. Grown(triggers, triggers')
  BY <1>2, GrownSelf
<1>7. clock = NoTs => queue' = <<>> /\ phase' \notin {"flush", "tail"}
  BY <1>2 DEF IInv, ClockOK
<1>8. /\ FireTyped' /\ TriggerTyped' /\ WinTyped'
      /\ ClockOK' /\ RateOK' /\ TriggersOK'
  BY <1>1, <1>2, <1>4, <1>6, <1>7, RestKept
<1>9. FeedTyped'
  BY <1>1, <1>2, <1>4 DEF FeedTyped, SameWins
<1>10. FeedOK'
  <2>1. drains \in Nat
    BY <1>1 DEF FeedTyped
  <2> QED
    BY <1>2, <1>5, <2>1 DEF IInv, FeedOK
<1> QED
  BY <1>1, <1>2, <1>8, <1>9, <1>10, NextParts DEF IInv

\* A window is accepted, or its accept throws and ends the drain.
LEMMA AcceptInv == ASSUME IInv, NEW w \in WinIds, Accept(w) PROVE IInv'
<1>1. WinTyped /\ FeedTyped /\ phase \in Phase
  BY TypeParts DEF IInv
<1>2. /\ w \in Accepting /\ UNCHANGED <<fireVars, tail, triggers, lastOnset, queue, phase>>
  BY DEF Accept, passRest
<1>3. PICK st \in {"applied", "failed"} :
        /\ SetWin(w, st)
        /\ \/ published' \in {published, Append(published, w)} /\ UNCHANGED <<drains, applyError>>
           \/ drains' = drains - 1 /\ applyError' \in {applyError, w} /\ published' = published
  BY DEF Accept
<1>4. /\ SameWins /\ WinIds' = WinIds
      /\ \A v \in WinIds : wins'[v].st = IF v = w THEN st ELSE wins[v].st
  BY <1>1, <1>3, SetWinProps DEF WinState
<1>5. drains \in Nat \ {0} /\ \A a \in Accepting : a = w
  BY <1>1, <1>2 DEF IInv, FeedOK, FeedTyped
<1>6. Accepting' = {}
  BY <1>4, <1>5 DEF Accepting
<1>7. Grown(triggers, triggers')
  BY <1>2, GrownSelf
<1>8. clock = NoTs => queue' = <<>> /\ phase' \notin {"flush", "tail"}
  BY <1>2 DEF IInv, ClockOK
<1>9. /\ FireTyped' /\ TriggerTyped' /\ WinTyped'
      /\ ClockOK' /\ RateOK' /\ TriggersOK'
  BY <1>1, <1>2, <1>4, <1>7, <1>8, RestKept
<1>10. /\ published' \in Seq(WinIds)
       /\ \A p \in DOMAIN published' :
            \/ p \in DOMAIN published /\ published'[p] = published[p]
            \/ published'[p] = w
  <2>1. CASE published' = Append(published, w)
    <3>1. published \in Seq(WinIds)
      BY <1>1 DEF FeedTyped
    <3>2. published' = published \o <<w>>
      BY <2>1, <3>1, AppendIsConcat
    <3> QED
      BY <3>1, <3>2, OneMore
  <2>2. CASE published' = published
    BY <1>1, <2>2 DEF FeedTyped
  <2> QED
    BY <1>3, <2>1, <2>2
<1>11. FeedTyped'
  <2>1. applyError' \in 0..Len(wins') /\ drains' \in Nat
    BY <1>1, <1>3, <1>4, <1>5, WinLen DEF FeedTyped, SameWins
  <2> QED
    BY <1>1, <1>2, <1>4, <1>10, <2>1 DEF FeedTyped
<1>12. FeedOK'
  <2>1. \A p \in DOMAIN published', i \in DOMAIN queue' : published'[p] < queue'[i]
    BY <1>2, <1>10 DEF IInv, FeedOK
  <2> QED
    BY <1>2, <1>6, <2>1 DEF IInv, FeedOK
<1> QED
  BY <1>1, <1>2, <1>9, <1>11, <1>12, NextParts DEF IInv

\* A drain takes the head of the queue, or ends.
LEMMA DrainInv == ASSUME IInv, DrainReady PROVE IInv'
<1>1. WinTyped /\ FeedTyped /\ phase \in Phase
  BY TypeParts DEF IInv
<1>2. /\ drains \in Nat \ {0} /\ Accepting = {}
      /\ UNCHANGED <<fireVars, tail, triggers, lastOnset, published, phase>>
  BY <1>1 DEF DrainReady, passRest, FeedTyped
<1>3. Grown(triggers, triggers')
  BY <1>2, GrownSelf
<1>5. CASE drains' = drains - 1 /\ UNCHANGED <<wins, queue, applyError>>
  <2>1. SameWins /\ Accepting' = Accepting /\ WinIds' = WinIds
    BY <1>1, <1>5 DEF SameWins, WinTyped, Accepting, WinIds
  <2>2. clock = NoTs => queue' = <<>> /\ phase' \notin {"flush", "tail"}
    BY <1>2, <1>5 DEF IInv, ClockOK
  <2>3. /\ FireTyped' /\ TriggerTyped' /\ WinTyped'
        /\ ClockOK' /\ RateOK' /\ TriggersOK'
    BY <1>1, <1>2, <1>3, <2>1, <2>2, RestKept
  <2>4. FeedTyped' /\ FeedOK'
    BY <1>1, <1>2, <1>5, <2>1 DEF FeedTyped, IInv, FeedOK
  <2> QED
    BY <1>1, <1>2, <2>3, <2>4, NextParts DEF IInv
<1>6. CASE queue # <<>> /\ queue' = Tail(queue)
  <2> DEFINE n == Head(queue)
  <2>1. /\ queue \in Seq(WinIds) /\ n \in WinIds /\ 1 \in DOMAIN queue /\ n = queue[1]
        /\ queue' \in Seq(WinIds)
        /\ \A i \in DOMAIN queue' : i \in Nat /\ i + 1 \in DOMAIN queue /\ 1 < i + 1
                                    /\ queue'[i] = queue[i + 1]
    BY <1>1, <1>6 DEF FeedTyped
  <2>2. clock # NoTs /\ phase # "finished"
    BY <1>6 DEF IInv, ClockOK, FeedOK
  <2> HIDE DEF n
  <2>3. \/ applyError' = n /\ drains' = drains - 1 /\ wins' = wins
        \/ SetWin(n, "accepting") /\ UNCHANGED <<drains, applyError>>
    BY <1>6, <2>1 DEF DrainReady, n
  <2>4. SameWins /\ WinIds' = WinIds
    <3>1. wins' = wins => SameWins /\ WinIds' = WinIds
      BY <1>1 DEF SameWins, WinTyped, WinIds
    <3> QED
      BY <1>1, <2>1, <2>3, <3>1, SetWinProps DEF WinState
  <2>5. /\ FireTyped' /\ TriggerTyped' /\ WinTyped'
        /\ ClockOK' /\ RateOK' /\ TriggersOK'
    BY <1>1, <1>2, <1>3, <2>2, <2>4, RestKept
  <2>6. FeedTyped'
    <3>1. applyError' \in 0..Len(wins') /\ drains' \in Nat
      BY <1>1, <1>2, <2>1, <2>3, <2>4, WinLen DEF FeedTyped, SameWins
    <3> QED
      BY <1>1, <1>2, <2>1, <2>4, <3>1 DEF FeedTyped
  <2>7. \A a \in Accepting' : a = n /\ drains' > 0
    <3>1. wins' = wins => Accepting' = {}
      BY <1>2 DEF Accepting, WinIds
    <3>2. SetWin(n, "accepting") => \A a \in Accepting' : a = n
      <4>1. SetWin(n, "accepting") =>
              \A v \in WinIds : wins'[v].st = IF v = n THEN "accepting" ELSE wins[v].st
        BY <1>1, <2>1, SetWinProps DEF WinState
      <4> QED
        BY <1>2, <2>4, <4>1 DEF Accepting
    <3> QED
      BY <1>2, <2>3, <3>1, <3>2
  <2>8. /\ \A i, k \in DOMAIN queue' : i < k => queue'[i] < queue'[k]
        /\ \A i \in DOMAIN queue' : n < queue'[i]
        /\ \A p \in DOMAIN published, i \in DOMAIN queue' : published[p] < queue'[i]
        /\ \A p \in DOMAIN published : published[p] < n
    BY <2>1 DEF IInv, FeedOK
  <2>9. FeedOK'
    BY <1>2, <2>2, <2>7, <2>8 DEF FeedOK
  <2> QED
    BY <1>1, <1>2, <2>5, <2>6, <2>9, NextParts DEF IInv
<1> QED
  BY <1>5, <1>6 DEF DrainReady

\* The share ends, or its session is lost.
LEMMA EndInv == ASSUME IInv, Finish \/ Release PROVE IInv'
<1>1. WinTyped /\ FeedTyped
  BY TypeParts DEF IInv
<1>2. /\ phase = "live" /\ UNCHANGED <<fireVars, tail, triggers, lastOnset, wins, queue, drainVars>>
      /\ phase' \in {"finished", "flush", "released"}
      /\ phase' = "flush" => clock # NoTs
      /\ phase' = "finished" => clock = NoTs
  BY DEF Finish, Release, passRest
<1>3. SameWins /\ Accepting' = Accepting /\ WinIds' = WinIds
  BY <1>1, <1>2 DEF SameWins, WinTyped, Accepting, WinIds
<1>4. Grown(triggers, triggers')
  BY <1>2, GrownSelf
<1>5. /\ clock = NoTs => queue' = <<>> /\ phase' \notin {"flush", "tail"}
      /\ phase' \in Phase /\ phase \in Before
  BY <1>2 DEF IInv, ClockOK, Phase, Before
<1>6. /\ FireTyped' /\ TriggerTyped' /\ WinTyped'
      /\ ClockOK' /\ RateOK' /\ TriggersOK'
  BY <1>2, <1>3, <1>4, <1>5, RestKept
<1>7. FeedTyped'
  BY <1>1, <1>2, <1>3 DEF FeedTyped, SameWins, drainVars
<1>8. clock = NoTs => Accepting = {} /\ queue = <<>>
  BY DEF IInv, ClockOK, Accepting, WinIds
<1>9. FeedOK'
  BY <1>2, <1>3, <1>8 DEF IInv, FeedOK, drainVars
<1> QED
  BY <1>5, <1>6, <1>7, <1>9, NextParts DEF IInv

\* The newest frame is fired, or the box has no slot for it.
LEMMA TailInv == ASSUME IInv, NEW admitted \in BOOLEAN, FlushTail(admitted) PROVE IInv'
<1>1. FireTyped /\ TriggerTyped /\ WinTyped /\ FeedTyped
  BY TypeParts DEF IInv
<1>2. /\ phase = "flush" /\ phase' = "tail"
      /\ UNCHANGED <<clock, credit, lastKept, tail, lastOnset, drainVars>>
      /\ \/ Issue(tail, 0, triggers, TRUE)
         \/ tokens' = Refill(tail) /\ queue' = <<>> /\ UNCHANGED <<lastFire, triggers, wins>>
  BY DEF FlushTail
<1>3. clock # NoTs /\ tail \in Times /\ tail \in Nat
  BY <1>1, <1>2 DEF IInv, ClockOK, FireTyped, Opt, Times, NoTs
<1>4. ClockOK'
  BY <1>2, <1>3 DEF ClockOK, Times, NoTs
<1>5. -6 <= tokens /\ tokens \in Int
  BY <1>1, <1>2 DEF IInv, RateOK, Before, FireTyped
<1>6. Refill(tail) \in Int /\ Refill(tail) <= 10 /\ -6 <= Refill(tail)
  <2>1. Refill(tail) \in Int /\ Refill(tail) <= 10 /\ tokens <= Refill(tail)
    BY <1>1, <1>3, <1>5, RefillProps
  <2> QED
    BY <1>5, <2>1
<1>7. phase' \in Phase /\ phase' # "finished" /\ phase' \notin Before
  BY <1>2 DEF Phase, Before
<1>8. CASE Issue(tail, 0, triggers, TRUE)
  <2>1. Grown(triggers, triggers)
    BY <1>1 DEF Grown, TriggerTyped, IInv, TriggersOK
  <2>2. TriggersOK' /\ triggers' \in Seq(TriggerType) /\ Added(tail, 0, TRUE)
    BY <1>3, <1>8, <2>1, IssueKeeps
  <2>3. /\ tokens' = Refill(tail) - 10 /\ lastFire' = tail
        /\ queue' = (IF TRUE THEN <<>> ELSE queue) \o <<Len(wins) + 1>>
    BY <1>8 DEF Issue
  <2>4. tokens' \in -20..10
    <3>1. tokens' = Refill(tail) - 10
      BY <2>3
    <3>2. tokens' \in Int /\ -20 <= tokens' /\ tokens' <= 10
      BY <1>6, <3>1
    <3> QED
      BY <3>2
  <2>5. FireTyped'
    BY <1>1, <1>2, <1>3, <2>3, <2>4 DEF FireTyped, Opt
  <2>6. TriggerTyped' /\ WinTyped'
    BY <1>1, <1>2, <2>2 DEF TriggerTyped, WinTyped, Added
  <2>7. UNCHANGED drainVars /\ TRUE \in BOOLEAN
    BY <1>2
  <2>8. FeedTyped' /\ FeedOK'
    BY <1>7, <2>2, <2>3, <2>7, FeedAdds
  <2>9. {w \in WinIds' : ~wins'[w].forced} = {w \in WinIds : ~wins[w].forced}
    <3>1. WinIds = 1..Len(wins) /\ WinIds' = 1..(Len(wins) + 1) /\ Len(wins) \in Nat
      BY <1>1, <2>2, WinLen DEF Added, WinIds
    <3> QED
      BY <2>2, <3>1 DEF Added
  <2>10. RateOK'
    BY <1>2, <1>7, <2>9 DEF IInv, RateOK, DecideRateBounded
  <2> QED
    BY <1>4, <1>7, <2>2, <2>5, <2>6, <2>8, <2>10, NextParts DEF IInv
<1>9. CASE tokens' = Refill(tail) /\ queue' = <<>> /\ UNCHANGED <<lastFire, triggers, wins>>
  <2>1. tokens' \in -20..10
    <3>1. tokens' \in Int /\ -20 <= tokens' /\ tokens' <= 10
      BY <1>6, <1>9
    <3> QED
      BY <3>1
  <2>2. FireTyped' /\ TriggerTyped' /\ WinTyped' /\ FeedTyped'
    BY <1>1, <1>2, <1>9, <2>1 DEF FireTyped, TriggerTyped, WinTyped, FeedTyped, drainVars, WinIds
  <2>3. RateOK'
    BY <1>2, <1>7, <1>9 DEF IInv, RateOK, DecideRateBounded, WinIds
  <2>4. TriggersOK'
    BY <1>9 DEF IInv, TriggersOK, TriggerOK, WinIds
  <2>5. FeedOK'
    BY <1>2, <1>7, <1>9 DEF IInv, FeedOK, Accepting, WinIds, drainVars
  <2> QED
    BY <1>4, <1>7, <2>2, <2>3, <2>4, <2>5, NextParts DEF IInv
<1> QED
  BY <1>2, <1>8, <1>9

\* The flush ends: the triggers still pending expire.
LEMMA FlushEndsInv == ASSUME IInv, FlushEnds PROVE IInv'
<1>1. WinTyped /\ FeedTyped
  BY TypeParts DEF IInv
<1>2. /\ phase = "tail" /\ phase' = "finished" /\ queue' = <<>> /\ applyError' = 0
      /\ UNCHANGED <<fireVars, tail, lastOnset, wins, drains, published>>
      /\ triggers' = Move(triggers, Pending(triggers), "expired")
      /\ Accepting = {}
  BY DEF FlushEnds, Drained
<1>3. SameWins /\ Accepting' = Accepting /\ WinIds' = WinIds
  BY <1>1, <1>2 DEF SameWins, WinTyped, Accepting, WinIds
<1>4. Grown(triggers, triggers')
  <2>1. Grown(triggers, triggers)
    BY TypeParts DEF IInv, TriggersOK, Grown, TriggerTyped
  <2> QED
    BY <1>2, <2>1, MoveGrows
<1>5. /\ clock = NoTs => queue' = <<>> /\ phase' \notin {"flush", "tail"}
      /\ phase' \in Phase /\ phase' \notin Before
  BY <1>2 DEF Phase, Before
<1>6. /\ FireTyped' /\ TriggerTyped' /\ WinTyped'
      /\ ClockOK' /\ RateOK' /\ TriggersOK'
  BY <1>2, <1>3, <1>4, <1>5, RestKept
<1>7. FeedTyped'
  BY <1>1, <1>2, <1>3, WinLen DEF FeedTyped, SameWins
<1>8. FeedOK'
  BY <1>2, <1>3 DEF FeedOK
<1> QED
  BY <1>5, <1>6, <1>7, <1>8, NextParts DEF IInv
-----------------------------------------------------------------------------
\* The invariant holds before the first frame.
LEMMA InitInv == Init => IInv
<1> SUFFICES ASSUME Init PROVE IInv
  OBVIOUS
<1>1. wins = <<>> /\ WinIds = {} /\ Len(wins) = 0
  BY DEF Init, WinIds
<1>2. FireTyped /\ TriggerTyped /\ WinTyped /\ FeedTyped /\ phase \in Phase
  BY <1>1 DEF Init, FireTyped, TriggerTyped, WinTyped, FeedTyped, Phase, Opt
<1>3. ClockOK
  BY <1>1 DEF Init, ClockOK
<1>4. RateOK
  <2>1. Larger(clock, 0) = 0 /\ 0 * Rate = 0 /\ 0 * (10 \div Cadence) = 0
    BY RateNat DEF Init, Larger, NoTs, Rate
  <2>2. {w \in WinIds : ~wins[w].forced} = {}
    BY <1>1
  <2>3. DecideRateBounded
    BY <2>1, <2>2, FS_EmptySet DEF DecideRateBounded
  <2>4. /\ -6 <= tokens /\ Len(wins) * 10 + tokens <= 10 + Larger(clock, 0) * Rate
        /\ \A w \in WinIds : ~wins[w].forced
    BY <1>1, <2>1 DEF Init
  <2> QED
    BY <2>3, <2>4 DEF RateOK
<1>5. TriggersOK
  BY <1>1, LiveAssumption DEF Init, TriggersOK
<1>6. FeedOK
  BY <1>1 DEF Init, FeedOK, Accepting
<1> QED
  BY <1>2, <1>3, <1>4, <1>5, <1>6, TypeParts DEF IInv

\* Every step keeps it.
LEMMA StepInv == IInv /\ [Next]_vars => IInv'
<1> SUFFICES ASSUME IInv, [Next]_vars PROVE IInv'
  OBVIOUS
<1>1. CASE UNCHANGED vars
  BY <1>1 DEF vars, fireVars, drainVars, IInv, TypeOK, ClockOK, RateOK, DecideRateBounded, TriggersOK,
              TriggerOK, FeedOK, Accepting, WinIds
<1>2. CASE DecideStep
  BY <1>2, SettleInv, AcceptInv DEF DecideStep
<1>3. CASE Flush
  BY <1>3, TailInv, FlushEndsInv DEF Flush
<1> QED
  BY <1>1, <1>2, <1>3, FrameInv, DrainInv, EndInv DEF Next

\* The inductive invariant, of every behaviour.
LEMMA InvHolds == Spec => []IInv
BY InitInv, StepInv, PTL DEF Spec

\* The pass keeps its types: the budget, the credit of the rate cap and the count
\* of drains stay in range, and every trigger is one of those accepted.
THEOREM TypeCorrect == Spec => []TypeOK
<1>1. IInv => TypeOK
  BY DEF IInv
<1> QED
  BY <1>1, InvHolds, PTL

\* Audio triggers add no decides: over the whole pass the windows stay within one
\* per cadence of content time, plus the 0.6 an anchored window may borrow.
THEOREM DecideRateHolds == Spec => []DecideRateBounded
<1>1. IInv => DecideRateBounded
  BY DEF IInv, RateOK
<1> QED
  BY <1>1, InvHolds, PTL

\* A trigger anchors one window, which holds its onset within the latency the
\* contract gives, or none; one still pending lies in no window since.
THEOREM OneWindowHolds == Spec => []OneWindowPerTrigger
<1>1. IInv => OneWindowPerTrigger
  <2> SUFFICES ASSUME IInv, NEW i \in DOMAIN triggers
               PROVE  LET t == triggers[i]
                          anchored == {w \in WinIds : wins[w].trigger = i}
                      IN /\ Cardinality(anchored) = IF t.st = "fired" THEN 1 ELSE 0
                         /\ \A w \in anchored : wins[w].ts - t.onset \in Lead..MaxLatency
                         /\ t.st = "pending" =>
                              \A w \in WinIds : w > t.seen => t.onset \notin (wins[w].ts - Window)..wins[w].ts
    BY DEF OneWindowPerTrigger
  <2> DEFINE anchored == {w \in WinIds : wins[w].trigger = i}
  <2>1. TriggerOK(i)
    BY DEF IInv, TriggersOK
  <2>2. CASE triggers[i].st # "fired"
    <3>1. anchored = {}
      BY <2>1, <2>2 DEF TriggerOK
    <3>2. Cardinality(anchored) = 0
      BY <3>1, FS_EmptySet
    <3> QED
      BY <2>1, <2>2, <3>1, <3>2 DEF TriggerOK
  <2>3. CASE triggers[i].st = "fired"
    <3>1. PICK w \in WinIds : /\ wins[w].trigger = i
                              /\ wins[w].ts - triggers[i].onset \in Lead..MaxLatency
                              /\ \A v \in WinIds : wins[v].trigger = i => v = w
      BY <2>1, <2>3 DEF TriggerOK
    <3>2. anchored = {w}
      BY <3>1
    <3>3. Cardinality(anchored) = 1
      BY <3>2, FS_Singleton
    <3> QED
      BY <2>3, <3>1, <3>2, <3>3
  <2> QED
    BY <2>2, <2>3
<1> QED
  BY <1>1, InvHolds, PTL

\* The highlights of the pass are published in the order their windows were fired,
\* each once, and none after the flush: every step is one of LiveFeed or a stutter.
THEOREM ImplementsFeedHolds == Spec => ImplementsFeed
<1>1. Init => Feed!Init
  BY DEF Init, Feed!Init
<1>2. ASSUME IInv, [Next]_vars
      PROVE  [Feed!Publish \/ Feed!Close]_<<published, phase = "finished">>
  <2> DEFINE closed == phase = "finished"
             Stutter == published' = published /\ closed' = closed
  <2>1. CASE ObserveFrame \/ DrainReady \/ Release \/ UNCHANGED vars
    <3>1. Stutter
      BY <2>1 DEF ObserveFrame, StaleFrame, FreshFrame, Frame, DrainReady, Release, drainVars, vars
    <3> QED
      BY <3>1
  <2>2. ASSUME NEW w \in WinIds, Settle(w) PROVE Stutter
    BY <2>2 DEF Settle
  <2>3. ASSUME NEW w \in WinIds, Accept(w) PROVE Feed!Publish \/ Stutter
    <3>1. phase # "finished" /\ w \in Accepting /\ phase' = phase
      <4>1. w \in Accepting /\ phase' = phase
        BY <2>3 DEF Accept
      <4> QED
        BY <1>2, <4>1 DEF IInv, FeedOK
    <3>2. CASE published' = Append(published, w)
      <4>1. published \in Seq(WinIds) /\ \A p \in DOMAIN published : published[p] < w
        BY <1>2, <3>1, TypeParts DEF IInv, FeedTyped, FeedOK
      <4>2. Len(published') = Len(published) + 1 /\ published'[Len(published')] = w
        BY <3>2, <4>1
      <4> QED
        BY <3>1, <3>2, <4>1, <4>2 DEF Feed!Publish
    <3>3. CASE published' = published
      BY <3>1, <3>3
    <3> QED
      BY <2>3, <3>2, <3>3 DEF Accept
  <2>4. CASE Finish
    <3>1. published' = published /\ (closed' \/ closed' = closed)
      BY <2>4 DEF Finish, drainVars
    <3> QED
      BY <3>1 DEF Feed!Close
  <2>5. CASE Flush
    <3>1. published' = published /\ (closed' \/ closed' = closed)
      BY <2>5 DEF Flush, FlushTail, FlushEnds, drainVars
    <3> QED
      BY <3>1 DEF Feed!Close
  <2>6. CASE DecideStep
    <3>1. Feed!Publish \/ Stutter
      BY <2>2, <2>3, <2>6 DEF DecideStep
    <3> QED
      BY <3>1
  <2> QED
    BY <1>2, <2>1, <2>4, <2>5, <2>6 DEF Next
<1> QED
  BY <1>1, <1>2, InvHolds, PTL DEF Spec, ImplementsFeed, Feed!Spec
-----------------------------------------------------------------------------
(***************************************************************************)
(* The order of the windows.                                               *)
(***************************************************************************)

\* A frame is later than the newest one by less than the content time in which the
\* budget refills the 0.4 an anchored window takes: the frames of the unit before
\* the latest a frame may be do not refill as much.
LateFramesPoor == (Skew - 1) * Rate < 4

\* A frame that finds the budget for a window is not behind the newest window.
LEMMA NotBehind ==
  ASSUME LateFramesPoor, FireTyped, NEW ts \in Times, NEW last \in Times,
         clock # NoTs, ts >= clock - Skew, tokens <= (clock - last) * Rate,
         Refill(ts) >= 4
  PROVE  last <= ts
<1>1. clock \in Int /\ ts \in Int /\ last \in Int /\ Skew \in Nat /\ Rate \in Nat /\ tokens \in Int
  BY LiveAssumption, RateNat DEF FireTyped, Opt, Times, NoTs
<1>2. PICK e \in Nat : /\ Larger(clock, ts) = clock + e /\ Refill(ts) \in Int
                       /\ Refill(ts) <= tokens + e * Rate
  BY <1>1, RefillProps
<1> DEFINE d == clock + e - last
<1>3. d \in Int /\ d * Rate \in Int
  BY <1>1
<1>4. 4 <= d * Rate
  <2>1. d * Rate = (clock - last) * Rate + e * Rate
    BY <1>1
  <2>2. (clock - last) * Rate \in Int /\ e * Rate \in Int
    BY <1>1
  <2> HIDE DEF d
  <2> QED
    BY <1>1, <1>2, <1>3, <2>1, <2>2
<1>5. Skew <= d
  <2> SUFFICES ASSUME d <= Skew - 1 PROVE FALSE
    BY <1>1, <1>3
  <2> HIDE DEF d
  <2>1. PICK k \in Nat : Skew - 1 = d + k
    <3>1. Skew - 1 - d \in Nat
      BY <1>1, <1>3
    <3> QED
      BY <1>1, <1>3, <3>1
  <2>2. (d + k) * Rate = d * Rate + k * Rate /\ k * Rate \in Nat
    BY <1>1, <1>3
  <2> QED
    BY <1>1, <1>3, <1>4, <2>1, <2>2 DEF LateFramesPoor
<1>6. ts >= Larger(clock, ts) - Skew
  BY <1>1 DEF Larger
<1> QED
  BY <1>1, <1>2, <1>5, <1>6

\* Windows keep their order, and the budget tells how old the newest one is.
LEMMA OrderStep == LateFramesPoor /\ IInv /\ IInv' /\ OrderOK /\ [Next]_vars => OrderOK'
<1> SUFFICES ASSUME LateFramesPoor, IInv, IInv', OrderOK, [Next]_vars PROVE OrderOK'
  OBVIOUS
<1>1. FireTyped /\ WinTyped /\ Len(wins) \in Nat /\ WinIds = 1..Len(wins)
  BY TypeParts, WinLen DEF IInv
<1>2. ASSUME SameWins, UNCHANGED <<clock, tokens>>, phase' = "live" => phase = "live" PROVE OrderOK'
  <2>1. WinIds' = WinIds /\ Len(wins') = Len(wins)
    BY <1>1, <1>2 DEF SameWins, WinIds
  <2>2. ContentOrder'
    BY <1>2, <2>1 DEF SameWins, OrderOK, ContentOrder
  <2>3. ASSUME phase' = "live", wins' # <<>>
        PROVE  tokens' <= (clock' - wins'[Len(wins')].ts) * Rate
    <3>1. wins # <<>> /\ Len(wins) \in WinIds
      <4>1. Len(wins) # 0
        BY <1>2, <2>1, <2>3 DEF SameWins
      <4> QED
        BY <1>1, <4>1 DEF WinTyped
    <3> QED
      BY <1>2, <2>1, <2>3, <3>1 DEF SameWins, OrderOK
  <2> QED
    BY <2>2, <2>3 DEF OrderOK
<1>3. CASE ObserveFrame
  <2>1. PICK ts \in Times :
          /\ phase = "live" /\ phase' = phase
          /\ clock' = Larger(clock, ts)
          /\ clock = NoTs => ts = 0
          /\ clock # NoTs => ts >= clock - Skew
          /\ Skips(ts) \/ Fires(ts)
    BY <1>3, FrameKinds
  <2>2. tokens \in Int
    BY <1>1 DEF FireTyped
  <2>3. PICK e \in Nat : /\ clock # NoTs => clock' = clock + e
                         /\ Refill(ts) \in Int /\ Refill(ts) <= 10
                         /\ Refill(ts) <= tokens + e * Rate
    BY <1>1, <2>1, <2>2, RefillProps
  <2>4. wins # <<>> => /\ clock # NoTs /\ Len(wins) \in WinIds /\ wins[Len(wins)].ts \in Times
                       /\ tokens <= (clock - wins[Len(wins)].ts) * Rate
    <3> SUFFICES ASSUME wins # <<>>
                 PROVE  /\ clock # NoTs /\ Len(wins) \in WinIds /\ wins[Len(wins)].ts \in Times
                        /\ tokens <= (clock - wins[Len(wins)].ts) * Rate
      OBVIOUS
    <3>1. Len(wins) \in WinIds
      BY <1>1 DEF WinTyped
    <3>2. wins[Len(wins)] \in WinType
      BY <1>1, <3>1, WinLen
    <3> QED
      BY <2>1, <3>1, <3>2 DEF IInv, ClockOK, OrderOK, WinType
  <2>5. clock \in Int /\ clock' \in Int /\ ts \in Int /\ Rate \in Nat /\ ts <= clock'
    <3>1. clock \in Int /\ ts \in Int /\ Rate \in Nat
      BY <1>1, LiveAssumption, RateNat DEF FireTyped, Opt, Times, NoTs
    <3> QED
      BY <2>1, <3>1 DEF Larger
  <2>6. CASE Skips(ts)
    <3>1. wins' = wins /\ WinIds' = WinIds /\ tokens' = Refill(ts)
      BY <2>6 DEF Skips, WinIds
    <3>2. ASSUME wins # <<>> PROVE tokens' <= (clock' - wins[Len(wins)].ts) * Rate
      <4> DEFINE last == wins[Len(wins)].ts
      <4>1. last \in Int
        BY <2>4, <3>2, LiveAssumption DEF Times
      <4> HIDE DEF last
      <4> DEFINE X == (clock - last) * Rate
                 Y == e * Rate
      <4>2. ((clock + e) - last) * Rate = X + Y
        BY <2>5, <4>1
      <4>3. clock' = clock + e /\ tokens <= X /\ Refill(ts) <= tokens + Y
        BY <2>3, <2>4, <3>2 DEF last
      <4>4. X \in Int /\ Y \in Int
        BY <2>5, <4>1
      <4>5. (clock' - last) * Rate = X + Y /\ Refill(ts) \in Int /\ tokens' = Refill(ts)
        <5> HIDE DEF X, Y
        <5> DEFINE c == clock + e
        <5>1. (c - last) * Rate = X + Y
          BY <4>2
        <5>2. c = clock'
          BY <4>3
        <5> HIDE DEF c
        <5>3. (clock' - last) * Rate = X + Y
          BY <5>1, <5>2, Zenon
        <5>4. Refill(ts) \in Int
          BY <2>3
        <5> QED
          BY <3>1, <5>3, <5>4
      <4> HIDE DEF X, Y
      <4>6. tokens' <= (clock' - last) * Rate
        BY <2>2, <4>3, <4>4, <4>5
      <4> QED
        BY <4>6 DEF last
    <3>3. ContentOrder'
      BY <3>1 DEF OrderOK, ContentOrder
    <3> QED
      BY <3>1, <3>2, <3>3 DEF OrderOK
  <2>7. CASE Fires(ts)
    <3>1. PICK T \in Seq(TriggerType), trigger \in Nat :
            /\ Grown(triggers, T) /\ trigger \in {0} \cup Due(T, ts)
            /\ Refill(ts) >= 4 /\ Issue(ts, trigger, T, FALSE)
      BY <2>7 DEF Fires
    <3>2. Added(ts, trigger, FALSE) /\ tokens' = Refill(ts) - 10
      BY <3>1, IssueKeeps DEF Issue
    <3> DEFINE n == Len(wins) + 1
    <3>3. /\ wins' # <<>> /\ Len(wins') = n /\ wins'[n].ts = ts /\ WinIds' = 1..n
          /\ \A w \in WinIds : wins'[w] = wins[w]
      <4>1. Len(wins') = n /\ wins' \in Seq(WinType)
        BY <3>2 DEF Added
      <4>2. wins' # <<>>
        BY <1>1, <4>1
      <4> QED
        BY <3>2, <4>1, <4>2 DEF Added, WinIds
    <3>4. tokens' <= (clock' - ts) * Rate
      <4>1. (clock' - ts) * Rate \in Nat
        <5>1. clock \in Int /\ ts \in Int /\ Rate \in Nat
          BY <2>5
        <5>2. PICK c \in Int : c = Larger(clock, ts)
          BY <5>1 DEF Larger
        <5>3. c - ts \in Nat
          BY <5>1, <5>2 DEF Larger
        <5>4. (c - ts) * Rate \in Nat
          BY <5>1, <5>3
        <5>5. c = clock'
          BY <2>1, <5>2
        <5> QED
          BY <5>4, <5>5
      <4>2. tokens' <= 0 /\ tokens' \in Int
        BY <2>3, <3>2
      <4> QED
        BY <4>1, <4>2
    <3>5. wins # <<>> => wins[Len(wins)].ts <= ts
      BY <1>1, <2>1, <2>4, <3>1, NotBehind
    <3>6. \A v \in WinIds : wins[v].ts <= ts
      <4> SUFFICES ASSUME NEW v \in WinIds PROVE wins[v].ts <= ts
        OBVIOUS
      <4>1. wins # <<>> /\ Len(wins) \in WinIds
        BY <1>1
      <4>2. wins[v].ts <= wins[Len(wins)].ts
        <5>1. CASE v = Len(wins)
          <6>1. wins[v].ts \in Int
            BY <2>4, <4>1, <5>1, LiveAssumption DEF Times
          <6> QED
            BY <5>1, <6>1
        <5>2. CASE v # Len(wins)
          <6>1. v < Len(wins) /\ ~wins[Len(wins)].forced
            BY <1>1, <2>1, <4>1, <5>2 DEF IInv, RateOK, Before
          <6> QED
            BY <4>1, <6>1 DEF OrderOK, ContentOrder
        <5> QED
          BY <5>1, <5>2
      <4>3. wins[v].ts \in Int /\ wins[Len(wins)].ts \in Int /\ ts \in Int
        <5>1. wins[v] \in WinType /\ wins[Len(wins)] \in WinType
          BY <1>1, <4>1, WinLen
        <5>2. Times \subseteq Int
          BY LiveAssumption DEF Times
        <5> QED
          BY <5>1, <5>2 DEF WinType
      <4> QED
        BY <3>5, <4>1, <4>2, <4>3
    <3>7. ContentOrder'
      <4> SUFFICES ASSUME NEW v \in 1..n, NEW w \in 1..n, v < w, ~wins'[w].forced
                   PROVE  wins'[v].ts <= wins'[w].ts
        BY <3>3 DEF ContentOrder
      <4>1. v \in WinIds /\ wins'[v] = wins[v]
        BY <1>1, <3>3
      <4>2. CASE w = n
        BY <3>3, <3>6, <4>1, <4>2
      <4>3. CASE w # n
        <5>1. w \in WinIds /\ wins'[w] = wins[w]
          BY <1>1, <3>3, <4>3
        <5> QED
          BY <4>1, <5>1 DEF OrderOK, ContentOrder
      <4> QED
        BY <4>2, <4>3
    <3> HIDE DEF n
    <3> QED
      BY <3>3, <3>4, <3>7 DEF OrderOK
  <2> QED
    BY <2>1, <2>6, <2>7
<1>4. ASSUME NEW admitted \in BOOLEAN, FlushTail(admitted) PROVE OrderOK'
  <2>1. phase' = "tail" /\ phase = "flush"
    BY <1>4 DEF FlushTail
  <2>2. CASE wins' = wins
    BY <2>1, <2>2 DEF OrderOK, ContentOrder, WinIds
  <2>3. CASE Issue(tail, 0, triggers, TRUE)
    <3>1. tail \in Times
      BY <1>1, <2>1 DEF IInv, ClockOK, FireTyped, Opt
    <3>2. Grown(triggers, triggers)
      BY TypeParts DEF IInv, TriggersOK, Grown, TriggerTyped
    <3>3. Added(tail, 0, TRUE)
      BY <2>3, <3>1, <3>2, IssueKeeps
    <3>4. ContentOrder'
      <4>1. /\ WinIds' = 1..(Len(wins) + 1) /\ wins'[Len(wins) + 1].forced
            /\ \A w \in WinIds : wins'[w] = wins[w]
        BY <3>3 DEF Added, WinIds
      <4> SUFFICES ASSUME NEW v \in WinIds', NEW w \in WinIds', v < w, ~wins'[w].forced
                   PROVE  wins'[v].ts <= wins'[w].ts
        BY DEF ContentOrder
      <4>2. v \in WinIds /\ w \in WinIds
        BY <1>1, <4>1
      <4> QED
        BY <4>1, <4>2 DEF OrderOK, ContentOrder
    <3> QED
      BY <2>1, <3>4 DEF OrderOK
  <2> QED
    BY <1>4, <2>2, <2>3 DEF FlushTail
<1>5. CASE DecideStep
  <2>1. PICK w \in WinIds : Settle(w) \/ Accept(w)
    BY <1>5 DEF DecideStep
  <2>2. \E st \in WinState : SetWin(w, st)
    BY <2>1 DEF Settle, Accept, WinState
  <2>3. SameWins
    BY <1>1, <2>2, SetWinProps
  <2>4. UNCHANGED <<clock, tokens, phase>>
    BY <2>1 DEF Settle, Accept, passRest, fireVars
  <2> QED
    BY <1>2, <2>3, <2>4
<1>6. CASE DrainReady
  <2>1. UNCHANGED <<clock, tokens, phase>>
    BY <1>6 DEF DrainReady, passRest, fireVars
  <2>2. SameWins
    <3>1. CASE wins' = wins
      BY <1>1, <3>1 DEF SameWins, WinTyped
    <3>2. CASE wins' # wins
      <4>1. SetWin(Head(queue), "accepting") /\ queue # <<>>
        BY <1>6, <3>2 DEF DrainReady
      <4>2. Head(queue) \in WinIds
        BY <4>1, TypeParts DEF IInv, FeedTyped
      <4> QED
        BY <1>1, <4>1, <4>2, SetWinProps DEF WinState
    <3> QED
      BY <3>1, <3>2
  <2> QED
    BY <1>2, <2>1, <2>2
<1>7. CASE Finish \/ Release \/ FlushEnds \/ UNCHANGED vars
  <2>1. UNCHANGED <<clock, tokens, wins>> /\ (phase' = "live" => phase = "live")
    BY <1>7 DEF Finish, Release, FlushEnds, passRest, fireVars, vars
  <2>2. SameWins
    BY <1>1, <2>1 DEF SameWins, WinTyped
  <2> QED
    BY <1>2, <2>1, <2>2
<1> QED
  BY <1>3, <1>4, <1>5, <1>6, <1>7 DEF Next, Flush

\* Windows are fired in the order of their content, as long as no frame is so late
\* that the budget of an anchored window has come back since the newest one.
THEOREM ContentOrderHolds == ASSUME LateFramesPoor PROVE Spec => []ContentOrder
<1>1. Init => OrderOK
  <2> SUFFICES ASSUME Init PROVE OrderOK
    OBVIOUS
  <2>1. wins = <<>> /\ WinIds = {}
    BY DEF Init, WinIds
  <2> QED
    BY <2>1 DEF OrderOK, ContentOrder
<1>2. IInv /\ IInv' /\ OrderOK /\ [Next]_vars => OrderOK'
  BY OrderStep
<1>3. OrderOK => ContentOrder
  BY DEF OrderOK
<1> QED
  BY <1>1, <1>2, <1>3, InvHolds, PTL DEF Spec
-----------------------------------------------------------------------------
(***************************************************************************)
(* The drain that is on its way.                                           *)
(***************************************************************************)

\* A window fired behind the others leaves the head of the line where it was, or
\* is the head and runs.
LEMMA AddedHead ==
  ASSUME IInv, HeadIsDrained, NEW ts \in Times, NEW trigger, NEW forced, Added(ts, trigger, forced),
         UNCHANGED <<drains, applyError>>, NEW q \in {<<>>, queue},
         queue' = q \o <<Len(wins) + 1>>
  PROVE  HeadIsDrained'
<1>1. WinTyped /\ queue \in Seq(WinIds)
  BY TypeParts DEF IInv, FeedTyped
<1>2. Len(wins) \in Nat /\ WinIds = 1..Len(wins)
  BY <1>1, WinLen
<1>3. q \in Seq(Nat) /\ <<Len(wins) + 1>> \in Seq(Nat) /\ Len(q) \in Nat
  <2>1. queue \in Seq(Nat)
    BY <1>1, <1>2, SeqMonotonic
  <2>2. q \in Seq(Nat)
    <3>1. CASE q = <<>>
      BY <3>1, EmptySeq
    <3>2. CASE q = queue
      BY <2>1, <3>2
    <3> QED
      BY <3>1, <3>2
  <2>3. Len(wins) + 1 \in Nat
    BY <1>2
  <2> QED
    BY <2>2, <2>3, LenProperties
<1>4. Head(queue') = queue'[1]
  OBVIOUS
<1>5. CASE q = <<>>
  <2>1. Head(queue') = Len(wins) + 1
    BY <1>2, <1>5
  <2> QED
    BY <2>1 DEF HeadIsDrained, Added
<1>6. CASE q = queue /\ queue # <<>>
  <2>1. Len(queue) > 0
    BY <1>1, <1>3, <1>6, EmptySeq
  <2>2. Head(queue') = Head(queue)
    <3>1. queue'[1] = queue[1]
      BY <1>3, <1>6, <2>1, ConcatProperties
    <3> QED
      BY <1>4, <3>1
  <2>3. Head(queue) \in WinIds
    BY <1>1, <1>6
  <2>4. wins'[Head(queue')].st = wins[Head(queue)].st
    BY <2>2, <2>3 DEF Added
  <2> QED
    BY <1>6, <2>4 DEF HeadIsDrained
<1> QED
  BY <1>5, <1>6

\* Each step leaves a settled head a drain, or a failure that is held.
LEMMA HeadStep == IInv /\ HeadIsDrained /\ [Next]_vars => HeadIsDrained'
<1> SUFFICES ASSUME IInv, HeadIsDrained, [Next]_vars PROVE HeadIsDrained'
  OBVIOUS
<1>1. WinTyped /\ FeedTyped /\ drains \in Nat /\ queue \in Seq(WinIds)
  BY TypeParts DEF IInv, FeedTyped
<1>2. queue # <<>> => Head(queue) \in WinIds
  BY <1>1
<1>3. ASSUME ObserveFrame PROVE HeadIsDrained'
  <2>1. PICK ts \in Times :
          UNCHANGED <<drainVars, phase>> /\ (Skips(ts) \/ Fires(ts))
    BY <1>3, FrameKinds
  <2>2. CASE Skips(ts)
    BY <2>1, <2>2 DEF Skips, HeadIsDrained, drainVars
  <2>3. CASE Fires(ts)
    <3>1. PICK T \in Seq(TriggerType), trigger \in Nat :
            /\ Grown(triggers, T) /\ trigger \in {0} \cup Due(T, ts)
            /\ Refill(ts) >= 4 /\ Issue(ts, trigger, T, FALSE)
      BY <2>3 DEF Fires
    <3>2. Added(ts, trigger, FALSE)
      BY <3>1, IssueKeeps
    <3>3. queue' = queue \o <<Len(wins) + 1>>
      BY <3>1 DEF Issue
    <3>4. UNCHANGED <<drains, applyError>>
      BY <2>1 DEF drainVars
    <3> QED
      BY <3>2, <3>3, <3>4, AddedHead
  <2> QED
    BY <2>1, <2>2, <2>3
<1>4. ASSUME NEW w \in WinIds, Settle(w) PROVE HeadIsDrained'
  <2>1. drains' = drains + 1
    BY <1>4 DEF Settle
  <2>2. drains' > 0
    BY <1>1, <2>1
  <2> QED
    BY <2>2 DEF HeadIsDrained
<1>5. ASSUME NEW w \in WinIds, Accept(w) PROVE HeadIsDrained'
  <2>1. w \in Accepting /\ drains > 0 /\ queue' = queue
    BY <1>5 DEF Accept, passRest, IInv, FeedOK
  <2>2. CASE UNCHANGED <<drains, applyError>>
    BY <2>1, <2>2 DEF HeadIsDrained
  <2>3. CASE applyError' = IF applyError = 0 THEN w ELSE applyError
    <3>1. w # 0
      BY <1>1, WinLen
    <3> QED
      BY <2>3, <3>1 DEF HeadIsDrained
  <2> QED
    BY <1>5, <2>2, <2>3 DEF Accept
<1>6. ASSUME DrainReady PROVE HeadIsDrained'
  <2>1. drains > 0
    BY <1>6 DEF DrainReady
  <2>2. CASE queue = <<>> \/ wins[Head(queue)].st = "running"
    <3>1. UNCHANGED <<wins, queue, applyError>>
      BY <1>6, <2>2 DEF DrainReady
    <3> QED
      BY <2>2, <3>1 DEF HeadIsDrained
  <2>3. CASE ~(queue = <<>> \/ wins[Head(queue)].st = "running")
    <3>1. Head(queue) # 0
      BY <1>1, <1>2, <2>3, WinLen
    <3>2. applyError' = Head(queue) \/ drains' = drains
      BY <1>6, <2>3 DEF DrainReady
    <3> QED
      BY <2>1, <3>1, <3>2 DEF HeadIsDrained
  <2> QED
    BY <2>2, <2>3
<1>7. ASSUME Finish \/ Release \/ UNCHANGED vars PROVE HeadIsDrained'
  BY <1>7 DEF Finish, Release, vars, drainVars, HeadIsDrained
<1>8. ASSUME NEW admitted \in BOOLEAN, FlushTail(admitted) PROVE HeadIsDrained'
  <2>1. CASE queue' = <<>>
    BY <2>1 DEF HeadIsDrained
  <2>2. CASE Issue(tail, 0, triggers, TRUE)
    <3>1. tail \in Times /\ Grown(triggers, triggers)
      BY <1>8, TypeParts
      DEF IInv, ClockOK, TriggersOK, Grown, TriggerTyped, FireTyped, Opt, FlushTail
    <3>2. Added(tail, 0, TRUE)
      BY <2>2, <3>1, IssueKeeps
    <3>3. queue' = <<>> \o <<Len(wins) + 1>>
      BY <2>2 DEF Issue
    <3>4. UNCHANGED <<drains, applyError>>
      BY <1>8 DEF FlushTail, drainVars
    <3> QED
      BY <3>1, <3>2, <3>3, <3>4, AddedHead
  <2> QED
    BY <1>8, <2>1, <2>2 DEF FlushTail
<1>9. ASSUME FlushEnds PROVE HeadIsDrained'
  BY <1>9 DEF FlushEnds, HeadIsDrained
<1> QED
  BY <1>3, <1>4, <1>5, <1>6, <1>7, <1>8, <1>9 DEF Next, Flush, DecideStep

\* No settled window waits at the head of the line without a drain on its way, in
\* whatever order the decides come back, until a failure is held.
THEOREM HeadIsDrainedHolds == Spec => []HeadIsDrained
<1>1. Init => HeadIsDrained
  BY DEF Init, HeadIsDrained
<1>2. IInv /\ HeadIsDrained /\ [Next]_vars => HeadIsDrained'
  BY HeadStep
<1> QED
  BY <1>1, <1>2, InvHolds, PTL DEF Spec
=============================================================================
