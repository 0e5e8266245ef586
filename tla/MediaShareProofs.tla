----------------------------- MODULE MediaShareProofs -----------------------------
(***************************************************************************)
(* Proofs about MediaShare, for every number of shares, callbacks, rows    *)
(* and starts, every admission and depth, with the decide slot or without: *)
(* a share ends once and as first asked, what its settled rail accepted    *)
(* has a clip or a reason, and its slot and its depth are given back.      *)
(***************************************************************************)
EXTENDS MediaShare, FiniteSetTheorems, TLAPS

Over == {c \in Calls : call[c].st = "over"}

\* A callback under way is one of a share; a rail bears the name of a callback
\* that is over, and each callback fired at most one of its decides.
RailOK(c) ==
  /\ call[c].st \in {"tapping", "ensuring", "ingesting"} => call[c].share \in Shares
  /\ rail[c].share = NoShare => rail[c] = NoRail
  /\ rail[c].share # NoShare => call[c].st = "over"
  /\ rail[c].deciding <= Cardinality(Over) + (IF rail[c].open THEN 0 ELSE 1)

\* The routes find a rail once there is one, and only a share that had one is
\* in the sharing of the depth or has held the slot.
CurrentOK(j) ==
  /\ current[j] = NoCall => RailsOf(j) = {}
  /\ current[j] # NoCall => current[j] \in RailsOf(j)
  /\ j \in registered \/ holder = j => RailsOf(j) # {}

\* Where the end of a share stands.
EndOK(j) ==
  /\ stage[j] = "none" =>
       verdict[j] = "none" /\ ended[j] = NoCall /\ \A c \in RailsOf(j) : rail[c].open
  /\ stage[j] # "none" => verdict[j] \in Ended
  /\ stage[j] = "flush" => ended[j] # NoCall
  /\ IF stage[j] = "over" THEN status[j] = verdict[j] ELSE status[j] = "active" /\ j \in registry
  /\ ended[j] # NoCall => ended[j] \in RailsOf(j) /\ ~rail[ended[j]].open

Settled(j) == stage[j] \notin {"none", "flush"}

\* Once it is settled a rail is idle, and gives back what it had unless another
\* rail of its share has it.
BackOK(j) ==
  Settled(j) =>
    /\ verdict[j] = "done" /\ ended[j] # NoCall => rail[ended[j]].deciding = 0
    /\ RailsOf(j) \subseteq {ended[j]} =>
         j \notin registered /\ (verdict[j] = "done" => holder # j)

\* A row of the settled rail is visited by the cut loop, unless it has its clip.
RowOK(h) ==
  /\ h \in cutting => row[h].share \in Shares /\ stage[row[h].share] = "cut"
  /\ \A j \in Shares :
       /\ row[h].share = j /\ row[h].from = ended[j] /\ ended[j] # NoCall
       /\ verdict[j] = "done" /\ stage[j] \in {"cut", "miss", "over"}
       => row[h].uri \/ row[h].err \/ (h \in todo /\ stage[j] # "over")

IInv ==
  /\ TypeOK
  /\ \A c \in Calls : RailOK(c)
  /\ \A j \in Shares : CurrentOK(j) /\ EndOK(j) /\ BackOK(j)
  /\ \A h \in Rows : RowOK(h)

RailType == [share: Shares \cup {NoShare}, open: BOOLEAN, fed: BOOLEAN, deciding: 0..MaxDecides]
RowType == [share: Shares \cup {NoShare}, from: Calls \cup {NoCall}, start: Starts \cup {0},
            uri: BOOLEAN, err: BOOLEAN]

\* TypeOK in parts.
CallTyped ==
  /\ recording \in [Shares -> BOOLEAN]
  /\ call \in [Calls -> [st: CallState, share: Shares \cup {NoShare}]]
RailTyped ==
  /\ current \in [Shares -> Calls \cup {NoCall}]
  /\ rail \in [Calls -> RailType]
SlotTyped == registered \subseteq Shares /\ holder \in Shares \cup {NoShare} /\ idle \in BOOLEAN
RowTyped == row \in [Rows -> RowType] /\ live \in [Rows -> LiveState]
StopTyped ==
  /\ status \in [Shares -> Ended \cup {"active"}]
  /\ registry \subseteq Shares
  /\ stage \in [Shares -> Stage] /\ verdict \in [Shares -> Ended \cup {"none"}]
  /\ ended \in [Shares -> Calls \cup {NoCall}]
  /\ todo \subseteq Rows /\ cutting \subseteq todo
-----------------------------------------------------------------------------
\* The parts make up TypeOK.
LEMMA TypeParts == TypeOK <=> CallTyped /\ RailTyped /\ SlotTyped /\ RowTyped /\ StopTyped
BY DEF TypeOK, CallTyped, RailTyped, SlotTyped, RowTyped, StopTyped, RailType, RowType

\* The same of the next state.
LEMMA NextParts ==
  ASSUME CallTyped', RailTyped', SlotTyped', RowTyped', StopTyped' PROVE TypeOK'
BY DEF TypeOK, CallTyped, RailTyped, SlotTyped, RowTyped, StopTyped, RailType, RowType

\* At most every callback is over.
LEMMA OverBounded ==
  /\ IsFiniteSet(Over) /\ Cardinality(Over) \in Nat /\ Cardinality(Calls) \in Nat
  /\ Cardinality(Over) <= Cardinality(Calls)
<1>1. Over \subseteq Calls
  BY DEF Over
<1>2. IsFiniteSet(Over) /\ Cardinality(Over) <= Cardinality(Calls)
  BY <1>1, ShareAssumption, FS_Subset
<1> QED
  BY <1>2, ShareAssumption, FS_CardinalityType

\* The same of the next state.
LEMMA NextOverBounded ==
  /\ IsFiniteSet(Over') /\ Cardinality(Over') \in Nat /\ Cardinality(Calls) \in Nat
  /\ Cardinality(Over') <= Cardinality(Calls)
<1>1. Over' \subseteq Calls
  BY DEF Over
<1>2. IsFiniteSet(Over') /\ Cardinality(Over') <= Cardinality(Calls)
  BY <1>1, ShareAssumption, FS_Subset
<1> QED
  BY <1>2, ShareAssumption, FS_CardinalityType

\* What a step does to the number of callbacks that are over.
LEMMA OverGrows ==
  ASSUME CallTyped, NEW c \in Calls, NEW R, call' = [call EXCEPT ![c] = R],
         call[c].st # "over"
  PROVE  /\ Cardinality(Over) <= Cardinality(Over')
         /\ R.st = "over" => Cardinality(Over') = Cardinality(Over) + 1
<1>1. \A d \in Calls : call'[d] = IF d = c THEN R ELSE call[d]
  BY DEF CallTyped
<1>2. CASE R.st = "over"
  <2>1. Over' = Over \cup {c} /\ c \notin Over
    BY <1>1, <1>2 DEF Over
  <2>2. Cardinality(Over \cup {c}) = Cardinality(Over) + 1
    BY <2>1, OverBounded, FS_AddElement
  <2> QED
    BY <2>1, <2>2, OverBounded
<1>3. CASE R.st # "over"
  <2>1. Over' = Over
    BY <1>1, <1>3 DEF Over
  <2> QED
    BY <1>3, <2>1, OverBounded
<1> QED
  BY <1>2, <1>3

\* The invariant holds when the shares start.
LEMMA InitInv == Init => IInv
<1> SUFFICES ASSUME Init PROVE IInv
  OBVIOUS
<1>1. NoRail \in RailType /\ NoRail.deciding = 0 /\ NoRail.share = NoShare
  BY OverBounded DEF NoRail, RailType, MaxDecides
<1>2. TypeOK
  <2>1. CallTyped /\ SlotTyped /\ StopTyped
    BY DEF Init, CallTyped, SlotTyped, StopTyped, CallState, Ended, Stage
  <2>2. RailTyped
    BY <1>1 DEF Init, RailTyped
  <2>3. RowTyped
    BY DEF Init, RowTyped, RowType, NoRow, LiveState
  <2> QED
    BY <2>1, <2>2, <2>3, TypeParts
<1>3. \A c \in Calls : RailOK(c)
  BY <1>1, OverBounded DEF Init, RailOK
<1>4. \A j \in Shares : RailsOf(j) = {}
  BY <1>1, ShareAssumption DEF Init, RailsOf
<1>5. \A j \in Shares : CurrentOK(j) /\ EndOK(j) /\ BackOK(j)
  BY <1>4, ShareAssumption DEF Init, CurrentOK, EndOK, BackOK, Settled
<1>6. \A h \in Rows : RowOK(h)
  BY DEF Init, RowOK
<1> QED
  BY <1>2, <1>3, <1>5, <1>6 DEF IInv
-----------------------------------------------------------------------------
(***************************************************************************)
(* The callbacks.                                                          *)
(***************************************************************************)

\* A callback that moves on keeps its share.
LEMMA CallMoves ==
  ASSUME CallTyped, NEW c \in Calls, NEW st, call' = [call EXCEPT ![c].st = st]
  PROVE  call' = [call EXCEPT ![c] = [st |-> st, share |-> call[c].share]]
<1>1. call[c] = [st |-> call[c].st, share |-> call[c].share]
  BY DEF CallTyped
<1>2. [call[c] EXCEPT !.st = st] = [st |-> st, share |-> call[c].share]
  BY <1>1
<1>3. call' = [call EXCEPT ![c] = [call[c] EXCEPT !.st = st]]
  OBVIOUS
<1> QED
  BY <1>2, <1>3

\* A callback of a share moves on, and the rails stay.
LEMMA CallInv ==
  ASSUME IInv, NEW c \in Calls, NEW j \in Shares, NEW st \in CallState, call[c].st # "over",
         call' = [call EXCEPT ![c] = [st |-> st, share |-> j]],
         UNCHANGED <<recording, railVars, rowVars, stopVars>>
  PROVE  IInv'
<1> USE DEF railVars, slotVars, rowVars, stopVars
<1>1. CallTyped /\ RailTyped /\ SlotTyped /\ RowTyped /\ StopTyped
  BY TypeParts DEF IInv
<1>2. CallTyped' /\ RailTyped' /\ SlotTyped' /\ RowTyped' /\ StopTyped'
  BY <1>1 DEF CallTyped, RailTyped, SlotTyped, RowTyped, StopTyped
<1>3. \A d \in Calls : call'[d] = IF d = c THEN [st |-> st, share |-> j] ELSE call[d]
  BY <1>1 DEF CallTyped
<1>4. Cardinality(Over) <= Cardinality(Over')
  BY <1>1, OverGrows
<1>5. \A d \in Calls : RailOK(d)'
  <2> SUFFICES ASSUME NEW d \in Calls PROVE RailOK(d)'
    OBVIOUS
  <2>1. RailOK(d) /\ rail'[d] = rail[d] /\ rail[d].deciding \in Nat
    BY <1>1 DEF IInv, RailTyped, RailType, MaxDecides
  <2>2. rail[d].share # NoShare => d # c
    BY <2>1 DEF RailOK
  <2>3. rail[d].deciding <= Cardinality(Over') + (IF rail[d].open THEN 0 ELSE 1)
    BY <1>4, <2>1, OverBounded, NextOverBounded DEF RailOK
  <2> QED
    BY <1>3, <2>1, <2>2, <2>3 DEF RailOK
<1>6. \A k \in Shares : RailsOf(k)' = RailsOf(k)
  BY DEF RailsOf
<1>7. \A k \in Shares : CurrentOK(k)' /\ EndOK(k)' /\ BackOK(k)'
  BY <1>6 DEF IInv, CurrentOK, EndOK, BackOK, Settled
<1>8. \A h \in Rows : RowOK(h)'
  BY DEF IInv, RowOK
<1> QED
  BY <1>2, <1>5, <1>7, <1>8, NextParts DEF IInv

\* A frame taken by a rail of R: it fires one decide of an open rail at most, and
\* the slot is asked for by that rail's share only.
LEMMA Observed ==
  ASSUME NEW R \in [Calls -> RailType], NEW jobs, NEW r \in Calls, Observe(R, jobs, r),
         SlotTyped
  PROVE  \E n \in {0, 1} :
           /\ rail' = [R EXCEPT ![r].fed = R[r].fed \/ R[r].open, ![r].deciding = R[r].deciding + n]
           /\ n = 1 => R[r].open
           /\ holder' = holder \/ (n = 1 /\ holder' = R[r].share)
           /\ idle' \in BOOLEAN
<1>1. CASE Feed(R, jobs, r, 0) /\ UNCHANGED <<holder, idle>>
  BY <1>1 DEF Feed, SlotTyped
<1>2. CASE R[r].open /\ Feed(R, jobs, r, 1) /\ Admit(R[r].share)
  BY <1>2 DEF Feed, Admit
<1> QED
  BY <1>1, <1>2 DEF Observe

\* A rail of a share that has not ended takes a frame, on behalf of a callback
\* that is over now.
LEMMA FrameInv ==
  ASSUME IInv, NEW c \in Calls, NEW r \in Calls, NEW j \in Shares, NEW R \in RailType,
         NEW n \in {0, 1},
         call[c].st \in {"idle", "ensuring"},
         call' = [call EXCEPT ![c] = [st |-> "over", share |-> j]],
         rail' = [rail EXCEPT ![r] = R], current' = [current EXCEPT ![j] = r],
         R.share = j,
         r = c => R.open /\ R.deciding = n,
         r # c => /\ rail[r].share = j /\ R.open = rail[r].open
                  /\ R.deciding = rail[r].deciding + n,
         n = 1 => R.open,
         registered \subseteq registered', registered' \subseteq registered \cup {j},
         r # c => registered' = registered,
         idle' \in BOOLEAN,
         holder' = holder \/ (n = 1 /\ holder' = j),
         UNCHANGED <<recording, rowVars, stopVars>>
  PROVE  IInv'
<1> USE DEF rowVars, stopVars
<1>1. CallTyped /\ RailTyped /\ SlotTyped /\ RowTyped /\ StopTyped
  BY TypeParts DEF IInv
<1>2. CallTyped' /\ RailTyped' /\ SlotTyped' /\ RowTyped' /\ StopTyped'
  BY <1>1 DEF CallTyped, RailTyped, SlotTyped, RowTyped, StopTyped, CallState
<1>3. /\ \A d \in Calls : call'[d] = IF d = c THEN [st |-> "over", share |-> j] ELSE call[d]
      /\ \A d \in Calls : rail'[d] = IF d = r THEN R ELSE rail[d]
      /\ \A k \in Shares : current'[k] = IF k = j THEN r ELSE current[k]
  BY <1>1 DEF CallTyped, RailTyped
<1>4. Cardinality(Over') = Cardinality(Over) + 1
  <2>1. call[c].st # "over" /\ [st |-> "over", share |-> j].st = "over"
    OBVIOUS
  <2> QED
    BY <1>1, <2>1, OverGrows
<1>5. /\ \A d \in Calls : RailOK(d) /\ rail[d].deciding \in Nat
      /\ j # NoShare /\ rail[c].share = NoShare
  BY <1>1, ShareAssumption DEF IInv, RailOK, RailTyped, RailType, MaxDecides
<1>6. \A d \in Calls : RailOK(d)'
  <2> SUFFICES ASSUME NEW d \in Calls PROVE RailOK(d)'
    OBVIOUS
  <2>1. rail'[d].share # NoShare => call'[d].st = "over"
    BY <1>3, <1>5 DEF RailOK
  <2>2. rail'[d].share = NoShare => rail'[d] = NoRail
    BY <1>3, <1>5 DEF RailOK
  <2>3. rail'[d].deciding <= Cardinality(Over') + (IF rail'[d].open THEN 0 ELSE 1)
    BY <1>3, <1>4, <1>5, OverBounded DEF RailOK
  <2>4. call'[d].st \in {"tapping", "ensuring", "ingesting"} => call'[d].share \in Shares
    BY <1>3, <1>5 DEF RailOK
  <2> QED
    BY <2>1, <2>2, <2>3, <2>4 DEF RailOK
<1>7. RailsOf(j)' = RailsOf(j) \cup {r} /\ \A k \in Shares \ {j} : RailsOf(k)' = RailsOf(k)
  BY <1>3, <1>5, ShareAssumption DEF RailsOf
<1>8. \A k \in Shares : CurrentOK(k)'
  <2> SUFFICES ASSUME NEW k \in Shares PROVE CurrentOK(k)'
    OBVIOUS
  <2>1. CurrentOK(k) /\ (k # j => (k \in registered' => k \in registered)
                                  /\ (holder' = k => holder = k))
    BY DEF IInv
  <2> QED
    BY <1>3, <1>7, <2>1, ShareAssumption DEF CurrentOK
<1>9. \A k \in Shares : EndOK(k)'
  <2> SUFFICES ASSUME NEW k \in Shares PROVE EndOK(k)'
    OBVIOUS
  <2>1. EndOK(k)
    BY DEF IInv
  <2>2. ASSUME NEW d \in RailsOf(k)'
        PROVE  \/ d \in RailsOf(k) /\ rail'[d].open = rail[d].open
               \/ d = r /\ r = c /\ rail'[d].open
    <3>1. d \in Calls /\ rail'[d].share = k
      BY DEF RailsOf
    <3>2. CASE d = r
      BY <1>3, <3>1, <3>2 DEF RailsOf
    <3>3. CASE d # r
      BY <1>3, <3>1, <3>3 DEF RailsOf
    <3> QED
      BY <3>2, <3>3
  <2>3. ended[k] # NoCall => ended[k] # c \/ r # c
    BY <1>5, <2>1, ShareAssumption DEF EndOK, RailsOf
  <2>4. ended[k] # NoCall => ended[k] \in RailsOf(k)' /\ ~rail'[ended[k]].open
    BY <1>2, <1>3, <1>5, <1>7, <2>1, <2>3 DEF EndOK, RailsOf, RailTyped, RailType
  <2> QED
    BY <2>1, <2>2, <2>4 DEF EndOK
<1>10. \A k \in Shares : BackOK(k)'
  <2> SUFFICES ASSUME NEW k \in Shares, Settled(k) PROVE BackOK(k)'
    BY DEF BackOK, Settled
  <2>1. BackOK(k) /\ EndOK(k)
    BY DEF IInv
  <2>2. ended[k] # NoCall => /\ ended[k] \in RailsOf(k) /\ ~rail[ended[k]].open
                             /\ ended[k] # c \/ r # c
    BY <1>5, <2>1, ShareAssumption DEF EndOK, RailsOf
  <2>3. verdict[k] = "done" /\ ended[k] # NoCall => rail'[ended[k]].deciding = 0
    BY <1>3, <2>1, <2>2 DEF BackOK
  <2>4. ASSUME RailsOf(k)' \subseteq {ended[k]}
        PROVE  k \notin registered' /\ (verdict[k] = "done" => holder' # k)
    <3>1. RailsOf(k) \subseteq {ended[k]}
      BY <1>7, <2>4
    <3>2. k = j => r # c /\ n = 0
      BY <1>1, <1>7, <2>2, <2>4, ShareAssumption DEF RailTyped
    <3> QED
      BY <2>1, <3>1, <3>2 DEF BackOK
  <2> QED
    BY <2>3, <2>4 DEF BackOK
<1>11. \A h \in Rows : RowOK(h)'
  BY DEF IInv, RowOK
<1> QED
  BY <1>2, <1>6, <1>8, <1>9, <1>10, <1>11, NextParts DEF IInv

\* A callback finds the rail of its share, or goes on to build one.
LEMMA RelayInv ==
  ASSUME IInv, NEW c \in Calls, NEW j \in Shares, Relay(c, j) PROVE IInv'
<1>1. CallTyped /\ RailTyped /\ SlotTyped
  BY TypeParts DEF IInv
<1>2. CASE current[j] = NoCall
  <2>1. UNCHANGED <<recording, railVars, rowVars, stopVars>>
    BY <1>2 DEF Relay, railVars, slotVars
  <2>2. call[c].st # "over" /\ call' = [call EXCEPT ![c] = [st |-> "ensuring", share |-> j]]
    BY <1>2 DEF Relay
  <2>3. "ensuring" \in CallState
    BY DEF CallState
  <2> QED
    BY <2>1, <2>2, <2>3, CallInv
<1>3. CASE current[j] # NoCall
  <2> DEFINE r == current[j]
  <2>1. r \in Calls /\ rail[r].share = j
    BY <1>1, <1>3 DEF IInv, CurrentOK, RailTyped, RailsOf
  <2> HIDE DEF r
  <2>2. PICK n \in {0, 1} :
          /\ rail' = [rail EXCEPT ![r].fed = rail[r].fed \/ rail[r].open,
                                  ![r].deciding = rail[r].deciding + n]
          /\ n = 1 => rail[r].open
          /\ holder' = holder \/ (n = 1 /\ holder' = rail[r].share)
          /\ idle' \in BOOLEAN
    <3>1. Observe(rail, registered, r)
      BY <1>3 DEF Relay, r
    <3>2. rail \in [Calls -> RailType]
      BY <1>1 DEF RailTyped
    <3> QED
      BY <1>1, <2>1, <3>1, <3>2, Observed
  <2> DEFINE R == [rail[r] EXCEPT !.fed = rail[r].fed \/ rail[r].open, !.deciding = rail[r].deciding + n]
  <2>3. rail[r] \in RailType /\ rail[r].deciding \in Nat
    BY <1>1, <2>1, OverBounded DEF RailTyped, RailType, MaxDecides
  <2>4. /\ rail' = [rail EXCEPT ![r] = R] /\ R.share = j /\ R.open = rail[r].open
        /\ R.deciding = rail[r].deciding + n
    BY <1>1, <2>1, <2>2, <2>3 DEF RailTyped, RailType
  <2>5. /\ call[c].st \in {"idle", "ensuring"}
        /\ call' = [call EXCEPT ![c] = [st |-> "over", share |-> j]]
        /\ UNCHANGED <<recording, rowVars, stopVars>>
    BY <1>3 DEF Relay
  <2>6. current' = current /\ registered' = registered
    BY <1>3 DEF Relay
  <2>7. r # c
    BY <2>1, <2>5, ShareAssumption DEF IInv, RailOK
  <2>8. R \in RailType
    <3>1. rail[r].deciding <= Cardinality(Over) + (IF rail[r].open THEN 0 ELSE 1)
      BY <2>1 DEF IInv, RailOK
    <3>2. Cardinality(Over') = Cardinality(Over) + 1 /\ Cardinality(Over') <= Cardinality(Calls)
      <4>1. call[c].st # "over" /\ [st |-> "over", share |-> j].st = "over"
        BY <2>5
      <4> QED
        BY <1>1, <2>5, <4>1, OverGrows, NextOverBounded
    <3>3. rail[r].deciding + n \in 0..MaxDecides
      BY <2>2, <2>3, <3>1, <3>2, OverBounded DEF MaxDecides, RailType
    <3> QED
      BY <2>2, <2>3, <3>3 DEF RailType
  <2>9. current' = [current EXCEPT ![j] = r]
    BY <1>1, <2>6 DEF r, RailTyped
  <2>10. (n = 1 => R.open) /\ (holder' = holder \/ (n = 1 /\ holder' = j)) /\ idle' \in BOOLEAN
    BY <2>1, <2>2, <2>4
  <2>11. rail' = [rail EXCEPT ![r] = R] /\ R.share = j
    BY <2>4
  <2>12. /\ registered \subseteq registered' /\ registered' \subseteq registered \cup {j}
         /\ registered' = registered
    BY <2>6
  <2>13. rail[r].share = j /\ R.open = rail[r].open /\ R.deciding = rail[r].deciding + n
    BY <2>1, <2>4
  <2>14. r \in Calls
    BY <2>1
  <2> HIDE DEF R
  <2> QED
    BY <2>5, <2>7, <2>8, <2>9, <2>10, <2>11, <2>12, <2>13, <2>14, FrameInv
<1> QED
  BY <1>2, <1>3

\* The rail is built and takes its first frame, whatever became of the share.
LEMMA EnsuredInv ==
  ASSUME IInv, NEW c \in Calls, Ensured(c) PROVE IInv'
<1> DEFINE j == call[c].share
           new == [NoRail EXCEPT !.share = j, !.open = TRUE]
           R0 == [rail EXCEPT ![c] = new]
<1>1. CallTyped /\ RailTyped /\ SlotTyped
  BY TypeParts DEF IInv
<1>2. call[c].st = "ensuring" /\ j \in Shares
  BY DEF Ensured, IInv, RailOK
<1>3. new \in RailType /\ new.share = j /\ new.open /\ new.deciding = 0
  <2>1. NoRail \in RailType /\ NoRail.deciding = 0
    BY OverBounded DEF NoRail, RailType, MaxDecides
  <2> QED
    BY <1>2, <2>1 DEF RailType
<1>4. R0 \in [Calls -> RailType] /\ R0[c] = new
  BY <1>1, <1>3 DEF RailTyped
<1>5. Observe(R0, registered', c)
  BY DEF Ensured
<1> HIDE DEF new
<1>6. PICK n \in {0, 1} :
        /\ rail' = [R0 EXCEPT ![c].fed = R0[c].fed \/ R0[c].open,
                              ![c].deciding = R0[c].deciding + n]
        /\ n = 1 => R0[c].open
        /\ holder' = holder \/ (n = 1 /\ holder' = R0[c].share)
        /\ idle' \in BOOLEAN
  BY <1>1, <1>4, <1>5, Observed
<1> DEFINE R == [new EXCEPT !.fed = new.fed \/ new.open, !.deciding = new.deciding + n]
<1>7. rail' = [rail EXCEPT ![c] = R]
  BY <1>1, <1>3, <1>4, <1>6 DEF RailTyped, RailType
<1>8. R \in RailType /\ R.share = j /\ R.open /\ R.deciding = n
  <2>1. new.deciding + n \in 0..MaxDecides /\ new.deciding + n = n
    BY <1>3, OverBounded DEF MaxDecides
  <2>2. R \in RailType
    BY <1>3, <2>1 DEF RailType
  <2>3. R.share = j /\ R.open /\ R.deciding = n
    BY <1>3, <2>1 DEF RailType
  <2> QED
    BY <2>2, <2>3
<1>9. /\ call' = [call EXCEPT ![c] = [st |-> "over", share |-> j]]
      /\ current' = [current EXCEPT ![j] = c]
      /\ registered \subseteq registered' /\ registered' \subseteq registered \cup {j}
      /\ UNCHANGED <<recording, rowVars, stopVars>>
  <2>1. call' = [call EXCEPT ![c] = [st |-> "over", share |-> j]]
    BY <1>1, CallMoves DEF Ensured
  <2> QED
    BY <1>1, <1>2, <2>1 DEF Ensured
<1>10. (holder' = holder \/ (n = 1 /\ holder' = j)) /\ idle' \in BOOLEAN
  BY <1>3, <1>4, <1>6
<1> HIDE DEF R, j
<1> QED
  BY <1>2, <1>7, <1>8, <1>9, <1>10, FrameInv
-----------------------------------------------------------------------------
(***************************************************************************)
(* The highlights.                                                         *)
(***************************************************************************)

\* Nothing but the rows and the list of the cut loop moves: the rails, the slot and
\* the shares keep their part of the invariant.
LEMMA RestKept ==
  ASSUME IInv,
         UNCHANGED <<call, recording, railVars, status, registry, stage, verdict, ended>>,
         todo' \subseteq Rows, cutting' \subseteq todo'
  PROVE  /\ CallTyped' /\ RailTyped' /\ SlotTyped' /\ StopTyped'
         /\ \A c \in Calls : RailOK(c)'
         /\ \A j \in Shares : CurrentOK(j)' /\ EndOK(j)' /\ BackOK(j)'
<1> USE DEF railVars, slotVars
<1>1. CallTyped' /\ RailTyped' /\ SlotTyped' /\ StopTyped'
  BY TypeParts DEF IInv, CallTyped, RailTyped, SlotTyped, StopTyped
<1>2. Over' = Over
  BY DEF Over
<1>3. \A j \in Shares : RailsOf(j)' = RailsOf(j)
  BY DEF RailsOf
<1>4. \A c \in Calls : RailOK(c)'
  BY <1>2 DEF IInv, RailOK
<1>5. \A j \in Shares : CurrentOK(j)' /\ EndOK(j)' /\ BackOK(j)'
  BY <1>3 DEF IInv, CurrentOK, EndOK, BackOK, Settled
<1> QED
  BY <1>1, <1>4, <1>5

\* A verdict: no row of a settled rail is added, and the rows there are stay.
LEMMA VerdictRows ==
  ASSUME IInv, NEW j \in Shares \cup {NoShare}, NEW c \in Calls, Verdict(j, c),
         \A k \in Shares : ~(/\ ended[k] = c /\ j = k /\ verdict[k] = "done"
                             /\ stage[k] \in {"cut", "miss", "over"}),
         UNCHANGED stopVars
  PROVE  RowTyped' /\ \A h \in Rows : RowOK(h)'
<1> USE DEF stopVars
<1>1. RowTyped
  BY TypeParts DEF IInv
<1>2. CASE UNCHANGED rowVars
  BY <1>1, <1>2 DEF IInv, rowVars, RowTyped, RowOK
<1>3. ASSUME NEW h \in Rows, NEW start \in Starts, Publish(h, j, c, start)
      PROVE  RowTyped' /\ \A g \in Rows : RowOK(g)'
  <2> DEFINE R == [NoRow EXCEPT !.share = j, !.from = c, !.start = start]
  <2>1. NoRow \in RowType
    BY DEF NoRow, RowType
  <2>2. R \in RowType /\ R.share = j /\ R.from = c
    BY <2>1 DEF RowType
  <2>3. row' = [row EXCEPT ![h] = R] /\ row[h] = NoRow
    BY <1>3 DEF Publish
  <2> HIDE DEF R
  <2>4. RowTyped'
    BY <1>1, <1>3, <2>2, <2>3 DEF Publish, RowTyped, LiveState
  <2>5. \A g \in Rows : row'[g] = IF g = h THEN R ELSE row[g]
    BY <1>1, <2>3 DEF RowTyped
  <2>6. RowOK(h) /\ row[h].share = NoShare
    BY <2>3 DEF IInv, NoRow
  <2>7. h \notin cutting
    BY <2>6, ShareAssumption DEF RowOK
  <2>8. RowOK(h)'
    BY <2>2, <2>5, <2>7 DEF RowOK
  <2>9. \A g \in Rows \ {h} : RowOK(g)'
    BY <2>5 DEF IInv, RowOK
  <2> QED
    BY <2>4, <2>8, <2>9
<1> QED
  BY <1>2, <1>3 DEF Verdict

\* A decide that ends is one of a rail that is not settled.
LEMMA DecidedInv ==
  ASSUME IInv, NEW r \in Calls, Decided(r) PROVE IInv'
<1> USE DEF slotVars, stopVars
<1>1. CallTyped /\ RailTyped /\ SlotTyped /\ RowTyped /\ StopTyped
  BY TypeParts DEF IInv
<1> DEFINE R == [rail[r] EXCEPT !.deciding = rail[r].deciding - 1]
<1>2. rail[r] \in RailType /\ rail[r].deciding \in Nat \ {0} /\ RailOK(r)
  BY <1>1, OverBounded DEF Decided, RailTyped, RailType, MaxDecides, IInv
<1>3. /\ R \in RailType /\ R.share = rail[r].share /\ R.open = rail[r].open
      /\ R.deciding = rail[r].deciding - 1
  <2>1. rail[r].deciding - 1 \in 0..MaxDecides
    BY <1>2, OverBounded DEF RailType, MaxDecides
  <2> QED
    BY <1>2, <2>1 DEF RailType
<1>4. rail' = [rail EXCEPT ![r] = R]
  BY <1>1, <1>2 DEF Decided, RailTyped
<1> HIDE DEF R
<1>5. \A c \in Calls : rail'[c] = IF c = r THEN R ELSE rail[c]
  BY <1>1, <1>4 DEF RailTyped
<1>6. /\ UNCHANGED <<recording, call, current, slotVars, stopVars>>
      /\ Verdict(rail[r].share, r)
  BY DEF Decided
<1>7. rail[r].share \in Shares /\ rail[r].share # NoShare
  BY <1>2, ShareAssumption DEF RailOK, NoRail, RailType
<1>8. CallTyped' /\ RailTyped' /\ SlotTyped' /\ StopTyped'
  BY <1>1, <1>3, <1>4, <1>6 DEF CallTyped, RailTyped, SlotTyped, StopTyped
<1>9. \A c \in Calls : RailOK(c)'
  <2>1. Over' = Over
    BY <1>6 DEF Over
  <2>2. RailOK(r)'
    BY <1>2, <1>3, <1>5, <1>6, <1>7, <2>1, OverBounded DEF RailOK
  <2>3. \A c \in Calls \ {r} : RailOK(c)'
    BY <1>5, <1>6, <2>1 DEF IInv, RailOK
  <2> QED
    BY <2>2, <2>3
<1>10. \A j \in Shares : RailsOf(j)' = RailsOf(j)
  BY <1>3, <1>5 DEF RailsOf
<1>11. \A c \in Calls : rail'[c].open = rail[c].open
  BY <1>3, <1>5
<1>12. \A j \in Shares : CurrentOK(j)' /\ EndOK(j)'
  BY <1>1, <1>6, <1>10, <1>11 DEF IInv, CurrentOK, EndOK, RailsOf, StopTyped
<1>13. \A j \in Shares : Settled(j) /\ verdict[j] = "done" => ended[j] # r
  BY <1>2, ShareAssumption DEF IInv, BackOK
<1>14. \A j \in Shares : BackOK(j)'
  BY <1>1, <1>5, <1>6, <1>10, <1>13 DEF IInv, BackOK, Settled, StopTyped
<1>15. RowTyped' /\ \A h \in Rows : RowOK(h)'
  <2>1. \A k \in Shares : ~(/\ ended[k] = r /\ rail[r].share = k /\ verdict[k] = "done"
                            /\ stage[k] \in {"cut", "miss", "over"})
    BY <1>13 DEF Settled
  <2> QED
    BY <1>6, <1>7, <2>1, VerdictRows
<1> QED
  BY <1>8, <1>9, <1>12, <1>14, <1>15, NextParts DEF IInv

\* A request of the legacy rail decides for no rail.
LEMMA IngestedInv ==
  ASSUME IInv, NEW c \in Calls, Ingested(c) PROVE IInv'
<1>1. CallTyped /\ RailTyped /\ RowTyped
  BY TypeParts DEF IInv
<1> DEFINE j == call[c].share
<1>2. call[c].st = "ingesting" /\ j \in Shares /\ Verdict(j, c)
  BY DEF Ingested, IInv, RailOK
<1>3. \A k \in Shares : ended[k] # c
  <2> SUFFICES ASSUME NEW k \in Shares, ended[k] = c PROVE FALSE
    OBVIOUS
  <2>1. rail[c].share = k
    BY ShareAssumption DEF IInv, EndOK, RailsOf
  <2> QED
    BY <1>2, <2>1, ShareAssumption DEF IInv, RailOK
<1>4. UNCHANGED <<recording, railVars, stopVars>>
  BY DEF Ingested
<1>5. RowTyped' /\ \A h \in Rows : RowOK(h)'
  <2>1. \A k \in Shares : ~(/\ ended[k] = c /\ j = k /\ verdict[k] = "done"
                            /\ stage[k] \in {"cut", "miss", "over"})
    BY <1>3
  <2>2. j \in Shares \cup {NoShare} /\ UNCHANGED stopVars
    BY <1>2, <1>4
  <2> QED
    BY <1>2, <2>1, <2>2, VerdictRows
<1>6. \A d \in Calls : /\ call'[d].share = call[d].share
                       /\ call'[d].st = IF d = c THEN "over" ELSE call[d].st
  BY <1>1 DEF Ingested, CallTyped
<1>7. CallTyped'
  BY <1>1, <1>4 DEF Ingested, CallTyped, CallState
<1>8. RailTyped' /\ SlotTyped' /\ StopTyped'
  BY <1>4, TypeParts DEF IInv, RailTyped, SlotTyped, StopTyped, railVars, slotVars, stopVars
<1>9. Cardinality(Over) <= Cardinality(Over')
  <2>1. Over \subseteq Over'
    BY <1>6 DEF Over
  <2> QED
    BY <2>1, NextOverBounded, FS_Subset
<1>10. \A d \in Calls : RailOK(d)'
  <2> SUFFICES ASSUME NEW d \in Calls PROVE RailOK(d)'
    OBVIOUS
  <2>1. RailOK(d) /\ rail'[d] = rail[d] /\ rail[d].deciding \in Nat
    BY <1>1, <1>4 DEF IInv, railVars, RailTyped, RailType, MaxDecides
  <2>2. rail[d].deciding <= Cardinality(Over') + (IF rail[d].open THEN 0 ELSE 1)
    BY <1>9, <2>1, OverBounded, NextOverBounded DEF RailOK
  <2> QED
    BY <1>6, <2>1, <2>2 DEF RailOK
<1>11. \A k \in Shares : CurrentOK(k)' /\ EndOK(k)' /\ BackOK(k)'
  <2>1. \A k \in Shares : RailsOf(k)' = RailsOf(k)
    BY <1>4 DEF RailsOf, railVars
  <2> QED
    BY <1>4, <2>1 DEF IInv, CurrentOK, EndOK, BackOK, Settled, railVars, slotVars, stopVars
<1> QED
  BY <1>5, <1>7, <1>8, <1>10, <1>11, NextParts DEF IInv

\* The live cut of a row moves on; at most its clip is there in the end.
LEMMA LiveInv ==
  ASSUME IInv, NEW h \in Rows,
         Flushed(h) \/ WaitTimesOut(h) \/ LiveCutOk(h) \/ LiveCutFails(h) \/ LiveCutRetries(h)
  PROVE  IInv'
<1>1. RowTyped /\ row[h] \in RowType
  BY TypeParts DEF IInv, RowTyped
<1>2. UNCHANGED <<call, recording, railVars, stopVars>>
  BY DEF Flushed, WaitTimesOut, LiveCutOk, LiveCutFails, LiveCutRetries
<1>3. PICK st \in LiveState : live' = [live EXCEPT ![h] = st]
  BY DEF Flushed, WaitTimesOut, LiveCutOk, LiveCutFails, LiveCutRetries, LiveState
<1>4. \A g \in Rows : /\ row'[g] \in RowType
                      /\ row'[g].share = row[g].share /\ row'[g].from = row[g].from
                      /\ row[g].uri \/ row[g].err => row'[g].uri \/ row'[g].err
  <2>1. CASE row' = row
    BY <1>1, <2>1 DEF RowTyped
  <2>2. CASE row' = [row EXCEPT ![h].uri = TRUE, ![h].err = FALSE]
    BY <1>1, <2>2 DEF RowTyped, RowType
  <2> QED
    BY <2>1, <2>2 DEF Flushed, WaitTimesOut, LiveCutOk, LiveCutFails, LiveCutRetries
<1>5. row' \in [Rows -> RowType]
  <2>1. row' = row \/ row' = [row EXCEPT ![h].uri = TRUE, ![h].err = FALSE]
    BY DEF Flushed, WaitTimesOut, LiveCutOk, LiveCutFails, LiveCutRetries
  <2>2. row' = [g \in Rows |-> row'[g]]
    BY <1>1, <2>1 DEF RowTyped
  <2> QED
    BY <1>4, <2>2
<1>6. RowTyped'
  BY <1>1, <1>3, <1>5 DEF RowTyped
<1>7. \A g \in Rows : RowOK(g)'
  BY <1>2, <1>4 DEF IInv, RowOK, stopVars
<1>8. /\ UNCHANGED <<call, recording, railVars, status, registry, stage, verdict, ended>>
      /\ todo' \subseteq Rows /\ cutting' \subseteq todo'
  BY <1>2 DEF IInv, TypeOK, stopVars
<1> QED
  BY <1>6, <1>7, <1>8, RestKept, NextParts DEF IInv
\* The slot is free to take, or a chunk of the recording is there: the rest of the
\* invariant does not look at either.
LEMMA QuietInv ==
  ASSUME IInv, recording' \in [Shares -> BOOLEAN], idle' \in BOOLEAN,
         UNCHANGED <<call, current, rail, registered, holder, rowVars, stopVars>>
  PROVE  IInv'
<1> USE DEF rowVars, stopVars
<1>1. CallTyped' /\ RailTyped' /\ SlotTyped' /\ RowTyped' /\ StopTyped'
  BY TypeParts DEF IInv, CallTyped, RailTyped, SlotTyped, RowTyped, StopTyped
<1>2. Over' = Over
  BY DEF Over
<1>3. \A j \in Shares : RailsOf(j)' = RailsOf(j)
  BY DEF RailsOf
<1>4. \A c \in Calls : RailOK(c)'
  BY <1>2 DEF IInv, RailOK
<1>5. \A j \in Shares : CurrentOK(j)' /\ EndOK(j)' /\ BackOK(j)'
  BY <1>3 DEF IInv, CurrentOK, EndOK, BackOK, Settled
<1>6. \A h \in Rows : RowOK(h)'
  BY DEF IInv, RowOK
<1> QED
  BY <1>1, <1>4, <1>5, <1>6, NextParts DEF IInv
-----------------------------------------------------------------------------
(***************************************************************************)
(* The end of a share.                                                     *)
(***************************************************************************)

\* A share that never had a rail ends: there is nothing to settle.
LEMMA StopBare ==
  ASSUME IInv, NEW j \in Shares, NEW outcome \in Ended, stage[j] = "none",
         current[j] = NoCall,
         stage' = [stage EXCEPT ![j] = "closing"],
         verdict' = [verdict EXCEPT ![j] = outcome],
         ended' = [ended EXCEPT ![j] = NoCall],
         UNCHANGED <<recording, call, railVars, rowVars, status, registry, todo, cutting>>
  PROVE  IInv'
<1> USE DEF railVars, slotVars, rowVars
<1>1. CallTyped /\ RailTyped /\ SlotTyped /\ RowTyped /\ StopTyped
  BY TypeParts DEF IInv
<1>2. CallTyped' /\ RailTyped' /\ SlotTyped' /\ RowTyped' /\ StopTyped'
  BY <1>1 DEF CallTyped, RailTyped, SlotTyped, RowTyped, StopTyped, Stage
<1>3. /\ \A k \in Shares : stage'[k] = IF k = j THEN "closing" ELSE stage[k]
      /\ \A k \in Shares : verdict'[k] = IF k = j THEN outcome ELSE verdict[k]
      /\ \A k \in Shares : ended'[k] = IF k = j THEN NoCall ELSE ended[k]
  BY <1>1 DEF StopTyped
<1>4. Over' = Over /\ \A k \in Shares : RailsOf(k)' = RailsOf(k)
  BY DEF Over, RailsOf
<1>5. \A c \in Calls : RailOK(c)'
  BY <1>4 DEF IInv, RailOK
<1>6. \A k \in Shares : CurrentOK(k)'
  BY <1>4 DEF IInv, CurrentOK
<1>7. \A k \in Shares : EndOK(k)'
  BY <1>3, <1>4 DEF IInv, EndOK
<1>8. \A k \in Shares : BackOK(k)'
  BY <1>3, <1>4 DEF IInv, BackOK, Settled, CurrentOK
<1>9. \A h \in Rows : RowOK(h)'
  BY <1>3 DEF IInv, RowOK
<1> QED
  BY <1>2, <1>5, <1>6, <1>7, <1>8, <1>9, NextParts DEF IInv

\* A share with a rail ends: the rail takes no frame any more, decides its tail at
\* most, and is out of the depth sharing at once when the share failed.
LEMMA StopRail ==
  ASSUME IInv, NEW j \in Shares, NEW outcome \in Ended, stage[j] = "none",
         NEW r \in Calls, r = current[j],
         NEW R \in RailType, R.share = j, ~R.open, R.deciding <= rail[r].deciding + 1,
         NEW st \in {"flush", "closing"},
         st = "closing" => outcome = "failed" /\ j \notin registered',
         rail' = [rail EXCEPT ![r] = R],
         stage' = [stage EXCEPT ![j] = st],
         verdict' = [verdict EXCEPT ![j] = outcome],
         ended' = [ended EXCEPT ![j] = r],
         registered' \subseteq registered,
         UNCHANGED <<recording, call, current, holder, idle, rowVars, status, registry, todo, cutting>>
  PROVE  IInv'
<1> USE DEF rowVars
<1>1. CallTyped /\ RailTyped /\ SlotTyped /\ RowTyped /\ StopTyped
  BY TypeParts DEF IInv
<1>2. CallTyped' /\ RailTyped' /\ SlotTyped' /\ RowTyped' /\ StopTyped'
  BY <1>1 DEF CallTyped, RailTyped, SlotTyped, RowTyped, StopTyped, Stage
<1>3. /\ \A k \in Shares : stage'[k] = IF k = j THEN st ELSE stage[k]
      /\ \A k \in Shares : verdict'[k] = IF k = j THEN outcome ELSE verdict[k]
      /\ \A k \in Shares : ended'[k] = IF k = j THEN r ELSE ended[k]
      /\ \A c \in Calls : rail'[c] = IF c = r THEN R ELSE rail[c]
  BY <1>1 DEF StopTyped, RailTyped
<1>4. rail[r].share = j /\ rail[r].open /\ r # NoCall /\ j # NoShare
  BY ShareAssumption DEF IInv, CurrentOK, EndOK, RailsOf
<1>5. Over' = Over /\ \A k \in Shares : RailsOf(k)' = RailsOf(k)
  BY <1>3, <1>4 DEF Over, RailsOf
<1>6. \A c \in Calls : RailOK(c)'
  <2>1. rail[r].deciding \in Nat /\ R.deciding \in Nat
    BY <1>1 DEF RailTyped, RailType, MaxDecides
  <2>2. RailOK(r)'
    BY <1>3, <1>4, <1>5, <2>1, OverBounded DEF IInv, RailOK
  <2>3. \A c \in Calls \ {r} : RailOK(c)'
    BY <1>3, <1>5 DEF IInv, RailOK
  <2> QED
    BY <2>2, <2>3
<1>7. \A k \in Shares : CurrentOK(k)'
  BY <1>5 DEF IInv, CurrentOK
<1>8. \A k \in Shares \ {j} : ended[k] # r /\ \A c \in RailsOf(k) : c # r
  BY <1>4, ShareAssumption DEF IInv, EndOK, RailsOf
<1>9. \A k \in Shares : EndOK(k)'
  <2>1. EndOK(j)'
    BY <1>3, <1>4, <1>5 DEF IInv, EndOK, RailsOf
  <2>2. \A k \in Shares \ {j} : EndOK(k)'
    BY <1>3, <1>5, <1>8 DEF IInv, EndOK, RailsOf
  <2> QED
    BY <2>1, <2>2
<1>10. \A k \in Shares : BackOK(k)'
  <2>1. BackOK(j)'
    BY <1>3 DEF BackOK, Settled, Ended
  <2>2. ASSUME NEW k \in Shares \ {j} PROVE BackOK(k)'
    <3>1. BackOK(k) /\ EndOK(k) /\ ended[k] # r
      BY <1>8 DEF IInv
    <3>2. ended[k] # NoCall => rail'[ended[k]] = rail[ended[k]]
      BY <1>3, <3>1 DEF EndOK, RailsOf
    <3> QED
      BY <1>3, <1>5, <3>1, <3>2 DEF BackOK, Settled
  <2> QED
    BY <2>1, <2>2
<1>11. \A h \in Rows : RowOK(h)'
  BY <1>3 DEF IInv, RowOK
<1> QED
  BY <1>2, <1>6, <1>7, <1>9, <1>10, <1>11, NextParts DEF IInv

\* The three ways the first stop or close takes.
LEMMA StopInv ==
  ASSUME IInv, NEW j \in Shares, NEW outcome \in Ended, Stop(j, outcome) PROVE IInv'
<1>1. CallTyped /\ RailTyped /\ SlotTyped /\ RowTyped /\ StopTyped
  BY TypeParts DEF IInv
<1>2. /\ stage[j] = "none"
      /\ verdict' = [verdict EXCEPT ![j] = outcome]
      /\ ended' = [ended EXCEPT ![j] = current[j]]
      /\ UNCHANGED <<recording, call, current, holder, idle, rowVars, status, registry, todo, cutting>>
  BY DEF Stop
<1>3. CASE current[j] = NoCall
  <2>1. stage' = [stage EXCEPT ![j] = "closing"] /\ UNCHANGED <<rail, registered>>
    BY <1>3 DEF Stop
  <2> QED
    BY <1>2, <1>3, <2>1, StopBare DEF railVars, slotVars
<1>4. CASE current[j] # NoCall
  <2> DEFINE r == current[j]
  <2>1. r \in Calls /\ rail[r].share = j /\ rail[r].open
    BY <1>1, <1>2, <1>4 DEF IInv, CurrentOK, EndOK, RailTyped, RailsOf
  <2>2. rail[r] \in RailType /\ rail[r].deciding \in Nat
    BY <1>1, <2>1, OverBounded DEF RailTyped, RailType, MaxDecides
  <2>3. rail[r].deciding <= Cardinality(Over)
    <3>1. RailOK(r)
      BY <2>1 DEF IInv
    <3>2. rail[r].deciding <= Cardinality(Over) + 0
      BY <2>1, <3>1 DEF RailOK
    <3> QED
      BY <3>2, OverBounded
  <2>4. CASE outcome = "done"
    <3>1. PICK tail \in BOOLEAN : Finish(r, tail)
      BY <1>4, <2>4 DEF Stop
    <3> DEFINE n == IF rail[r].fed /\ tail THEN rail[r].deciding + 1 ELSE rail[r].deciding
               R == [rail[r] EXCEPT !.open = FALSE, !.deciding = n]
    <3>2. n \in 0..MaxDecides /\ n <= rail[r].deciding + 1
      BY <2>2, <2>3, OverBounded DEF MaxDecides
    <3> HIDE DEF n
    <3>3. R \in RailType /\ R.share = j /\ ~R.open /\ R.deciding = n
      BY <2>1, <2>2, <3>2 DEF RailType
    <3>4. rail' = [rail EXCEPT ![r] = R]
      BY <1>1, <2>1, <2>2, <3>1 DEF Finish, RailTyped, RailType, n
    <3>5. /\ stage' = [stage EXCEPT ![j] = "flush"] /\ registered' \subseteq registered
          /\ R.deciding <= rail[r].deciding + 1
      BY <1>4, <2>4, <3>2, <3>3 DEF Stop
    <3> HIDE DEF R, r
    <3>6. r = current[j] /\ ended' = [ended EXCEPT ![j] = r]
      BY <1>2 DEF r
    <3> QED
      BY <1>2, <2>1, <3>3, <3>4, <3>5, <3>6, StopRail
  <2>5. CASE outcome # "done"
    <3> DEFINE R == [rail[r] EXCEPT !.open = FALSE]
    <3>1. R \in RailType /\ R.share = j /\ ~R.open /\ R.deciding <= rail[r].deciding + 1
      <4>1. R \in RailType /\ R.share = j /\ ~R.open /\ R.deciding = rail[r].deciding
        BY <2>1, <2>2 DEF RailType
      <4> QED
        BY <2>2, <4>1
    <3>2. rail' = [rail EXCEPT ![r] = R]
      BY <1>1, <1>4, <2>1, <2>2, <2>5 DEF Stop, RailTyped, RailType
    <3>3. /\ stage' = [stage EXCEPT ![j] = "closing"] /\ registered' \subseteq registered
          /\ j \notin registered' /\ outcome = "failed"
      BY <1>4, <2>5 DEF Stop, Ended
    <3> HIDE DEF R, r
    <3>4. r = current[j] /\ ended' = [ended EXCEPT ![j] = r]
      BY <1>2 DEF r
    <3> QED
      BY <1>2, <2>1, <3>1, <3>2, <3>3, <3>4, StopRail
  <2> QED
    BY <2>4, <2>5
<1> QED
  BY <1>3, <1>4

\* finish() has returned: the settled rail is idle, and nothing of the share is
\* kept unless another rail of it has it.
LEMMA FlushEndsInv ==
  ASSUME IInv, NEW j \in Shares, FlushEnds(j) PROVE IInv'
<1> USE DEF rowVars
<1>1. CallTyped /\ RailTyped /\ SlotTyped /\ RowTyped /\ StopTyped
  BY TypeParts DEF IInv
<1>2. /\ stage[j] = "flush" /\ rail[ended[j]].deciding = 0
      /\ stage' = [stage EXCEPT ![j] = "closing"]
      /\ registered' = registered \ {j}
      /\ holder' = IF holder = j THEN NoShare ELSE holder
      /\ UNCHANGED <<recording, call, current, rail, idle, rowVars, status, registry, verdict, ended,
                     todo, cutting>>
  BY DEF FlushEnds
<1>3. CallTyped' /\ RailTyped' /\ SlotTyped' /\ RowTyped' /\ StopTyped'
  BY <1>1, <1>2 DEF CallTyped, RailTyped, SlotTyped, RowTyped, StopTyped, Stage
<1>4. \A k \in Shares : /\ stage'[k] = IF k = j THEN "closing" ELSE stage[k]
                        /\ k \in registered' => k \in registered /\ k # j
                        /\ holder' = k => holder = k /\ k # j
  BY <1>1, <1>2, ShareAssumption DEF StopTyped
<1>5. Over' = Over /\ \A k \in Shares : RailsOf(k)' = RailsOf(k)
  BY <1>2 DEF Over, RailsOf
<1>6. \A c \in Calls : RailOK(c)'
  BY <1>2, <1>5 DEF IInv, RailOK
<1>7. \A k \in Shares : CurrentOK(k)'
  BY <1>2, <1>4, <1>5 DEF IInv, CurrentOK
<1>8. \A k \in Shares : EndOK(k)'
  BY <1>2, <1>4, <1>5 DEF IInv, EndOK
<1>9. \A k \in Shares : BackOK(k)'
  BY <1>2, <1>4, <1>5 DEF IInv, BackOK, Settled
<1>10. \A h \in Rows : RowOK(h)'
  BY <1>2, <1>4 DEF IInv, RowOK
<1> QED
  BY <1>3, <1>6, <1>7, <1>8, <1>9, <1>10, NextParts DEF IInv

\* The end of a share goes on after the rail is settled: when the cut loop starts
\* it has every row of the share without a clip to visit.
LEMMA StageInv ==
  ASSUME IInv, NEW j \in Shares, NEW st \in {"drain", "bare", "cut", "miss"},
         NEW X \in SUBSET Rows,
         stage[j] \in {"closing", "drain", "bare"},
         stage' = [stage EXCEPT ![j] = st], todo' = todo \cup X,
         st \in {"cut", "miss"} => \A h \in RowsOf(j) : row[h].uri \/ h \in X,
         UNCHANGED <<recording, call, railVars, rowVars, status, registry, verdict, ended, cutting>>
  PROVE  IInv'
<1> USE DEF railVars, slotVars, rowVars
<1>1. CallTyped /\ RailTyped /\ SlotTyped /\ RowTyped /\ StopTyped
  BY TypeParts DEF IInv
<1>2. CallTyped' /\ RailTyped' /\ SlotTyped' /\ RowTyped' /\ StopTyped'
  BY <1>1 DEF CallTyped, RailTyped, SlotTyped, RowTyped, StopTyped, Stage
<1>3. \A k \in Shares : stage'[k] = IF k = j THEN st ELSE stage[k]
  BY <1>1 DEF StopTyped
<1>4. Over' = Over /\ \A k \in Shares : RailsOf(k)' = RailsOf(k)
  BY DEF Over, RailsOf
<1>5. \A c \in Calls : RailOK(c)'
  BY <1>4 DEF IInv, RailOK
<1>6. \A k \in Shares : CurrentOK(k)' /\ EndOK(k)' /\ BackOK(k)'
  BY <1>3, <1>4 DEF IInv, CurrentOK, EndOK, BackOK, Settled
<1>7. \A h \in Rows : RowOK(h)'
  <2> SUFFICES ASSUME NEW h \in Rows PROVE RowOK(h)'
    OBVIOUS
  <2>1. RowOK(h)
    BY DEF IInv
  <2>2. row[h].share = j /\ st \in {"cut", "miss"} => row[h].uri \/ h \in X
    BY DEF RowsOf
  <2> QED
    BY <1>3, <2>1, <2>2 DEF RowOK
<1> QED
  BY <1>2, <1>5, <1>6, <1>7, NextParts DEF IInv

\* The sessions are closed, the live cuts are waited for, the cut loop starts.
LEMMA DrainInv ==
  ASSUME IInv, NEW j \in Shares, SessionsClosed(j) \/ Drained(j) PROVE IInv'
<1>1. CASE SessionsClosed(j)
  <2> DEFINE st == IF recording[j] THEN "drain" ELSE "bare"
  <2>1. st \in {"drain", "bare", "cut", "miss"} /\ st \notin {"cut", "miss"}
    OBVIOUS
  <2>2. /\ stage[j] \in {"closing", "drain", "bare"}
        /\ stage' = [stage EXCEPT ![j] = st] /\ todo' = todo \cup {}
        /\ UNCHANGED <<recording, call, railVars, rowVars, status, registry, verdict, ended, cutting>>
    BY <1>1 DEF SessionsClosed
  <2>3. {} \in SUBSET Rows
    OBVIOUS
  <2> HIDE DEF st
  <2>4. st \in {"cut", "miss"} => \A h \in RowsOf(j) : row[h].uri \/ h \in {}
    BY <2>1
  <2> QED
    BY <2>1, <2>2, <2>3, <2>4, StageInv
<1>2. CASE Drained(j)
  <2> DEFINE st == IF stage[j] = "drain" THEN "cut" ELSE "miss"
             X == {h \in RowsOf(j) : ~row[h].uri}
  <2>1. st \in {"drain", "bare", "cut", "miss"} /\ X \in SUBSET Rows
    BY DEF RowsOf
  <2>2. /\ stage[j] \in {"closing", "drain", "bare"}
        /\ stage' = [stage EXCEPT ![j] = st] /\ todo' = todo \cup X
        /\ UNCHANGED <<recording, call, railVars, rowVars, status, registry, verdict, ended, cutting>>
    BY <1>2 DEF Drained
  <2>3. \A h \in RowsOf(j) : row[h].uri \/ h \in X
    OBVIOUS
  <2> HIDE DEF st, X
  <2> QED
    BY <2>1, <2>2, <2>3, StageInv
<1> QED
  BY <1>1, <1>2

\* The cut loop visits a row, and leaves it with its clip or the reason it has none.
LEMMA CutInv ==
  ASSUME IInv, NEW h \in Rows,
         \/ \E j \in Shares : StopCut(j, h) \/ StopMisses(j, h)
         \/ \E ok \in BOOLEAN : StopCutEnds(h, ok)
  PROVE  IInv'
<1> USE DEF stopVars
<1>1. RowTyped /\ row[h] \in RowType /\ todo \subseteq Rows /\ cutting \subseteq todo
  BY TypeParts DEF IInv, RowTyped, StopTyped
<1>2. UNCHANGED <<call, recording, railVars, status, registry, stage, verdict, ended>>
  BY DEF StopCut, StopMisses, StopCutEnds
<1>3. ASSUME NEW j \in Shares, StopCut(j, h) PROVE IInv'
  <2>1. /\ UNCHANGED <<rowVars, todo>> /\ cutting' = cutting \cup {h}
        /\ stage[j] = "cut" /\ h \in todo /\ row[h].share = j
    BY <1>3 DEF StopCut, RowsOf
  <2>2. RowTyped' /\ todo' \subseteq Rows /\ cutting' \subseteq todo'
    BY <1>1, <2>1 DEF RowTyped, rowVars
  <2>3. \A g \in Rows : RowOK(g)'
    BY <1>2, <2>1 DEF IInv, RowOK, rowVars
  <2> QED
    BY <1>2, <2>2, <2>3, RestKept, NextParts DEF IInv
<1>4. ASSUME NEW j \in Shares, StopMisses(j, h) PROVE IInv'
  <2> DEFINE R == [row[h] EXCEPT !.err = TRUE]
  <2>1. /\ row' = [row EXCEPT ![h].err = TRUE] /\ todo' = todo \ {h}
        /\ UNCHANGED <<live, cutting>>
        /\ stage[j] = "miss" /\ row[h].share = j
    BY <1>4 DEF StopMisses, RowsOf
  <2>2. R \in RowType /\ R.share = row[h].share /\ R.from = row[h].from /\ R.err
    BY <1>1 DEF RowType
  <2>3. row' = [row EXCEPT ![h] = R]
    BY <1>1, <2>1 DEF RowTyped, RowType
  <2> HIDE DEF R
  <2>4. \A g \in Rows : row'[g] = IF g = h THEN R ELSE row[g]
    BY <1>1, <2>3 DEF RowTyped
  <2>5. h \notin cutting
    BY <2>1 DEF IInv, RowOK
  <2>6. RowTyped' /\ todo' \subseteq Rows /\ cutting' \subseteq todo'
    BY <1>1, <2>1, <2>2, <2>3, <2>5 DEF RowTyped
  <2>7. \A g \in Rows : RowOK(g)'
    BY <1>2, <2>1, <2>2, <2>4 DEF IInv, RowOK
  <2> QED
    BY <1>2, <2>6, <2>7, RestKept, NextParts DEF IInv
<1>5. ASSUME NEW ok \in BOOLEAN, StopCutEnds(h, ok) PROVE IInv'
  <2> DEFINE R == IF ok THEN [row[h] EXCEPT !.uri = TRUE] ELSE [row[h] EXCEPT !.err = TRUE]
  <2>1. /\ row' = IF ok THEN [row EXCEPT ![h].uri = TRUE] ELSE [row EXCEPT ![h].err = TRUE]
        /\ todo' = todo \ {h} /\ cutting' = cutting \ {h} /\ live' = live
    BY <1>5 DEF StopCutEnds
  <2>2. R \in RowType /\ R.share = row[h].share /\ R.from = row[h].from /\ (R.uri \/ R.err)
    BY <1>1 DEF RowType
  <2>3. row' = [row EXCEPT ![h] = R]
    BY <1>1, <2>1 DEF RowTyped, RowType
  <2> HIDE DEF R
  <2>4. \A g \in Rows : row'[g] = IF g = h THEN R ELSE row[g]
    BY <1>1, <2>3 DEF RowTyped
  <2>5. RowTyped' /\ todo' \subseteq Rows /\ cutting' \subseteq todo'
    BY <1>1, <2>1, <2>2, <2>3 DEF RowTyped
  <2>6. \A g \in Rows : RowOK(g)'
    BY <1>2, <2>1, <2>2, <2>4 DEF IInv, RowOK
  <2> QED
    BY <1>2, <2>5, <2>6, RestKept, NextParts DEF IInv
<1> QED
  BY <1>3, <1>4, <1>5

\* The share is over once the cut loop has no row of it left.
LEMMA ConcludeInv ==
  ASSUME IInv, NEW j \in Shares, Conclude(j) PROVE IInv'
<1>1. CallTyped /\ RailTyped /\ SlotTyped /\ RowTyped /\ StopTyped
  BY TypeParts DEF IInv
<1>2. /\ stage[j] \in {"cut", "miss"} /\ todo \cap RowsOf(j) = {}
      /\ stage' = [stage EXCEPT ![j] = "over"]
      /\ registry' = registry \ {j}
      /\ status' = [status EXCEPT ![j] = verdict[j]]
      /\ UNCHANGED <<recording, call, railVars, rowVars, verdict, ended, todo, cutting>>
  BY DEF Conclude
<1> USE DEF railVars, slotVars, rowVars
<1>3. verdict[j] \in Ended
  BY <1>2 DEF IInv, EndOK
<1>4. CallTyped' /\ RailTyped' /\ SlotTyped' /\ RowTyped' /\ StopTyped'
  BY <1>1, <1>2, <1>3 DEF CallTyped, RailTyped, SlotTyped, RowTyped, StopTyped, Stage
<1>5. \A k \in Shares : /\ stage'[k] = IF k = j THEN "over" ELSE stage[k]
                        /\ status'[k] = IF k = j THEN verdict[j] ELSE status[k]
  BY <1>1, <1>2 DEF StopTyped
<1>6. Over' = Over /\ \A k \in Shares : RailsOf(k)' = RailsOf(k)
  BY <1>2 DEF Over, RailsOf
<1>7. \A c \in Calls : RailOK(c)'
  BY <1>2, <1>6 DEF IInv, RailOK
<1>8. \A k \in Shares : CurrentOK(k)' /\ BackOK(k)'
  BY <1>2, <1>5, <1>6 DEF IInv, CurrentOK, BackOK, Settled
<1>9. \A k \in Shares : EndOK(k)'
  BY <1>2, <1>5, <1>6 DEF IInv, EndOK
<1>10. \A h \in Rows : RowOK(h)'
  <2> SUFFICES ASSUME NEW h \in Rows PROVE RowOK(h)'
    OBVIOUS
  <2>1. RowOK(h)
    BY DEF IInv
  <2>2. row[h].share = j => h \notin todo /\ h \notin cutting
    BY <1>1, <1>2 DEF RowsOf, StopTyped
  <2> QED
    BY <1>2, <1>5, <2>1, <2>2 DEF RowOK
<1> QED
  BY <1>4, <1>7, <1>8, <1>9, <1>10, NextParts DEF IInv
-----------------------------------------------------------------------------
\* Every step keeps the invariant.
LEMMA StepInv == IInv /\ [Next]_vars => IInv'
<1> SUFFICES ASSUME IInv, [Next]_vars PROVE IInv'
  OBVIOUS
<1>1. CallTyped /\ RailTyped /\ SlotTyped /\ RowTyped /\ StopTyped
  BY TypeParts DEF IInv
<1>2. CASE HolderIdles \/ UNCHANGED vars
  <2>1. recording' \in [Shares -> BOOLEAN] /\ idle' \in BOOLEAN
    BY <1>1, <1>2 DEF HolderIdles, vars, railVars, slotVars, CallTyped, SlotTyped
  <2>2. UNCHANGED <<call, current, rail, registered, holder, rowVars, stopVars>>
    BY <1>2 DEF HolderIdles, vars, railVars, slotVars
  <2> QED
    BY <2>1, <2>2, QuietInv
<1>3. ASSUME NEW c \in Calls, CallStep(c) PROVE IInv'
  <2>1. CASE Tapped(c)
    <3> DEFINE j == call[c].share
               st == IF current[j] = NoCall THEN "ensuring" ELSE "over"
    <3>1. j \in Shares /\ st \in CallState /\ call[c].st # "over"
      BY <2>1 DEF Tapped, IInv, RailOK, CallState
    <3>2. call' = [call EXCEPT ![c] = [st |-> st, share |-> j]]
      BY <1>1, <2>1, CallMoves DEF Tapped
    <3>3. UNCHANGED <<recording, railVars, rowVars, stopVars>>
      BY <2>1 DEF Tapped
    <3> HIDE DEF j, st
    <3> QED
      BY <3>1, <3>2, <3>3, CallInv
  <2>2. CASE EnsureFails(c)
    <3> DEFINE j == call[c].share
    <3>1. j \in Shares /\ "over" \in CallState /\ call[c].st # "over"
      BY <2>2 DEF EnsureFails, IInv, RailOK, CallState
    <3>2. call' = [call EXCEPT ![c] = [st |-> "over", share |-> j]]
      BY <1>1, <2>2, CallMoves DEF EnsureFails
    <3>3. UNCHANGED <<recording, railVars, rowVars, stopVars>>
      BY <2>2 DEF EnsureFails
    <3> HIDE DEF j
    <3> QED
      BY <3>1, <3>2, <3>3, CallInv
  <2> QED
    BY <1>3, <2>1, <2>2, EnsuredInv, IngestedInv, DecidedInv DEF CallStep
<1>4. ASSUME NEW c \in Calls, NEW j \in Shares, Relay(c, j) \/ Tap(c, j) \/ Ingest(c, j) PROVE IInv'
  <2>1. CASE Tap(c, j)
    <3>1. /\ "tapping" \in CallState /\ call[c].st # "over"
          /\ call' = [call EXCEPT ![c] = [st |-> "tapping", share |-> j]]
          /\ UNCHANGED <<recording, railVars, rowVars, stopVars>>
      BY <2>1 DEF Tap, CallState
    <3> QED
      BY <3>1, CallInv
  <2>2. CASE Ingest(c, j)
    <3>1. /\ "ingesting" \in CallState /\ call[c].st # "over"
          /\ call' = [call EXCEPT ![c] = [st |-> "ingesting", share |-> j]]
          /\ UNCHANGED <<recording, railVars, rowVars, stopVars>>
      BY <2>2 DEF Ingest, CallState
    <3> QED
      BY <3>1, CallInv
  <2> QED
    BY <1>4, <2>1, <2>2, RelayInv
<1>5. ASSUME NEW h \in Rows, CutStep(h) PROVE IInv'
  BY <1>5, LiveInv, CutInv DEF CutStep
<1>6. ASSUME NEW j \in Shares, Upload(j) PROVE IInv'
  <2>1. recording' \in [Shares -> BOOLEAN] /\ idle' \in BOOLEAN
    BY <1>1, <1>6 DEF Upload, railVars, slotVars, CallTyped, SlotTyped
  <2>2. UNCHANGED <<call, current, rail, registered, holder, rowVars, stopVars>>
    BY <1>6 DEF Upload, railVars, slotVars
  <2> QED
    BY <2>1, <2>2, QuietInv
<1>7. ASSUME NEW j \in Shares, StopStep(j) PROVE IInv'
  BY <1>7, FlushEndsInv, DrainInv, ConcludeInv, CutInv DEF StopStep
<1> QED
  BY <1>2, <1>3, <1>4, <1>5, <1>6, <1>7, StopInv DEF Next

\* The inductive invariant, of every behaviour.
LEMMA InvHolds == Spec => []IInv
BY InitInv, StepInv, PTL DEF Spec

\* The shares, their rails, rows and ends keep their types: no decide is counted
\* out twice, and no rail has more in flight than the callbacks that reached it
\* and the tail its end decides.
THEOREM TypeCorrect == Spec => []TypeOK
<1>1. IInv => TypeOK
  BY DEF IInv
<1> QED
  BY <1>1, InvHolds, PTL

\* What the settled rail of a share accepted has a clip, or the reason it has none,
\* once the share is done.
THEOREM SettledByStopHolds == Spec => []SettledByStop
<1>1. IInv => SettledByStop
  <2> SUFFICES ASSUME IInv, NEW h \in Rows, NEW j \in Shares, row[h].share = j,
                      status[j] = "done", row[h].from = ended[j], ended[j] # NoCall
               PROVE  row[h].uri \/ row[h].err
    BY DEF SettledByStop
  <2>1. EndOK(j) /\ RowOK(h)
    BY DEF IInv
  <2>2. stage[j] = "over" /\ verdict[j] = "done"
    BY <2>1 DEF EndOK
  <2> QED
    BY <2>1, <2>2 DEF RowOK
<1> QED
  BY <1>1, InvHolds, PTL

\* A share that has ended, and had no other rail than the one its end settled, is
\* out of the depth sharing, and out of the slot when it is done.
THEOREM GivenBackHolds == Spec => []GivenBack
<1>1. IInv => GivenBack
  <2> SUFFICES ASSUME IInv, NEW j \in Shares, status[j] \in Ended, RailsOf(j) \subseteq {ended[j]}
               PROVE  j \notin registered /\ (status[j] = "done" => holder # j)
    BY DEF GivenBack
  <2>1. EndOK(j) /\ BackOK(j)
    BY DEF IInv
  <2>2. stage[j] = "over" /\ status[j] = verdict[j]
    BY <2>1 DEF EndOK, Ended
  <2> QED
    BY <2>1, <2>2 DEF BackOK, Settled
<1> QED
  BY <1>1, InvHolds, PTL

\* A share ends once, the way its first stop or close asked: every step of the
\* share is a step of ShareEnd or a stutter.
THEOREM ImplementsShareEndHolds == Spec => ImplementsShareEnd
<1>1. Init => End!Init
  BY DEF Init, End!Init
<1>2. ASSUME IInv, [Next]_vars PROVE [End!Next]_<<status, verdict>>
  <2> DEFINE Stutter == UNCHANGED <<status, verdict>>
  <2>1. ASSUME NEW c \in Calls, CallStep(c) PROVE Stutter
    BY <2>1 DEF CallStep, Tapped, Ensured, EnsureFails, Ingested, Decided, stopVars
  <2>2. ASSUME NEW c \in Calls, NEW j \in Shares, Relay(c, j) \/ Tap(c, j) \/ Ingest(c, j)
        PROVE  Stutter
    BY <2>2 DEF Relay, Tap, Ingest, stopVars
  <2>3. ASSUME NEW h \in Rows, CutStep(h) PROVE Stutter
    BY <2>3 DEF CutStep, Flushed, WaitTimesOut, LiveCutOk, LiveCutFails, LiveCutRetries,
                StopCutEnds, stopVars
  <2>4. ASSUME NEW j \in Shares, Upload(j) \/ FlushEnds(j) \/ SessionsClosed(j) \/ Drained(j)
        PROVE  Stutter
    BY <2>4 DEF Upload, FlushEnds, SessionsClosed, Drained, stopVars
  <2>5. ASSUME NEW j \in Shares, NEW h \in Rows, StopCut(j, h) \/ StopMisses(j, h) PROVE Stutter
    BY <2>5 DEF StopCut, StopMisses
  <2>6. ASSUME NEW j \in Shares, NEW outcome \in Ended, Stop(j, outcome) PROVE End!Next
    <3>1. stage[j] = "none"
      BY <2>6 DEF Stop
    <3>2. status[j] = "active" /\ verdict[j] = "none"
      BY <1>2, <3>1 DEF IInv, EndOK
    <3>3. End!Decide(j, outcome) /\ outcome \in End!Ended
      BY <2>6, <3>2 DEF Stop, End!Decide, End!Ended, Ended
    <3> QED
      BY <3>3 DEF End!Next
  <2>7. ASSUME NEW j \in Shares, Conclude(j) PROVE End!Next
    <3>1. stage[j] \in {"cut", "miss"}
      BY <2>7 DEF Conclude
    <3>2. status[j] = "active" /\ verdict[j] \in Ended
      BY <1>2, <3>1 DEF IInv, EndOK
    <3>3. End!Conclude(j)
      BY <2>7, <3>2 DEF Conclude, End!Conclude, End!Ended, Ended
    <3> QED
      BY <3>3 DEF End!Next
  <2>8. ASSUME HolderIdles \/ UNCHANGED vars PROVE Stutter
    BY <2>8 DEF HolderIdles, vars, stopVars
  <2> HIDE DEF Stutter
  <2>9. End!Next \/ Stutter
    BY <1>2, <2>1, <2>2, <2>3, <2>4, <2>5, <2>6, <2>7, <2>8 DEF Next, StopStep
  <2> QED
    BY <2>9 DEF Stutter
<1> QED
  BY <1>1, <1>2, InvHolds, PTL DEF Spec, ImplementsShareEnd, End!Spec
=============================================================================
