--------------------------- MODULE EmailQueueProofs ---------------------------
(***************************************************************************)
(* Proofs about the send queue over SQLite, for any number of sends, polls *)
(* and stops: no two polls hold a row, no inbox gets more copies than the  *)
(* attempts allowed, and the queue implements SendLifecycle; and about the *)
(* waitlist allocator that feeds it, whose every step is a step of the     *)
(* queue.                                                                  *)
(***************************************************************************)
EXTENDS WaitlistAllocator, FiniteSetTheorems, TLAPS

\* The claim is one statement.
AtomicClaim == \A t \in Ticks : phase[t] # "selected"

\* The row a tick delivers is off its list.
CurOffList ==
  \A t \in Ticks : phase[t] \in {"accepted", "refused"} => cur[t] \notin todo[t]

\* A held row is in delivery and still has the attempts its claim returned.
HeldIsSending ==
  \A t \in Ticks : \A s \in Held(t) :
    row[s].status = "sending" /\ seen[t][s] = row[s].attempts

\* This attempt of a row on a list has handed over no copy yet.
ListedIsOwed ==
  \A t \in Ticks : phase[t] \in {"next", "accepted", "refused"} =>
    \A s \in todo[t] : copies[s] <= row[s].attempts

AcceptedWasTaken == \A t \in Ticks : phase[t] = "accepted" => copies[cur[t]] > 0

\* How many copies a row may have handed over, by its status.
CopiesOf(s) ==
  /\ row[s].status \in {"absent", "queued"} => copies[s] = 0 /\ row[s].attempts = 0
  /\ row[s].status = "failed" =>
       copies[s] <= row[s].attempts /\ row[s].attempts <= MaxAttempts
  /\ row[s].status = "sending" =>
       copies[s] <= row[s].attempts + 1 /\ row[s].attempts < MaxAttempts
  /\ row[s].status = "sent" =>
       copies[s] \in 1..(row[s].attempts + 1) /\ row[s].attempts < MaxAttempts

IInv ==
  /\ TypeOK /\ AtomicClaim /\ OneClaimer /\ CurOffList /\ HeldIsSending
  /\ ListedIsOwed /\ AcceptedWasTaken
  /\ \A s \in Sends : CopiesOf(s)
-----------------------------------------------------------------------------
LEMMA InitInv == QueueInit => IInv
<1> SUFFICES ASSUME QueueInit PROVE IInv
  OBVIOUS
<1> USE QueueAssumption DEF QueueInit, NewRow
<1>1. TypeOK
  BY DEF TypeOK, Row, Statuses, NoSend
<1>2. AtomicClaim /\ CurOffList /\ ListedIsOwed /\ AcceptedWasTaken
  BY DEF AtomicClaim, CurOffList, ListedIsOwed, AcceptedWasTaken
<1>3. \A t \in Ticks : Held(t) = {}
  BY DEF Held
<1>4. OneClaimer /\ HeldIsSending
  BY <1>3 DEF OneClaimer, HeldIsSending
<1>5. \A s \in Sends : CopiesOf(s)
  BY DEF CopiesOf
<1> QED
  BY <1>1, <1>2, <1>4, <1>5 DEF IInv

\* A new row touches no held one.
LEMMA EnqueueInv ==
  ASSUME IInv, NEW s \in Sends, Enqueue(s) PROVE IInv'
<1> USE QueueAssumption DEF IInv
<1>1. TypeOK'
  BY DEF TypeOK, Enqueue, tickVars, Row, Statuses, NewRow
<1>2. \A t \in Ticks : Held(t)' = Held(t)
  BY DEF Held, Enqueue, tickVars
<1>3. \A t \in Ticks : s \notin Held(t)
  BY DEF HeldIsSending, Enqueue
<1>4. \A e \in Sends : e # s => row'[e] = row[e]
  BY DEF Enqueue, TypeOK
<1>5. copies[s] = 0 /\ row[s].attempts = 0 /\ row'[s] = NewRow
  BY DEF CopiesOf, Enqueue, TypeOK
<1>6. AtomicClaim' /\ CurOffList' /\ AcceptedWasTaken' /\ OneClaimer'
  BY <1>2 DEF AtomicClaim, CurOffList, AcceptedWasTaken, OneClaimer, Enqueue, tickVars
<1>7. HeldIsSending'
  <2> SUFFICES ASSUME NEW t \in Ticks, NEW e \in Held(t)
               PROVE  row'[e].status = "sending" /\ seen'[t][e] = row'[e].attempts
    BY <1>2 DEF HeldIsSending
  <2>1. e \in Sends
    BY DEF Held, TypeOK
  <2> QED
    BY <1>3, <1>4, <2>1 DEF HeldIsSending, Enqueue, tickVars
<1>8. ListedIsOwed'
  <2>1. \A e \in Sends : row'[e].attempts = row[e].attempts
    BY <1>4, <1>5 DEF NewRow
  <2> QED
    BY <2>1 DEF ListedIsOwed, Enqueue, tickVars, TypeOK
<1>9. \A e \in Sends : CopiesOf(e)'
  <2> SUFFICES ASSUME NEW e \in Sends PROVE CopiesOf(e)'
    OBVIOUS
  <2>1. CopiesOf(e) /\ copies'[e] = copies[e]
    BY DEF Enqueue
  <2> QED
    BY <1>4, <1>5, <2>1 DEF CopiesOf, NewRow
<1> QED
  BY <1>1, <1>6, <1>7, <1>8, <1>9

\* A batch is made of rows in no poll's hands, each still owed an attempt.
LEMMA ClaimInv ==
  ASSUME IInv, Sqlite, NEW t \in Ticks, ClaimBatch(t) PROVE IInv'
<1> USE QueueAssumption DEF IInv
<1> DEFINE S == Oldest({s \in Sends : Eligible(s)}, Batch)
<1>1. S \subseteq Sends /\ \A s \in S : Eligible(s)
  BY DEF Oldest
<1>2. Reserve(t, S)
  BY DEF ClaimBatch
<1> HIDE DEF S
<1>3. \A s \in S : /\ row[s].status # "sending" /\ row[s].attempts < MaxAttempts
                   /\ copies[s] <= row[s].attempts
  <2> SUFFICES ASSUME NEW s \in S
               PROVE  /\ row[s].status # "sending" /\ row[s].attempts < MaxAttempts
                      /\ copies[s] <= row[s].attempts
    OBVIOUS
  <2>1. s \in Sends /\ CopiesOf(s) /\ Eligible(s)
    BY <1>1
  <2> QED
    BY <2>1 DEF CopiesOf, Eligible
<1>4. /\ \A s \in S : /\ row'[s] = [row[s] EXCEPT !.status = "sending"]
                      /\ seen'[t][s] = row[s].attempts
      /\ \A s \in Sends \ S : row'[s] = row[s]
      /\ todo'[t] = S /\ phase'[t] = "next" /\ copies' = copies
      /\ \A u \in Ticks \ {t} : seen'[u] = seen[u] /\ todo'[u] = todo[u] /\ phase'[u] = phase[u]
      /\ cur' = cur
  BY <1>1, <1>2 DEF Reserve, TypeOK
<1>5. \A s \in Sends : row'[s] \in Row /\ row'[s].attempts = row[s].attempts
  <2> SUFFICES ASSUME NEW s \in Sends
               PROVE  row'[s] \in Row /\ row'[s].attempts = row[s].attempts
    OBVIOUS
  <2>1. row[s] \in Row
    BY DEF TypeOK
  <2>2. CASE s \in S
    <3>1. row'[s] = [row[s] EXCEPT !.status = "sending"]
      BY <1>4, <2>2
    <3> QED
      BY <2>1, <3>1 DEF Row, Statuses
  <2>3. CASE s \notin S
    BY <1>4, <2>1, <2>3
  <2> QED
    BY <2>2, <2>3
<1>6. TypeOK'
  <2>1. row' \in [Sends -> Row]
    BY <1>2, <1>5 DEF Reserve
  <2>2. seen' \in [Ticks -> [Sends -> Nat]]
    BY <1>2 DEF Reserve, TypeOK, Row
  <2> QED
    BY <1>1, <1>2, <2>1, <2>2 DEF Reserve, TypeOK
<1>7. Held(t)' = S /\ \A u \in Ticks \ {t} : Held(u)' = Held(u)
  BY <1>4 DEF Held
<1>8. \A u \in Ticks : Held(u) \cap S = {}
  BY <1>3 DEF HeldIsSending
<1>9. OneClaimer'
  BY <1>7, <1>8 DEF OneClaimer
<1>10. AtomicClaim' /\ CurOffList' /\ AcceptedWasTaken'
  BY <1>4 DEF AtomicClaim, CurOffList, AcceptedWasTaken
<1>11. HeldIsSending'
  <2> SUFFICES ASSUME NEW u \in Ticks, NEW s \in Held(u)'
               PROVE  row'[s].status = "sending" /\ seen'[u][s] = row'[s].attempts
    BY DEF HeldIsSending
  <2>1. CASE u = t
    <3>1. s \in S /\ row[s] \in Row
      BY <1>1, <1>7, <2>1 DEF TypeOK
    <3> QED
      BY <1>4, <2>1, <3>1 DEF Row
  <2>2. CASE u # t
    <3>1. s \in Held(u) /\ s \notin S
      BY <1>7, <1>8, <2>2
    <3>2. s \in Sends
      BY <3>1 DEF Held, TypeOK
    <3> QED
      BY <1>4, <2>2, <3>1, <3>2 DEF HeldIsSending
  <2> QED
    BY <2>1, <2>2
<1>12. ListedIsOwed'
  <2> SUFFICES ASSUME NEW u \in Ticks, phase'[u] \in {"next", "accepted", "refused"},
                      NEW s \in todo'[u]
               PROVE  copies'[s] <= row'[s].attempts
    BY DEF ListedIsOwed
  <2>1. s \in Sends
    BY <1>6 DEF TypeOK
  <2>2. CASE u = t
    BY <1>3, <1>4, <1>5, <2>1, <2>2
  <2>3. CASE u # t
    BY <1>4, <1>5, <2>1, <2>3 DEF ListedIsOwed
  <2> QED
    BY <2>2, <2>3
<1>13. \A s \in Sends : CopiesOf(s)'
  <2> SUFFICES ASSUME NEW s \in Sends PROVE CopiesOf(s)'
    OBVIOUS
  <2>1. row[s] \in Row /\ copies[s] \in Nat /\ CopiesOf(s)
    BY DEF TypeOK
  <2>2. CASE s \in S
    <3>1. /\ row'[s].status = "sending" /\ row'[s].attempts = row[s].attempts
          /\ copies'[s] = copies[s]
      BY <1>4, <2>1, <2>2 DEF Row
    <3> QED
      BY <1>3, <2>1, <2>2, <3>1 DEF CopiesOf, Row
  <2>3. CASE s \notin S
    BY <1>4, <2>1, <2>3 DEF CopiesOf
  <2> QED
    BY <2>2, <2>3
<1> QED
  BY <1>6, <1>9, <1>10, <1>11, <1>12, <1>13

\* A copy handed over is the first of its attempt.
LEMMA DeliverInv ==
  ASSUME IInv, NEW t \in Ticks, Deliver(t) PROVE IInv'
<1> USE QueueAssumption DEF IInv
<1>1. PICK s \in todo[t], taken \in BOOLEAN, ok \in BOOLEAN :
        /\ ok => taken
        /\ copies' = [copies EXCEPT ![s] = IF taken THEN copies[s] + 1 ELSE copies[s]]
        /\ cur' = [cur EXCEPT ![t] = s]
        /\ todo' = [todo EXCEPT ![t] = todo[t] \ {s}]
        /\ phase' = [phase EXCEPT ![t] = IF ok THEN "accepted" ELSE "refused"]
  BY DEF Deliver
<1>2. s \in Sends /\ copies[s] \in Nat /\ row[s] \in Row /\ s \in Held(t)
  BY DEF TypeOK, Held, Deliver
<1>3. row' = row /\ seen' = seen /\ phase[t] = "next" /\ up' = up /\ stops' = stops
  BY DEF Deliver
<1>4. /\ copies'[s] = IF taken THEN copies[s] + 1 ELSE copies[s]
      /\ \A e \in Sends \ {s} : copies'[e] = copies[e]
      /\ cur'[t] = s /\ todo'[t] = todo[t] \ {s}
      /\ phase'[t] = IF ok THEN "accepted" ELSE "refused"
      /\ \A u \in Ticks \ {t} : cur'[u] = cur[u] /\ todo'[u] = todo[u] /\ phase'[u] = phase[u]
  BY <1>1, <1>2 DEF TypeOK
<1>5. TypeOK'
  <2>1. copies' \in [Sends -> Nat]
    BY <1>1, <1>2 DEF TypeOK
  <2>2. /\ phase' \in [Ticks -> {"idle", "selected", "next", "accepted", "refused"}]
        /\ todo' \in [Ticks -> SUBSET Sends]
        /\ cur' \in [Ticks -> Sends \cup {NoSend}]
    BY <1>1, <1>2 DEF TypeOK
  <2>3. \A u \in Ticks : phase'[u] \in {"accepted", "refused"} => cur'[u] \in Sends
    BY <1>2, <1>4 DEF TypeOK
  <2> QED
    BY <1>3, <2>1, <2>2, <2>3 DEF TypeOK
<1>6. Held(t)' = Held(t) /\ \A u \in Ticks \ {t} : Held(u)' = Held(u)
  <2>1. Held(t) = todo[t]
    BY <1>3 DEF Held
  <2>2. Held(t)' = todo'[t] \cup {cur'[t]}
    BY <1>4 DEF Held
  <2>3. \A u \in Ticks \ {t} : Held(u)' = Held(u)
    BY <1>4 DEF Held
  <2> QED
    BY <1>4, <2>1, <2>2, <2>3
<1>7. OneClaimer' /\ HeldIsSending'
  BY <1>3, <1>6 DEF OneClaimer, HeldIsSending
<1>8. AtomicClaim' /\ CurOffList'
  BY <1>4 DEF AtomicClaim, CurOffList
<1>9. copies[s] <= row[s].attempts
  BY <1>3 DEF ListedIsOwed
<1>10. ListedIsOwed'
  <2> SUFFICES ASSUME NEW u \in Ticks, phase'[u] \in {"next", "accepted", "refused"},
                      NEW e \in todo'[u]
               PROVE  copies'[e] <= row'[e].attempts
    BY DEF ListedIsOwed
  <2>1. e \in Sends
    BY <1>5 DEF TypeOK
  <2>2. CASE u = t
    BY <1>3, <1>4, <2>1, <2>2 DEF ListedIsOwed
  <2>3. CASE u # t
    <3>1. e \in todo[u] /\ phase[u] \in {"next", "accepted", "refused"}
      BY <1>4, <2>3
    <3>2. e \in Held(u)
      BY <3>1 DEF Held
    <3>3. e # s
      BY <1>2, <2>3, <3>2 DEF OneClaimer
    <3> QED
      BY <1>3, <1>4, <2>1, <3>1, <3>3 DEF ListedIsOwed
  <2> QED
    BY <2>2, <2>3
<1>11. AcceptedWasTaken'
  <2> SUFFICES ASSUME NEW u \in Ticks, phase'[u] = "accepted" PROVE copies'[cur'[u]] > 0
    BY DEF AcceptedWasTaken
  <2>1. CASE u = t
    BY <1>1, <1>2, <1>4, <2>1
  <2>2. CASE u # t
    <3>1. cur[u] \in Held(u) /\ cur[u] \in Sends /\ copies[cur[u]] > 0
      BY <1>4, <2>2 DEF Held, TypeOK, AcceptedWasTaken
    <3>2. cur[u] # s
      BY <1>2, <2>2, <3>1 DEF OneClaimer
    <3> QED
      BY <1>4, <2>2, <3>1, <3>2
  <2> QED
    BY <2>1, <2>2
<1>12. \A e \in Sends : CopiesOf(e)'
  <2> SUFFICES ASSUME NEW e \in Sends PROVE CopiesOf(e)'
    OBVIOUS
  <2>1. CASE e = s
    <3>1. row[s].status = "sending" /\ row[s].attempts < MaxAttempts
      BY <1>2 DEF HeldIsSending, CopiesOf
    <3>2. copies'[s] <= row[s].attempts + 1
      BY <1>2, <1>4, <1>9 DEF Row
    <3> QED
      BY <1>3, <2>1, <3>1, <3>2 DEF CopiesOf
  <2>2. CASE e # s
    BY <1>3, <1>4, <2>2 DEF CopiesOf
  <2> QED
    BY <2>1, <2>2
<1> QED
  BY <1>5, <1>7, <1>8, <1>10, <1>11, <1>12

\* What settling the current row of a poll changes.
LEMMA SettleInv ==
  ASSUME IInv, NEW t \in Ticks, phase[t] \in {"accepted", "refused"}, NEW new \in Row,
         row' = [row EXCEPT ![cur[t]] = new],
         phase' = [phase EXCEPT ![t] = "next"],
         UNCHANGED <<todo, cur, seen, copies, up, stops>>,
         CopiesOf(cur[t])'
  PROVE  IInv'
<1> USE QueueAssumption DEF IInv
<1> DEFINE c == cur[t]
<1>1. c \in Sends /\ c \in Held(t) /\ c \notin todo[t]
  BY DEF TypeOK, Held, CurOffList
<1>2. /\ row'[c] = new /\ \A e \in Sends \ {c} : row'[e] = row[e]
      /\ phase'[t] = "next" /\ \A u \in Ticks \ {t} : phase'[u] = phase[u]
  BY <1>1 DEF TypeOK
<1>3. TypeOK'
  <2>1. row' \in [Sends -> Row] /\ phase' \in [Ticks -> {"idle", "selected", "next", "accepted", "refused"}]
    BY <1>1 DEF TypeOK
  <2>2. \A u \in Ticks : phase'[u] \in {"accepted", "refused"} => cur'[u] \in Sends
    BY <1>2 DEF TypeOK
  <2> QED
    BY <2>1, <2>2 DEF TypeOK
<1> HIDE DEF c
<1>4. Held(t)' = todo[t] /\ \A u \in Ticks \ {t} : Held(u)' = Held(u)
  BY <1>2 DEF Held
<1>5. todo[t] \subseteq Held(t)
  BY DEF Held
<1>6. \A u \in Ticks : Held(u)' \subseteq Held(u) /\ c \notin Held(u)'
  <2> SUFFICES ASSUME NEW u \in Ticks PROVE Held(u)' \subseteq Held(u) /\ c \notin Held(u)'
    OBVIOUS
  <2>1. CASE u = t
    BY <1>1, <1>4, <1>5, <2>1
  <2>2. CASE u # t
    BY <1>1, <1>4, <2>2 DEF OneClaimer
  <2> QED
    BY <2>1, <2>2
<1>7. OneClaimer'
  BY <1>6 DEF OneClaimer
<1>8. AtomicClaim' /\ CurOffList'
  BY <1>2 DEF AtomicClaim, CurOffList
<1>9. HeldIsSending'
  <2> SUFFICES ASSUME NEW u \in Ticks, NEW e \in Held(u)'
               PROVE  row'[e].status = "sending" /\ seen'[u][e] = row'[e].attempts
    BY DEF HeldIsSending
  <2>1. e \in Held(u) /\ e # c
    BY <1>6
  <2>2. e \in Sends
    BY <2>1 DEF Held, TypeOK
  <2> QED
    BY <1>2, <2>1, <2>2 DEF HeldIsSending
<1>10. ListedIsOwed'
  <2> SUFFICES ASSUME NEW u \in Ticks, phase'[u] \in {"next", "accepted", "refused"},
                      NEW e \in todo'[u]
               PROVE  copies'[e] <= row'[e].attempts
    BY DEF ListedIsOwed
  <2>1. phase[u] \in {"next", "accepted", "refused"} /\ e \in todo[u] /\ e \in Sends
    BY <1>2 DEF TypeOK
  <2>2. e # c
    <3>1. e \in Held(u)'
      BY DEF Held
    <3> QED
      BY <1>6, <3>1
  <2> QED
    BY <1>2, <2>1, <2>2 DEF ListedIsOwed
<1>11. AcceptedWasTaken'
  BY <1>2 DEF AcceptedWasTaken
<1>12. \A e \in Sends : CopiesOf(e)'
  <2> SUFFICES ASSUME NEW e \in Sends PROVE CopiesOf(e)'
    OBVIOUS
  <2>1. CASE e = c
    BY <2>1 DEF c
  <2>2. CASE e # c
    BY <1>2, <2>2 DEF CopiesOf
  <2> QED
    BY <2>1, <2>2
<1> QED
  BY <1>3, <1>7, <1>8, <1>9, <1>10, <1>11, <1>12

\* What a poll that lets its rows go, or moves on without touching one, changes.
LEMMA ReleaseInv ==
  ASSUME IInv, row' = row, cur' = cur, seen' = seen, copies' = copies, TypeOK', AtomicClaim',
         \A t \in Ticks :
           \/ phase'[t] = "idle"
           \/ /\ todo'[t] = todo[t]
              /\ \/ phase'[t] = phase[t]
                 \/ phase[t] = "accepted" /\ phase'[t] = "refused"
  PROVE  IInv'
<1> USE QueueAssumption DEF IInv
<1>1. \A t \in Ticks : Held(t)' \subseteq Held(t)
  BY DEF Held
<1>2. OneClaimer'
  BY <1>1 DEF OneClaimer
<1>3. HeldIsSending'
  BY <1>1 DEF HeldIsSending
<1>4. CurOffList' /\ ListedIsOwed' /\ AcceptedWasTaken'
  BY DEF CurOffList, ListedIsOwed, AcceptedWasTaken
<1>5. \A s \in Sends : CopiesOf(s)'
  BY DEF CopiesOf
<1> QED
  BY <1>2, <1>3, <1>4, <1>5

LEMMA MarkSentInv ==
  ASSUME IInv, NEW t \in Ticks, MarkSent(t) PROVE IInv'
<1> USE QueueAssumption DEF IInv
<1>1. /\ phase[t] = "accepted" /\ cur[t] \in Sends /\ cur[t] \in Held(t)
      /\ row[cur[t]] \in Row /\ copies[cur[t]] \in Nat
      /\ copies' = copies /\ todo' = todo /\ cur' = cur /\ seen' = seen /\ up' = up /\ stops' = stops
  BY DEF MarkSent, TypeOK, Held
<1>2. CASE /\ row' = [row EXCEPT ![cur[t]] = [row[cur[t]] EXCEPT !.status = "sent"]]
           /\ phase' = [phase EXCEPT ![t] = "next"]
  <2> DEFINE new == [row[cur[t]] EXCEPT !.status = "sent"]
  <2>1. new \in Row /\ new.status = "sent" /\ new.attempts = row[cur[t]].attempts
    BY <1>1 DEF Row, Statuses
  <2>2. row'[cur[t]] = new
    BY <1>1, <1>2 DEF TypeOK
  <2>3. CopiesOf(cur[t])
    BY <1>1
  <2>4. row[cur[t]].status = "sending" /\ copies[cur[t]] > 0
    BY <1>1 DEF HeldIsSending, AcceptedWasTaken
  <2> HIDE DEF new
  <2>5. CopiesOf(cur[t])'
    BY <1>1, <2>1, <2>2, <2>3, <2>4 DEF CopiesOf, Row
  <2>6. row' = [row EXCEPT ![cur[t]] = new]
    BY <1>2 DEF new
  <2> QED
    BY <1>1, <1>2, <2>1, <2>5, <2>6, SettleInv
<1>3. CASE row' = row /\ phase' = [phase EXCEPT ![t] = "refused"]
  <2>1. TypeOK' /\ AtomicClaim'
    BY <1>1, <1>3 DEF TypeOK, AtomicClaim
  <2> QED
    BY <1>1, <1>3, <2>1, ReleaseInv DEF TypeOK
<1> QED
  BY <1>2, <1>3 DEF MarkSent

LEMMA MarkFailedInv ==
  ASSUME IInv, NEW t \in Ticks, MarkFailed(t) PROVE IInv'
<1> USE QueueAssumption DEF IInv
<1>1. /\ phase[t] = "refused" /\ cur[t] \in Sends /\ cur[t] \in Held(t)
      /\ row[cur[t]] \in Row /\ copies[cur[t]] \in Nat
      /\ copies' = copies /\ cur' = cur /\ seen' = seen /\ up' = up /\ stops' = stops
  BY DEF MarkFailed, TypeOK, Held
<1>2. CASE /\ row' = [row EXCEPT ![cur[t]] = Failed(seen[t][cur[t]] + 1)]
           /\ phase' = [phase EXCEPT ![t] = "next"] /\ todo' = todo
  <2> DEFINE new == Failed(seen[t][cur[t]] + 1)
  <2>1. row[cur[t]].status = "sending" /\ seen[t][cur[t]] = row[cur[t]].attempts
    BY <1>1 DEF HeldIsSending
  <2>2. new \in Row /\ new.status = "failed" /\ new.attempts = row[cur[t]].attempts + 1
    BY <1>1, <2>1 DEF Failed, Row, Statuses
  <2>3. row'[cur[t]] = new
    BY <1>1, <1>2 DEF TypeOK
  <2>4. CopiesOf(cur[t])
    BY <1>1
  <2> HIDE DEF new
  <2>5. CopiesOf(cur[t])'
    BY <1>1, <2>1, <2>2, <2>3, <2>4 DEF CopiesOf, Row
  <2>6. row' = [row EXCEPT ![cur[t]] = new]
    BY <1>2 DEF new
  <2> QED
    BY <1>1, <1>2, <2>2, <2>5, <2>6, SettleInv
<1>3. CASE /\ row' = row /\ phase' = [phase EXCEPT ![t] = "idle"]
           /\ todo' = [todo EXCEPT ![t] = {}]
  <2>1. TypeOK' /\ AtomicClaim'
    BY <1>1, <1>3 DEF TypeOK, AtomicClaim
  <2> QED
    BY <1>1, <1>3, <2>1, ReleaseInv DEF TypeOK
<1> QED
  BY <1>2, <1>3 DEF MarkFailed

LEMMA ElapseInv ==
  ASSUME IInv, NEW s \in Sends, Elapse(s) PROVE IInv'
<1> USE QueueAssumption DEF IInv
<1>1. /\ todo' = todo /\ phase' = phase /\ cur' = cur /\ seen' = seen
      /\ copies' = copies /\ up' = up /\ stops' = stops
  BY DEF Elapse, tickVars
<1>2. \A e \in Sends : /\ row'[e] \in Row /\ row'[e].status = row[e].status
                       /\ row'[e].attempts = row[e].attempts
  BY DEF Elapse, TypeOK, Row
<1>3. TypeOK'
  BY <1>1, <1>2 DEF TypeOK, Elapse
<1>4. \A t \in Ticks : Held(t)' = Held(t) /\ Held(t) \subseteq Sends
  BY <1>1 DEF Held, TypeOK
<1>5. OneClaimer' /\ HeldIsSending'
  BY <1>1, <1>2, <1>4 DEF OneClaimer, HeldIsSending
<1>6. AtomicClaim' /\ CurOffList' /\ AcceptedWasTaken'
  BY <1>1 DEF AtomicClaim, CurOffList, AcceptedWasTaken
<1>7. ListedIsOwed'
  BY <1>1, <1>2 DEF ListedIsOwed, TypeOK
<1>8. \A e \in Sends : CopiesOf(e)'
  BY <1>1, <1>2 DEF CopiesOf
<1> QED
  BY <1>3, <1>5, <1>6, <1>7, <1>8

LEMMA StepInv ==
  ASSUME Sqlite, IInv, [Next]_queueVars PROVE IInv'
<1>1. ASSUME NEW s \in Sends, Enqueue(s) PROVE IInv'
  BY <1>1, EnqueueInv
<1>2. ASSUME NEW t \in Ticks, TickStep(t) PROVE IInv'
  <2>1. ~ClaimSelected(t)
    BY DEF ClaimSelected, IInv, AtomicClaim
  <2>2. CASE End(t)
    <3>1. TypeOK' /\ AtomicClaim'
      BY <2>2 DEF End, IInv, TypeOK, AtomicClaim
    <3> QED
      BY <2>2, <3>1, ReleaseInv DEF End, IInv, TypeOK
  <2> QED
    BY <1>2, <2>1, <2>2, ClaimInv, DeliverInv, MarkSentInv, MarkFailedInv DEF TickStep, Claim
<1>3. ASSUME NEW s \in Sends, Elapse(s) PROVE IInv'
  BY <1>3, ElapseInv
<1>4. CASE Stop
  <2>1. stops' \in 0..MaxStops
    BY <1>4, QueueAssumption DEF Stop, IInv, TypeOK
  <2>2. \A t \in Ticks : phase'[t] = "idle" /\ todo'[t] = {}
    BY <1>4 DEF Stop
  <2>3. TypeOK'
    BY <1>4, <2>1, <2>2 DEF Stop, IInv, TypeOK
  <2>4. AtomicClaim'
    BY <2>2 DEF AtomicClaim
  <2> QED
    BY <1>4, <2>2, <2>3, <2>4, ReleaseInv DEF Stop
<1>5. CASE Start \/ UNCHANGED queueVars
  <2>1. /\ row' = row /\ cur' = cur /\ seen' = seen /\ copies' = copies
        /\ todo' = todo /\ phase' = phase /\ stops' = stops /\ up' \in BOOLEAN
    BY <1>5 DEF Start, queueVars, tickVars, IInv, TypeOK
  <2>2. TypeOK'
    BY <2>1, IInv DEF IInv, TypeOK
  <2>3. AtomicClaim'
    BY <2>1, IInv DEF IInv, AtomicClaim
  <2> QED
    BY <2>1, <2>2, <2>3, ReleaseInv
<1> QED
  BY <1>1, <1>2, <1>3, <1>4, <1>5 DEF Next, QueueStep

LEMMA InvHolds ==
  ASSUME Sqlite PROVE Spec => []IInv
<1>1. QueueInit => IInv
  BY InitInv
<1>2. IInv /\ [Next]_queueVars => IInv'
  BY StepInv
<1> QED
  BY <1>1, <1>2, PTL DEF Spec

-----------------------------------------------------------------------------
\* Overlapping polls never hold the same row, so none is delivered by two.
THEOREM OneClaimerHolds == ASSUME Sqlite PROVE Spec => []OneClaimer
<1>1. IInv => OneClaimer
  BY DEF IInv
<1> QED
  BY <1>1, InvHolds, PTL

\* No inbox gets more copies of a send than it has attempts, whatever the
\* faults and the stops.
THEOREM CopiesBoundedHolds == ASSUME Sqlite PROVE Spec => []CopiesBounded
<1>1. IInv => CopiesBounded
  <2> SUFFICES ASSUME IInv, NEW s \in Sends PROVE copies[s] <= MaxAttempts
    BY DEF CopiesBounded
  <2>1. row[s] \in Row /\ copies[s] \in Nat /\ CopiesOf(s)
    BY DEF IInv, TypeOK
  <2> QED
    BY <2>1, QueueAssumption DEF CopiesOf, Row, Statuses
<1> QED
  BY <1>1, InvHolds, PTL

\* Over SQLite a row marked sent is one the relay really took (markSent is only
\* reached from an accepted delivery).
THEOREM SentWasTakenHolds == ASSUME Sqlite PROVE Spec => []SentWasTaken
<1>1. IInv => SentWasTaken
  <2> SUFFICES ASSUME IInv, NEW s \in Sends, row[s].status = "sent" PROVE copies[s] > 0
    BY DEF SentWasTaken
  <2>1. row[s] \in Row /\ CopiesOf(s)
    BY DEF IInv, TypeOK
  <2> QED
    BY <2>1 DEF CopiesOf, Row
<1> QED
  BY <1>1, InvHolds, PTL

\* The queue moves its rows as SendLifecycle says a send may move.
THEOREM ImplementsLifecycleHolds == ASSUME Sqlite PROVE Spec => ImplementsLifecycle
<1> USE QueueAssumption
<1> DEFINE st == [s \in Sends |-> row[s].status]
           at == [s \in Sends |-> row[s].attempts]
           Stutter == st' = st /\ at' = at /\ copies' = copies
<1>1. QueueInit => Lifecycle!Init
  BY DEF QueueInit, NewRow, Lifecycle!Init
<1>2. ASSUME IInv, IInv', [Next]_queueVars PROVE [Lifecycle!Next]_Lifecycle!vars
  <2> SUFFICES Lifecycle!Next \/ Stutter
    BY DEF Lifecycle!vars
  <2>a. /\ \A s \in Sends : row[s] \in Row /\ row'[s] \in Row
        /\ row \in [Sends -> Row] /\ row' \in [Sends -> Row] /\ copies \in [Sends -> Nat]
    BY <1>2 DEF IInv, TypeOK
  <2>1. ASSUME NEW s \in Sends, Enqueue(s) PROVE Lifecycle!Enqueue(s)
    <3>1. row[s].status = "absent" /\ row[s].attempts = 0
      BY <1>2, <2>1 DEF Enqueue, IInv, CopiesOf
    <3>2. \A e \in Sends : /\ row'[e].status = IF e = s THEN "queued" ELSE row[e].status
                           /\ row'[e].attempts = row[e].attempts
      BY <2>1, <2>a, <3>1 DEF Enqueue, NewRow
    <3>3. copies' = copies
      BY <2>1 DEF Enqueue
    <3> QED
      BY <3>1, <3>2, <3>3 DEF Lifecycle!Enqueue
  <2>2. ASSUME NEW t \in Ticks, ClaimBatch(t) PROVE \E S \in SUBSET Sends : Lifecycle!Reserve(S)
    <3>1. PICK S \in SUBSET Sends : S = Oldest({s \in Sends : Eligible(s)}, Batch)
      BY DEF Oldest
    <3>e. \A s \in S : Eligible(s)
      BY <3>1 DEF Oldest
    <3>2. /\ row' = [s \in Sends |-> IF s \in S THEN [row[s] EXCEPT !.status = "sending"] ELSE row[s]]
          /\ copies' = copies
      BY <2>2, <3>1 DEF ClaimBatch, Reserve
    <3>3. \A s \in S : row[s].status \in {"queued", "failed"} /\ row[s].attempts < MaxAttempts
      <4> SUFFICES ASSUME NEW s \in S
                   PROVE row[s].status \in {"queued", "failed"} /\ row[s].attempts < MaxAttempts
        OBVIOUS
      <4>1. Eligible(s) /\ CopiesOf(s)
        BY <1>2, <3>e DEF IInv
      <4> QED
        BY <4>1 DEF Eligible, CopiesOf
    <3>4. \A s \in Sends : /\ row'[s].status = IF s \in S THEN "sending" ELSE row[s].status
                           /\ row'[s].attempts = row[s].attempts
      BY <2>a, <3>2 DEF Row
    <3>5. Lifecycle!Reserve(S)
      BY <3>2, <3>3, <3>4 DEF Lifecycle!Reserve
    <3> QED
      BY <3>5
  <2>3. ASSUME NEW t \in Ticks, Deliver(t)
        PROVE  Lifecycle!Next \/ Stutter
    <3>1. PICK s \in todo[t], taken \in BOOLEAN :
            copies' = [copies EXCEPT ![s] = IF taken THEN copies[s] + 1 ELSE copies[s]]
      BY <2>3 DEF Deliver
    <3>2. s \in Sends /\ row' = row /\ s \in Held(t) /\ phase[t] = "next"
      BY <1>2, <2>3 DEF Deliver, IInv, TypeOK, Held
    <3>3. row[s].status = "sending" /\ copies[s] <= row[s].attempts
      BY <1>2, <3>2 DEF IInv, HeldIsSending, ListedIsOwed
    <3>4. CASE taken
      <4>1. Lifecycle!HandOver(s)
        BY <2>a, <3>1, <3>2, <3>3, <3>4 DEF Lifecycle!HandOver
      <4> QED
        BY <3>2, <4>1 DEF Lifecycle!Next
    <3>5. CASE ~taken
      BY <2>a, <3>1, <3>2, <3>5
    <3> QED
      BY <3>4, <3>5
  <2>4. ASSUME NEW t \in Ticks, MarkSent(t)
        PROVE  Lifecycle!Next \/ Stutter
    <3>0. PICK s \in Sends : s = cur[t]
      BY <1>2, <2>4 DEF MarkSent, IInv, TypeOK
    <3>1. copies[s] > 0 /\ row[s].status = "sending" /\ copies' = copies
      BY <1>2, <2>4, <3>0 DEF MarkSent, IInv, AcceptedWasTaken, HeldIsSending, Held
    <3>2. CASE row' = [row EXCEPT ![s] = [row[s] EXCEPT !.status = "sent"]]
      <4>1. \A e \in Sends : /\ row'[e].status = IF e = s THEN "sent" ELSE row[e].status
                             /\ row'[e].attempts = row[e].attempts
        BY <2>a, <3>2 DEF Row
      <4>2. Lifecycle!Accept(s)
        BY <3>1, <4>1 DEF Lifecycle!Accept
      <4> QED
        BY <4>2 DEF Lifecycle!Next
    <3>3. CASE row' = row
      BY <3>1, <3>3
    <3> QED
      BY <2>4, <3>0, <3>2, <3>3 DEF MarkSent
  <2>5. ASSUME NEW t \in Ticks, MarkFailed(t)
        PROVE  Lifecycle!Next \/ Stutter
    <3>0. PICK s \in Sends : s = cur[t]
      BY <1>2, <2>5 DEF MarkFailed, IInv, TypeOK
    <3>1. row[s].status = "sending" /\ seen[t][s] = row[s].attempts /\ copies' = copies
      BY <1>2, <2>5, <3>0 DEF MarkFailed, IInv, HeldIsSending, Held
    <3>2. CASE row' = [row EXCEPT ![s] = Failed(seen[t][s] + 1)]
      <4>1. row[s].attempts < MaxAttempts
        BY <1>2, <3>1 DEF IInv, CopiesOf
      <4>2. \A e \in Sends :
              /\ row'[e].status = IF e = s THEN "failed" ELSE row[e].status
              /\ row'[e].attempts = IF e = s THEN row[e].attempts + 1 ELSE row[e].attempts
        BY <2>a, <3>1, <3>2 DEF Failed
      <4>3. Lifecycle!Refuse(s)
        BY <3>1, <4>1, <4>2 DEF Lifecycle!Refuse
      <4> QED
        BY <4>3 DEF Lifecycle!Next
    <3>3. CASE row' = row
      BY <3>1, <3>3
    <3> QED
      BY <2>5, <3>0, <3>2, <3>3 DEF MarkFailed
  <2>6. ASSUME NEW s \in Sends, Elapse(s) PROVE Stutter
    <3>1. \A e \in Sends : row'[e].status = row[e].status /\ row'[e].attempts = row[e].attempts
      BY <2>6, <2>a DEF Elapse, Row
    <3> QED
      BY <2>6, <3>1 DEF Elapse
  <2>7. ASSUME \/ \E t \in Ticks : End(t)
               \/ Stop \/ Start \/ UNCHANGED queueVars
        PROVE  Stutter
    BY <2>7 DEF End, Stop, Start, queueVars, tickVars
  <2>8. \A t \in Ticks : ~ClaimSelected(t)
    BY <1>2 DEF ClaimSelected, IInv, AtomicClaim
  <2> HIDE DEF Stutter
  <2> QED
    BY <1>2, <2>1, <2>2, <2>3, <2>4, <2>5, <2>6, <2>7, <2>8
    DEF Next, QueueStep, TickStep, Claim, Lifecycle!Next
<1> QED
  BY <1>1, <1>2, InvHolds, PTL DEF Spec, ImplementsLifecycle, Lifecycle!Spec
-----------------------------------------------------------------------------
(***************************************************************************)
(* Over either database: types, and what no step of the queue does.        *)
(***************************************************************************)

LEMMA TypeInit == QueueInit => TypeOK
BY QueueAssumption DEF QueueInit, TypeOK, Row, Statuses, NewRow, NoSend

\* The rows a poll may reserve are rows of the queue.
LEMMA ClaimedRows ==
  ASSUME TypeOK, NEW t \in Ticks, Claim(t)
  PROVE  \/ \E S \in SUBSET Sends : Reserve(t, S)
         \/ \E S \in SUBSET Sends :
              /\ phase' = [phase EXCEPT ![t] = "selected"]
              /\ todo' = [todo EXCEPT ![t] = S]
              /\ UNCHANGED <<row, cur, seen, copies, up, stops>>
<1>1. CASE ClaimBatch(t)
  <2>1. PICK S \in SUBSET Sends : S = Oldest({s \in Sends : Eligible(s)}, Batch)
    BY DEF Oldest
  <2> QED
    BY <1>1, <2>1 DEF ClaimBatch
<1>2. CASE ClaimSelected(t)
  <2>1. todo[t] \in SUBSET Sends
    BY DEF TypeOK
  <2> QED
    BY <1>2, <2>1 DEF ClaimSelected
<1> QED
  BY <1>1, <1>2 DEF Claim

LEMMA ClaimTyped ==
  ASSUME TypeOK, NEW t \in Ticks, Claim(t) PROVE TypeOK'
<1>1. ASSUME NEW S \in SUBSET Sends, Reserve(t, S) PROVE TypeOK'
  <2>1. row' \in [Sends -> Row]
    <3> DEFINE f == [s \in Sends |-> IF s \in S THEN [row[s] EXCEPT !.status = "sending"] ELSE row[s]]
    <3>1. ASSUME NEW s \in Sends PROVE f[s] \in Row
      <4>1. row[s] \in Row
        BY DEF TypeOK
      <4> QED
        BY <4>1 DEF Row, Statuses
    <3> QED
      BY <1>1, <3>1 DEF Reserve
  <2>2. seen' \in [Ticks -> [Sends -> Nat]]
    <3> DEFINE f == [s \in Sends |-> IF s \in S THEN row[s].attempts ELSE 0]
    <3>1. f \in [Sends -> Nat]
      BY DEF TypeOK, Row
    <3> HIDE DEF f
    <3>2. seen' = [seen EXCEPT ![t] = f]
      BY <1>1 DEF Reserve, f
    <3> QED
      BY <3>1, <3>2 DEF TypeOK
  <2> QED
    BY <1>1, <2>1, <2>2 DEF Reserve, TypeOK
<1>2. ASSUME NEW S \in SUBSET Sends, phase' = [phase EXCEPT ![t] = "selected"],
             todo' = [todo EXCEPT ![t] = S], UNCHANGED <<row, cur, seen, copies, up, stops>>
      PROVE  TypeOK'
  BY <1>2 DEF TypeOK
<1> QED
  BY <1>1, <1>2, ClaimedRows

LEMMA SettleTyped ==
  ASSUME TypeOK, NEW t \in Ticks, Deliver(t) \/ MarkSent(t) \/ MarkFailed(t) \/ End(t)
  PROVE  TypeOK'
<1>1. CASE Deliver(t)
  <2>1. PICK s \in todo[t], taken \in BOOLEAN, ok \in BOOLEAN :
          /\ copies' = [copies EXCEPT ![s] = IF taken THEN copies[s] + 1 ELSE copies[s]]
          /\ cur' = [cur EXCEPT ![t] = s]
          /\ todo' = [todo EXCEPT ![t] = todo[t] \ {s}]
          /\ phase' = [phase EXCEPT ![t] = IF ok THEN "accepted" ELSE "refused"]
    BY <1>1 DEF Deliver
  <2>2. s \in Sends /\ row' = row /\ seen' = seen /\ up' = up /\ stops' = stops
    BY <1>1 DEF Deliver, TypeOK
  <2>3. copies' \in [Sends -> Nat]
    BY <2>1, <2>2 DEF TypeOK
  <2>4. \A u \in Ticks : phase'[u] \in {"accepted", "refused"} => cur'[u] \in Sends
    BY <2>1, <2>2 DEF TypeOK
  <2> QED
    BY <2>1, <2>2, <2>3, <2>4 DEF TypeOK
<1>2. CASE MarkSent(t)
  <2>1. cur[t] \in Sends /\ row[cur[t]] \in Row
    BY <1>2 DEF MarkSent, TypeOK
  <2>2. [row[cur[t]] EXCEPT !.status = "sent"] \in Row
    BY <2>1 DEF Row, Statuses
  <2>3. row' \in [Sends -> Row]
    BY <1>2, <2>2 DEF MarkSent, TypeOK
  <2> QED
    BY <1>2, <2>1, <2>3 DEF MarkSent, TypeOK
<1>3. CASE MarkFailed(t)
  <2>1. cur[t] \in Sends /\ seen[t][cur[t]] \in Nat
    BY <1>3 DEF MarkFailed, TypeOK
  <2>2. Failed(seen[t][cur[t]] + 1) \in Row
    BY <2>1 DEF Failed, Row, Statuses
  <2>3. row' \in [Sends -> Row]
    BY <1>3, <2>2 DEF MarkFailed, TypeOK
  <2> QED
    BY <1>3, <2>1, <2>3 DEF MarkFailed, TypeOK
<1>4. CASE End(t)
  BY <1>4 DEF End, TypeOK
<1> QED
  BY <1>1, <1>2, <1>3, <1>4

LEMMA TypeStep ==
  ASSUME TypeOK, [Next]_queueVars PROVE TypeOK'
<1>1. ASSUME NEW s \in Sends, Enqueue(s) PROVE TypeOK'
  BY <1>1 DEF Enqueue, TypeOK, tickVars, Row, Statuses, NewRow
<1>2. ASSUME NEW t \in Ticks, TickStep(t) PROVE TypeOK'
  BY <1>2, ClaimTyped, SettleTyped DEF TickStep
<1>3. ASSUME NEW s \in Sends, Elapse(s) PROVE TypeOK'
  <2>1. [row[s] EXCEPT !.retry = "due"] \in Row
    BY DEF TypeOK, Row
  <2> QED
    BY <1>3, <2>1 DEF Elapse, TypeOK, tickVars
<1>4. CASE Stop
  <2>1. stops' \in 0..MaxStops
    BY <1>4, QueueAssumption DEF Stop, TypeOK
  <2>2. \A t \in Ticks : phase'[t] = "idle" /\ todo'[t] = {}
    BY <1>4 DEF Stop
  <2> QED
    BY <1>4, <2>1, <2>2 DEF Stop, TypeOK
<1>5. CASE Start
  BY <1>5 DEF Start, TypeOK, tickVars
<1>6. CASE UNCHANGED queueVars
  BY <1>6 DEF queueVars, tickVars, TypeOK
<1> QED
  BY <1>1, <1>2, <1>3, <1>4, <1>5, <1>6 DEF Next, QueueStep

\* The rows, the polls and the history keep their types, over either database.
THEOREM TypeCorrect == Spec => []TypeOK
<1>1. QueueInit => TypeOK
  BY TypeInit
<1>2. TypeOK /\ [Next]_queueVars => TypeOK'
  BY TypeStep
<1> QED
  BY <1>1, <1>2, PTL DEF Spec

\* A row is enqueued once: no step takes it away.
LEMMA RowsStay ==
  ASSUME TypeOK, QueueStep \/ Start \/ Stop, NEW s \in Sends, row'[s].status = "absent"
  PROVE  row[s].status = "absent"
<1>1. ASSUME NEW t \in Ticks, Claim(t) PROVE row[s].status = "absent"
  <2>1. ASSUME NEW S \in SUBSET Sends, Reserve(t, S) PROVE row[s].status = "absent"
    BY <2>1 DEF Reserve, TypeOK, Row
  <2> QED
    BY <1>1, <2>1, ClaimedRows
<1>2. ASSUME NEW t \in Ticks, MarkSent(t) PROVE row[s].status = "absent"
  BY <1>2 DEF MarkSent, TypeOK, Row
<1>3. ASSUME NEW t \in Ticks, MarkFailed(t) PROVE row[s].status = "absent"
  BY <1>3 DEF MarkFailed, Failed, TypeOK, Row
<1>4. ASSUME NEW e \in Sends, Elapse(e) PROVE row[s].status = "absent"
  BY <1>4 DEF Elapse, TypeOK, Row
<1>5. CASE (\E t \in Ticks : Deliver(t) \/ End(t)) \/ Start \/ Stop
  BY <1>5 DEF Deliver, End, Start, Stop
<1> QED
  BY <1>1, <1>2, <1>3, <1>4, <1>5 DEF QueueStep, TickStep
-----------------------------------------------------------------------------
(***************************************************************************)
(* The allocator over the queue.                                           *)
(***************************************************************************)

Invitations == {NoInvite} \cup [to : Signups, by : {"allocator", "admin"}]

WaitTyped ==
  /\ signup \in [Signups -> {"absent", "waitlisted", "invited"}]
  /\ aphase \in [Allocs -> {"idle", "open", "selected", "enqueue"}]
  /\ claimed \in [Allocs -> SUBSET Signups]
  /\ invite \in [Sends -> Invitations]

\* A poll holds claims only from its claim to the end of its batch, and only
\* while the email sender runs; a send not yet enqueued carries nothing.
PollsOK ==
  /\ ~up => \A a \in Allocs : aphase[a] = "idle"
  /\ \A a \in Allocs : aphase[a] \in {"idle", "open"} => claimed[a] = {}
  /\ \A s \in Sends : row[s].status = "absent" => invite[s] = NoInvite

WaitInv == TypeOK /\ WaitTyped /\ PollsOK

LEMMA WaitInitInv == Init => WaitInv
<1> SUFFICES ASSUME Init PROVE WaitInv
  OBVIOUS
<1>1. TypeOK
  BY TypeInit DEF Init
<1>2. WaitTyped
  BY DEF Init, WaitTyped, Invitations
<1>3. PollsOK
  BY DEF Init, PollsOK, QueueInit
<1> QED
  BY <1>1, <1>2, <1>3 DEF WaitInv

\* What each step of the composition does to the queue: a step of the queue.
LEMMA WaitStepsQueue ==
  ASSUME WaitInv, [WaitNext]_vars PROVE [Next]_queueVars
<1>1. ASSUME NEW p \in Signups, SignUp(p) \/ AdminInvite(p) PROVE UNCHANGED queueVars
  BY <1>1 DEF SignUp, AdminInvite
<1>2. ASSUME NEW p \in Signups, AdminPost(p) PROVE [Next]_queueVars
  BY <1>2 DEF AdminPost, EnqueueInvite, Next
<1>3. ASSUME NEW a \in Allocs, AllocStep(a) PROVE [Next]_queueVars
  <2>1. CASE ReadGate(a) \/ ClaimSignups(a) \/ FlipSelected(a)
    BY <2>1 DEF ReadGate, ClaimSignups, FlipSelected, Flip
  <2>2. CASE EnqueueClaimed(a)
    <3>1. up
      BY <2>2 DEF EnqueueClaimed, WaitInv, PollsOK, TypeOK
    <3> QED
      BY <2>2, <3>1 DEF EnqueueClaimed, EnqueueInvite, Next
  <2> QED
    BY <1>3, <2>1, <2>2 DEF AllocStep
<1>4. CASE SetGate \/ UNCHANGED vars
  BY <1>4 DEF SetGate, vars
<1>5. CASE ((QueueStep \/ Start) /\ UNCHANGED waitVars) \/ StopSender
  BY <1>5 DEF StopSender, Next
<1> QED
  BY <1>1, <1>2, <1>3, <1>4, <1>5 DEF WaitNext

\* The invite of p goes to a send that carried nothing.
LEMMA InviteAdds ==
  ASSUME WaitInv, NEW p \in Signups, NEW who \in {"allocator", "admin"}, EnqueueInvite(p, who)
  PROVE  \E s \in Sends :
           /\ invite[s] = NoInvite /\ row'[s].status # "absent" /\ up' = up
           /\ invite' = [invite EXCEPT ![s] = [to |-> p, by |-> who]]
           /\ \A e \in Sends : row'[e].status = "absent" => row[e].status = "absent"
           /\ invite' \in [Sends -> Invitations]
<1>1. PICK s \in Sends : Enqueue(s) /\ invite' = [invite EXCEPT ![s] = [to |-> p, by |-> who]]
  BY DEF EnqueueInvite
<1>2. invite[s] = NoInvite /\ up' = up /\ row' = [row EXCEPT ![s] = NewRow]
  BY <1>1 DEF Enqueue, WaitInv, PollsOK
<1>3. \A e \in Sends : row'[e].status = "absent" => e # s /\ row[e].status = "absent"
  BY <1>2 DEF WaitInv, TypeOK, NewRow
<1>4. [to |-> p, by |-> who] \in Invitations
  BY DEF Invitations
<1>5. invite' \in [Sends -> Invitations]
  BY <1>1, <1>4 DEF WaitInv, WaitTyped
<1> QED
  BY <1>1, <1>2, <1>3, <1>5

LEMMA WaitStepInv ==
  ASSUME WaitInv, [WaitNext]_vars PROVE WaitInv'
<1> USE DEF WaitInv
<1>1. TypeOK'
  BY WaitStepsQueue, TypeStep
<1>2. ASSUME NEW p \in Signups, SignUp(p) \/ AdminInvite(p) PROVE WaitTyped' /\ PollsOK'
  BY <1>2 DEF SignUp, AdminInvite, queueVars, WaitTyped, PollsOK
<1>3. ASSUME NEW p \in Signups, AdminPost(p) PROVE WaitTyped' /\ PollsOK'
  <2>1. signup' = signup /\ aphase' = aphase /\ claimed' = claimed
    BY <1>3 DEF AdminPost
  <2>2. CASE EnqueueInvite(p, "admin")
    <3>1. PICK s \in Sends :
            /\ row'[s].status # "absent" /\ up' = up
            /\ invite' = [invite EXCEPT ![s] = [to |-> p, by |-> "admin"]]
            /\ \A e \in Sends : row'[e].status = "absent" => row[e].status = "absent"
            /\ invite' \in [Sends -> Invitations]
      BY <2>2, InviteAdds
    <3> QED
      BY <2>1, <3>1 DEF WaitTyped, PollsOK
  <2>3. CASE UNCHANGED <<queueVars, invite>>
    BY <2>1, <2>3 DEF queueVars, WaitTyped, PollsOK
  <2> QED
    BY <1>3, <2>2, <2>3 DEF AdminPost
<1>4. ASSUME NEW a \in Allocs, ReadGate(a) PROVE WaitTyped' /\ PollsOK'
  BY <1>4 DEF ReadGate, queueVars, WaitTyped, PollsOK
<1>5. ASSUME NEW a \in Allocs, ClaimSignups(a) \/ FlipSelected(a) PROVE WaitTyped' /\ PollsOK'
  <2>1. /\ UNCHANGED <<queueVars, invite>> /\ up
        /\ \E P \in SUBSET Signups, q \in {"idle", "selected", "enqueue"} :
             /\ q = "idle" => P = {}
             /\ claimed' = [claimed EXCEPT ![a] = P]
             /\ aphase' = [aphase EXCEPT ![a] = q]
    <3>1. /\ Oldest({p \in Signups : signup[p] = "waitlisted"}, AllocBatch) \in SUBSET Signups
          /\ claimed[a] \in SUBSET Signups
      BY DEF Oldest, WaitTyped
    <3>2. up
      BY <1>5 DEF ClaimSignups, FlipSelected, PollsOK, TypeOK
    <3>3. ASSUME NEW P \in SUBSET Signups, Flip(a, P)
          PROVE  /\ UNCHANGED <<queueVars, invite>>
                 /\ \E R \in SUBSET Signups, q \in {"idle", "selected", "enqueue"} :
                      /\ q = "idle" => R = {}
                      /\ claimed' = [claimed EXCEPT ![a] = R]
                      /\ aphase' = [aphase EXCEPT ![a] = q]
      BY <3>3 DEF Flip
    <3> QED
      BY <1>5, <3>1, <3>2, <3>3 DEF ClaimSignups, FlipSelected
  <2>2. signup' \in [Signups -> {"absent", "waitlisted", "invited"}]
    BY <1>5 DEF ClaimSignups, FlipSelected, Flip, WaitTyped
  <2> QED
    BY <2>1, <2>2 DEF queueVars, WaitTyped, PollsOK
<1>6. ASSUME NEW a \in Allocs, EnqueueClaimed(a) PROVE WaitTyped' /\ PollsOK'
  <2>1. PICK p \in Signups :
          /\ p \in claimed[a] /\ claimed' = [claimed EXCEPT ![a] = claimed[a] \ {p}]
          /\ EnqueueInvite(p, "allocator") \/ UNCHANGED <<queueVars, invite>>
    BY <1>6 DEF EnqueueClaimed, Oldest, WaitTyped
  <2>2. /\ aphase[a] = "enqueue" /\ signup' = signup /\ up
        /\ aphase' = [aphase EXCEPT ![a] = IF claimed'[a] = {} THEN "idle" ELSE aphase[a]]
    BY <1>6 DEF EnqueueClaimed, PollsOK, TypeOK
  <2>3. /\ up' = up /\ invite' \in [Sends -> Invitations]
        /\ \A s \in Sends : row'[s].status = "absent" => invite'[s] = NoInvite
    <3>1. CASE EnqueueInvite(p, "allocator")
      <4>1. PICK s \in Sends :
              /\ row'[s].status # "absent" /\ up' = up
              /\ invite' = [invite EXCEPT ![s] = [to |-> p, by |-> "allocator"]]
              /\ \A e \in Sends : row'[e].status = "absent" => row[e].status = "absent"
              /\ invite' \in [Sends -> Invitations]
        BY <3>1, InviteAdds
      <4> QED
        BY <4>1 DEF WaitTyped, PollsOK
    <3>2. CASE UNCHANGED <<queueVars, invite>>
      BY <3>2 DEF queueVars, WaitTyped, PollsOK
    <3> QED
      BY <2>1, <3>1, <3>2
  <2> QED
    BY <2>1, <2>2, <2>3 DEF WaitTyped, PollsOK
<1>7. CASE SetGate \/ UNCHANGED vars
  <2>1. /\ up' = up /\ row' = row /\ signup' = signup /\ aphase' = aphase
        /\ claimed' = claimed /\ invite' = invite
    BY <1>7 DEF SetGate, vars, waitVars, queueVars
  <2>2. WaitTyped'
    BY <2>1 DEF WaitTyped
  <2>3. PollsOK'
    BY <2>1 DEF PollsOK
  <2> QED
    BY <1>1, <2>2, <2>3
<1>8. CASE (QueueStep \/ Start) /\ UNCHANGED waitVars
  <2>1. \A s \in Sends : row'[s].status = "absent" => row[s].status = "absent"
    BY <1>8, RowsStay
  <2>2. up => up'
    BY <1>8 DEF QueueStep, TickStep, Claim, ClaimBatch, ClaimSelected, Reserve, Deliver,
                MarkSent, MarkFailed, End, Elapse, Start
  <2>3. signup' = signup /\ aphase' = aphase /\ claimed' = claimed /\ invite' = invite
    BY <1>8 DEF waitVars
  <2>4. WaitTyped'
    BY <2>3 DEF WaitTyped
  <2>5. PollsOK'
    BY <2>1, <2>2, <2>3 DEF PollsOK
  <2> QED
    BY <1>1, <2>4, <2>5
<1>9. CASE StopSender
  <2>1. \A s \in Sends : row'[s].status = "absent" => row[s].status = "absent"
    BY <1>9, RowsStay DEF StopSender
  <2>2. /\ signup' = signup /\ invite' = invite
        /\ aphase' = [a \in Allocs |-> "idle"] /\ claimed' = [a \in Allocs |-> {}]
    BY <1>9 DEF StopSender
  <2>3. WaitTyped'
    BY <2>2 DEF WaitTyped
  <2>4. PollsOK'
    BY <2>1, <2>2 DEF PollsOK
  <2> QED
    BY <1>1, <2>3, <2>4
<1> QED
  BY <1>1, <1>2, <1>3, <1>4, <1>5, <1>6, <1>7, <1>8, <1>9 DEF WaitNext, AllocStep

\* The allocator and the admin's routes use the queue as its own producers do:
\* the composition is a behaviour of the queue, over either database, whatever
\* the faults and the stops.
THEOREM WaitlistUsesQueue == WaitSpec => Spec
<1>1. Init => WaitInv /\ QueueInit
  BY WaitInitInv DEF Init
<1>2. WaitInv /\ [WaitNext]_vars => WaitInv' /\ [Next]_queueVars
  BY WaitStepInv, WaitStepsQueue
<1> QED
  BY <1>1, <1>2, PTL DEF WaitSpec, Spec

\* Over SQLite no two polls of the sender ever hold the same invite.
THEOREM WaitOneClaimerHolds == ASSUME Sqlite PROVE WaitSpec => []OneClaimer
BY WaitlistUsesQueue, OneClaimerHolds, PTL

\* ... no inbox gets more copies of an invite than it has attempts,
THEOREM WaitCopiesBoundedHolds == ASSUME Sqlite PROVE WaitSpec => []CopiesBounded
BY WaitlistUsesQueue, CopiesBoundedHolds, PTL

\* ... and an invite lives the life SendLifecycle allows a send.
THEOREM WaitImplementsLifecycle == ASSUME Sqlite PROVE WaitSpec => ImplementsLifecycle
BY WaitlistUsesQueue, ImplementsLifecycleHolds, PTL
-----------------------------------------------------------------------------
(***************************************************************************)
(* One invite of the allocator per signup, when its claim is one statement.*)
(***************************************************************************)

\* No poll is between the SELECT and the UPDATE of its claim.
AtomicSignups == \A a \in Allocs : aphase[a] # "selected"

\* A signup on a poll's list is invited, and no allocator's invite of it is queued.
ClaimedUnqueued ==
  \A a \in Allocs : \A p \in claimed[a] :
    signup[p] = "invited" /\ \A s \in Sends : invite[s] # [to |-> p, by |-> "allocator"]

OneList == \A a, b \in Allocs : a # b => claimed[a] \cap claimed[b] = {}

\* An allocator's invite is of a signup it has flipped.
QueuedWasFlipped ==
  \A p \in Signups, s \in Sends :
    invite[s] = [to |-> p, by |-> "allocator"] => signup[p] = "invited"

OneInvite ==
  \A p \in Signups : \A s, e \in Sends :
    /\ invite[s] = [to |-> p, by |-> "allocator"]
    /\ invite[e] = [to |-> p, by |-> "allocator"]
    => s = e

OnceInv ==
  WaitInv /\ AtomicSignups /\ ClaimedUnqueued /\ OneList /\ QueuedWasFlipped /\ OneInvite

LEMMA OnceInitInv == Init => OnceInv
<1> SUFFICES ASSUME Init PROVE OnceInv
  OBVIOUS
<1>1. /\ aphase = [a \in Allocs |-> "idle"] /\ claimed = [a \in Allocs |-> {}]
      /\ \A s \in Sends : invite[s].by = "nobody"
  BY DEF Init, NoInvite
<1>2. AtomicSignups /\ ClaimedUnqueued /\ OneList
  BY <1>1 DEF AtomicSignups, ClaimedUnqueued, OneList
<1>3. QueuedWasFlipped /\ OneInvite
  BY <1>1 DEF QueuedWasFlipped, OneInvite
<1> QED
  BY <1>2, <1>3, WaitInitInv DEF OnceInv

\* A step that gives no poll a signup, takes no flip back and queues nothing of
\* the allocator's.
LEMMA OnceKept ==
  ASSUME OnceInv, WaitInv',
         \A a \in Allocs : aphase'[a] # "selected" /\ claimed'[a] \subseteq claimed[a],
         \A p \in Signups : signup[p] = "invited" => signup'[p] = "invited",
         \A p \in Signups, s \in Sends : invite'[s] = [to |-> p, by |-> "allocator"]
                                         => invite[s] = invite'[s]
  PROVE  OnceInv'
<1> USE DEF OnceInv
<1>1. \A a \in Allocs : claimed[a] \subseteq Signups
  BY DEF WaitInv, WaitTyped
<1>2. AtomicSignups' /\ OneList'
  BY DEF AtomicSignups, OneList
<1>3. ClaimedUnqueued'
  BY <1>1 DEF ClaimedUnqueued
<1>4. QueuedWasFlipped' /\ OneInvite'
  BY DEF QueuedWasFlipped, OneInvite
<1> QED
  BY <1>2, <1>3, <1>4

\* A poll claims signups nobody has claimed, and no allocator has invited.
LEMMA OnceClaim ==
  ASSUME Sqlite, OnceInv, WaitInv', NEW a \in Allocs, ClaimSignups(a)
  PROVE  OnceInv'
<1> USE DEF OnceInv
<1>1. PICK P \in SUBSET {p \in Signups : signup[p] = "waitlisted"} : Flip(a, P)
  BY DEF ClaimSignups, Oldest
<1>2. /\ claimed'[a] = P /\ \A b \in Allocs \ {a} : claimed'[b] = claimed[b]
      /\ aphase'[a] # "selected" /\ \A b \in Allocs \ {a} : aphase'[b] = aphase[b]
      /\ \A p \in Signups : signup'[p] = IF p \in P THEN "invited" ELSE signup[p]
      /\ invite' = invite
  BY <1>1 DEF Flip, WaitInv, WaitTyped
<1>3. \A b \in Allocs : claimed[b] \cap P = {} /\ claimed[b] \subseteq Signups
  BY DEF ClaimedUnqueued, WaitInv, WaitTyped
<1>4. \A p \in P, s \in Sends : p \in Signups /\ invite[s] # [to |-> p, by |-> "allocator"]
  BY DEF QueuedWasFlipped
<1>5. AtomicSignups' /\ OneList'
  BY <1>2, <1>3 DEF AtomicSignups, OneList
<1>6. ClaimedUnqueued'
  <2> SUFFICES ASSUME NEW b \in Allocs, NEW p \in claimed'[b]
               PROVE  /\ signup'[p] = "invited"
                      /\ \A s \in Sends : invite'[s] # [to |-> p, by |-> "allocator"]
    BY DEF ClaimedUnqueued
  <2>1. CASE b = a
    BY <1>2, <1>4, <2>1
  <2>2. CASE b # a
    BY <1>2, <1>3, <2>2 DEF ClaimedUnqueued
  <2> QED
    BY <2>1, <2>2
<1>7. QueuedWasFlipped' /\ OneInvite'
  BY <1>2 DEF QueuedWasFlipped, OneInvite
<1> QED
  BY <1>5, <1>6, <1>7

\* The invite a poll enqueues is the allocator's first of that signup.
LEMMA OnceEnqueue ==
  ASSUME OnceInv, WaitInv', NEW a \in Allocs, EnqueueClaimed(a)
  PROVE  OnceInv'
<1> USE DEF OnceInv
<1>1. PICK p \in claimed[a] :
        /\ claimed' = [claimed EXCEPT ![a] = claimed[a] \ {p}]
        /\ EnqueueInvite(p, "allocator") \/ UNCHANGED <<queueVars, invite>>
  BY DEF EnqueueClaimed, Oldest
<1>2. /\ p \in Signups /\ signup' = signup /\ signup[p] = "invited"
      /\ \A s \in Sends : invite[s] # [to |-> p, by |-> "allocator"]
  BY <1>1 DEF EnqueueClaimed, ClaimedUnqueued, WaitInv, WaitTyped
<1>3. /\ claimed'[a] = claimed[a] \ {p} /\ \A b \in Allocs \ {a} : claimed'[b] = claimed[b]
      /\ \A b \in Allocs : claimed[b] \subseteq Signups
  BY <1>1 DEF WaitInv, WaitTyped
<1>4. \A b \in Allocs : aphase'[b] # "selected"
  BY DEF EnqueueClaimed, AtomicSignups, WaitInv, WaitTyped
<1>5. CASE UNCHANGED <<queueVars, invite>>
  BY <1>2, <1>3, <1>4, <1>5, OnceKept
<1>6. CASE EnqueueInvite(p, "allocator")
  <2>1. PICK s \in Sends : invite' = [invite EXCEPT ![s] = [to |-> p, by |-> "allocator"]]
    BY <1>2, <1>6, InviteAdds
  <2>2. /\ invite'[s] = [to |-> p, by |-> "allocator"]
        /\ \A e \in Sends \ {s} : invite'[e] = invite[e]
    BY <2>1 DEF WaitInv, WaitTyped
  <2>3. AtomicSignups' /\ OneList'
    BY <1>3, <1>4 DEF AtomicSignups, OneList
  <2>4. ClaimedUnqueued'
    <3> SUFFICES ASSUME NEW b \in Allocs, NEW q \in claimed'[b]
                 PROVE  /\ signup'[q] = "invited"
                        /\ \A e \in Sends : invite'[e] # [to |-> q, by |-> "allocator"]
      BY DEF ClaimedUnqueued
    <3>1. q \in claimed[b] /\ q # p
      BY <1>1, <1>3 DEF OneList
    <3> QED
      BY <1>2, <2>2, <3>1 DEF ClaimedUnqueued
  <2>5. QueuedWasFlipped'
    BY <1>2, <2>2 DEF QueuedWasFlipped
  <2>6. OneInvite'
    BY <1>2, <2>2 DEF OneInvite
  <2> QED
    BY <2>3, <2>4, <2>5, <2>6
<1> QED
  BY <1>1, <1>5, <1>6

LEMMA OnceStep ==
  ASSUME Sqlite, OnceInv, [WaitNext]_vars PROVE OnceInv'
<1> USE DEF OnceInv
<1>1. WaitInv'
  BY WaitStepInv
<1>2. ASSUME NEW p \in Signups, SignUp(p) \/ AdminInvite(p) PROVE OnceInv'
  <2>1. aphase' = aphase /\ claimed' = claimed /\ invite' = invite
    BY <1>2 DEF SignUp, AdminInvite
  <2>2. \A q \in Signups : signup[q] = "invited" => signup'[q] = "invited"
    BY <1>2 DEF SignUp, AdminInvite, WaitInv, WaitTyped
  <2> QED
    BY <1>1, <2>1, <2>2, OnceKept DEF AtomicSignups
<1>3. ASSUME NEW p \in Signups, AdminPost(p) PROVE OnceInv'
  <2>1. aphase' = aphase /\ claimed' = claimed /\ signup' = signup
    BY <1>3 DEF AdminPost
  <2>2. ASSUME NEW q \in Signups, NEW s \in Sends, invite'[s] = [to |-> q, by |-> "allocator"]
        PROVE  invite[s] = invite'[s]
    <3>1. CASE EnqueueInvite(p, "admin")
      <4>1. PICK e \in Sends : invite' = [invite EXCEPT ![e] = [to |-> p, by |-> "admin"]]
        BY <3>1, InviteAdds
      <4> QED
        BY <2>2, <4>1 DEF WaitInv, WaitTyped
    <3> QED
      BY <1>3, <3>1 DEF AdminPost
  <2> QED
    BY <1>1, <2>1, <2>2, OnceKept DEF AtomicSignups
<1>4. ASSUME NEW a \in Allocs, ReadGate(a) PROVE OnceInv'
  <2>1. /\ claimed' = claimed /\ signup' = signup /\ invite' = invite
        /\ aphase' = [aphase EXCEPT ![a] = "open"]
    BY <1>4 DEF ReadGate
  <2>2. \A b \in Allocs : aphase'[b] # "selected"
    BY <2>1 DEF AtomicSignups, WaitInv, WaitTyped
  <2> QED
    BY <1>1, <2>1, <2>2, OnceKept
<1>5. \A a \in Allocs : ~FlipSelected(a)
  BY DEF FlipSelected, AtomicSignups
<1>6. CASE SetGate \/ ((QueueStep \/ Start) /\ UNCHANGED waitVars) \/ UNCHANGED vars
  <2>1. aphase' = aphase /\ claimed' = claimed /\ signup' = signup /\ invite' = invite
    BY <1>6 DEF SetGate, waitVars, vars
  <2> QED
    BY <1>1, <2>1, OnceKept DEF AtomicSignups
<1>7. CASE StopSender
  <2>1. /\ signup' = signup /\ invite' = invite
        /\ \A a \in Allocs : aphase'[a] = "idle" /\ claimed'[a] = {}
    BY <1>7 DEF StopSender
  <2> QED
    BY <1>1, <2>1, OnceKept
<1>8. ASSUME NEW a \in Allocs, AllocStep(a) PROVE OnceInv'
  BY <1>1, <1>4, <1>5, <1>8, OnceClaim, OnceEnqueue DEF AllocStep
<1> QED
  BY <1>2, <1>3, <1>6, <1>7, <1>8 DEF WaitNext

\* db.ts:575-578, over SQLite: however many polls overlap, whatever the stops,
\* the faults and the invites by hand, the allocator puts at most one invite of
\* an inbox on the queue.
THEOREM AllocatedOnceHolds == ASSUME Sqlite PROVE WaitSpec => []AllocatedOnce
<1>1. Init => OnceInv
  BY OnceInitInv
<1>2. OnceInv /\ [WaitNext]_vars => OnceInv'
  BY OnceStep
<1>3. OnceInv => AllocatedOnce
  <2> SUFFICES ASSUME OnceInv, NEW p \in Signups
               PROVE  Cardinality(Invites(p, "allocator")) <= 1
    BY DEF AllocatedOnce
  <2>1. CASE Invites(p, "allocator") = {}
    BY <2>1, FS_EmptySet
  <2>2. CASE \E s \in Sends : s \in Invites(p, "allocator")
    <3>1. PICK s \in Sends : s \in Invites(p, "allocator")
      BY <2>2
    <3>2. Invites(p, "allocator") = {s}
      BY <3>1 DEF Invites, OnceInv, OneInvite
    <3> QED
      BY <3>2, FS_Singleton
  <2> QED
    BY <2>1, <2>2 DEF Invites
<1> QED
  BY <1>1, <1>2, <1>3, PTL DEF WaitSpec
-----------------------------------------------------------------------------
(***************************************************************************)
(* A failed insert, or a stop, loses no invitation but its own.            *)
(***************************************************************************)

QueuedInv == WaitInv /\ InvitedIsQueued

\* A flip is in somebody's hands, and leaves them only for the queue or with a
\* failure or a stop of its own.
LEMMA HandsKept ==
  ASSUME QueuedInv, WaitInv',
         \A p \in Signups : signup'[p] = "invited" =>
           signup[p] = "invited" \/ p \in byHand' \/ \E a \in Allocs : p \in InHand(a)',
         \A p \in Signups : p \in byHand \cup missed =>
           p \in byHand' \cup missed' \/ \E s \in Sends : invite'[s].to = p,
         \A p \in Signups, a \in Allocs : p \in InHand(a) =>
           p \in InHand(a)' \/ p \in missed' \/ \E s \in Sends : invite'[s].to = p,
         \A s \in Sends : invite[s] # NoInvite => invite'[s] = invite[s]
  PROVE  QueuedInv'
<1> SUFFICES ASSUME NEW p \in Signups, signup'[p] = "invited"
             PROVE  \/ p \in byHand' \/ \E a \in Allocs : p \in InHand(a)'
                    \/ \E s \in Sends : invite'[s].to = p
                    \/ p \in missed'
  BY DEF QueuedInv, InvitedIsQueued
<1>1. CASE signup[p] = "invited"
  <2>1. \/ p \in byHand \/ \E a \in Allocs : p \in InHand(a)
        \/ \E s \in Sends : invite[s].to = p
        \/ p \in missed
    BY <1>1 DEF QueuedInv, InvitedIsQueued
  <2>2. p # -1
    BY AllocatorAssumption
  <2>3. ASSUME NEW s \in Sends, invite[s].to = p PROVE invite'[s].to = p
    BY <2>2, <2>3 DEF NoInvite
  <2> QED
    BY <2>1, <2>3
<1>2. CASE signup[p] # "invited"
  BY <1>2
<1> QED
  BY <1>1, <1>2

LEMMA QueuedStep ==
  ASSUME QueuedInv, [WaitNext]_vars PROVE QueuedInv'
<1> USE DEF QueuedInv
<1>1. WaitInv'
  BY WaitStepInv
<1>2. ASSUME NEW p \in Signups, SignUp(p) \/ AdminInvite(p) PROVE QueuedInv'
  <2>1. /\ claimed' = claimed /\ aphase' = aphase /\ invite' = invite /\ byHand \subseteq byHand'
        /\ missed \subseteq byHand' \cup missed'
    BY <1>2 DEF SignUp, AdminInvite
  <2>2. \A q \in Signups : signup'[q] = "invited" => signup[q] = "invited" \/ q \in byHand'
    BY <1>2 DEF SignUp, AdminInvite, WaitInv, WaitTyped
  <2>3. \A a \in Allocs : InHand(a)' = InHand(a)
    BY <2>1 DEF InHand
  <2> QED
    BY <1>1, <2>1, <2>2, <2>3, HandsKept
<1>3. ASSUME NEW p \in Signups, AdminPost(p) PROVE QueuedInv'
  <2>1. /\ byHand' = byHand \ {p} /\ signup' = signup /\ claimed' = claimed /\ aphase' = aphase
        /\ missed \subseteq missed'
    BY <1>3 DEF AdminPost
  <2>2. \A a \in Allocs : InHand(a)' = InHand(a)
    BY <2>1 DEF InHand
  <2>3. CASE EnqueueInvite(p, "admin")
    <3>1. PICK s \in Sends : /\ invite[s] = NoInvite
                             /\ invite' = [invite EXCEPT ![s] = [to |-> p, by |-> "admin"]]
      BY <2>3, InviteAdds
    <3>2. invite'[s].to = p /\ \A e \in Sends : invite[e] # NoInvite => invite'[e] = invite[e]
      BY <3>1 DEF WaitInv, WaitTyped
    <3> QED
      BY <1>1, <2>1, <2>2, <3>2, HandsKept
  <2>4. CASE invite' = invite /\ missed' = missed \cup {p}
    BY <1>1, <2>1, <2>2, <2>4, HandsKept
  <2> QED
    BY <1>3, <2>3, <2>4 DEF AdminPost
<1>4. ASSUME NEW a \in Allocs, ReadGate(a) PROVE QueuedInv'
  <2>1. /\ claimed' = claimed /\ invite' = invite /\ byHand' = byHand /\ signup' = signup
        /\ missed' = missed /\ aphase' = [aphase EXCEPT ![a] = "open"] /\ aphase[a] = "idle"
    BY <1>4 DEF ReadGate
  <2>2. \A b \in Allocs : InHand(b)' = InHand(b)
    BY <2>1 DEF InHand, WaitInv, WaitTyped
  <2> QED
    BY <1>1, <2>1, <2>2, HandsKept
<1>5. ASSUME NEW a \in Allocs, ClaimSignups(a) \/ FlipSelected(a) PROVE QueuedInv'
  <2>1. invite' = invite /\ byHand' = byHand /\ missed' = missed /\ InHand(a) = {}
    BY <1>5 DEF ClaimSignups, FlipSelected, Flip, InHand
  <2>2. PICK P, q :
          /\ claimed' = [claimed EXCEPT ![a] = P] /\ aphase' = [aphase EXCEPT ![a] = q]
          /\ \/ signup' = signup
             \/ /\ q = (IF P = {} THEN "idle" ELSE "enqueue")
                /\ signup' = [p \in Signups |-> IF p \in P THEN "invited" ELSE signup[p]]
    BY <1>5 DEF ClaimSignups, FlipSelected, Flip
  <2>3. /\ claimed'[a] = P /\ aphase'[a] = q
        /\ \A b \in Allocs \ {a} : claimed'[b] = claimed[b] /\ aphase'[b] = aphase[b]
    BY <2>2 DEF WaitInv, WaitTyped
  <2>4. \A b \in Allocs : InHand(b) \subseteq InHand(b)'
    BY <2>1, <2>3 DEF InHand
  <2>5. \A p \in Signups : signup'[p] = "invited" => signup[p] = "invited" \/ p \in InHand(a)'
    BY <2>2, <2>3 DEF InHand
  <2> QED
    BY <1>1, <2>1, <2>4, <2>5, HandsKept
<1>6. ASSUME NEW a \in Allocs, EnqueueClaimed(a) PROVE QueuedInv'
  <2>1. PICK p \in Signups :
          /\ claimed' = [claimed EXCEPT ![a] = claimed[a] \ {p}]
          /\ \/ EnqueueInvite(p, "allocator") /\ missed' = missed
             \/ missed' = missed \cup {p} /\ invite' = invite
    BY <1>6 DEF EnqueueClaimed, Oldest, WaitInv, WaitTyped
  <2>2. /\ signup' = signup /\ byHand' = byHand /\ aphase[a] = "enqueue"
        /\ aphase' = [aphase EXCEPT ![a] = IF claimed'[a] = {} THEN "idle" ELSE aphase[a]]
    BY <1>6 DEF EnqueueClaimed
  <2>3. /\ claimed'[a] = claimed[a] \ {p}
        /\ aphase'[a] = IF claimed'[a] = {} THEN "idle" ELSE "enqueue"
        /\ \A b \in Allocs \ {a} : claimed'[b] = claimed[b] /\ aphase'[b] = aphase[b]
    BY <2>1, <2>2 DEF WaitInv, WaitTyped
  <2>4. \A q \in Signups, b \in Allocs : q \in InHand(b) => q \in InHand(b)' \/ q = p
    BY <2>3 DEF InHand
  <2>5. CASE EnqueueInvite(p, "allocator") /\ missed' = missed
    <3>1. PICK s \in Sends : /\ invite[s] = NoInvite
                             /\ invite' = [invite EXCEPT ![s] = [to |-> p, by |-> "allocator"]]
      BY <2>5, InviteAdds
    <3>2. invite'[s].to = p /\ \A e \in Sends : invite[e] # NoInvite => invite'[e] = invite[e]
      BY <3>1 DEF WaitInv, WaitTyped
    <3> QED
      BY <1>1, <2>2, <2>4, <2>5, <3>2, HandsKept
  <2>6. CASE missed' = missed \cup {p} /\ invite' = invite
    BY <1>1, <2>2, <2>4, <2>6, HandsKept
  <2> QED
    BY <2>1, <2>5, <2>6
<1>7. CASE SetGate \/ ((QueueStep \/ Start) /\ UNCHANGED waitVars) \/ UNCHANGED vars
  <2>1. /\ claimed' = claimed /\ aphase' = aphase /\ invite' = invite /\ byHand' = byHand
        /\ signup' = signup /\ missed' = missed
    BY <1>7 DEF SetGate, waitVars, vars
  <2>2. \A a \in Allocs : InHand(a)' = InHand(a)
    BY <2>1 DEF InHand
  <2> QED
    BY <1>1, <2>1, <2>2, HandsKept
<1>8. CASE StopSender
  <2>1. /\ invite' = invite /\ byHand' = byHand /\ signup' = signup
        /\ missed' = missed \cup UNION {InHand(a) : a \in Allocs}
    BY <1>8 DEF StopSender
  <2> QED
    BY <1>1, <2>1, HandsKept
<1> QED
  BY <1>2, <1>3, <1>4, <1>5, <1>6, <1>7, <1>8 DEF WaitNext, AllocStep

\* enqueueOrLog's "one bad insert doesn't strand the rest of the batch", over
\* either database, whatever inserts and posts fail, polls overlap and stops come:
\* a signup whose turn was taken is in the hands of who flipped it until its
\* invite is queued, unless its own insert or post failed or a stop came while it
\* was in hand.
THEOREM InvitedIsQueuedHolds == WaitSpec => []InvitedIsQueued
<1>1. Init => QueuedInv
  BY WaitInitInv DEF Init, QueuedInv, InvitedIsQueued
<1>2. QueuedInv /\ [WaitNext]_vars => QueuedInv'
  BY QueuedStep
<1>3. QueuedInv => InvitedIsQueued
  BY DEF QueuedInv
<1> QED
  BY <1>1, <1>2, <1>3, PTL DEF WaitSpec
=============================================================================
