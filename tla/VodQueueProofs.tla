---------------------------- MODULE VodQueueProofs ----------------------------
(***************************************************************************)
(* Proofs about the queue of VOD jobs, for any number of jobs, any worker  *)
(* concurrency, retry budget, length of the videos and checkpoint cadence, *)
(* and any number of crashes, stops and manual resumes: the attempt trail  *)
(* tells the truth, the retry budget holds, no backoff is cut short, the   *)
(* windows billed twice are bounded by the crashes, and no queued job is   *)
(* stranded.                                                               *)
(*                                                                         *)
(* The invariant is local to a job: JobOK relates its record, its pass,    *)
(* whether the boot has yet to recover it, and what it was billed.  One    *)
(* lemma per handler says that the handler keeps it, for any record and    *)
(* pass; what ties the jobs together is only that a job in no worker slot  *)
(* has no pass, and, for the last property, that a job which waits has a   *)
(* drain to come.                                                          *)
(***************************************************************************)
EXTENDS VodQueue, TLAPS, FiniteSetTheorems, WellFoundedInduction

Ready == {"starting", "claiming"}
Mid == {"extract", "analyze", "probe", "finalize"}

\* The attempts of a record: what it shows, and what its pass makes of it.
TrailOK(r, p) ==
  /\ r.claims = r.ended + r.open /\ r.open <= 1
  /\ r.status \in {"queued", "done", "failed"} => r.open = 0
  /\ r.status \in Passing \cup {"done", "failed"} => r.total = r.claims
  /\ p.at \in Ready => r.open = 0 /\ r.status \in {"queued", "cancelled"}
  /\ p.at \in Mid =>
       r.open = 1 /\ r.total = r.claims /\ r.status \in Passing \cup {"cancelled"}
  /\ r.retry = "later" => p.at \in {"idle", "exit"}

\* The automatic retries are among the attempts that ended.
RetriesOK(r, n) ==
  /\ n <= r.ended /\ n <= MaxRetries
  /\ r.status = "absent" => n = 0

\* The windows billed, against those the record and the pass know of; b is
\* what crashes may have cost.  A cancelled record may know of fewer.
BilledOK(r, p, d, b) ==
  /\ d <= Windows + b
  /\ r.status = "absent" => d = 0
  /\ p.at \notin Mid /\ (p.at \in Ready \/ r.status # "cancelled") => d <= r.cursor + b
  /\ p.at \in Mid => d <= p.cursor + b /\ p.cursor <= r.cursor + (p.fresh % Every)

JobOK(r, p, n, d, b) ==
  /\ r \in Row /\ p \in Pass /\ p.fresh <= p.cursor /\ n \in Nat /\ d \in Nat
  /\ TrailOK(r, p) /\ RetriesOK(r, n) /\ BilledOK(r, p, d, b)

CrashCost == crashes * (Every - 1)

Sets ==
  /\ \A S \in {processing, stops, stopping, kick, timer} : S \subseteq Jobs
  /\ boot \in [queued: SUBSET Jobs, stale: SUBSET Jobs, drain: BOOLEAN]
  /\ crashes \in Nat /\ requests \in Nat /\ crashes + requests <= MaxEvents

Functions ==
  /\ row = [j \in Jobs |-> row[j]] /\ pass = [j \in Jobs |-> pass[j]]
  /\ decided = [j \in Jobs |-> decided[j]] /\ retries = [j \in Jobs |-> retries[j]]

\* A pass holds its worker slot.
Worker == \A j \in Jobs : pass[j].at # "idle" => j \in processing

\* A record the boot has yet to recover has no pass.
Boot ==
  \A j \in boot.stale : pass[j].at = "idle" /\ row[j].status \in Passing \cup {"cancelled"}

IInv ==
  /\ Sets /\ Functions /\ Worker /\ Boot
  /\ \A j \in Jobs : JobOK(row[j], pass[j], retries[j], decided[j], CrashCost)
-----------------------------------------------------------------------------
(***************************************************************************)
(* Arithmetic.                                                             *)
(***************************************************************************)

\* The checkpoint cadence: one more window either completes a period or is one
\* more since the last.
LEMMA ModStep ==
  ASSUME NEW f \in Nat, NEW e \in Nat \ {0}
  PROVE  /\ f % e \in 0..(e - 1)
         /\ (f + 1) % e = 0 \/ (f + 1) % e = (f % e) + 1
OBVIOUS

\* A period starts at zero.
LEMMA ModZero == ASSUME NEW e \in Nat \ {0} PROVE 0 % e = 0
OBVIOUS

\* What the crashes so far may have billed again is a number.
LEMMA CrashCostNat == ASSUME Sets PROVE CrashCost \in Nat
BY VodAssumption DEF Sets, CrashCost
-----------------------------------------------------------------------------
(***************************************************************************)
(* One lemma per change of a record or a pass.                             *)
(***************************************************************************)

\* Closing an attempt keeps a record's type and moves it on the trail.
LEMMA ClosedFacts ==
  ASSUME NEW r \in Row, r.open <= 1
  PROVE  /\ Closed(r) \in Row
         /\ Closed(r).open = 0
         /\ Closed(r).ended = r.ended + r.open
         /\ Closed(r).claims = r.claims /\ Closed(r).total = r.total
         /\ Closed(r).status = r.status /\ Closed(r).retry = r.retry
         /\ Closed(r).cursor = r.cursor
<1>1. CASE r.open = 0
  BY <1>1 DEF Closed, Row
<1>2. CASE r.open = 1
  <2> DEFINE e == r.ended + 1
  <2>1. e \in Nat /\ e = r.ended + r.open /\ 0 \in Nat
    BY <1>2 DEF Row
  <2>2. Closed(r) = [r EXCEPT !.ended = e, !.open = 0]
    BY <1>2 DEF Closed, Row
  <2> HIDE DEF e
  <2> QED
    BY <1>2, <2>1, <2>2 DEF Row
<1> QED
  BY <1>1, <1>2 DEF Row

\* The drain takes a claimable job, or drops a pass that is over.
LEMMA DrainedJob ==
  ASSUME NEW r, NEW p, NEW n, NEW d, NEW b \in Nat, JobOK(r, p, n, d, b),
         NEW at \in {"idle", "starting"},
         p.at \in {"idle", "exit"},
         at = "starting" => r.status = "queued" /\ r.retry # "later"
  PROVE  JobOK(r, [NoPass EXCEPT !.at = at], n, d, b)
BY VodAssumption
DEF JobOK, TrailOK, RetriesOK, BilledOK, NoPass, Pass, Ready, Mid, Row

\* A new row has no attempt and no pass.
LEMMA SubmittedJob ==
  ASSUME NEW r, NEW p, NEW n, NEW d, NEW b \in Nat, JobOK(r, p, n, d, b), r.status = "absent"
  PROVE  JobOK(NewRow, p, n, d, b)
BY VodAssumption
DEF JobOK, TrailOK, RetriesOK, BilledOK, NewRow, Pass, Ready, Mid, Row, Passing

\* A backoff that elapses changes only whether the row may be claimed.
LEMMA ElapsedJob ==
  ASSUME NEW r, NEW p, NEW n, NEW d, NEW b \in Nat, JobOK(r, p, n, d, b), r.retry = "later"
  PROVE  JobOK([r EXCEPT !.retry = "due"], p, n, d, b)
BY DEF JobOK, TrailOK, RetriesOK, BilledOK, Row

\* A record is cancelled under any pass.
LEMMA CancelledJob ==
  ASSUME NEW r, NEW p, NEW n, NEW d, NEW b \in Nat, JobOK(r, p, n, d, b)
  PROVE  JobOK(Cancelled(r), p, n, d, b)
<1>1. CASE r.status \in {"done", "failed"}
  BY <1>1 DEF Cancelled
<1>2. CASE r.status \notin {"done", "failed"}
  <2>1. Cancelled(r) = [r EXCEPT !.status = "cancelled", !.retry = "none"]
    BY <1>2 DEF Cancelled
  <2> QED
    BY <1>2, <2>1, VodAssumption
    DEF JobOK, TrailOK, RetriesOK, BilledOK, Row, Passing, Terminal, Ready, Mid
<1> QED
  BY <1>1, <1>2

\* A pass moves on without touching the record.
LEMMA MovedJob ==
  ASSUME NEW r, NEW p, NEW n, NEW d, NEW b \in Nat, JobOK(r, p, n, d, b),
         NEW at,
         \/ p.at = "starting" /\ at = "claiming"
         \/ p.at \in Mid /\ at \in Mid
  PROVE  JobOK(r, [p EXCEPT !.at = at], n, d, b)
<1> DEFINE q == [p EXCEPT !.at = at]
<1>1. q \in Pass /\ q.at = at /\ q.cursor = p.cursor /\ q.fresh = p.fresh
  <2>1. q = [at |-> at, cursor |-> p.cursor, fresh |-> p.fresh]
    BY DEF JobOK, Pass
  <2> QED
    BY <2>1 DEF JobOK, Pass, Mid
<1>2. r.retry # "later"
  BY DEF JobOK, TrailOK, Mid
<1> HIDE DEF q
<1>3. ASSUME p.at = "starting" /\ at = "claiming" PROVE JobOK(r, q, n, d, b)
  BY <1>1, <1>2, <1>3 DEF JobOK, TrailOK, RetriesOK, BilledOK, Ready, Mid
<1>4. ASSUME p.at \in Mid /\ at \in Mid PROVE JobOK(r, q, n, d, b)
  BY <1>1, <1>2, <1>4 DEF JobOK, TrailOK, RetriesOK, BilledOK, Ready, Mid
<1>5. JobOK(r, q, n, d, b)
  BY <1>3, <1>4
<1> QED
  BY <1>5 DEF q

\* A pass unwinds from a record that is cancelled.
LEMMA UnwoundJob ==
  ASSUME NEW r, NEW p, NEW n, NEW d, NEW b \in Nat, JobOK(r, p, n, d, b),
         p.at \in Ready \cup Mid
  PROVE  JobOK(Cancelled(r), [p EXCEPT !.at = "exit"], n, d, b)
<1>1. r.status \in Passing \cup {"queued", "cancelled"}
  BY DEF JobOK, TrailOK
<1>2. Cancelled(r) = [r EXCEPT !.status = "cancelled", !.retry = "none"]
  BY <1>1 DEF Cancelled, Passing
<1>3. JobOK(Cancelled(r), p, n, d, b)
  BY CancelledJob
<1>4. Cancelled(r).status = "cancelled" /\ Cancelled(r).retry = "none"
  BY <1>2 DEF JobOK, Row
<1> HIDE DEF Cancelled
<1> DEFINE q == [p EXCEPT !.at = "exit"]
<1>5. q \in Pass /\ q.at = "exit" /\ q.fresh = p.fresh /\ q.cursor = p.cursor
  BY DEF JobOK, Pass
<1> HIDE DEF q
<1>6. JobOK(Cancelled(r), q, n, d, b)
  BY <1>3, <1>4, <1>5 DEF JobOK, TrailOK, RetriesOK, BilledOK, Passing, Ready, Mid
<1> QED
  BY <1>6 DEF q

\* A claim adds its open attempt and reads the cursor to resume from.
LEMMA ClaimedJob ==
  ASSUME NEW r, NEW p, NEW n, NEW d, NEW b \in Nat, JobOK(r, p, n, d, b), p.at = "claiming"
  PROVE  JobOK([r EXCEPT !.status = "extracting", !.retry = "none", !.claims = @ + 1,
                         !.total = r.claims + 1, !.open = @ + 1],
               [at |-> "extract", cursor |-> r.cursor, fresh |-> 0], n, d, b)
<1> DEFINE s == [r EXCEPT !.status = "extracting", !.retry = "none", !.claims = @ + 1,
                         !.total = r.claims + 1, !.open = @ + 1]
           q == [at |-> "extract", cursor |-> r.cursor, fresh |-> 0]
           c == r.claims + 1
<1> USE VodAssumption
<1>1. /\ r \in Row /\ r.open = 0 /\ r.claims = r.ended /\ c \in Nat /\ 1 \in Nat
      /\ r.cursor \in 0..Windows /\ Every \in Nat \ {0} /\ Windows \in Nat
  BY DEF JobOK, TrailOK, Ready, Row
<1>2. s = [r EXCEPT !.status = "extracting", !.retry = "none", !.claims = c,
                    !.total = c, !.open = 1]
  BY <1>1 DEF Row
<1> HIDE DEF c
<1>3. /\ s \in Row /\ s.status = "extracting" /\ s.retry = "none" /\ s.claims = c
      /\ s.total = c /\ s.open = 1 /\ s.ended = r.ended /\ s.cursor = r.cursor
  BY <1>1, <1>2 DEF Row, Passing
<1>4. q \in Pass /\ q.at = "extract" /\ q.cursor = r.cursor /\ q.fresh = 0 /\ q.fresh <= q.cursor
  BY <1>1 DEF Pass
<1> HIDE DEF s, q
<1>5. TrailOK(s, q)
  BY <1>1, <1>3, <1>4 DEF TrailOK, Passing, Ready, Mid, c
<1>6. RetriesOK(s, n)
  BY <1>3 DEF JobOK, RetriesOK
<1>7. BilledOK(s, q, d, b)
  BY <1>1, <1>3, <1>4, ModZero DEF JobOK, BilledOK, Ready, Mid
<1>8. JobOK(s, q, n, d, b)
  BY <1>3, <1>4, <1>5, <1>6, <1>7 DEF JobOK
<1> QED
  BY <1>8 DEF s, q

\* A pass under way patches its status.
LEMMA StatusJob ==
  ASSUME NEW r, NEW p, NEW n, NEW d, NEW b \in Nat, JobOK(r, p, n, d, b), p.at \in Mid,
         NEW status \in Passing, NEW at \in Mid
  PROVE  JobOK([r EXCEPT !.status = status], [p EXCEPT !.at = at], n, d, b)
BY DEF JobOK, TrailOK, RetriesOK, BilledOK, Row, Pass, Passing, Ready, Mid

\* A window is decided, billed, and checkpointed at the cadence.
LEMMA DecidedJob ==
  ASSUME NEW r, NEW p, NEW n, NEW d, NEW b \in Nat, JobOK(r, p, n, d, b),
         p.at = "analyze", p.cursor < Windows,
         NEW cursor,
         cursor = IF (p.fresh + 1) % Every = 0 THEN Larger(r.cursor, p.cursor + 1) ELSE r.cursor
  PROVE  JobOK([r EXCEPT !.cursor = cursor],
               [p EXCEPT !.cursor = p.cursor + 1, !.fresh = p.fresh + 1], n, d + 1, b)
<1> DEFINE q == [p EXCEPT !.cursor = p.cursor + 1, !.fresh = p.fresh + 1]
           s == [r EXCEPT !.cursor = cursor]
<1> USE VodAssumption
<1>1. /\ r \in Row /\ p \in Pass /\ p.cursor \in 0..Windows /\ p.fresh \in 0..Windows
      /\ p.fresh <= p.cursor /\ r.cursor \in 0..Windows /\ d \in Nat /\ Windows \in Nat
  BY DEF JobOK, Row, Pass
<1>2. /\ q \in Pass /\ q.at = "analyze" /\ q.cursor = p.cursor + 1 /\ q.fresh = p.fresh + 1
      /\ q.fresh <= q.cursor
  <2> DEFINE c == p.cursor + 1
             f == p.fresh + 1
  <2>1. c \in 0..Windows /\ f \in 0..Windows /\ f <= c
    BY <1>1
  <2>2. q = [p EXCEPT !.cursor = c, !.fresh = f] /\ p.at = "analyze"
    OBVIOUS
  <2> HIDE DEF c, f, q
  <2>3. q \in Pass /\ q.at = "analyze" /\ q.cursor = c /\ q.fresh = f
    BY <1>1, <2>1, <2>2 DEF Pass
  <2> QED
    BY <2>1, <2>3 DEF c, f
<1>3. cursor \in 0..Windows /\ cursor >= r.cursor
      /\ ((p.fresh + 1) % Every = 0 => cursor >= p.cursor + 1)
      /\ ((p.fresh + 1) % Every # 0 => cursor = r.cursor)
  BY <1>1 DEF Larger
<1>4. /\ s \in Row /\ s.cursor = cursor /\ s.status = r.status /\ s.retry = r.retry
      /\ s.claims = r.claims /\ s.total = r.total /\ s.ended = r.ended /\ s.open = r.open
  BY <1>1, <1>3 DEF Row
<1> HIDE DEF q, s
<1>5. TrailOK(s, q) /\ RetriesOK(s, n)
  BY <1>2, <1>4 DEF JobOK, TrailOK, RetriesOK, Ready, Mid
<1>6. d <= p.cursor + b /\ p.cursor <= r.cursor + (p.fresh % Every)
  BY DEF JobOK, BilledOK, Mid
<1>7. /\ p.fresh % Every \in 0..(Every - 1)
      /\ (p.fresh + 1) % Every = 0 \/ (p.fresh + 1) % Every = (p.fresh % Every) + 1
  <2>1. p.fresh \in Nat /\ Every \in Nat \ {0}
    BY <1>1
  <2> QED
    BY <2>1, ModStep
<1>8. q.cursor <= s.cursor + (q.fresh % Every)
  BY <1>1, <1>2, <1>3, <1>4, <1>6, <1>7
<1>9. d + 1 <= q.cursor + b /\ d + 1 <= Windows + b
  BY <1>1, <1>2, <1>6
<1>10. BilledOK(s, q, d + 1, b)
  BY <1>2, <1>4, <1>8, <1>9 DEF BilledOK, Mid, JobOK, TrailOK, Passing, Ready
<1>11. JobOK(s, q, n, d + 1, b)
  BY <1>1, <1>2, <1>4, <1>5, <1>10 DEF JobOK
<1> QED
  BY <1>11 DEF q, s

\* A pass that ends, done or failed, closes its attempt and keeps its cursor.
LEMMA EndedJob ==
  ASSUME NEW r, NEW p, NEW n, NEW d, NEW b \in Nat, JobOK(r, p, n, d, b), p.at \in Mid,
         NEW s \in Row, NEW m \in Nat, NEW fin \in {"done", "failed", "queued"},
         s.status = fin, s.ended = r.ended + 1, s.open = 0, s.claims = r.claims,
         s.total = r.claims, s.cursor >= p.cursor,
         m = n \/ (m = n + 1 /\ r.ended < MaxRetries)
  PROVE  JobOK(s, [p EXCEPT !.at = "exit"], m, d, b)
<1> DEFINE q == [p EXCEPT !.at = "exit"]
<1> USE VodAssumption
<1>1. q \in Pass /\ q.at = "exit" /\ q.cursor = p.cursor /\ q.fresh = p.fresh
  BY DEF JobOK, Pass
<1>2. /\ r \in Row /\ r.open = 1 /\ r.claims = r.ended + r.open /\ n \in Nat /\ d \in Nat
      /\ n <= r.ended /\ n <= MaxRetries /\ d <= p.cursor + b /\ d <= Windows + b
      /\ p.cursor \in Nat /\ r.ended \in Nat /\ s.cursor \in Nat
  BY DEF JobOK, TrailOK, RetriesOK, BilledOK, Mid, Row, Pass
<1> HIDE DEF q
<1>3. TrailOK(s, q)
  BY <1>1, <1>2 DEF TrailOK, Ready, Mid, Passing
<1>4. RetriesOK(s, m)
  BY <1>2 DEF RetriesOK
<1>5. BilledOK(s, q, d, b)
  BY <1>1, <1>2 DEF BilledOK, Mid, Ready
<1>6. JobOK(s, q, m, d, b)
  BY <1>1, <1>2, <1>3, <1>4, <1>5 DEF JobOK
<1> QED
  BY <1>6 DEF q

\* A row is armed again by hand or by the boot, with no pass under way.
LEMMA ArmedJob ==
  ASSUME NEW r, NEW p, NEW n, NEW d, NEW b \in Nat, JobOK(r, p, n, d, b),
         r.status \in Passing \cup {"failed"},
         p.at \notin Mid
  PROVE  JobOK(Armed(r), p, n, d, b)
<1> DEFINE s == Armed(r)
<1>1. /\ r \in Row /\ r.open <= 1 /\ r.claims = r.ended + r.open /\ r.cursor \in Nat
      /\ n \in Nat /\ n <= r.ended /\ n <= MaxRetries /\ p.at \notin Ready
      /\ r.total \in Nat /\ r.ended \in Nat /\ r.open \in Nat
  BY DEF JobOK, TrailOK, RetriesOK, Row, Passing
<1>2. Closed(r) \in Row /\ Closed(r).open = 0 /\ Closed(r).ended = r.ended + r.open
      /\ Closed(r).claims = r.claims /\ Closed(r).cursor = r.cursor
  BY <1>1, ClosedFacts
<1>3. Larger(r.total, r.ended + r.open) + 1 \in Nat
  BY <1>1 DEF Larger
<1>4. /\ s \in Row /\ s.status = "queued" /\ s.retry = "none" /\ s.open = 0
      /\ s.ended = r.ended + r.open /\ s.claims = r.claims /\ s.cursor = r.cursor
  BY <1>2, <1>3 DEF Armed, Row
<1> HIDE DEF s
<1>5. TrailOK(s, p) /\ RetriesOK(s, n)
  BY <1>1, <1>4 DEF TrailOK, RetriesOK, Passing
<1>6. BilledOK(s, p, d, b)
  BY <1>1, <1>4 DEF BilledOK, JobOK, Passing
<1>7. JobOK(s, p, n, d, b)
  BY <1>4, <1>5, <1>6 DEF JobOK
<1> QED
  BY <1>7 DEF s

\* A crash costs at most the windows since the last checkpoint.
LEMMA CrashedJob ==
  ASSUME NEW r, NEW p, NEW n, NEW d, NEW b \in Nat, JobOK(r, p, n, d, b)
  PROVE  JobOK(r, NoPass, n, d, b + (Every - 1))
<1> USE VodAssumption
<1>1. /\ r \in Row /\ p \in Pass /\ p.fresh \in Nat /\ p.cursor \in Nat /\ r.cursor \in Nat
      /\ Every \in Nat \ {0} /\ d \in Nat /\ d <= Windows + b /\ Windows \in Nat
  BY DEF JobOK, BilledOK, Row, Pass
<1>2. p.fresh % Every \in 0..(Every - 1)
  BY <1>1, ModStep
<1>3. NoPass \in Pass /\ NoPass.at = "idle" /\ NoPass.fresh <= NoPass.cursor
  BY <1>1 DEF NoPass, Pass
<1> HIDE DEF NoPass
<1>4. TrailOK(r, NoPass) /\ RetriesOK(r, n)
  BY <1>3 DEF JobOK, TrailOK, RetriesOK, Ready, Mid
<1>5. d <= Windows + (b + (Every - 1))
  BY <1>1
<1>6. ASSUME r.status # "cancelled" PROVE d <= r.cursor + (b + (Every - 1))
  <2>1. CASE p.at \in Mid
    BY <1>1, <1>2, <2>1 DEF JobOK, BilledOK
  <2>2. CASE p.at \notin Mid
    BY <1>1, <1>6, <2>2 DEF JobOK, BilledOK
  <2> QED
    BY <2>1, <2>2
<1>7. BilledOK(r, NoPass, d, b + (Every - 1))
  BY <1>3, <1>5, <1>6 DEF JobOK, BilledOK, Ready, Mid
<1> QED
  BY <1>1, <1>3, <1>4, <1>7 DEF JobOK
-----------------------------------------------------------------------------
(***************************************************************************)
(* The handlers.                                                           *)
(***************************************************************************)

\* The empty queue of a first boot.
LEMMA InitInv == Init => IInv
<1> SUFFICES ASSUME Init PROVE IInv
  OBVIOUS
<1> USE VodAssumption DEF Init
<1>1. Sets /\ Functions /\ Worker /\ Boot
  BY DEF Sets, Functions, Worker, Boot, Booted, NoPass
<1>2. CrashCost = 0
  BY DEF CrashCost
<1>3. ASSUME NEW j \in Jobs
      PROVE  JobOK(row[j], pass[j], retries[j], decided[j], 0)
  <2>1. row[j] = [NewRow EXCEPT !.status = "absent"] /\ pass[j] = NoPass
        /\ retries[j] = 0 /\ decided[j] = 0
    BY <1>3
  <2> QED
    BY <2>1 DEF JobOK, TrailOK, RetriesOK, BilledOK, NewRow, NoPass, Row, Pass, Passing, Ready, Mid
<1> QED
  BY <1>1, <1>2, <1>3 DEF IInv

\* A step of one job that leaves the worker and the crashes alone.
LEMMA OneJob ==
  ASSUME IInv, NEW j \in Jobs, NEW r, NEW p, NEW n, NEW d,
         JobOK(r, p, n, d, CrashCost),
         row' = [row EXCEPT ![j] = r], pass' = [pass EXCEPT ![j] = p],
         retries' = [retries EXCEPT ![j] = n], decided' = [decided EXCEPT ![j] = d],
         processing' = processing, crashes' = crashes,
         Sets', boot'.stale \subseteq boot.stale,
         p.at # "idle" => pass[j].at # "idle",
         j \in boot'.stale => p.at = "idle" /\ r.status \in Passing \cup {"cancelled"}
  PROVE  IInv'
<1>1. /\ row'[j] = r /\ pass'[j] = p /\ retries'[j] = n /\ decided'[j] = d
      /\ \A k \in Jobs \ {j} : row'[k] = row[k] /\ pass'[k] = pass[k]
                            /\ retries'[k] = retries[k] /\ decided'[k] = decided[k]
      /\ Functions'
  BY DEF IInv, Functions
<1>2. Worker'
  BY <1>1 DEF IInv, Worker
<1>3. Boot'
  BY <1>1 DEF IInv, Boot, Sets
<1>4. CrashCost' = CrashCost
  BY DEF CrashCost
<1>5. \A k \in Jobs : JobOK(row[k], pass[k], retries[k], decided[k], CrashCost)'
  BY <1>1, <1>4 DEF IInv
<1> QED
  BY <1>1, <1>2, <1>3, <1>5 DEF IInv

\* A drain takes claimable jobs, whatever slots are busy, and touches no other.
LEMMA DrainInv ==
  ASSUME IInv, NEW busy \in SUBSET Jobs, Drain(busy),
         \A k \in Jobs : pass[k].at \notin {"idle", "exit"} => k \in busy,
         row' = row, retries' = retries, decided' = decided, crashes' = crashes,
         Sets', boot'.stale \subseteq boot.stale
  PROVE  IInv'
<1> DEFINE batch == {j \in {i \in Jobs : Claimable(i, busy)} :
                       Cardinality({i \in {k \in Jobs : Claimable(k, busy)} : i < j}) < Concurrency}
<1>1. /\ batch \subseteq Jobs /\ \A k \in batch : Claimable(k, busy)
      /\ processing' = busy \cup batch
      /\ pass' = [k \in Jobs |-> IF k \in batch THEN [NoPass EXCEPT !.at = "starting"]
                                 ELSE IF k \in busy THEN pass[k] ELSE NoPass]
  BY DEF Drain
<1> HIDE DEF batch
<1>2. /\ NoPass.at = "idle" /\ [NoPass EXCEPT !.at = "starting"].at = "starting"
      /\ [NoPass EXCEPT !.at = "idle"] = NoPass
  BY DEF NoPass
<1>3. CrashCost' = CrashCost /\ CrashCost \in Nat
  BY CrashCostNat DEF CrashCost, IInv
<1>4. ASSUME NEW k \in Jobs
      PROVE  JobOK(row[k], pass'[k], retries[k], decided[k], CrashCost)
  <2>1. JobOK(row[k], pass[k], retries[k], decided[k], CrashCost)
    BY DEF IInv
  <2>2. CASE k \in batch
    <3>1. row[k].status = "queued" /\ row[k].retry # "later" /\ k \notin busy
      BY <1>1, <2>2 DEF Claimable
    <3>2. pass'[k] = [NoPass EXCEPT !.at = "starting"] /\ pass[k].at \in {"idle", "exit"}
      BY <1>1, <2>2, <3>1
    <3> QED
      BY <1>3, <2>1, <3>1, <3>2, DrainedJob
  <2>3. CASE k \in busy \ batch
    BY <1>1, <2>1, <2>3
  <2>4. CASE k \notin busy \cup batch
    <3>1. pass'[k] = [NoPass EXCEPT !.at = "idle"] /\ pass[k].at \in {"idle", "exit"}
      BY <1>1, <1>2, <2>4
    <3> QED
      BY <1>3, <2>1, <3>1, DrainedJob
  <2> QED
    BY <2>2, <2>3, <2>4
<1>5. Worker'
  BY <1>1, <1>2 DEF Worker
<1>6. Boot'
  <2> SUFFICES ASSUME NEW k \in boot'.stale
               PROVE  pass'[k].at = "idle" /\ row[k].status \in Passing \cup {"cancelled"}
    BY DEF Boot
  <2>1. k \in Jobs /\ pass[k].at = "idle" /\ row[k].status \in Passing \cup {"cancelled"}
    BY DEF IInv, Boot, Sets
  <2>2. k \notin batch
    BY <1>1, <2>1 DEF Claimable, Passing
  <2> QED
    BY <1>1, <1>2, <2>1, <2>2
<1>7. Functions'
  BY <1>1 DEF IInv, Functions
<1> QED
  BY <1>3, <1>4, <1>5, <1>6, <1>7 DEF IInv

\* What a handler of one pass leaves alone, when it touches no worker set.
PassFrame ==
  /\ processing' = processing /\ stops' = stops /\ stopping' = stopping /\ kick' = kick
  /\ boot' = boot /\ crashes' = crashes /\ requests' = requests

\* A step of one pass that changes its record, its pass and what it was billed.
LEMMA PassJob ==
  ASSUME IInv, PassFrame, NEW j \in Jobs, timer' \subseteq timer \cup {j},
         pass[j].at # "idle", NEW r, NEW p, NEW n, NEW d,
         JobOK(r, p, n, d, CrashCost),
         row' = [row EXCEPT ![j] = r], pass' = [pass EXCEPT ![j] = p],
         retries' = [retries EXCEPT ![j] = n], decided' = [decided EXCEPT ![j] = d]
  PROVE  IInv'
<1>1. Sets'
  BY DEF IInv, Sets, PassFrame
<1>2. j \notin boot'.stale /\ boot'.stale \subseteq boot.stale
  BY DEF IInv, Boot, PassFrame
<1> QED
  BY <1>1, <1>2, OneJob DEF PassFrame

\* Leaving what a job was billed alone is writing it back.
LEMMA SameHistory ==
  ASSUME IInv, NEW j \in Jobs
  PROVE  /\ retries' = retries => retries' = [retries EXCEPT ![j] = retries[j]]
         /\ decided' = decided => decided' = [decided EXCEPT ![j] = decided[j]]
         /\ row' = row => row' = [row EXCEPT ![j] = row[j]]
         /\ pass' = pass => pass' = [pass EXCEPT ![j] = pass[j]]
BY DEF IInv, Functions

\* A step of one pass that bills nothing.
LEMMA FreePassJob ==
  ASSUME IInv, PassFrame, NEW j \in Jobs, timer' = timer,
         pass[j].at # "idle", NEW r, NEW p,
         JobOK(r, p, retries[j], decided[j], CrashCost),
         row' = [row EXCEPT ![j] = r], pass' = [pass EXCEPT ![j] = p],
         retries' = retries, decided' = decided
  PROVE  IInv'
<1>1. /\ retries' = [retries EXCEPT ![j] = retries[j]]
      /\ decided' = [decided EXCEPT ![j] = decided[j]]
  BY SameHistory
<1>2. timer' \subseteq timer \cup {j}
  OBVIOUS
<1>3. ASSUME NEW n, NEW d, n = retries[j], d = decided[j] PROVE IInv'
  <2>1. /\ JobOK(r, p, n, d, CrashCost)
        /\ retries' = [retries EXCEPT ![j] = n] /\ decided' = [decided EXCEPT ![j] = d]
    BY <1>1, <1>3
  <2> QED
    BY <1>2, <2>1, PassJob
<1> QED
  BY <1>3

\* A pass that sees its stop unwinds.
LEMMA UnwindInv ==
  ASSUME IInv, NEW j \in Jobs, pass[j].at \in Ready \cup Mid, Unwind(j)
  PROVE  IInv'
<1> DEFINE p == [pass[j] EXCEPT !.at = "exit"]
<1>1. JobOK(row[j], pass[j], retries[j], decided[j], CrashCost) /\ CrashCost \in Nat
  BY CrashCostNat DEF IInv
<1>2. JobOK(Cancelled(row[j]), p, retries[j], decided[j], CrashCost)
  BY <1>1, UnwoundJob
<1>3. row' = [row EXCEPT ![j] = Cancelled(row[j])] /\ pass' = [pass EXCEPT ![j] = p]
  BY DEF Unwind, Goto, IInv, Functions
<1>4. PassFrame /\ timer' = timer /\ retries' = retries /\ decided' = decided
  BY DEF Unwind, passRest, history, PassFrame
<1>5. pass[j].at # "idle"
  BY DEF Ready, Mid
<1> HIDE DEF p
<1> QED
  BY <1>2, <1>3, <1>4, <1>5, FreePassJob

\* A started pass finds its record still wanted, or unwinds.
LEMMA StartPassInv == ASSUME IInv, NEW j \in Jobs, StartPass(j) PROVE IInv'
<1>1. CASE Unwind(j)
  BY <1>1, UnwindInv DEF StartPass, Ready
<1>2. CASE Goto(j, "claiming") /\ UNCHANGED <<row, timer, passRest>>
  <2> DEFINE p == [pass[j] EXCEPT !.at = "claiming"]
  <2>1. JobOK(row[j], pass[j], retries[j], decided[j], CrashCost) /\ CrashCost \in Nat
        /\ pass[j].at = "starting"
    BY CrashCostNat DEF IInv, StartPass
  <2>2. JobOK(row[j], p, retries[j], decided[j], CrashCost)
    BY <2>1, MovedJob
  <2>3. pass' = [pass EXCEPT ![j] = p] /\ row' = [row EXCEPT ![j] = row[j]]
    BY <1>2 DEF Goto, IInv, Functions
  <2>4. PassFrame /\ timer' = timer /\ retries' = retries /\ decided' = decided
    BY <1>2 DEF passRest, history, PassFrame
  <2> HIDE DEF p
  <2> QED
    BY <2>1, <2>2, <2>3, <2>4, FreePassJob
<1> QED
  BY <1>1, <1>2 DEF StartPass

\* The claim of a pass.
LEMMA ClaimInv == ASSUME IInv, NEW j \in Jobs, Claim(j) PROVE IInv'
<1> DEFINE r == [row[j] EXCEPT !.status = "extracting", !.retry = "none", !.claims = @ + 1,
                               !.total = row[j].claims + 1, !.open = @ + 1]
           p == [at |-> "extract", cursor |-> row[j].cursor, fresh |-> 0]
<1>1. JobOK(row[j], pass[j], retries[j], decided[j], CrashCost) /\ CrashCost \in Nat
      /\ pass[j].at = "claiming"
  BY CrashCostNat DEF IInv, Claim
<1>2. JobOK(r, p, retries[j], decided[j], CrashCost)
  BY <1>1, ClaimedJob
<1>3. row' = [row EXCEPT ![j] = r] /\ pass' = [pass EXCEPT ![j] = p]
  BY DEF Claim
<1>4. PassFrame /\ timer' = timer /\ retries' = retries /\ decided' = decided
  BY DEF Claim, passRest, history, PassFrame
<1> HIDE DEF r, p
<1> QED
  BY <1>1, <1>2, <1>3, <1>4, FreePassJob

\* The status patches of a pass under way.
LEMMA StatusInv ==
  ASSUME IInv, NEW j \in Jobs, pass[j].at \in Mid, NEW status \in Passing, NEW at \in Mid,
         row' = [row EXCEPT ![j].status = status], Goto(j, at), UNCHANGED <<timer, passRest>>
  PROVE  IInv'
<1> DEFINE r == [row[j] EXCEPT !.status = status]
           p == [pass[j] EXCEPT !.at = at]
<1>1. JobOK(row[j], pass[j], retries[j], decided[j], CrashCost) /\ CrashCost \in Nat
  BY CrashCostNat DEF IInv
<1>2. JobOK(r, p, retries[j], decided[j], CrashCost)
  BY <1>1, StatusJob
<1>3. row' = [row EXCEPT ![j] = r] /\ pass' = [pass EXCEPT ![j] = p]
  BY DEF Goto, IInv, Functions
<1>4. PassFrame /\ timer' = timer /\ retries' = retries /\ decided' = decided
  BY DEF passRest, history, PassFrame
<1>5. pass[j].at # "idle"
  BY DEF Mid
<1> HIDE DEF r, p
<1> QED
  BY <1>2, <1>3, <1>4, <1>5, FreePassJob

\* The extraction ends.
LEMMA ExtractedInv == ASSUME IInv, NEW j \in Jobs, Extracted(j) PROVE IInv'
<1>1. pass[j].at \in Mid /\ pass[j].at \in Ready \cup Mid /\ "analyze" \in Mid
      /\ "analyzing" \in Passing
  BY DEF Extracted, Mid, Passing
<1> QED
  BY <1>1, UnwindInv, StatusInv DEF Extracted

\* The highlights are stored.
LEMMA FinalizingInv == ASSUME IInv, NEW j \in Jobs, Finalizing(j) PROVE IInv'
<1>1. pass[j].at \in Mid /\ "finalize" \in Mid /\ "finalizing" \in Passing
  BY DEF Finalizing, Mid, Passing
<1> QED
  BY <1>1, StatusInv DEF Finalizing

\* The analysis ends, at the last window or at a stop.
LEMMA AnalyzedInv == ASSUME IInv, NEW j \in Jobs, Analyzed(j) PROVE IInv'
<1>1. pass[j].at \in Mid /\ pass[j].at # "idle"
  BY DEF Analyzed, Mid
<1>2. CASE Unwind(j)
  BY <1>1, <1>2, UnwindInv
<1>3. CASE Goto(j, "probe") /\ UNCHANGED <<row, timer, passRest>>
  <2> DEFINE p == [pass[j] EXCEPT !.at = "probe"]
  <2>1. JobOK(row[j], pass[j], retries[j], decided[j], CrashCost) /\ CrashCost \in Nat
    BY CrashCostNat DEF IInv
  <2>2. JobOK(row[j], p, retries[j], decided[j], CrashCost)
    BY <1>1, <2>1, MovedJob DEF Mid
  <2>3. pass' = [pass EXCEPT ![j] = p] /\ row' = [row EXCEPT ![j] = row[j]]
    BY <1>3 DEF Goto, IInv, Functions
  <2>4. PassFrame /\ timer' = timer /\ retries' = retries /\ decided' = decided
    BY <1>3 DEF passRest, history, PassFrame
  <2> HIDE DEF p
  <2> QED
    BY <1>1, <2>2, <2>3, <2>4, FreePassJob
<1> QED
  BY <1>2, <1>3 DEF Analyzed

\* A window is decided and, at the cadence, checkpointed.
LEMMA DecideInv == ASSUME IInv, NEW j \in Jobs, Decide(j) PROVE IInv'
<1> DEFINE c == IF (pass[j].fresh + 1) % Every = 0 THEN Larger(row[j].cursor, pass[j].cursor + 1)
                ELSE row[j].cursor
           r == [row[j] EXCEPT !.cursor = c]
           p == [pass[j] EXCEPT !.cursor = pass[j].cursor + 1, !.fresh = pass[j].fresh + 1]
<1>1. JobOK(row[j], pass[j], retries[j], decided[j], CrashCost) /\ CrashCost \in Nat
      /\ pass[j].at = "analyze" /\ pass[j].cursor < Windows
  BY CrashCostNat DEF IInv, Decide
<1>2. JobOK(r, p, retries[j], decided[j] + 1, CrashCost)
  BY <1>1, DecidedJob
<1>3. /\ row' = [row EXCEPT ![j] = r] /\ pass' = [pass EXCEPT ![j] = p]
      /\ decided' = [decided EXCEPT ![j] = decided[j] + 1]
  BY DEF Decide, IInv, Functions
<1>4. PassFrame /\ timer' = timer /\ retries' = retries
  BY DEF Decide, PassFrame
<1> HIDE DEF r, p, c
<1> QED
  BY <1>1, <1>2, <1>3, <1>4, SameHistory, PassJob

\* A pass completes its job.
LEMMA DoneInv == ASSUME IInv, NEW j \in Jobs, Done(j) PROVE IInv'
<1> DEFINE c == Larger(row[j].cursor, pass[j].cursor)
           t == row[j].claims
           r == [Closed(row[j]) EXCEPT !.status = "done", !.retry = "none", !.total = t,
                                       !.cursor = c]
           p == [pass[j] EXCEPT !.at = "exit"]
<1>1. /\ JobOK(row[j], pass[j], retries[j], decided[j], CrashCost) /\ CrashCost \in Nat
      /\ pass[j].at \in Mid /\ pass[j].at # "idle"
  BY CrashCostNat DEF IInv, Done, Mid
<1>2. /\ row[j] \in Row /\ pass[j] \in Pass /\ row[j].open = 1 /\ retries[j] \in Nat
  BY <1>1 DEF JobOK, TrailOK, Mid
<1>3. c \in 0..Windows /\ c >= pass[j].cursor /\ t \in Nat
  BY <1>2, VodAssumption DEF Larger, Row, Pass
<1>4. /\ Closed(row[j]) \in Row /\ Closed(row[j]).ended = row[j].ended + 1
      /\ Closed(row[j]).open = 0 /\ Closed(row[j]).claims = row[j].claims
  BY <1>2, ClosedFacts
<1>5. row' = [row EXCEPT ![j] = r] /\ pass' = [pass EXCEPT ![j] = p]
  BY DEF Done, Goto
<1> HIDE DEF c, t
<1>6. /\ r \in Row /\ r.status = "done" /\ r.ended = row[j].ended + 1 /\ r.open = 0
      /\ r.claims = row[j].claims /\ r.total = t /\ r.cursor = c
  BY <1>3, <1>4 DEF Row, Terminal
<1> HIDE DEF r
<1>7. JobOK(r, p, retries[j], decided[j], CrashCost)
  BY <1>1, <1>2, <1>3, <1>6, EndedJob DEF t
<1>8. PassFrame /\ timer' = timer /\ retries' = retries /\ decided' = decided
  BY DEF Done, passRest, history, PassFrame
<1> HIDE DEF p
<1> QED
  BY <1>1, <1>5, <1>7, <1>8, FreePassJob

\* The record of a failed attempt.
LEMMA FailureFacts ==
  ASSUME IInv, NEW j \in Jobs, pass[j].at \in Mid, NEW status \in {"queued", "failed"}
  PROVE  /\ Failure(j, status) \in Row
         /\ Failure(j, status).status = status
         /\ Failure(j, status).ended = row[j].ended + 1
         /\ Failure(j, status).open = 0
         /\ Failure(j, status).claims = row[j].claims
         /\ Failure(j, status).total = row[j].claims
         /\ Failure(j, status).cursor >= pass[j].cursor
<1> DEFINE k == Closed(row[j])
           q == IF pass[j].fresh > 0 THEN pass[j].cursor ELSE 0
           c == Larger(k.cursor, q)
           e == IF status = "queued" THEN "later" ELSE k.retry
           t == row[j].claims
<1> USE VodAssumption
<1>1. JobOK(row[j], pass[j], retries[j], decided[j], CrashCost)
  BY DEF IInv
<1>2. /\ row[j] \in Row /\ pass[j] \in Pass /\ row[j].open = 1
      /\ pass[j].cursor <= row[j].cursor + (pass[j].fresh % Every)
  BY <1>1 DEF JobOK, TrailOK, BilledOK
<1>3. /\ k \in Row /\ k.ended = row[j].ended + 1 /\ k.open = 0
      /\ k.claims = row[j].claims /\ k.cursor = row[j].cursor
  BY <1>2, ClosedFacts
<1>4. /\ row[j].cursor \in 0..Windows /\ pass[j].cursor \in 0..Windows /\ t \in Nat
      /\ pass[j].fresh \in Nat /\ Windows \in Nat /\ Every \in Nat \ {0}
  BY <1>2 DEF Row, Pass
<1>5. pass[j].fresh = 0 => pass[j].cursor <= row[j].cursor
  BY <1>2, <1>4, ModZero
<1>6. c \in 0..Windows /\ c >= pass[j].cursor
  BY <1>3, <1>4, <1>5 DEF Larger
<1>7. e \in {"none", "later", "due"}
  BY <1>3 DEF Row
<1>8. Failure(j, status) = [k EXCEPT !.status = status, !.total = t, !.retry = e, !.cursor = c]
  BY DEF Failure
<1>9. status \in {"absent", "queued"} \cup Passing \cup Terminal
  BY DEF Terminal
<1> HIDE DEF k, q, c, e, t
<1> DEFINE f == [k EXCEPT !.status = status, !.total = t, !.retry = e, !.cursor = c]
<1>10. /\ f \in Row /\ f.status = status /\ f.ended = k.ended /\ f.open = k.open
       /\ f.claims = k.claims /\ f.total = t /\ f.cursor = c
  BY <1>3, <1>4, <1>6, <1>7, <1>9 DEF Row
<1> HIDE DEF f
<1>11. Failure(j, status) = f
  BY <1>8 DEF f
<1> QED
  BY <1>3, <1>6, <1>10, <1>11 DEF t

\* A pass fails: retried while the budget lasts, else failed for good.
LEMMA FailInv == ASSUME IInv, NEW j \in Jobs, Fail(j) PROVE IInv'
<1>1. /\ JobOK(row[j], pass[j], retries[j], decided[j], CrashCost) /\ CrashCost \in Nat
      /\ pass[j].at \in Mid /\ pass[j].at # "idle" /\ pass[j].at \in Ready \cup Mid
  BY CrashCostNat DEF IInv, Fail, Mid
<1>2. CASE j \in stops
  BY <1>1, <1>2, UnwindInv DEF Fail
<1>3. CASE j \notin stops
  <2>1. PICK resumable \in BOOLEAN :
          LET again == resumable /\ row[j].ended < MaxRetries
          IN /\ row' = [row EXCEPT ![j] = Failure(j, IF again THEN "queued" ELSE "failed")]
             /\ timer' = IF again THEN timer \cup {j} ELSE timer
             /\ retries' = IF again THEN [retries EXCEPT ![j] = retries[j] + 1] ELSE retries
             /\ Goto(j, "exit")
             /\ UNCHANGED <<processing, stops, stopping, kick, boot,
                            crashes, requests, decided>>
    BY <1>3 DEF Fail
  <2> DEFINE p == [pass[j] EXCEPT !.at = "exit"]
  <2>2. PassFrame /\ decided' = [decided EXCEPT ![j] = decided[j]]
        /\ pass' = [pass EXCEPT ![j] = p]
    BY <2>1, SameHistory DEF PassFrame, Goto
  <2>3. retries[j] \in Nat
    BY <1>1 DEF JobOK
  <2>4. CASE resumable /\ row[j].ended < MaxRetries
    <3> DEFINE r == Failure(j, "queued")
               n == retries[j] + 1
    <3>1. /\ row' = [row EXCEPT ![j] = r] /\ retries' = [retries EXCEPT ![j] = n]
          /\ timer' \subseteq timer \cup {j}
      BY <2>1, <2>4
    <3>2. JobOK(r, p, n, decided[j], CrashCost)
      BY <1>1, <2>3, <2>4, FailureFacts, EndedJob
    <3> HIDE DEF p, r, n
    <3> QED
      BY <1>1, <2>2, <3>1, <3>2, PassJob
  <2>5. CASE ~(resumable /\ row[j].ended < MaxRetries)
    <3> DEFINE r == Failure(j, "failed")
    <3>1. /\ row' = [row EXCEPT ![j] = r] /\ retries' = retries /\ timer' = timer
          /\ decided' = decided
      BY <2>1, <2>5
    <3>2. JobOK(r, p, retries[j], decided[j], CrashCost)
      BY <1>1, <2>3, FailureFacts, EndedJob
    <3> HIDE DEF p, r
    <3> QED
      BY <1>1, <2>2, <3>1, <3>2, FreePassJob
  <2> QED
    BY <2>4, <2>5
<1> QED
  BY <1>2, <1>3

\* A pass leaves its slot, and the queue is drained.
LEMMA ExitInv == ASSUME IInv, NEW j \in Jobs, Exit(j) PROVE IInv'
<1>1. Drain(processing \ {j}) /\ pass[j].at = "exit" /\ row' = row /\ retries' = retries
      /\ decided' = decided /\ crashes' = crashes /\ requests' = requests /\ boot' = boot
      /\ stops' = stops /\ stopping' = stopping /\ kick' = kick /\ timer' = timer
  BY DEF Exit, history
<1>2. \A k \in Jobs : pass[k].at \notin {"idle", "exit"} => k \in processing \ {j}
  BY <1>1 DEF IInv, Worker
<1>3. processing \ {j} \in SUBSET Jobs
  BY DEF IInv, Sets
<1>4. processing' \subseteq Jobs
  BY <1>1, <1>3 DEF Drain
<1>5. Sets' /\ boot'.stale \subseteq boot.stale
  BY <1>1, <1>4 DEF IInv, Sets
<1> QED
  BY <1>1, <1>2, <1>3, <1>5, DrainInv

\* The drains that free no slot.
LEMMA KickInv ==
  ASSUME IInv, Drain(processing), row' = row, history' = history,
         stops' = stops, stopping' = stopping, kick' \subseteq kick, timer' \subseteq timer,
         boot' \in {boot, Booted}
  PROVE  IInv'
<1>1. \A k \in Jobs : pass[k].at \notin {"idle", "exit"} => k \in processing
  BY DEF IInv, Worker
<1>2. processing \in SUBSET Jobs /\ processing' \subseteq Jobs
  BY DEF IInv, Sets, Drain
<1>3. retries' = retries /\ decided' = decided /\ crashes' = crashes /\ requests' = requests
  BY DEF history
<1>4. boot' \in [queued: SUBSET Jobs, stale: SUBSET Jobs, drain: BOOLEAN]
      /\ boot'.stale \subseteq boot.stale
  <2>1. CASE boot' = boot
    BY <2>1 DEF IInv, Sets
  <2>2. CASE boot' = Booted
    BY <2>2 DEF IInv, Sets, Booted
  <2> QED
    BY <2>1, <2>2
<1>5. Sets'
  BY <1>2, <1>3, <1>4 DEF IInv, Sets
<1> QED
  BY <1>1, <1>2, <1>3, <1>4, <1>5, DrainInv

\* A request, a timer or the boot changes a record and no pass.
LEMMA RowInv ==
  ASSUME IInv, NEW j \in Jobs, NEW r, JobOK(r, pass[j], retries[j], decided[j], CrashCost),
         row' = [row EXCEPT ![j] = r], pass' = pass, processing' = processing,
         retries' = retries, decided' = decided, crashes' = crashes, Sets',
         boot'.stale \subseteq boot.stale,
         j \in boot'.stale => r.status \in Passing \cup {"cancelled"}
  PROVE  IInv'
<1>1. row'[j] = r /\ (\A k \in Jobs \ {j} : row'[k] = row[k]) /\ Functions'
  BY DEF IInv, Functions
<1>2. Worker'
  BY DEF IInv, Worker
<1>3. Boot'
  BY <1>1 DEF IInv, Boot, Sets
<1>4. CrashCost' = CrashCost
  BY DEF CrashCost
<1>5. \A k \in Jobs : JobOK(row[k], pass[k], retries[k], decided[k], CrashCost)'
  BY <1>1, <1>4 DEF IInv
<1> QED
  BY <1>1, <1>2, <1>3, <1>5 DEF IInv

\* An upload.
LEMMA SubmitInv == ASSUME IInv, NEW j \in Jobs, Submit(j) PROVE IInv'
<1>1. JobOK(row[j], pass[j], retries[j], decided[j], CrashCost) /\ CrashCost \in Nat
      /\ row[j].status = "absent"
  BY CrashCostNat DEF IInv, Submit
<1>2. JobOK(NewRow, pass[j], retries[j], decided[j], CrashCost)
  BY <1>1, SubmittedJob
<1>3. /\ row' = [row EXCEPT ![j] = NewRow] /\ pass' = pass /\ processing' = processing
      /\ retries' = retries /\ decided' = decided /\ crashes' = crashes /\ boot' = boot
  BY DEF Submit, history
<1>4. Sets'
  BY DEF IInv, Sets, Submit, history
<1>5. j \notin boot'.stale
  BY <1>1, <1>3 DEF IInv, Boot, Passing
<1> QED
  BY <1>2, <1>3, <1>4, <1>5, RowInv

\* The retry timer of a job.
LEMMA ElapseInv == ASSUME IInv, NEW j \in Jobs, Elapse(j) PROVE IInv'
<1> DEFINE r == [row[j] EXCEPT !.retry = "due"]
<1>1. JobOK(row[j], pass[j], retries[j], decided[j], CrashCost) /\ CrashCost \in Nat
      /\ row[j].retry = "later"
  BY CrashCostNat DEF IInv, Elapse
<1>2. JobOK(r, pass[j], retries[j], decided[j], CrashCost)
  BY <1>1, ElapsedJob
<1>3. /\ row' = [row EXCEPT ![j] = r] /\ pass' = pass /\ processing' = processing
      /\ retries' = retries /\ decided' = decided /\ crashes' = crashes /\ boot' = boot
  BY DEF Elapse, history
<1>4. Sets'
  BY DEF IInv, Sets, Elapse, history
<1>5. j \in boot'.stale => r.status \in Passing \cup {"cancelled"}
  BY <1>1, <1>3 DEF IInv, Boot, JobOK, Row
<1> HIDE DEF r
<1> QED
  BY <1>2, <1>3, <1>4, <1>5, RowInv

\* A stop marks the job for its worker.
LEMMA StopSignalInv == ASSUME IInv, NEW j \in Jobs, StopSignal(j) PROVE IInv'
<1>1. /\ row' = row /\ pass' = pass /\ processing' = processing /\ boot' = boot
      /\ retries' = retries /\ decided' = decided /\ crashes' = crashes
  BY DEF StopSignal
<1>2. Sets'
  BY VodAssumption DEF IInv, Sets, StopSignal, Event
<1> QED
  BY <1>1, <1>2 DEF IInv, Functions, Worker, Boot, CrashCost

\* A stop writes the record.
LEMMA StopSettleInv == ASSUME IInv, NEW j \in Jobs, StopSettle(j) PROVE IInv'
<1> DEFINE r == Cancelled(row[j])
<1>1. JobOK(row[j], pass[j], retries[j], decided[j], CrashCost) /\ CrashCost \in Nat
  BY CrashCostNat DEF IInv
<1>2. JobOK(r, pass[j], retries[j], decided[j], CrashCost)
  BY <1>1, CancelledJob
<1>3. /\ row' = [row EXCEPT ![j] = r] /\ pass' = pass /\ processing' = processing
      /\ retries' = retries /\ decided' = decided /\ crashes' = crashes /\ boot' = boot
  BY DEF StopSettle, history
<1>4. Sets'
  BY DEF IInv, Sets, StopSettle, history
<1>5. j \in boot'.stale => r.status \in Passing \cup {"cancelled"}
  BY <1>1, <1>3 DEF IInv, Boot, JobOK, Row, Cancelled
<1> HIDE DEF r
<1> QED
  BY <1>2, <1>3, <1>4, <1>5, RowInv

\* A job no worker holds is armed again.
LEMMA ArmInv ==
  ASSUME IInv, NEW j \in Jobs, row[j].status \in Passing \cup {"failed"}, pass[j].at \notin Mid,
         row' = [row EXCEPT ![j] = Armed(row[j])], pass' = pass, processing' = processing,
         retries' = retries, decided' = decided, crashes' = crashes, Sets',
         boot'.stale \subseteq boot.stale, j \notin boot'.stale
  PROVE  IInv'
<1> DEFINE r == Armed(row[j])
<1>1. JobOK(row[j], pass[j], retries[j], decided[j], CrashCost) /\ CrashCost \in Nat
  BY CrashCostNat DEF IInv
<1>2. JobOK(r, pass[j], retries[j], decided[j], CrashCost)
  BY <1>1, ArmedJob
<1>3. row' = [row EXCEPT ![j] = r]
  OBVIOUS
<1> HIDE DEF r
<1> QED
  BY <1>2, <1>3, RowInv

\* A resume by hand.
LEMMA ResumeInv == ASSUME IInv, NEW j \in Jobs, Resume(j) PROVE IInv'
<1>1. /\ row[j].status = "failed" /\ row' = [row EXCEPT ![j] = Armed(row[j])]
      /\ pass' = pass /\ processing' = processing /\ boot' = boot
      /\ retries' = retries /\ decided' = decided /\ crashes' = crashes
  BY DEF Resume
<1>2. Sets'
  BY VodAssumption DEF IInv, Sets, Resume, Event
<1>3. pass[j].at \notin Mid /\ j \notin boot'.stale
  BY <1>1 DEF IInv, JobOK, TrailOK, Boot, Passing
<1> QED
  BY <1>1, <1>2, <1>3, ArmInv

\* One record of the boot's list is recovered.
LEMMA RecoverStaleInv == ASSUME IInv, NEW j \in Jobs, RecoverStale(j) PROVE IInv'
<1>1. /\ j \in boot.stale /\ pass' = pass /\ processing' = processing
      /\ boot' = [boot EXCEPT !.stale = boot.stale \ {j}]
      /\ retries' = retries /\ decided' = decided /\ crashes' = crashes /\ requests' = requests
      /\ stops' = stops /\ stopping' = stopping /\ timer' = timer
      /\ kick' \subseteq kick \cup {j}
  BY DEF RecoverStale, history
<1>2. /\ boot'.stale = boot.stale \ {j}
      /\ boot' \in [queued: SUBSET Jobs, stale: SUBSET Jobs, drain: BOOLEAN]
  BY <1>1 DEF IInv, Sets
<1>3. Sets'
  BY <1>1, <1>2 DEF IInv, Sets
<1>4. CASE row[j].status \in Passing
  <2>1. row' = [row EXCEPT ![j] = Armed(row[j])]
    BY <1>4 DEF RecoverStale
  <2>2. pass[j].at \notin Mid
    BY <1>1 DEF IInv, Boot, Mid
  <2> QED
    BY <1>1, <1>2, <1>3, <1>4, <2>1, <2>2, ArmInv
<1>5. CASE row' = row
  BY <1>1, <1>2, <1>3, <1>5 DEF IInv, Functions, Worker, Boot, CrashCost
<1> QED
  BY <1>4, <1>5 DEF RecoverStale

\* The death of the process leaves the records as they are.
LEMMA RestartInv == ASSUME IInv, Restart PROVE IInv'
<1>1. /\ row' = row /\ retries' = retries /\ decided' = decided
      /\ crashes' = crashes + 1 /\ requests' = requests
      /\ pass' = [j \in Jobs |-> NoPass]
      /\ processing' = {} /\ stops' = {} /\ stopping' = {} /\ kick' = {} /\ timer' = {}
      /\ boot' = [queued |-> {j \in Jobs : row[j].status = "queued"},
                  stale |-> {j \in Jobs : row[j].status \in Passing}, drain |-> TRUE]
  BY DEF Restart
<1>2. CrashCost \in Nat /\ crashes \in Nat /\ Every \in Nat \ {0}
  BY CrashCostNat, VodAssumption DEF IInv, Sets
<1>3. CrashCost' = CrashCost + (Every - 1)
  <2>1. (crashes + 1) * (Every - 1) = crashes * (Every - 1) + (Every - 1)
    BY <1>2
  <2> QED
    BY <1>1, <2>1 DEF CrashCost
<1>4. Sets'
  BY <1>1, <1>2, VodAssumption DEF IInv, Sets, Restart, Event
<1>5. Functions' /\ Worker' /\ Boot'
  BY <1>1 DEF IInv, Functions, Worker, Boot, NoPass
<1>6. ASSUME NEW j \in Jobs
      PROVE  JobOK(row[j], NoPass, retries[j], decided[j], CrashCost + (Every - 1))
  <2>1. JobOK(row[j], pass[j], retries[j], decided[j], CrashCost)
    BY DEF IInv
  <2> QED
    BY <1>2, <2>1, CrashedJob
<1>7. \A j \in Jobs : JobOK(row[j], pass[j], retries[j], decided[j], CrashCost)'
  BY <1>1, <1>3, <1>6
<1> QED
  BY <1>4, <1>5, <1>7 DEF IInv

\* The boot's recovery.
LEMMA RecoverInv == ASSUME IInv, Recover PROVE IInv'
<1>1. ASSUME RecoverDrain PROVE IInv'
  BY <1>1, KickInv DEF RecoverDrain, history
<1>2. ASSUME NEW j \in Jobs, RecoverQueued(j) PROVE IInv'
  <2>1. /\ row' = row /\ pass' = pass /\ processing' = processing
        /\ retries' = retries /\ decided' = decided /\ crashes' = crashes
        /\ requests' = requests /\ stops' = stops /\ stopping' = stopping /\ kick' = kick
        /\ timer' \subseteq timer \cup {j}
        /\ boot' = [boot EXCEPT !.queued = boot.queued \ {j}]
    BY <1>2 DEF RecoverQueued, history
  <2>2. boot'.stale = boot.stale
        /\ boot' \in [queued: SUBSET Jobs, stale: SUBSET Jobs, drain: BOOLEAN]
    BY <2>1 DEF IInv, Sets
  <2>3. Sets'
    BY <2>1, <2>2 DEF IInv, Sets
  <2> QED
    BY <2>1, <2>2, <2>3 DEF IInv, Functions, Worker, Boot, CrashCost
<1> QED
  BY <1>1, <1>2, RecoverStaleInv DEF Recover

\* Every step keeps the invariant.
LEMMA StepInv == ASSUME IInv, [Next]_vars PROVE IInv'
<1>1. ASSUME NEW j \in Jobs, EnqueueVodJob(j) \/ TimerFires(j) PROVE IInv'
  <2>1. /\ Drain(processing) /\ row' = row /\ history' = history /\ boot' = boot
        /\ stops' = stops /\ stopping' = stopping /\ kick' \subseteq kick /\ timer' \subseteq timer
    BY <1>1 DEF EnqueueVodJob, TimerFires, history
  <2> QED
    BY <2>1, KickInv
<1>2. ASSUME NEW j \in Jobs, PassStep(j) PROVE IInv'
  BY <1>2, StartPassInv, ClaimInv, ExtractedInv, DecideInv, AnalyzedInv, FinalizingInv,
     DoneInv, FailInv, ExitInv DEF PassStep
<1>3. CASE UNCHANGED vars
  BY <1>3 DEF vars, IInv, Sets, Functions, Worker, Boot, CrashCost
<1> QED
  BY <1>1, <1>2, <1>3, SubmitInv, ElapseInv, StopSignalInv, StopSettleInv, ResumeInv,
     RecoverInv, RestartInv DEF Next

\* The strengthening holds of every reachable state of the queue: trail, retries
\* and bills of each job, the worker's sets and the boot's list.
THEOREM InvHolds == Spec => []IInv
BY InitInv, StepInv, PTL DEF Spec
-----------------------------------------------------------------------------
(***************************************************************************)
(* The properties.                                                         *)
(***************************************************************************)

\* The records, passes, worker sets and counters of the queue keep their types
\* (JobRecord and the sets of createApi).
THEOREM TypeCorrect == Spec => []TypeOK
<1>1. IInv => TypeOK
  BY DEF IInv, Sets, Functions, JobOK, TypeOK
<1> QED
  BY <1>1, InvHolds, PTL

\* The attempt trail tells the truth through any failures, crashes, resumes and
\* stops: one entry per claim, none open on a record no pass holds, and the
\* total is the number of claims (vod-resume.ts, markJobFailed, armVodResume).
THEOREM TrailMatchesClaimsHolds == Spec => []TrailMatchesClaims
<1>1. IInv => TrailMatchesClaims
  BY DEF IInv, JobOK, TrailOK, TrailMatchesClaims
<1> QED
  BY <1>1, InvHolds, PTL

\* No job is retried automatically more often than VOD_RESUME_MAX_ATTEMPTS,
\* whatever crashes and manual resumes come between (resumeAttemptsRemaining).
THEOREM RetryBudgetHolds == Spec => []RetryBudget
<1>1. IInv => RetryBudget
  BY DEF IInv, JobOK, RetriesOK, RetryBudget
<1> QED
  BY <1>1, InvHolds, PTL

\* No drain claims a job before its backoff has elapsed (drainVodQueue).
THEOREM BackoffRespectedHolds == Spec => []BackoffRespected
<1>1. IInv => BackoffRespected
  BY DEF IInv, JobOK, TrailOK, BackoffRespected
<1> QED
  BY <1>1, InvHolds, PTL

\* Each crash bills a job for at most the windows since its last checkpoint a
\* second time, and nothing else does (onDecidedWindow, markJobFailed).
THEOREM DecidesBoundedHolds == Spec => []DecidesBounded
<1>1. IInv => DecidesBounded
  BY DEF IInv, JobOK, BilledOK, DecidesBounded, CrashCost
<1> QED
  BY <1>1, InvHolds, PTL
-----------------------------------------------------------------------------
(***************************************************************************)
(* Nobody is stranded.  The rest of what is needed is about the stops and  *)
(* the boot: a stop marks a job only while its request is settling, or     *)
(* once it has settled on a record no drain looks at; and the boot's lists *)
(* are emptied before its drain.                                           *)
(***************************************************************************)

\* Something will take the job k up, if it is queued.
Taken(k) ==
  row[k].status = "queued" =>
    \/ k \in stopping \/ k \in timer
    \/ IF row[k].retry = "later" THEN k \in boot.queued
                                 ELSE boot.drain \/ kick # {} \/ processing # {}

\* A marked job that a drain, a resume or the boot could queue is still settling.
Marked(k) ==
  k \in stops =>
    /\ row[k].status \notin {"absent", "failed"}
    /\ row[k].status = "queued" => k \in stopping
    /\ k \in boot.stale /\ row[k].status \in Passing => k \in stopping

BootDrains == boot.queued \cup boot.stale # {} => boot.drain

Waits == BootDrains /\ \A k \in Jobs : Taken(k) /\ Marked(k)

\* A nonempty set of naturals has a least element.
LEMMA Least == ASSUME NEW S \in SUBSET Nat, S # {} PROVE \E m \in S : \A k \in S : m <= k
<1> DEFINE Less == {p \in Nat \X Nat : p[1] < p[2]}
<1>1. IsWellFoundedOn(Less, Nat)
  BY NatLessThanWellFounded DEF OpToRel
<1> HIDE DEF Less
<1>2. PICK m \in S : \A k \in S : <<k, m>> \notin Less
  BY <1>1, WFMin
<1>3. ASSUME NEW k \in S PROVE m <= k
  <2>1. <<k, m>> \in Nat \X Nat
    OBVIOUS
  <2>2. ~(k < m)
    BY <1>2, <2>1 DEF Less
  <2> QED
    BY <2>2
<1> QED
  BY <1>3

\* A drain leaves the worker busy if any job may run, whatever else is ready.
LEMMA DrainTakes ==
  ASSUME NEW busy, Drain(busy), NEW j \in Jobs, Claimable(j, busy) \/ j \in busy
  PROVE  processing' # {}
<1> DEFINE ready == {i \in Jobs : Claimable(i, busy)}
           batch == {i \in ready : Cardinality({k \in ready : k < i}) < Concurrency}
<1>1. processing' = busy \cup batch
  BY DEF Drain
<1>2. CASE j \in busy
  BY <1>1, <1>2
<1>3. CASE Claimable(j, busy)
  <2>1. ready \in SUBSET Nat /\ ready # {}
    BY <1>3, VodAssumption
  <2> HIDE DEF ready
  <2>2. PICK m \in ready : \A k \in ready : m <= k
    BY <2>1, Least
  <2>3. {k \in ready : k < m} = {}
    <3>1. ASSUME NEW k \in ready PROVE ~(k < m)
      BY <2>1, <2>2
    <3> QED
      BY <3>1
  <2>4. Cardinality({k \in ready : k < m}) < Concurrency
    BY <2>3, FS_EmptySet, VodAssumption
  <2>5. m \in batch
    BY <2>4
  <2> QED
    BY <1>1, <2>5
<1> QED
  BY <1>2, <1>3

\* A drain leaves nobody behind: who may run makes the worker busy, who may not
\* keeps its timer or its stop.
LEMMA DrainWaits ==
  ASSUME Waits, NEW busy, Drain(busy), UNCHANGED <<row, stops, stopping>>,
         \A k \in timer : k \in timer' \/ row[k].retry # "later",
         \/ boot' = boot
         \/ boot.queued = {} /\ boot.stale = {} /\ boot' = Booted
  PROVE  Waits'
<1>1. /\ BootDrains' /\ boot'.queued = boot.queued
      /\ boot'.stale = boot.stale
  BY DEF Waits, BootDrains, Booted
<1>2. ASSUME NEW k \in Jobs PROVE Taken(k)' /\ Marked(k)'
  <2>1. Taken(k) /\ Marked(k)
    BY DEF Waits
  <2>2. Marked(k)'
    BY <1>1, <2>1 DEF Marked
  <2>3. CASE row[k].status = "queued" /\ row[k].retry # "later" /\ k \notin stopping
    <3>1. k \notin stops
      BY <2>1, <2>3 DEF Marked
    <3>2. Claimable(k, busy) \/ k \in busy
      BY <2>3, <3>1 DEF Claimable
    <3>3. processing' # {}
      BY <3>2, DrainTakes
    <3> QED
      BY <2>2, <2>3, <3>3 DEF Taken
  <2>4. CASE ~(row[k].status = "queued" /\ row[k].retry # "later" /\ k \notin stopping)
    BY <1>1, <2>1, <2>2, <2>4 DEF Taken
  <2> QED
    BY <2>3, <2>4
<1> QED
  BY <1>1, <1>2 DEF Waits

\* A pass under way keeps its slot, and its exit is a drain to come.
LEMMA PassWaits ==
  ASSUME IInv, Waits, PassFrame, NEW j \in Jobs, pass[j].at # "idle",
         timer \subseteq timer', NEW r, row' = [row EXCEPT ![j] = r],
         \/ r.status = row[j].status /\ r.retry = row[j].retry
         \/ r.status \in Passing \cup {"done", "cancelled"}
         \/ j \notin stops /\ (r.status = "queued" => j \in timer')
  PROVE  Waits'
<1>1. row'[j] = r /\ \A k \in Jobs \ {j} : row'[k] = row[k]
  BY DEF IInv, Functions
<1>2. j \in processing' /\ j \notin boot'.stale
  BY DEF IInv, Worker, Boot, PassFrame
<1>3. ASSUME NEW k \in Jobs PROVE Taken(k)' /\ Marked(k)'
  <2>1. Taken(k) /\ Marked(k)
    BY DEF Waits
  <2>2. CASE k # j
    BY <1>1, <2>1, <2>2 DEF Taken, Marked, PassFrame
  <2>3. CASE k = j
    <3>1. CASE r.status = row[j].status /\ r.retry = row[j].retry
      BY <1>1, <1>2, <2>1, <2>3, <3>1 DEF Taken, Marked, PassFrame
    <3>2. CASE r.status \in Passing \cup {"done", "cancelled"}
      BY <1>1, <1>2, <2>3, <3>2 DEF Taken, Marked, Passing
    <3>3. CASE j \notin stops /\ (r.status = "queued" => j \in timer')
      BY <1>1, <2>3, <3>3 DEF Taken, Marked, PassFrame
    <3> QED
      BY <3>1, <3>2, <3>3
  <2> QED
    BY <2>2, <2>3
<1>4. BootDrains'
  BY DEF Waits, BootDrains, PassFrame
<1> QED
  BY <1>3, <1>4 DEF Waits

\* A pass that unwinds leaves a cancelled record.
LEMMA UnwindWaits ==
  ASSUME IInv, Waits, NEW j \in Jobs, pass[j].at \in Ready \cup Mid, Unwind(j)
  PROVE  Waits'
<1> DEFINE r == Cancelled(row[j])
<1>1. row[j] \in Row /\ row[j].status \in Passing \cup {"queued", "cancelled"}
  BY DEF IInv, JobOK, TrailOK
<1>2. r.status = "cancelled"
  <2>1. r = [row[j] EXCEPT !.status = "cancelled", !.retry = "none"]
    BY <1>1 DEF Cancelled, Passing
  <2> HIDE DEF r
  <2> QED
    BY <1>1, <2>1 DEF Row
<1>3. row' = [row EXCEPT ![j] = r] /\ PassFrame /\ timer' = timer
  BY DEF Unwind, passRest, history, PassFrame
<1>4. pass[j].at # "idle"
  BY DEF Ready, Mid
<1> HIDE DEF r
<1> QED
  BY <1>2, <1>3, <1>4, PassWaits

\* The steps of a pass up to its exit.
LEMMA PassStepWaits ==
  ASSUME IInv, Waits, NEW j \in Jobs, PassStep(j), ~Exit(j)
  PROVE  Waits'
<1>1. row[j] \in Row /\ TrailOK(row[j], pass[j]) /\ row = [k \in Jobs |-> row[k]]
  BY DEF IInv, Functions, JobOK
<1>2. CASE Unwind(j) /\ pass[j].at \in Ready \cup Mid
  BY <1>2, UnwindWaits
<1>3. ASSUME row' = row, PassFrame, timer' = timer, pass[j].at # "idle" PROVE Waits'
  <2>1. row' = [row EXCEPT ![j] = row[j]]
    BY <1>1, <1>3
  <2> QED
    BY <1>3, <2>1, PassWaits
<1>4. ASSUME NEW r, row' = [row EXCEPT ![j] = r], PassFrame, timer' = timer,
             pass[j].at # "idle", r.status \in Passing \cup {"done", "cancelled"}
      PROVE  Waits'
  BY <1>4, PassWaits
<1>5. CASE StartPass(j)
  <2>1. pass[j].at \in Ready \cup Mid /\ pass[j].at # "idle"
    BY <1>5 DEF StartPass, Ready
  <2>2. CASE UNCHANGED <<row, timer, passRest>>
    BY <1>3, <2>1, <2>2 DEF passRest, history, PassFrame
  <2> QED
    BY <1>2, <1>5, <2>1, <2>2 DEF StartPass
<1>6. CASE Claim(j)
  <2> DEFINE r == [row[j] EXCEPT !.status = "extracting", !.retry = "none",
                                 !.claims = row[j].claims + 1, !.total = row[j].claims + 1,
                                 !.open = row[j].open + 1]
  <2>1. row' = [row EXCEPT ![j] = r] /\ PassFrame /\ timer' = timer /\ pass[j].at # "idle"
    BY <1>6 DEF Claim, passRest, history, PassFrame
  <2>2. r.status = "extracting"
    BY <1>1 DEF Row
  <2> HIDE DEF r
  <2> QED
    BY <1>4, <2>1, <2>2 DEF Passing
<1>7. ASSUME NEW status \in Passing, row' = [row EXCEPT ![j].status = status],
             PassFrame, timer' = timer, pass[j].at # "idle"
      PROVE  Waits'
  <2> DEFINE r == [row[j] EXCEPT !.status = status]
  <2>1. row' = [row EXCEPT ![j] = r] /\ r.status = status
    BY <1>1, <1>7 DEF Row
  <2> HIDE DEF r
  <2> QED
    BY <1>4, <1>7, <2>1
<1>8. CASE Extracted(j)
  <2>1. pass[j].at \in Ready \cup Mid /\ pass[j].at # "idle"
    BY <1>8 DEF Extracted, Mid
  <2>2. CASE j \in stops
    BY <1>2, <1>8, <2>1, <2>2 DEF Extracted
  <2>3. CASE j \notin stops
    <3>1. row' = [row EXCEPT ![j].status = "analyzing"] /\ PassFrame /\ timer' = timer
      BY <1>8, <2>3 DEF Extracted, passRest, history, PassFrame
    <3> QED
      BY <1>7, <2>1, <3>1 DEF Passing
  <2> QED
    BY <2>2, <2>3
<1>9. CASE Finalizing(j)
  <2>1. row' = [row EXCEPT ![j].status = "finalizing"] /\ PassFrame /\ timer' = timer
        /\ pass[j].at # "idle"
    BY <1>9 DEF Finalizing, passRest, history, PassFrame
  <2> QED
    BY <1>7, <2>1 DEF Passing
<1>10. CASE Analyzed(j)
  <2>1. pass[j].at \in Ready \cup Mid /\ pass[j].at # "idle"
    BY <1>10 DEF Analyzed, Mid
  <2>2. CASE UNCHANGED <<row, timer, passRest>>
    BY <1>3, <2>1, <2>2 DEF passRest, history, PassFrame
  <2> QED
    BY <1>2, <1>10, <2>1, <2>2 DEF Analyzed
<1>11. CASE Decide(j)
  <2> DEFINE c == IF (pass[j].fresh + 1) % Every = 0
                  THEN Larger(row[j].cursor, pass[j].cursor + 1) ELSE row[j].cursor
             r == [row[j] EXCEPT !.cursor = c]
  <2>1. row' = [row EXCEPT ![j] = r] /\ PassFrame /\ timer' = timer /\ pass[j].at # "idle"
    BY <1>1, <1>11 DEF Decide, PassFrame
  <2> HIDE DEF c
  <2>2. r.status = row[j].status
    BY <1>1 DEF Row
  <2>3. row[j].status \in Passing \cup {"cancelled"}
    BY <1>1, <1>11 DEF Decide, TrailOK, Mid
  <2> HIDE DEF r
  <2> QED
    BY <1>4, <2>1, <2>2, <2>3
<1>12. CASE Done(j)
  <2> DEFINE t == row[j].claims
             c == Larger(row[j].cursor, pass[j].cursor)
             r == [Closed(row[j]) EXCEPT !.status = "done", !.retry = "none",
                                         !.total = t, !.cursor = c]
  <2>1. row' = [row EXCEPT ![j] = r] /\ PassFrame /\ timer' = timer /\ pass[j].at # "idle"
    BY <1>12 DEF Done, passRest, history, PassFrame
  <2>2. Closed(row[j]) \in Row
    BY <1>1, ClosedFacts DEF TrailOK
  <2> HIDE DEF t, c
  <2>3. r.status = "done"
    BY <2>2 DEF Row
  <2> HIDE DEF r
  <2> QED
    BY <1>4, <2>1, <2>3
<1>13. CASE Fail(j)
  <2>1. pass[j].at \in Ready \cup Mid /\ pass[j].at # "idle"
    BY <1>13 DEF Fail, Mid
  <2>2. CASE j \in stops
    BY <1>2, <1>13, <2>1, <2>2 DEF Fail
  <2>3. CASE j \notin stops
    <3>1. PICK again \in BOOLEAN :
            /\ row' = [row EXCEPT ![j] = Failure(j, IF again THEN "queued" ELSE "failed")]
            /\ timer' = IF again THEN timer \cup {j} ELSE timer
      BY <1>13, <2>3 DEF Fail
    <3>2. PassFrame
      BY <1>13, <2>3 DEF Fail, PassFrame
    <3> DEFINE r == Failure(j, IF again THEN "queued" ELSE "failed")
    <3>3. Closed(row[j]) \in Row
      BY <1>1, ClosedFacts DEF TrailOK
    <3>4. ~again => r.status = "failed"
      <4> DEFINE c == Larger(Closed(row[j]).cursor, IF pass[j].fresh > 0 THEN pass[j].cursor ELSE 0)
      <4>1. ~again => r = [Closed(row[j]) EXCEPT !.status = "failed", !.total = row[j].claims,
                             !.retry = Closed(row[j]).retry, !.cursor = c]
        BY DEF Failure
      <4> HIDE DEF c, r
      <4> QED
        BY <3>3, <4>1 DEF Row
    <3>5. r.status = "queued" => j \in timer'
      BY <3>1, <3>4
    <3>6. row' = [row EXCEPT ![j] = r] /\ timer \subseteq timer'
      BY <3>1
    <3> HIDE DEF r
    <3> QED
      BY <2>1, <2>3, <3>2, <3>5, <3>6, PassWaits
  <2> QED
    BY <2>2, <2>3
<1> QED
  BY <1>5, <1>6, <1>8, <1>9, <1>10, <1>11, <1>12, <1>13 DEF PassStep

\* What a record that is armed again shows.
LEMMA ArmedRow ==
  ASSUME NEW r \in Row, r.open <= 1
  PROVE  Armed(r).status = "queued" /\ Armed(r).retry = "none"
<1> DEFINE t == Larger(r.total, r.ended + r.open) + 1
<1>1. Closed(r) \in Row
  BY ClosedFacts
<1>2. Armed(r) = [Closed(r) EXCEPT !.status = "queued", !.retry = "none", !.total = t]
  BY DEF Armed
<1> HIDE DEF t
<1> QED
  BY <1>1, <1>2 DEF Row

\* A queued row that comes with an enqueue to be called.
LEMMA KickWaits ==
  ASSUME IInv, Waits, NEW j \in Jobs, NEW r, row' = [row EXCEPT ![j] = r],
         kick' = kick \cup {j}, UNCHANGED <<processing, stops, stopping, timer>>,
         boot'.queued = boot.queued, boot'.stale \subseteq boot.stale, boot'.drain = boot.drain,
         r.status = "queued", r.retry # "later", j \in stops => j \in stopping
  PROVE  Waits'
<1>1. row'[j] = r /\ \A k \in Jobs \ {j} : row'[k] = row[k]
  BY DEF IInv, Functions
<1>2. ASSUME NEW k \in Jobs PROVE Taken(k)' /\ Marked(k)'
  <2>1. Taken(k) /\ Marked(k)
    BY DEF Waits
  <2>2. CASE k # j
    BY <1>1, <2>1, <2>2 DEF Taken, Marked
  <2>3. CASE k = j
    BY <1>1, <2>3 DEF Taken, Marked, Passing
  <2> QED
    BY <2>2, <2>3
<1>3. BootDrains'
  BY DEF Waits, BootDrains
<1> QED
  BY <1>2, <1>3 DEF Waits

\* Each step leaves every queued job something that will take it up.
LEMMA WaitsStep == ASSUME IInv, Waits, [Next]_vars PROVE Waits'
<1>1. \A k \in Jobs : row[k] \in Row /\ row[k].open <= 1
  BY DEF IInv, JobOK, TrailOK
<1>2. \A k \in Jobs : Taken(k) /\ Marked(k)
  BY DEF Waits
<1>3. boot \in [queued: SUBSET Jobs, stale: SUBSET Jobs, drain: BOOLEAN]
  BY DEF IInv, Sets
<1>4. ASSUME NEW j \in Jobs, EnqueueVodJob(j) \/ TimerFires(j) PROVE Waits'
  <2>1. /\ Drain(processing) /\ UNCHANGED <<row, stops, stopping>> /\ boot' = boot
        /\ \A k \in timer : k \in timer' \/ row[k].retry # "later"
    BY <1>4 DEF EnqueueVodJob, TimerFires
  <2> QED
    BY <2>1, DrainWaits
<1>5. ASSUME NEW j \in Jobs, Exit(j) PROVE Waits'
  <2>1. /\ Drain(processing \ {j}) /\ UNCHANGED <<row, stops, stopping>> /\ boot' = boot
        /\ timer' = timer
    BY <1>5 DEF Exit
  <2> QED
    BY <2>1, DrainWaits
<1>6. ASSUME RecoverDrain PROVE Waits'
  <2>1. /\ Drain(processing) /\ UNCHANGED <<row, stops, stopping>> /\ timer' = timer
        /\ boot.queued = {} /\ boot.stale = {} /\ boot' = Booted
    BY <1>6 DEF RecoverDrain
  <2> QED
    BY <2>1, DrainWaits
<1>7. ASSUME NEW j \in Jobs, Submit(j) PROVE Waits'
  <2>1. row' = [row EXCEPT ![j] = NewRow] /\ kick' = kick \cup {j} /\ j \notin stops
        /\ UNCHANGED <<processing, stops, stopping, timer, boot>>
    BY <1>2, <1>7 DEF Submit, Marked
  <2>2. NewRow.status = "queued" /\ NewRow.retry # "later"
    BY DEF NewRow
  <2> QED
    BY <2>1, <2>2, KickWaits
<1>8. ASSUME NEW j \in Jobs, Resume(j) PROVE Waits'
  <2> DEFINE r == Armed(row[j])
  <2>1. row' = [row EXCEPT ![j] = r] /\ kick' = kick \cup {j} /\ j \notin stops
        /\ UNCHANGED <<processing, stops, stopping, timer, boot>>
    BY <1>2, <1>8 DEF Resume, Marked
  <2>2. r.status = "queued" /\ r.retry # "later"
    BY <1>1, ArmedRow
  <2> HIDE DEF r
  <2> QED
    BY <2>1, <2>2, KickWaits
<1>9. ASSUME NEW j \in Jobs, Elapse(j) PROVE Waits'
  <2> DEFINE r == [row[j] EXCEPT !.retry = "due"]
  <2>1. /\ row' = [row EXCEPT ![j] = r] /\ row[j].retry = "later"
        /\ UNCHANGED <<processing, stops, stopping, kick, timer, boot>>
    BY <1>9 DEF Elapse
  <2>2. r.status = row[j].status /\ r.retry = "due"
    BY <1>1 DEF Row
  <2> HIDE DEF r
  <2>3. row'[j] = r /\ \A k \in Jobs \ {j} : row'[k] = row[k]
    BY <2>1 DEF IInv, Functions
  <2>4. ASSUME NEW k \in Jobs PROVE Taken(k)' /\ Marked(k)'
    <3>1. CASE k # j
      BY <1>2, <2>1, <2>3, <3>1 DEF Taken, Marked
    <3>2. CASE k = j
      BY <1>2, <2>1, <2>2, <2>3, <3>2 DEF Taken, Marked, Waits, BootDrains
    <3> QED
      BY <3>1, <3>2
  <2> QED
    BY <2>1, <2>4 DEF Waits, BootDrains
<1>10. ASSUME NEW j \in Jobs, StopSignal(j) PROVE Waits'
  <2>1. /\ row[j].status \in {"queued"} \cup Passing
        /\ stops' = stops \cup {j} /\ stopping' = stopping \cup {j}
        /\ UNCHANGED <<row, processing, kick, timer, boot>>
    BY <1>10 DEF StopSignal
  <2>2. ASSUME NEW k \in Jobs PROVE Taken(k)' /\ Marked(k)'
    BY <1>2, <2>1 DEF Taken, Marked, Passing
  <2> QED
    BY <2>1, <2>2 DEF Waits, BootDrains
<1>11. ASSUME NEW j \in Jobs, StopSettle(j) PROVE Waits'
  <2> DEFINE r == Cancelled(row[j])
  <2>1. /\ row' = [row EXCEPT ![j] = r] /\ stopping' = stopping \ {j}
        /\ UNCHANGED <<processing, stops, kick, timer, boot>>
    BY <1>11 DEF StopSettle
  <2>2. r.status = "cancelled" \/ (r.status = row[j].status /\ row[j].status \in {"done", "failed"})
    <3>1. CASE row[j].status \in {"done", "failed"}
      BY <3>1 DEF Cancelled
    <3>2. CASE row[j].status \notin {"done", "failed"}
      BY <1>1, <3>2 DEF Cancelled, Row
    <3> QED
      BY <3>1, <3>2
  <2> HIDE DEF r
  <2>3. row'[j] = r /\ \A k \in Jobs \ {j} : row'[k] = row[k]
    BY <2>1 DEF IInv, Functions
  <2>4. ASSUME NEW k \in Jobs PROVE Taken(k)' /\ Marked(k)'
    <3>1. CASE k # j
      BY <1>2, <2>1, <2>3, <3>1 DEF Taken, Marked
    <3>2. CASE k = j
      BY <1>2, <2>1, <2>2, <2>3, <3>2 DEF Taken, Marked, Passing
    <3> QED
      BY <3>1, <3>2
  <2> QED
    BY <2>1, <2>4 DEF Waits, BootDrains
<1>12. ASSUME Restart PROVE Waits'
  <2>1. /\ row' = row /\ stops' = {}
        /\ boot' = [queued |-> {k \in Jobs : row[k].status = "queued"},
                    stale |-> {k \in Jobs : row[k].status \in Passing}, drain |-> TRUE]
    BY <1>12 DEF Restart
  <2>2. /\ boot'.queued = {k \in Jobs : row[k].status = "queued"} /\ boot'.drain = TRUE
    BY <2>1
  <2> QED
    BY <2>1, <2>2 DEF Waits, Taken, Marked, BootDrains
<1>13. ASSUME NEW j \in Jobs, RecoverQueued(j) PROVE Waits'
  <2>1. /\ boot'.queued = boot.queued \ {j} /\ boot'.stale = boot.stale /\ boot'.drain = boot.drain
        /\ timer' = (IF row[j].retry = "later" THEN timer \cup {j} ELSE timer)
        /\ UNCHANGED <<row, processing, stops, stopping, kick>>
    BY <1>3, <1>13 DEF RecoverQueued
  <2>2. ASSUME NEW k \in Jobs PROVE Taken(k)' /\ Marked(k)'
    BY <1>2, <2>1 DEF Taken, Marked
  <2> QED
    BY <2>1, <2>2 DEF Waits, BootDrains
<1>14. ASSUME NEW j \in Jobs, RecoverStale(j) PROVE Waits'
  <2>1. /\ boot'.queued = boot.queued /\ boot'.stale = boot.stale \ {j} /\ boot'.drain = boot.drain
        /\ UNCHANGED <<processing, stops, stopping, timer>>
        /\ j \in boot.stale
    BY <1>3, <1>14 DEF RecoverStale
  <2>2. CASE row[j].status \in Passing
    <3> DEFINE r == Armed(row[j])
    <3>1. row' = [row EXCEPT ![j] = r] /\ kick' = kick \cup {j}
      BY <1>14, <2>2 DEF RecoverStale
    <3>2. r.status = "queued" /\ r.retry # "later"
      BY <1>1, ArmedRow
    <3>3. j \in stops => j \in stopping
      BY <1>2, <2>1, <2>2 DEF Marked
    <3> HIDE DEF r
    <3> QED
      BY <2>1, <3>1, <3>2, <3>3, KickWaits
  <2>3. CASE row[j].status \notin Passing
    <3>1. UNCHANGED <<row, kick>>
      BY <1>14, <2>3 DEF RecoverStale
    <3>2. ASSUME NEW k \in Jobs PROVE Taken(k)' /\ Marked(k)'
      BY <1>2, <2>1, <3>1 DEF Taken, Marked
    <3> QED
      BY <2>1, <3>2 DEF Waits, BootDrains
  <2> QED
    BY <2>2, <2>3
<1>15. CASE UNCHANGED vars
  BY <1>15 DEF vars, Waits, Taken, Marked, BootDrains
<1>16. ASSUME NEW j \in Jobs, PassStep(j) PROVE Waits'
  BY <1>5, <1>16, PassStepWaits
<1> QED
  BY <1>4, <1>6, <1>7, <1>8, <1>9, <1>10, <1>11, <1>12, <1>13, <1>14, <1>15, <1>16
  DEF Next, Recover

\* No queued job is left without a timer, a drain to come or a stop that settles
\* it, through any failures, stops, resumes and crashes (drainVodQueue,
\* recoverStaleVodJobs).
THEOREM NoneStrandedHolds == Spec => []NoneStranded
<1>1. Init => Waits
  <2> SUFFICES ASSUME Init PROVE Waits
    OBVIOUS
  <2>1. \A k \in Jobs : row[k] = [NewRow EXCEPT !.status = "absent"]
    BY DEF Init
  <2>2. \A k \in Jobs : row[k].status = "absent"
    BY <2>1 DEF NewRow
  <2>3. stops = {} /\ boot.queued = {} /\ boot.stale = {}
    BY DEF Init, Booted
  <2> QED
    BY <2>2, <2>3 DEF Waits, Taken, Marked, BootDrains
<1>2. IInv /\ Waits /\ [Next]_vars => Waits'
  BY WaitsStep
<1>3. Waits => NoneStranded
  BY DEF Waits, Taken, NoneStranded
<1> QED
  BY <1>1, <1>2, <1>3, InvHolds, PTL DEF Spec
=============================================================================
