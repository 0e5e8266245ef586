---------------------------- MODULE HighlightReview ----------------------------
(***************************************************************************)
(* The life of a highlight row: inserted once per idempotency key, charged *)
(* to the monthly quota as far as it adds a moment to its job, accepted or *)
(* rejected by its owner or an admin, exported, and hard-deleted by the    *)
(* sweep of rejected clips once its grace has elapsed (services/server/src *)
(* store.ts, lifecycle.ts, entitlements.ts, highlight-postable.ts, and     *)
(* persistLiveHighlight and the review and export routes of api.ts).       *)
(*                                                                         *)
(* The store changes its in-memory maps first and awaits the database      *)
(* write after.  SQLite writes within the same tick; Postgres writes       *)
(* through a pool, so two writes sent one after the other may land in      *)
(* either order.  A restart loads the maps from what had landed.           *)
(***************************************************************************)
EXTENDS Integers, FiniteSetsExt

CONSTANTS
  Clips,     \* the highlight records a run may insert, all of one job
  Window,    \* their clip windows: [Clips -> [start : Int, end : Int]]
  AutoPublish, \* cfg.autoPublishHighlights
  Keyings,   \* for each of the three backends that a run may start with, the
             \* [Clips -> idempotencyKey] it may have then: two detections of
             \* one moment have one key
  Reviews,   \* the review and export requests of the run, each made once
  Sweeps,    \* the sweep runs that may overlap (one per interval tick)
  MaxCrashes,
  Ttl,       \* rejectTtlMs, in ticks
  MonthLength, \* ticks of a quota period
  MaxTime    \* bound: the clock stops there

Backends == DOMAIN Keyings

ASSUME ReviewAssumption ==
  \* "faulty": Postgres, a file system and a billing service that may fail
  /\ Backends \subseteq {"sqlite", "postgres", "faulty"}
  /\ {MaxCrashes, Ttl, MaxTime} \subseteq Nat
  /\ MonthLength \in Nat \ {0}
  /\ IsFiniteSet(Clips)
  /\ AutoPublish \in BOOLEAN
  /\ \A c \in Clips : Window[c].start \in Int /\ Window[c].end \in Int
  \* a request, a sweep run and an insert each await a write of their own
  /\ Clips \cap Reviews = {} /\ Clips \cap Sweeps = {} /\ Reviews \cap Sweeps = {}

VARIABLES
  key,      \* the idempotencyKey of each clip of the run
  mem,      \* Store.highlights
  keys,     \* Store.highlightsByK
  db,       \* the highlights table
  object,   \* the clip file of each highlight exists
  writes,   \* the last database write of each handler, and how far it is
  persist,  \* where persistLiveHighlight is for each clip
  tally,    \* what it holds there: the moments it counted before the insert,
            \* then the slots it decided to debit
  review,   \* where each request is, and what it still owes the quota
  sweep,    \* where each sweep run is
  used,     \* quota_ledger.clips_used of the owner, per period
  backend,  \* SqliteDb, or PostgresDb over a pool, with or without faults
  clock, crashes

vars == <<key, mem, keys, db, object, writes, persist, tally, review, sweep, used, backend, clock, crashes>>

Absent == [status |-> "absent"]
NoWrite == [state |-> "none"]
Never == -1
NoClip == "none"

Record ==
  [status: {"pending", "accepted", "rejected"}, rejectedAt: {Never} \cup 0..MaxTime,
   exported: BOOLEAN]

Handlers == Clips \cup Reviews \cup Sweeps
Month(t) == t \div MonthLength
Months == 0..Month(MaxTime)

TypeOK ==
  /\ mem \in [Clips -> Record \cup {Absent}]
  /\ db \in [Clips -> Record \cup {Absent}]
  /\ keys \subseteq {key[c] : c \in Clips}
  /\ object \in [Clips -> BOOLEAN]
  /\ \A h \in Handlers : writes[h].state \in {"none", "sent", "landed", "failed"}
  /\ persist \in [Clips -> {"idle", "saving", "billing", "done"}]
  /\ tally \in [Clips -> Int]
  /\ \A c \in Clips : persist[c] = "billing" => tally[c] \in {-1, 0, 1}
  /\ review \in [Reviews -> [phase: {"idle", "saving", "done"}, quota: {-1, 0, 1}]]
  /\ \A s \in Sweeps :
       /\ sweep[s].phase \in {"idle", "next", "purging", "unlinked", "deleting"}
       /\ sweep[s].todo \subseteq Clips
  /\ used \in [Months -> Nat]
  /\ backend \in Backends /\ key \in Keyings[backend]
  /\ clock \in 0..MaxTime /\ crashes \in 0..MaxCrashes

IdleSweep == [phase |-> "idle", todo |-> {}, cur |-> NoClip, now |-> 0]

Init ==
  /\ mem = [c \in Clips |-> Absent] /\ db = mem /\ keys = {}
  /\ object = [c \in Clips |-> FALSE]
  /\ writes = [h \in Handlers |-> NoWrite]
  /\ persist = [c \in Clips |-> "idle"] /\ tally = [c \in Clips |-> 0]
  /\ review = [r \in Reviews |-> [phase |-> "idle", quota |-> 0]]
  /\ sweep = [s \in Sweeps |-> IdleSweep]
  /\ used = [m \in Months |-> 0]
  /\ backend \in Backends /\ key \in Keyings[backend]
  /\ clock = 0 /\ crashes = 0

Present(c) == mem[c] # Absent
-----------------------------------------------------------------------------
(***************************************************************************)
(* Write-through: the map at once, the table now or later.                 *)
(***************************************************************************)

\* Mutant of WriteThrough: a row that goes away stays in the table.
WriteThrough_KeepsRow(h, c, rec) ==
  /\ mem' = [mem EXCEPT ![c] = rec]
  /\ writes' = [writes EXCEPT ![h] = [state |-> "landed", clip |-> c, rec |-> rec]]
  /\ db' = IF rec = Absent THEN db ELSE [db EXCEPT ![c] = rec]

WriteThrough(h, c, rec) ==
  /\ mem' = [mem EXCEPT ![c] = rec]
  /\ IF backend = "sqlite"
     THEN /\ db' = [db EXCEPT ![c] = rec]
          /\ writes' = [writes EXCEPT ![h] = [state |-> "landed", clip |-> c, rec |-> rec]]
     ELSE /\ writes' = [writes EXCEPT ![h] = [state |-> "sent", clip |-> c, rec |-> rec]]
          /\ UNCHANGED db

\* A write sent to the pool lands, in no order with the others.
Land(h) ==
  /\ writes[h].state = "sent"
  /\ db' = [db EXCEPT ![writes[h].clip] = writes[h].rec]
  /\ writes' = [writes EXCEPT ![h].state = "landed"]
  /\ UNCHANGED <<mem, keys, object, persist, tally, review, sweep, used, key, backend, clock, crashes>>

\* Or it fails: the map keeps what the table never got.
Fail(h) ==
  /\ backend = "faulty"
  /\ writes[h].state = "sent"
  /\ writes' = [writes EXCEPT ![h].state = "failed"]
  /\ UNCHANGED <<mem, keys, db, object, persist, tally, review, sweep, used, key, backend, clock, crashes>>

Settled(h) == writes[h].state \in {"landed", "failed"}
-----------------------------------------------------------------------------
(***************************************************************************)
(* The moments of the job, and the slots an insert takes.                  *)
(***************************************************************************)

\* windowsOverlap: windows that only touch do not.
Overlap(c, d) == Window[c].start < Window[d].end /\ Window[d].start < Window[c].end

\* The chain of overlapping rows of S that c is in: the least part of S that
\* holds c and every row that overlaps one of its own.
Chain(c, S) ==
  {d \in S : \A T \in SUBSET S :
     c \in T /\ (\A e \in T, f \in S : Overlap(e, f) => f \in T) => d \in T}

\* A chain is one moment.
Moments(S) == Cardinality({Chain(c, S) : c \in S})

\* The rows that count: all but the rejected.
Kept == {c \in Clips : Present(c) /\ mem[c].status # "rejected"}

\* One slot for a new moment, one back for moments that became one.
Charge(before, after) ==
  CASE after > before -> 1
    [] after < before -> -1
    [] OTHER -> 0
-----------------------------------------------------------------------------
(***************************************************************************)
(* Insertion and its debit.                                                *)
(***************************************************************************)

NewRecord ==
  [status |-> IF AutoPublish THEN "accepted" ELSE "pending", rejectedAt |-> Never,
   exported |-> FALSE]

\* The rows of the job are counted, the row is inserted, and once its write
\* returns they are counted again.  Over SQLite no other handler runs in
\* between; over the pool every one may.
Insert(c) ==
  /\ WriteThrough(c, c, NewRecord)
  /\ keys' = keys \cup {key[c]}
  /\ object' = [object EXCEPT ![c] = TRUE]
  /\ IF backend = "sqlite"
     THEN /\ persist' = [persist EXCEPT ![c] = "billing"]
          /\ tally' = [tally EXCEPT ![c] = Charge(Moments(Kept), Moments(Kept \cup {c}))]
     ELSE /\ persist' = [persist EXCEPT ![c] = "saving"]
          /\ tally' = [tally EXCEPT ![c] = Moments(Kept)]

\* Mutant of Persist: the idempotency key is looked up in no index.
Persist_NoIndex(c) ==
  /\ persist[c] = "idle"
  /\ Insert(c)
  /\ UNCHANGED <<review, sweep, used, key, backend, clock, crashes>>

\* addHighlight: a key already inserted in this process returns the existing
\* record, also when that record has been purged since.
Persist(c) ==
  /\ persist[c] = "idle"
  /\ IF key[c] \in keys
     THEN /\ persist' = [persist EXCEPT ![c] = "done"]
          /\ UNCHANGED <<mem, keys, db, object, writes, tally>>
     ELSE Insert(c)
  /\ UNCHANGED <<review, sweep, used, key, backend, clock, crashes>>

\* The pool answered: the slots are decided on the rows there are by now.  A
\* failed write throws before.
PersistSaved(c) ==
  /\ persist[c] = "saving" /\ Settled(c)
  /\ IF writes[c].state = "landed"
     THEN /\ persist' = [persist EXCEPT ![c] = "billing"]
          /\ tally' = [tally EXCEPT ![c] = Charge(tally[c], Moments(Kept))]
          /\ UNCHANGED writes
     ELSE /\ persist' = [persist EXCEPT ![c] = "done"]
          /\ writes' = [writes EXCEPT ![c] = NoWrite]
          /\ UNCHANGED tally
  /\ UNCHANGED <<mem, keys, db, object, review, sweep, used, key, backend, clock, crashes>>

Debited(month, amount) ==
  [used EXCEPT ![month] = IF @ + amount > 0 THEN @ + amount ELSE 0]

\* The usage report and the ledger are awaited: the slots go to the month of
\* that moment, and a report that throws leaves them undebited.
PersistSettle(c) ==
  /\ persist[c] = "billing"
  /\ \/ used' = Debited(Month(clock), tally[c])
     \/ backend = "faulty" /\ UNCHANGED used
  /\ persist' = [persist EXCEPT ![c] = "done"]
  /\ writes' = [writes EXCEPT ![c] = NoWrite]
  /\ UNCHANGED <<mem, keys, db, object, tally, review, sweep, key, backend, clock, crashes>>
-----------------------------------------------------------------------------
(***************************************************************************)
(* The review and export routes.                                           *)
(***************************************************************************)

\* Rejecting again keeps the start of the grace, accepting clears it.
Reviewed(rec, status) ==
  [rec EXCEPT !.status = status,
              !.rejectedAt = CASE status = "accepted" -> Never
                               [] rec.status = "rejected" -> @
                               [] OTHER -> clock]

\* Mutant of Owed: a reject releases a slot whatever the clip was before.
Owed_NotIdempotent(prev, status) ==
  CASE status = "rejected" -> -1
    [] status = "accepted" /\ prev = "rejected" -> 1
    [] OTHER -> 0

\* What the request owes the quota, decided on the status it found.
Owed(prev, status) ==
  CASE status = "rejected" /\ prev # "rejected" -> -1
    [] status = "accepted" /\ prev = "rejected" -> 1
    [] OTHER -> 0

\* An exported clip is not rejected by its owner, only by an admin.
Review(r) ==
  /\ review[r].phase = "idle"
  /\ \E c \in {d \in Clips : Present(d)}, status \in {"accepted", "rejected"},
        admin \in BOOLEAN :
       /\ ~(status = "rejected" /\ mem[c].exported /\ ~admin)
       /\ WriteThrough(r, c, Reviewed(mem[c], status))
       /\ review' = [review EXCEPT ![r] =
                       [phase |-> "saving", quota |-> Owed(mem[c].status, status)]]
  /\ UNCHANGED <<keys, object, persist, tally, sweep, used, key, backend, clock, crashes>>

\* The export stamp: first write wins.
Export(r) ==
  /\ review[r].phase = "idle"
  /\ \E c \in {d \in Clips : Present(d)} :
       /\ ~mem[c].exported
       /\ WriteThrough(r, c, [mem[c] EXCEPT !.exported = TRUE])
       /\ review' = [review EXCEPT ![r] = [phase |-> "saving", quota |-> 0]]
  /\ UNCHANGED <<keys, object, persist, tally, sweep, used, key, backend, clock, crashes>>

\* The quota follows once the record is saved, in the month of that moment.
ReviewSettle(r) ==
  /\ review[r].phase = "saving" /\ Settled(r)
  /\ used' = IF writes[r].state = "landed" THEN Debited(Month(clock), review[r].quota) ELSE used
  /\ review' = [review EXCEPT ![r].phase = "done"]
  /\ writes' = [writes EXCEPT ![r] = NoWrite]
  /\ UNCHANGED <<mem, keys, db, object, persist, tally, sweep, key, backend, clock, crashes>>
-----------------------------------------------------------------------------
(***************************************************************************)
(* The sweep of rejected clips.                                            *)
(***************************************************************************)

Due(rec, now) ==
  rec # Absent /\ rec.status = "rejected" /\ rec.rejectedAt <= now - Ttl

\* Mutant of SweepStart: an exported clip is never a candidate.
SweepStart_SkipsExported(s) ==
  /\ sweep[s].phase = "idle"
  /\ LET due == {c \in Clips : Due(mem[c], clock) /\ ~mem[c].exported}
     IN due # {} /\ sweep' = [sweep EXCEPT ![s] = [IdleSweep EXCEPT
                                                 !.phase = "next", !.todo = due, !.now = clock]]
  /\ UNCHANGED <<mem, keys, db, object, writes, persist, tally, review, used, key, backend, clock, crashes>>

\* An interval tick starts a run, whether or not the last one has ended.
SweepStart(s) ==
  /\ sweep[s].phase = "idle"
  /\ LET due == {c \in Clips : Due(mem[c], clock)}
     IN due # {} /\ sweep' = [sweep EXCEPT ![s] = [IdleSweep EXCEPT
                                                 !.phase = "next", !.todo = due, !.now = clock]]
  /\ UNCHANGED <<mem, keys, db, object, writes, persist, tally, review, used, key, backend, clock, crashes>>

\* The next candidate's live record is checked again before it is removed; a
\* candidate that is not due any more is skipped.
SweepRecheck(s) ==
  /\ sweep[s].phase = "next"
  /\ \E c \in sweep[s].todo :
       sweep' = [sweep EXCEPT ![s] =
                   [@ EXCEPT !.todo = sweep[s].todo \ {c}, !.cur = c,
                             !.phase = IF Due(mem[c], sweep[s].now) THEN "purging" ELSE "next"]]
  /\ UNCHANGED <<mem, keys, db, object, writes, persist, tally, review, used, key, backend, clock, crashes>>

SweepEnd(s) ==
  /\ sweep[s].phase = "next" /\ sweep[s].todo = {}
  /\ sweep' = [sweep EXCEPT ![s] = IdleSweep]
  /\ UNCHANGED <<mem, keys, db, object, writes, persist, tally, review, used, key, backend, clock, crashes>>

\* Mutant of SweepUnlink: the object is left for the next sweep.
SweepUnlink_Later(s) ==
  /\ sweep[s].phase = "purging"
  /\ sweep' = [sweep EXCEPT ![s].phase = "unlinked"]
  /\ UNCHANGED <<mem, keys, db, object, writes, persist, tally, review, used, key, backend, clock, crashes>>

\* stat and unlink are awaited: the object goes on a later tick.  An unlink
\* that fails is swallowed and the row is deleted all the same.
SweepUnlink(s) ==
  /\ sweep[s].phase = "purging"
  /\ \/ object' = [object EXCEPT ![sweep[s].cur] = FALSE]
     \/ backend = "faulty" /\ UNCHANGED object
  /\ sweep' = [sweep EXCEPT ![s].phase = "unlinked"]
  /\ UNCHANGED <<mem, keys, db, writes, persist, tally, review, used, key, backend, clock, crashes>>

\* deleteHighlight: whatever the record says by now; a missing one is a no-op.
\* The key stays in the index.
SweepDelete(s) ==
  /\ sweep[s].phase = "unlinked"
  /\ IF Present(sweep[s].cur)
     THEN /\ WriteThrough(s, sweep[s].cur, Absent)
          /\ sweep' = [sweep EXCEPT ![s].phase = "deleting"]
     ELSE /\ sweep' = [sweep EXCEPT ![s].phase = "next"]
          /\ UNCHANGED <<mem, db, writes>>
  /\ UNCHANGED <<keys, object, persist, tally, review, used, key, backend, clock, crashes>>

\* A failed delete is caught and the run goes on.
SweepDeleted(s) ==
  /\ sweep[s].phase = "deleting" /\ Settled(s)
  /\ sweep' = [sweep EXCEPT ![s].phase = "next"]
  /\ writes' = [writes EXCEPT ![s] = NoWrite]
  /\ UNCHANGED <<mem, keys, db, object, persist, tally, review, used, key, backend, clock, crashes>>
-----------------------------------------------------------------------------
Tick ==
  /\ clock < MaxTime
  /\ clock' = clock + 1
  /\ UNCHANGED <<mem, keys, db, object, writes, persist, tally, review, sweep, used, key, backend, crashes>>

\* Mutant of Restart: the key index starts empty.
Restart_NoIndex ==
  /\ crashes < MaxCrashes
  /\ crashes' = crashes + 1
  /\ mem' = db
  /\ keys' = {}
  /\ writes' = [h \in Handlers |-> NoWrite]
  /\ persist' = [c \in Clips |-> IF persist[c] \in {"saving", "billing"} THEN "done" ELSE persist[c]]
  /\ review' = [r \in Reviews |-> IF review[r].phase = "saving"
                                  THEN [review[r] EXCEPT !.phase = "done"] ELSE review[r]]
  /\ sweep' = [s \in Sweeps |-> IdleSweep]
  /\ UNCHANGED <<db, object, tally, used, key, backend, clock>>

\* The process dies with every handler and every unsent write; the new one
\* loads the maps and rebuilds the key index from the table.
Restart ==
  /\ crashes < MaxCrashes
  /\ crashes' = crashes + 1
  /\ mem' = db
  /\ keys' = {key[c] : c \in {d \in Clips : db[d] # Absent}}
  /\ writes' = [h \in Handlers |-> NoWrite]
  /\ persist' = [c \in Clips |-> IF persist[c] \in {"saving", "billing"} THEN "done" ELSE persist[c]]
  /\ review' = [r \in Reviews |-> IF review[r].phase = "saving"
                                  THEN [review[r] EXCEPT !.phase = "done"] ELSE review[r]]
  /\ sweep' = [s \in Sweeps |-> IdleSweep]
  /\ UNCHANGED <<db, object, tally, used, key, backend, clock>>

SweepStep(s) ==
  \/ SweepStart(s) \/ SweepRecheck(s) \/ SweepEnd(s)
  \/ SweepUnlink(s) \/ SweepDelete(s) \/ SweepDeleted(s)

Next ==
  \/ \E c \in Clips : Persist(c) \/ PersistSaved(c) \/ PersistSettle(c)
  \/ \E r \in Reviews : Review(r) \/ Export(r) \/ ReviewSettle(r)
  \/ \E s \in Sweeps : SweepStep(s)
  \/ \E h \in Handlers : Land(h) \/ Fail(h)
  \/ Tick
  \/ Restart

Spec == Init /\ [][Next]_vars

\* The interval keeps firing, and a run's awaits are answered.
FairSpec ==
  /\ Spec
  /\ \A s \in Sweeps : WF_vars(SweepStep(s))
  /\ \A h \in Handlers : WF_vars(Land(h))
-----------------------------------------------------------------------------
(***************************************************************************)
(* What the store, the ledger and the sweep must guarantee.                *)
(***************************************************************************)

Quiet ==
  /\ \A h \in Handlers : writes[h] = NoWrite
  /\ \A s \in Sweeps : sweep[s].phase = "idle"

\* A re-detected clip never has a second row, across restarts, purges and the
\* inserts still being saved (addHighlight's idempotency guard).
UniqueKey ==
  \A c, d \in Clips : Present(c) /\ Present(d) /\ key[c] = key[d] => c = d

\* Over SQLite a row that was purged never comes back: not from a late write
\* of a review or an export, not from the table at the next boot.
NoResurrection ==
  [][backend = "sqlite" =>
       \A c \in Clips : mem[c] = Absent /\ mem'[c] # Absent => persist[c] = "idle"]_vars

\* "Storage and DB are deleted in the same pass": over SQLite a purge leaves no
\* file that no row names, wherever a restart cuts it short.
NoOrphanObject ==
  backend = "sqlite" => \A c \in Clips : object[c] => Present(c)

\* What the charge of a moment copes with one at a time: two rows of the run
\* overlap, a clip is rejected, an insert waits on a pool.
Overlapped ==
  \E c, d \in {e \in Clips : persist[e] # "idle"} : key[c] # key[d] /\ Overlap(c, d)
Rejected == \E r \in Reviews : review[r].quota = -1
Pooled == backend = "postgres"

\* No overspend: once the handlers of a run with no fault and no restart are
\* done, every moment that is not rejected is paid for by a slot of some month,
\* whatever inserts, repeats, rejects, restores and purges came in which order,
\* in one month or two (the ledger's clamp at zero included), as long as no two
\* of an overlap, a reject and a pool come together.
QuotaCoversMoments ==
  Quiet /\ backend # "faulty" /\ crashes = 0
  /\ ~(Overlapped /\ Rejected) /\ ~(Overlapped /\ Pooled) /\ ~(Rejected /\ Pooled) =>
    MapThenSumSet(LAMBDA m : used[m], Months) >= Moments(Kept)

\* A clip whose grace has elapsed is purged, unless it is restored first,
\* whatever runs overlap.
DuePurged ==
  \A c \in Clips : Due(mem[c], clock) ~> ~Due(mem[c], clock)

-----------------------------------------------------------------------------
(***************************************************************************)
(* What its comments say and the code does not do.                         *)
(***************************************************************************)

\* "a concurrent reject->accept within the window clears `rejectedAt`, [...] so
\* `deleteHighlight` below is a no-op for the restored clip": no step takes
\* away the row of a clip that is not rejected.
RestoredClipSurvives ==
  [][\A c \in Clips : Present(c) /\ mem[c].status # "rejected" => mem'[c] # Absent]_vars

\* "slotsDebited === moments always holds": with two of an overlap, a reject and
\* a pool, it does not (checked by no run; the README tells the three stories).
SlotsAreMoments ==
  Quiet /\ backend # "faulty" /\ crashes = 0 =>
    MapThenSumSet(LAMBDA m : used[m], Months) = Moments(Kept)
=============================================================================
