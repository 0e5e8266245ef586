------------------------- MODULE HighlightReviewProofs -------------------------
(***************************************************************************)
(* Proofs about the highlight rows, for any number of clips, requests,     *)
(* sweep runs and restarts: no moment has two rows over any backend, over  *)
(* SQLite a purge leaves no file behind and no purged row comes back, and  *)
(* the quota ledger covers the moments that are not rejected.              *)
(***************************************************************************)
EXTENDS HighlightReview, FiniteSetTheorems, WellFoundedInduction, TLAPS

Rows == Record \cup {Absent}

Writes ==
  {NoWrite} \cup [state : {"sent", "landed", "failed"}, clip : Clips, rec : Rows]

Purging == {"purging", "unlinked", "deleting"}

Runs ==
  [phase : {"idle", "next"} \cup Purging, todo : SUBSET Clips,
   cur : Clips \cup {NoClip}, now : 0..MaxTime]

\* The types TypeOK leaves open.
RunTyped ==
  /\ writes \in [Handlers -> Writes] /\ sweep \in [Sweeps -> Runs]
  /\ \A s \in Sweeps : sweep[s].phase \in Purging => sweep[s].cur \in Clips

Sent(h) == writes[h].state = "sent"

\* A row of c is in the map or in the table, or is on its way to the table.
Exists(c) ==
  mem[c] # Absent \/ db[c] # Absent \/ \E h \in Handlers : Sent(h) /\ writes[h].clip = c

\* Every moment that has a row anywhere is in the key index, and has only one:
\* what the index forgets at a restart has no row in the table either.
KeysOK ==
  /\ \A c \in Clips : Exists(c) => key[c] \in keys
  /\ \A c, d \in Clips : Exists(c) /\ Exists(d) /\ key[c] = key[d] => c = d

InRun(s, c) == c \in sweep[s].todo \/ (sweep[s].phase \in Purging /\ c = sweep[s].cur)

\* A clip not inserted yet has no row, no file, and no sweep run looks at it.
IdleOK ==
  \A c \in Clips : persist[c] = "idle" =>
    ~Exists(c) /\ ~object[c] /\ \A s \in Sweeps : ~InRun(s, c)

\* SQLite: the table is the map, and a run deletes the row after the file.
SqliteOK ==
  backend = "sqlite" =>
    /\ mem = db /\ \A h \in Handlers : ~Sent(h)
    /\ \A s \in Sweeps : sweep[s].phase = "unlinked" => ~object[sweep[s].cur]

IInv == TypeOK /\ RunTyped /\ KeysOK /\ IdleOK /\ SqliteOK /\ NoOrphanObject
-----------------------------------------------------------------------------
(***************************************************************************)
(* Periods, records and rows.                                              *)
(***************************************************************************)

LEMMA MonthsAre == /\ 0 \in Months
                   /\ \A t \in 0..MaxTime : Month(t) \in Months
<1> USE ReviewAssumption
<1>1. ASSUME NEW a \in Nat, NEW b \in Nat, a <= b
      PROVE  a \div MonthLength \in Nat /\ a \div MonthLength <= b \div MonthLength
  <2> DEFINE m == MonthLength
             p == a \div m
             q == b \div m
  <2>1. m \in Nat /\ m > 0 /\ p \in Int /\ q \in Int
    OBVIOUS
  <2>2. m * p <= a /\ a < m * p + m /\ m * q <= b /\ b < m * q + m
    OBVIOUS
  <2> HIDE DEF p, q, m
  <2>3. p >= 0
    <3> SUFFICES ASSUME p <= -1 PROVE FALSE
      BY <2>1
    <3> DEFINE X == m * p
    <3>1. X <= -m /\ X \in Int /\ a < X + m
      BY <2>1, <2>2
    <3> HIDE DEF X
    <3> QED
      BY <2>1, <3>1
  <2>4. p <= q
    <3> SUFFICES ASSUME q + 1 <= p PROVE FALSE
      BY <2>1
    <3>1. m * (q + 1) <= m * p /\ m * (q + 1) = m * q + m
      BY <2>1
    <3> DEFINE X == m * p
               Y == m * q
    <3>2. X \in Int /\ Y \in Int /\ Y + m <= X /\ X <= a /\ b < Y + m
      BY <2>1, <2>2, <3>1
    <3> HIDE DEF X, Y
    <3> QED
      BY <1>1, <2>1, <3>2
  <2> QED
    BY <2>1, <2>3, <2>4 DEF p, q, m
<1>2. Month(MaxTime) \in Nat
  BY <1>1 DEF Month
<1>3. \A t \in 0..MaxTime : Month(t) \in Nat /\ Month(t) <= Month(MaxTime)
  BY <1>1 DEF Month
<1> QED
  BY <1>2, <1>3 DEF Months

LEMMA NewIsRecord == NewRecord \in Record /\ Absent \notin Record
BY DEF NewRecord, Record, Absent

LEMMA ChargeTyped ==
  ASSUME NEW before, NEW after PROVE Charge(before, after) \in {-1, 0, 1}
BY DEF Charge

\* The job's moments can be counted.
LEMMA MomentsFinite ==
  ASSUME NEW S \in SUBSET Clips
  PROVE  /\ IsFiniteSet(S) /\ IsFiniteSet({Chain(c, S) : c \in S})
         /\ Moments(S) \in Nat
<1>1. IsFiniteSet(S)
  BY ReviewAssumption, FS_Subset
<1> DEFINE f == [c \in S |-> Chain(c, S)]
           M == {Chain(c, S) : c \in S}
<1>2. f \in Surjection(S, M)
  BY DEF Surjection
<1>3. IsFiniteSet(M)
  BY <1>1, <1>2, FS_Surjection
<1> QED
  BY <1>1, <1>3, FS_CardinalityType DEF Moments

LEMMA KeptMoments == IsFiniteSet(Kept) /\ Moments(Kept) \in Nat
BY MomentsFinite DEF Kept

LEMMA ReviewedIsRecord ==
  ASSUME NEW rec \in Record, NEW status \in {"accepted", "rejected"}, clock \in 0..MaxTime
  PROVE  Reviewed(rec, status) \in Record
BY DEF Reviewed, Record

LEMMA DebitTyped ==
  ASSUME used \in [Months -> Nat], clock \in 0..MaxTime, NEW amount \in {-1, 0, 1}
  PROVE  Debited(Month(clock), amount) \in [Months -> Nat]
<1>1. Month(clock) \in Months
  BY MonthsAre
<1> DEFINE m == Month(clock)
<1> HIDE DEF m
<1>2. used[m] \in Nat
  BY <1>1 DEF m
<1>3. (IF used[m] + amount > 0 THEN used[m] + amount ELSE 0) \in Nat
  BY <1>2
<1> QED
  BY <1>1, <1>3 DEF m, Debited

\* What a write-through changes: the row of its clip, in the map, the table or
\* on its way there.
LEMMA ThroughChanges ==
  ASSUME TypeOK, RunTyped, NEW h \in Handlers, NEW c \in Clips, NEW rec \in Rows,
         WriteThrough(h, c, rec)
  PROVE  /\ mem' \in [Clips -> Rows] /\ db' \in [Clips -> Rows]
         /\ writes' \in [Handlers -> Writes]
         /\ mem' = [mem EXCEPT ![c] = rec]
         /\ \A d \in Clips : Exists(d)' => Exists(d) \/ d = c
         /\ backend = "sqlite" /\ mem = db /\ (\A g \in Handlers : ~Sent(g))
            => mem' = db' /\ \A g \in Handlers : ~Sent(g)'
<1>1. mem \in [Clips -> Rows] /\ db \in [Clips -> Rows] /\ writes \in [Handlers -> Writes]
  BY DEF TypeOK, RunTyped, Rows
<1>2. PICK st \in {"sent", "landed"} :
        /\ writes' = [writes EXCEPT ![h] = [state |-> st, clip |-> c, rec |-> rec]]
        /\ mem' = [mem EXCEPT ![c] = rec]
        /\ db' = [db EXCEPT ![c] = rec] \/ db' = db
        /\ backend = "sqlite" => st = "landed" /\ db' = [db EXCEPT ![c] = rec]
  BY DEF WriteThrough
<1> DEFINE w == [state |-> st, clip |-> c, rec |-> rec]
<1>3. w \in Writes /\ w.state = st /\ w.clip = c
  BY DEF Writes
<1> HIDE DEF w, Writes, Rows
<1>4. writes' = [writes EXCEPT ![h] = w]
  BY <1>2 DEF w
<1>5. /\ mem' \in [Clips -> Rows] /\ db' \in [Clips -> Rows]
      /\ writes' \in [Handlers -> Writes]
  BY <1>1, <1>2, <1>3, <1>4
<1>6. \A g \in Handlers : writes'[g] = IF g = h THEN w ELSE writes[g]
  BY <1>1, <1>4
<1>7. ASSUME NEW d \in Clips, Exists(d)', d # c PROVE Exists(d)
  <2>1. mem'[d] = mem[d] /\ db'[d] = db[d]
    BY <1>1, <1>2, <1>7
  <2>2. ASSUME NEW g \in Handlers, Sent(g)', writes'[g].clip = d PROVE Sent(g) /\ writes[g].clip = d
    BY <1>3, <1>6, <1>7, <2>2 DEF Sent
  <2> QED
    BY <1>7, <2>1, <2>2 DEF Exists
<1>8. ASSUME backend = "sqlite", mem = db, \A g \in Handlers : ~Sent(g)
      PROVE  mem' = db' /\ \A g \in Handlers : ~Sent(g)'
  BY <1>2, <1>3, <1>6, <1>8 DEF Sent
<1> QED
  BY <1>2, <1>5, <1>7, <1>8

\* A settled write is forgotten.
LEMMA Forget ==
  ASSUME RunTyped, NEW h \in Handlers, writes' = [writes EXCEPT ![h] = NoWrite],
         mem' = mem, db' = db
  PROVE  /\ writes' \in [Handlers -> Writes]
         /\ \A d \in Clips : Exists(d)' => Exists(d)
         /\ \A g \in Handlers : Sent(g)' => Sent(g)
<1>1. writes \in [Handlers -> Writes] /\ NoWrite \in Writes /\ NoWrite.state # "sent"
  BY DEF RunTyped, Writes, NoWrite
<1> HIDE DEF Writes
<1>2. writes' \in [Handlers -> Writes] /\ \A g \in Handlers : Sent(g)' => Sent(g) /\ writes'[g] = writes[g]
  BY <1>1 DEF Sent
<1> QED
  BY <1>2 DEF Exists
-----------------------------------------------------------------------------
(***************************************************************************)
(* The ledger's total.                                                     *)
(***************************************************************************)

\* The ledger's total, as the function MapThenSumSet defines it by.
Pick(s) == CHOOSE x \in s : TRUE
IsSum(g, f, S) ==
  g = [s \in SUBSET S |-> IF s = {} THEN 0 ELSE f[Pick(s)] + g[s \ {Pick(s)}]]
Sums(f, S) == CHOOSE g : IsSum(g, f, S)
Total(f) == Sums(f, Months)[Months]

LEMMA TotalIsSum == MapThenSumSet(LAMBDA m : used[m], Months) = Total(used)
BY DEF MapThenSumSet, MapThenFoldSet, Total, Sums, IsSum, Pick

LEMMA Least == ASSUME NEW S \in SUBSET Nat, S # {} PROVE \E m \in S : \A k \in S : m <= k
<1> DEFINE Less == {p \in Nat \X Nat : p[1] < p[2]}
<1>1. IsWellFoundedOn(Less, Nat)
  BY NatLessThanWellFounded DEF OpToRel
<1> HIDE DEF Less
<1>2. PICK m \in S : \A k \in S : <<k, m>> \notin Less
  BY <1>1, WFMin
<1>3. ASSUME NEW k \in S PROVE m <= k
  <2>1. <<k, m>> \in Nat \X Nat
    OBVIOUS
  <2>2. ~(k < m)
    BY <1>2, <2>1 DEF Less
  <2> QED
    BY <2>2
<1> QED
  BY <1>3

\* A nonempty finite set without the element its sum takes first.
LEMMA Rest ==
  ASSUME NEW S, IsFiniteSet(S), NEW s \in SUBSET S, s # {}
  PROVE  /\ Pick(s) \in s /\ s \ {Pick(s)} \in SUBSET S
         /\ IsFiniteSet(s) /\ Cardinality(s) \in Nat /\ Cardinality(s) > 0
         /\ Cardinality(s \ {Pick(s)}) = Cardinality(s) - 1
<1>1. Pick(s) \in s
  BY DEF Pick
<1>2. IsFiniteSet(s)
  BY FS_Subset
<1>3. Cardinality(s) \in Nat /\ Cardinality(s) # 0
  BY <1>2, FS_CardinalityType, FS_EmptySet
<1>4. Cardinality(s \ {Pick(s)}) = Cardinality(s) - 1
  BY <1>1, <1>2, FS_RemoveElement
<1> QED
  BY <1>1, <1>2, <1>3, <1>4

\* What holds of the empty set, and of a set when it holds of its rest, holds of
\* every part of a finite set.
Inherited(S, T) ==
  /\ {} \in T
  /\ \A s \in SUBSET S : s # {} /\ s \ {Pick(s)} \in T => s \in T

LEMMA AllParts ==
  ASSUME NEW S, IsFiniteSet(S), NEW T, Inherited(S, T)
  PROVE  SUBSET S \subseteq T
<1> SUFFICES ASSUME NEW u \in SUBSET S, u \notin T PROVE FALSE
  OBVIOUS
<1> DEFINE Bad == {n \in Nat : \E s \in SUBSET S : s \notin T /\ Cardinality(s) = n}
<1>1. \A s \in SUBSET S : Cardinality(s) \in Nat
  BY FS_Subset, FS_CardinalityType
<1>2. Cardinality(u) \in Bad
  BY <1>1
<1>3. PICK n \in Bad : \A k \in Bad : n <= k
  BY <1>2, Least
<1>4. PICK s \in SUBSET S : s \notin T /\ Cardinality(s) = n
  OBVIOUS
<1>5. s # {}
  BY <1>4 DEF Inherited
<1> DEFINE r == s \ {Pick(s)}
<1>6. r \in SUBSET S /\ Cardinality(r) = n - 1 /\ n \in Nat
  BY <1>1, <1>4, <1>5, Rest
<1>7. r \notin T
  BY <1>4, <1>5 DEF Inherited
<1>8. Cardinality(r) \in Bad
  BY <1>1, <1>6, <1>7
<1> HIDE DEF Bad, r
<1> QED
  BY <1>3, <1>6, <1>8

\* Finite sums exist.
LEMMA SumsExist ==
  ASSUME NEW S, IsFiniteSet(S), NEW f \in [S -> Nat]
  PROVE  IsSum(Sums(f, S), f, S)
<1> DEFINE Sub(n) == {s \in SUBSET S : Cardinality(s) <= n}
           Value(g, s) == IF s = {} THEN 0 ELSE f[Pick(s)] + g[s \ {Pick(s)}]
           Part(n) == \E g : g = [s \in Sub(n) |-> Value(g, s)]
<1>1. \A s \in SUBSET S : Cardinality(s) \in Nat
  BY FS_Subset, FS_CardinalityType
<1>2. Part(0)
  <2> DEFINE g == [s \in Sub(0) |-> 0]
  <2>1. ASSUME NEW s \in Sub(0), s # {} PROVE FALSE
    <3>1. s \in SUBSET S /\ Cardinality(s) <= 0
      OBVIOUS
    <3>2. Cardinality(s) \in Nat /\ Cardinality(s) > 0
      BY <2>1, <3>1, Rest
    <3> QED
      BY <3>1, <3>2
  <2>2. g = [s \in Sub(0) |-> Value(g, s)]
    BY <2>1
  <2> QED
    BY <2>2
<1>3. ASSUME NEW n \in Nat, Part(n) PROVE Part(n + 1)
  <2>1. PICK g : g = [s \in Sub(n) |-> Value(g, s)]
    BY <1>3
  <2> DEFINE h == [s \in Sub(n + 1) |-> Value(g, s)]
  <2>2. ASSUME NEW s \in Sub(n) PROVE s \in Sub(n + 1) /\ h[s] = g[s]
    <3>1. s \in Sub(n + 1)
      <4>1. Cardinality(s) \in Nat /\ Cardinality(s) <= n
        BY <1>1
      <4>2. Cardinality(s) <= n + 1
        BY <4>1
      <4> QED
        BY <4>2
    <3> QED
      BY <2>1, <3>1
  <2>3. ASSUME NEW s \in Sub(n + 1) PROVE h[s] = Value(h, s)
    <3>1. CASE s = {}
      BY <3>1
    <3>2. CASE s # {}
      <4>1. s \ {Pick(s)} \in Sub(n)
        <5>1. s \in SUBSET S /\ Cardinality(s) <= n + 1
          OBVIOUS
        <5> QED
          BY <3>2, <5>1, Rest
      <4> QED
        BY <2>2, <3>2, <4>1
    <3> QED
      BY <3>1, <3>2
  <2>4. h = [s \in Sub(n + 1) |-> Value(h, s)]
    BY <2>3
  <2> QED
    BY <2>4
<1> HIDE DEF Part
<1>4. \A n \in Nat : Part(n)
  <2> DEFINE Bad == {n \in Nat : ~Part(n)}
  <2> SUFFICES ASSUME Bad # {} PROVE FALSE
    OBVIOUS
  <2>1. PICK n \in Bad : \A k \in Bad : n <= k
    BY Least
  <2>2. n \in Nat /\ ~Part(n) /\ n # 0
    BY <1>2
  <2>3. n - 1 \in Nat /\ n = (n - 1) + 1
    BY <2>2
  <2>4. n - 1 \notin Bad
    <3> HIDE DEF Bad
    <3> QED
      BY <2>1, <2>2
  <2> QED
    BY <1>3, <2>2, <2>3, <2>4
<1>5. Cardinality(S) \in Nat /\ Sub(Cardinality(S)) = SUBSET S
  BY FS_Subset, FS_CardinalityType
<1>6. \E g : IsSum(g, f, S)
  <2>1. PICK g : g = [s \in Sub(Cardinality(S)) |-> Value(g, s)]
    BY <1>4, <1>5 DEF Part
  <2> QED
    BY <1>5, <2>1 DEF IsSum
<1> QED
  BY <1>6 DEF Sums

LEMMA SumNat ==
  ASSUME NEW S, IsFiniteSet(S), NEW f \in [S -> Nat], NEW g, IsSum(g, f, S)
  PROVE  \A s \in SUBSET S : g[s] \in Nat
<1> DEFINE T == {s \in SUBSET S : g[s] \in Nat}
<1>1. \A s \in SUBSET S : g[s] = IF s = {} THEN 0 ELSE f[Pick(s)] + g[s \ {Pick(s)}]
  BY DEF IsSum
<1>2. ASSUME NEW s \in SUBSET S, s # {}, s \ {Pick(s)} \in T PROVE s \in T
  <2>1. Pick(s) \in S
    BY <1>2, Rest
  <2> QED
    BY <1>1, <1>2, <2>1
<1>3. {} \in T
  <2>1. {} \in SUBSET S /\ g[{}] = 0
    BY <1>1
  <2> QED
    BY <2>1
<1> HIDE DEF T
<1>4. SUBSET S \subseteq T
  BY <1>2, <1>3, AllParts DEF Inherited
<1> QED
  BY <1>4 DEF T

\* Two totals that differ as two terms do.
Shifted(a, b, w, v) == a \in Nat /\ b \in Nat /\ b = a + (v - w)

\* Changing one term changes the sum by the difference.
LEMMA SumUpdate ==
  ASSUME NEW S, IsFiniteSet(S), NEW f \in [S -> Nat], NEW m \in S, NEW v \in Nat,
         NEW e, e = [f EXCEPT ![m] = v]
  PROVE  Shifted(Sums(f, S)[S], Sums(e, S)[S], f[m], v)
<1> DEFINE g == Sums(f, S)
           h == Sums(e, S)
           T == {s \in SUBSET S : h[s] = IF m \in s THEN g[s] + (v - f[m]) ELSE g[s]}
<1>0. e \in [S -> Nat] /\ IsSum(g, f, S) /\ IsSum(h, e, S)
  BY SumsExist
<1> HIDE DEF g, h
<1>1. \A s \in SUBSET S :
        /\ g[s] = IF s = {} THEN 0 ELSE f[Pick(s)] + g[s \ {Pick(s)}]
        /\ h[s] = IF s = {} THEN 0 ELSE e[Pick(s)] + h[s \ {Pick(s)}]
  BY <1>0 DEF IsSum
<1>2. \A x \in S : e[x] = IF x = m THEN v ELSE f[x]
  OBVIOUS
<1>3. \A s \in SUBSET S : g[s] \in Nat /\ h[s] \in Nat
  BY <1>0, SumNat
<1>4. ASSUME NEW s \in SUBSET S, s # {}, s \ {Pick(s)} \in T PROVE s \in T
  <2> DEFINE x == Pick(s)
             r == s \ {x}
  <2>1. x \in s /\ x \in S /\ f[x] \in Nat /\ f[m] \in Nat /\ g[r] \in Nat
    BY <1>3, <1>4, Rest
  <2>2. /\ g[s] = f[x] + g[r] /\ h[s] = e[x] + h[r]
        /\ h[r] = IF m \in r THEN g[r] + (v - f[m]) ELSE g[r]
    BY <1>1, <1>4
  <2>3. m \in r <=> m \in s /\ m # x
    OBVIOUS
  <2>4. e[x] = IF x = m THEN v ELSE f[x]
    BY <1>2, <2>1
  <2> HIDE DEF x, r
  <2>5. CASE m = x
    BY <2>1, <2>2, <2>3, <2>4, <2>5
  <2>6. CASE m # x
    BY <2>1, <2>2, <2>3, <2>4, <2>6
  <2> QED
    BY <2>5, <2>6
<1>5. {} \in T
  BY <1>1
<1> HIDE DEF T
<1>6. SUBSET S \subseteq T
  BY <1>4, <1>5, AllParts DEF Inherited
<1>7. S \in SUBSET S
  OBVIOUS
<1>8. h[S] = IF m \in S THEN g[S] + (v - f[m]) ELSE g[S]
  BY <1>6, <1>7 DEF T
<1> QED
  BY <1>3, <1>7, <1>8 DEF g, h, Shifted

\* The total of the ledger is a number, and a debit raises it by no less than
\* its amount: by more, where the count is clamped at zero.
LEMMA DebitTotal ==
  ASSUME used \in [Months -> Nat], clock \in 0..MaxTime, NEW amount \in {-1, 0, 1}
  PROVE  /\ Total(used) \in Nat /\ Total(Debited(Month(clock), amount)) \in Nat
         /\ Total(Debited(Month(clock), amount)) >= Total(used) + amount
<1> DEFINE m == Month(clock)
           v == IF used[m] + amount > 0 THEN used[m] + amount ELSE 0
           e == [used EXCEPT ![m] = v]
<1>1. m \in Months /\ IsFiniteSet(Months)
  <2>1. Month(MaxTime) \in 0..Month(MaxTime)
    BY MonthsAre, ReviewAssumption DEF Months
  <2>2. Month(MaxTime) \in Int
    BY <2>1
  <2> QED
    BY MonthsAre, <2>2, FS_Interval DEF Months
<1> HIDE DEF m
<1>2. used[m] \in Nat /\ v \in Nat /\ v - used[m] >= amount /\ v - used[m] \in Int
  BY <1>1
<1> HIDE DEF v
<1>3. e \in [Months -> Nat]
  BY <1>2
<1>4. Total(used) \in Nat /\ Total(e) \in Nat /\ Total(e) = Total(used) + (v - used[m])
  <2>1. e = [used EXCEPT ![m] = v]
    OBVIOUS
  <2> HIDE DEF e
  <2>2. Shifted(Total(used), Total(e), used[m], v)
    BY <1>1, <1>2, <2>1, SumUpdate DEF Total
  <2> QED
    BY <2>2 DEF Shifted
<1>5. Total(e) >= Total(used) + amount
  <2> HIDE DEF e
  <2> QED
    BY <1>2, <1>4
<1>6. e = Debited(Month(clock), amount)
  BY DEF Debited, m, v
<1> QED
  BY <1>4, <1>5, <1>6

\* A set and what it is after one element came, went or stayed.
LEMMA OneApart ==
  ASSUME NEW S, IsFiniteSet(S), NEW T, NEW x, T \ {x} = S \ {x}
  PROVE  /\ IsFiniteSet(T) /\ Cardinality(S) \in Nat /\ Cardinality(T) \in Nat
         /\ x \in S /\ x \in T => Cardinality(T) = Cardinality(S)
         /\ x \notin S /\ x \notin T => Cardinality(T) = Cardinality(S)
         /\ x \notin S /\ x \in T => Cardinality(T) = Cardinality(S) + 1
         /\ x \in S /\ x \notin T => Cardinality(T) = Cardinality(S) - 1
<1>1. Cardinality(S) \in Nat
  BY FS_CardinalityType
<1>2. CASE x \in S <=> x \in T
  <2>1. T = S
    BY <1>2
  <2> QED
    BY <1>1, <2>1
<1>3. CASE x \notin S /\ x \in T
  <2>1. T = S \cup {x}
    BY <1>3
  <2> QED
    BY <1>1, <1>3, <2>1, FS_AddElement
<1>4. CASE x \in S /\ x \notin T
  <2>1. T = S \ {x}
    BY <1>4
  <2>2. IsFiniteSet(T) /\ Cardinality(T) = Cardinality(S) - 1
    BY <1>4, <2>1, FS_RemoveElement
  <2> QED
    BY <1>1, <1>4, <2>2, FS_CardinalityType
<1> QED
  BY <1>2, <1>3, <1>4
-----------------------------------------------------------------------------
(***************************************************************************)
(* The invariant.                                                          *)
(***************************************************************************)

LEMMA InitInv == Init => IInv
<1> SUFFICES ASSUME Init PROVE IInv
  OBVIOUS
<1>1. /\ mem = [c \in Clips |-> Absent] /\ db = mem
      /\ \A h \in Handlers : writes[h] = NoWrite
      /\ \A s \in Sweeps : sweep[s].phase = "idle" /\ sweep[s].todo = {}
      /\ \A c \in Clips : ~object[c]
  BY DEF Init, IdleSweep
<1>2. \A c \in Clips : ~Exists(c)
  BY <1>1 DEF Exists, Sent, NoWrite
<1>3. TypeOK
  BY <1>1, ReviewAssumption, MonthsAre DEF Init, TypeOK, NoWrite
<1>4. RunTyped
  BY ReviewAssumption DEF Init, RunTyped, Writes, Runs, Purging, IdleSweep
<1>5. KeysOK /\ IdleOK
  BY <1>1, <1>2 DEF KeysOK, IdleOK, InRun, Purging
<1>6. SqliteOK /\ NoOrphanObject
  BY <1>1 DEF SqliteOK, NoOrphanObject, Sent, NoWrite
<1> QED
  BY <1>3, <1>4, <1>5, <1>6 DEF IInv

\* No clip comes into existence, none is given back to its insert, and the
\* sweep runs only look at clips that are inserted.
LEMMA KeysKept ==
  ASSUME KeysOK, IdleOK, keys \subseteq keys', key' = key,
         \A c \in Clips : Exists(c)' => Exists(c),
         \A c \in Clips : persist'[c] = "idle" => persist[c] = "idle",
         \A c \in Clips : persist'[c] = "idle" /\ object'[c] => object[c],
         \A s \in Sweeps, c \in Clips :
           persist[c] = "idle" /\ InRun(s, c)' => InRun(s, c)
  PROVE  KeysOK' /\ IdleOK'
<1>1. KeysOK'
  BY DEF KeysOK
<1>2. IdleOK'
  BY DEF IdleOK
<1> QED
  BY <1>1, <1>2

\* The parts of the type that Persist, the requests and the sweep leave alone.
RestTyped ==
  /\ keys \subseteq {key[c] : c \in Clips} /\ object \in [Clips -> BOOLEAN]
  /\ persist \in [Clips -> {"idle", "saving", "billing", "done"}]
  /\ tally \in [Clips -> Int]
  /\ \A c \in Clips : persist[c] = "billing" => tally[c] \in {-1, 0, 1}
  /\ review \in [Reviews -> [phase : {"idle", "saving", "done"}, quota : {-1, 0, 1}]]
  /\ used \in [Months -> Nat]
  /\ backend \in Backends /\ key \in Keyings[backend]
  /\ clock \in 0..MaxTime /\ crashes \in 0..MaxCrashes

LEMMA TypeParts ==
  ASSUME mem' \in [Clips -> Rows], db' \in [Clips -> Rows], RunTyped', RestTyped'
  PROVE  TypeOK'
<1>1. \A h \in Handlers : writes'[h].state \in {"none", "sent", "landed", "failed"}
  BY DEF RunTyped, Writes, NoWrite
<1>2. \A s \in Sweeps :
        /\ sweep'[s].phase \in {"idle", "next", "purging", "unlinked", "deleting"}
        /\ sweep'[s].todo \subseteq Clips
  BY DEF RunTyped, Runs, Purging
<1> QED
  BY <1>1, <1>2 DEF TypeOK, RestTyped, Rows

LEMMA TypeHas ==
  TypeOK => mem \in [Clips -> Rows] /\ db \in [Clips -> Rows] /\ RestTyped
BY DEF TypeOK, RestTyped, Rows
-----------------------------------------------------------------------------
(***************************************************************************)
(* The steps.                                                              *)
(***************************************************************************)

LEMMA PersistInv ==
  ASSUME IInv, NEW c \in Clips, Persist(c) PROVE IInv'
<1> USE DEF IInv
<1>1. RestTyped /\ persist[c] = "idle"
  BY TypeHas DEF Persist
<1>2. /\ UNCHANGED <<review, sweep, used, key, backend, clock, crashes>>
      /\ \/ /\ key[c] \in keys /\ persist' = [persist EXCEPT ![c] = "done"]
            /\ UNCHANGED <<mem, keys, db, object, writes, tally>>
         \/ /\ key[c] \notin keys
            /\ \/ /\ persist' = [persist EXCEPT ![c] = "saving"]
                  /\ tally' = [tally EXCEPT ![c] = Moments(Kept)]
               \/ /\ persist' = [persist EXCEPT ![c] = "billing"]
                  /\ tally' = [tally EXCEPT ![c] = Charge(Moments(Kept), Moments(Kept \cup {c}))]
            /\ keys' = keys \cup {key[c]} /\ object' = [object EXCEPT ![c] = TRUE]
            /\ WriteThrough(c, c, NewRecord)
  BY DEF Persist, Insert
<1>3. /\ persist' \in [Clips -> {"idle", "saving", "billing", "done"}]
      /\ \A d \in Clips : persist'[d] = "idle" => persist[d] = "idle" /\ d # c
  BY <1>1, <1>2 DEF RestTyped
<1>30. /\ tally' \in [Clips -> Int]
       /\ \A d \in Clips : persist'[d] = "billing" => tally'[d] \in {-1, 0, 1}
  <2>1. Moments(Kept) \in Int
    BY KeptMoments
  <2> DEFINE charge == Charge(Moments(Kept), Moments(Kept \cup {c}))
  <2>2. charge \in {-1, 0, 1}
    BY ChargeTyped
  <2> HIDE DEF charge
  <2>3. \/ persist' = [persist EXCEPT ![c] = "done"] /\ tally' = tally
        \/ persist' = [persist EXCEPT ![c] = "saving"] /\ tally' = [tally EXCEPT ![c] = Moments(Kept)]
        \/ persist' = [persist EXCEPT ![c] = "billing"] /\ tally' = [tally EXCEPT ![c] = charge]
    BY <1>2 DEF charge
  <2> QED
    BY <1>1, <2>1, <2>2, <2>3 DEF RestTyped
<1>4. CASE /\ key[c] \in keys /\ UNCHANGED <<mem, keys, db, object, writes>>
  <2>1. \A d \in Clips : Exists(d)' => Exists(d)
    BY <1>4 DEF Exists, Sent
  <2>2. KeysOK' /\ IdleOK'
    BY <1>2, <1>3, <1>4, <2>1, KeysKept DEF InRun
  <2>3. SqliteOK' /\ NoOrphanObject'
    BY <1>2, <1>4 DEF SqliteOK, NoOrphanObject, Present, Sent
  <2>4. RunTyped' /\ TypeOK'
    BY <1>2, <1>3, <1>30, <1>4 DEF RunTyped, TypeOK
  <2> QED
    BY <2>2, <2>3, <2>4
<1>5. CASE /\ key[c] \notin keys /\ keys' = keys \cup {key[c]}
           /\ object' = [object EXCEPT ![c] = TRUE] /\ WriteThrough(c, c, NewRecord)
  <2>1. c \in Handlers /\ NewRecord \in Rows /\ NewRecord # Absent
    BY NewIsRecord DEF Handlers, Rows
  <2>2. /\ mem' \in [Clips -> Rows] /\ db' \in [Clips -> Rows]
        /\ writes' \in [Handlers -> Writes]
        /\ mem' = [mem EXCEPT ![c] = NewRecord]
        /\ \A d \in Clips : Exists(d)' => Exists(d) \/ d = c
        /\ backend = "sqlite" /\ mem = db /\ (\A g \in Handlers : ~Sent(g))
           => mem' = db' /\ \A g \in Handlers : ~Sent(g)'
    BY <1>5, <2>1, ThroughChanges
  <2>3. RunTyped'
    BY <1>2, <2>2 DEF RunTyped
  <2>4. /\ object' \in [Clips -> BOOLEAN]
        /\ \A d \in Clips \ {c} : object'[d] = object[d]
    BY <1>1, <1>5 DEF RestTyped
  <2>5. TypeOK'
    <3>1. keys' \subseteq {key[d] : d \in Clips}
      BY <1>1, <1>5 DEF RestTyped
    <3>2. RestTyped'
      BY <1>1, <1>2, <1>3, <1>30, <2>4, <3>1 DEF RestTyped
    <3> QED
      BY <2>2, <2>3, <3>2, TypeParts
  <2>6. \A d \in Clips : Exists(d) => key[d] # key[c]
    BY <1>5 DEF KeysOK
  <2>7. KeysOK'
    BY <1>2, <1>5, <2>2, <2>6 DEF KeysOK
  <2>8. \A s \in Sweeps : ~InRun(s, c)
    BY <1>1 DEF IdleOK
  <2>9. IdleOK'
    BY <1>2, <1>3, <2>2, <2>4 DEF IdleOK, InRun
  <2>10. SqliteOK'
    <3> SUFFICES ASSUME backend = "sqlite"
                 PROVE  /\ mem' = db' /\ \A h \in Handlers : ~Sent(h)'
                        /\ \A s \in Sweeps : sweep'[s].phase = "unlinked" => ~object'[sweep'[s].cur]
      BY <1>2 DEF SqliteOK
    <3>1. mem' = db' /\ \A h \in Handlers : ~Sent(h)'
      BY <2>2 DEF SqliteOK
    <3>2. ASSUME NEW s \in Sweeps, sweep[s].phase = "unlinked" PROVE ~object'[sweep[s].cur]
      <4>1. sweep[s].cur \in Clips /\ sweep[s].cur # c
        BY <2>8, <3>2 DEF RunTyped, Purging, InRun
      <4> QED
        BY <2>4, <3>2, <4>1 DEF SqliteOK
    <3> QED
      BY <1>2, <3>1, <3>2
  <2>11. NoOrphanObject'
    <3>1. mem'[c] # Absent /\ \A d \in Clips \ {c} : mem'[d] = mem[d]
      BY <2>1, <2>2, TypeHas
    <3> QED
      BY <1>2, <2>4, <3>1 DEF NoOrphanObject, Present
  <2> QED
    BY <2>3, <2>5, <2>7, <2>9, <2>10, <2>11
<1> QED
  BY <1>2, <1>4, <1>5

\* A request writes the record of a clip that has a row.
LEMMA RequestInv ==
  ASSUME IInv, NEW r \in Reviews, NEW c \in Clips, Present(c), NEW rec \in Record,
         WriteThrough(r, c, rec),
         review' \in [Reviews -> [phase : {"idle", "saving", "done"}, quota : {-1, 0, 1}]],
         UNCHANGED <<keys, object, persist, tally, sweep, used, key, backend, clock, crashes>>
  PROVE  IInv'
<1> USE DEF IInv
<1>1. RestTyped /\ r \in Handlers /\ rec \in Rows /\ rec # Absent
  BY TypeHas, NewIsRecord DEF Handlers, Rows
<1>2. /\ mem' \in [Clips -> Rows] /\ db' \in [Clips -> Rows]
      /\ writes' \in [Handlers -> Writes]
      /\ mem' = [mem EXCEPT ![c] = rec]
      /\ \A d \in Clips : Exists(d)' => Exists(d) \/ d = c
      /\ backend = "sqlite" /\ mem = db /\ (\A g \in Handlers : ~Sent(g))
         => mem' = db' /\ \A g \in Handlers : ~Sent(g)'
  BY <1>1, ThroughChanges
<1>3. RunTyped'
  BY <1>2 DEF RunTyped
<1>4. TypeOK'
  <2>1. RestTyped'
    BY <1>1 DEF RestTyped
  <2> QED
    BY <1>2, <1>3, <2>1, TypeParts
<1>5. \A d \in Clips : Exists(d)' => Exists(d)
  BY <1>2 DEF Exists, Present
<1>6. KeysOK' /\ IdleOK'
  BY <1>5, KeysKept DEF InRun
<1>7. SqliteOK'
  BY <1>2 DEF SqliteOK
<1>8. NoOrphanObject'
  <2>1. \A d \in Clips : mem[d] # Absent => mem'[d] # Absent
    BY <1>1, <1>2, TypeHas
  <2> QED
    BY <2>1 DEF NoOrphanObject, Present
<1> QED
  BY <1>3, <1>4, <1>6, <1>7, <1>8

\* A step that leaves the rows and the sweep runs alone, but for writes that
\* are done with.
LEMMA RowsKept ==
  ASSUME IInv, mem' = mem, db' = db, RunTyped', RestTyped',
         \A d \in Clips : Exists(d)' => Exists(d),
         \A h \in Handlers : Sent(h)' => Sent(h),
         \A d \in Clips : persist'[d] = "idle" => persist[d] = "idle",
         UNCHANGED <<keys, object, sweep, key, backend>>
  PROVE  IInv'
<1> USE DEF IInv
<1>1. TypeOK'
  BY TypeHas, TypeParts
<1>2. KeysOK' /\ IdleOK'
  BY KeysKept DEF InRun
<1>3. SqliteOK' /\ NoOrphanObject'
  BY DEF SqliteOK, NoOrphanObject, Present
<1> QED
  BY <1>1, <1>2, <1>3

LEMMA SettleInv ==
  ASSUME IInv, \/ \E c \in Clips : PersistSaved(c) \/ PersistSettle(c)
               \/ \E r \in Reviews : ReviewSettle(r)
               \/ Tick \/ UNCHANGED vars
  PROVE  IInv'
<1> USE DEF IInv
<1>1. RestTyped
  BY TypeHas
<1>2. ASSUME NEW c \in Clips, PersistSettle(c) PROVE IInv'
  <2>1. /\ UNCHANGED <<mem, keys, db, object, tally, review, sweep, key, backend, clock, crashes>>
        /\ writes' = [writes EXCEPT ![c] = NoWrite]
        /\ persist' = [persist EXCEPT ![c] = "done"]
        /\ used' = Debited(Month(clock), tally[c]) \/ used' = used
        /\ tally[c] \in {-1, 0, 1}
    BY <1>1, <1>2 DEF PersistSettle, RestTyped
  <2>2. /\ writes' \in [Handlers -> Writes]
        /\ \A d \in Clips : Exists(d)' => Exists(d)
        /\ \A g \in Handlers : Sent(g)' => Sent(g)
    BY <2>1, Forget DEF Handlers
  <2>3. used' \in [Months -> Nat]
    BY <1>1, <2>1, DebitTyped DEF RestTyped
  <2>4. RunTyped' /\ RestTyped' /\ \A d \in Clips : persist'[d] = "idle" => persist[d] = "idle"
    BY <1>1, <2>1, <2>2, <2>3 DEF RunTyped, RestTyped
  <2> QED
    BY <2>1, <2>2, <2>4, RowsKept
<1>20. ASSUME NEW c \in Clips, PersistSaved(c) PROVE IInv'
  <2> DEFINE charge == Charge(tally[c], Moments(Kept))
  <2>1. /\ UNCHANGED <<mem, keys, db, object, review, sweep, used, key, backend, clock, crashes>>
        /\ \/ /\ persist' = [persist EXCEPT ![c] = "billing"]
              /\ tally' = [tally EXCEPT ![c] = charge] /\ writes' = writes
           \/ /\ persist' = [persist EXCEPT ![c] = "done"]
              /\ tally' = tally /\ writes' = [writes EXCEPT ![c] = NoWrite]
    BY <1>20 DEF PersistSaved
  <2>2. charge \in {-1, 0, 1}
    BY ChargeTyped
  <2> HIDE DEF charge
  <2>3. /\ persist' \in [Clips -> {"idle", "saving", "billing", "done"}]
        /\ tally' \in [Clips -> Int]
        /\ \A d \in Clips : persist'[d] = "billing" => tally'[d] \in {-1, 0, 1}
        /\ \A d \in Clips : persist'[d] = "idle" => persist[d] = "idle"
    BY <1>1, <2>1, <2>2 DEF RestTyped
  <2>4. /\ writes' \in [Handlers -> Writes]
        /\ \A d \in Clips : Exists(d)' => Exists(d)
        /\ \A g \in Handlers : Sent(g)' => Sent(g)
    <3>1. CASE writes' = writes
      BY <2>1, <3>1 DEF RunTyped, Exists, Sent
    <3>2. CASE writes' = [writes EXCEPT ![c] = NoWrite]
      BY <2>1, <3>2, Forget DEF Handlers
    <3> QED
      BY <2>1, <3>1, <3>2
  <2>5. RunTyped' /\ RestTyped'
    BY <1>1, <2>1, <2>3, <2>4 DEF RunTyped, RestTyped
  <2> QED
    BY <2>1, <2>3, <2>4, <2>5, RowsKept
<1>3. ASSUME NEW r \in Reviews, ReviewSettle(r) PROVE IInv'
  <2>1. /\ UNCHANGED <<mem, keys, db, object, persist, tally, sweep, key, backend, clock, crashes>>
        /\ writes' = [writes EXCEPT ![r] = NoWrite]
        /\ review' = [review EXCEPT ![r].phase = "done"]
        /\ used' = Debited(Month(clock), review[r].quota) \/ used' = used
    BY <1>3 DEF ReviewSettle
  <2>2. /\ writes' \in [Handlers -> Writes]
        /\ \A d \in Clips : Exists(d)' => Exists(d)
        /\ \A g \in Handlers : Sent(g)' => Sent(g)
    BY <2>1, Forget DEF Handlers
  <2>3. used' \in [Months -> Nat]
    <3>1. review[r].quota \in {-1, 0, 1}
      BY <1>1 DEF RestTyped
    <3> QED
      BY <1>1, <2>1, <3>1, DebitTyped DEF RestTyped
  <2>4. review' \in [Reviews -> [phase : {"idle", "saving", "done"}, quota : {-1, 0, 1}]]
    BY <1>1, <2>1 DEF RestTyped
  <2>5. RunTyped' /\ RestTyped'
    BY <1>1, <2>1, <2>2, <2>3, <2>4 DEF RunTyped, RestTyped
  <2> QED
    BY <2>1, <2>2, <2>5, RowsKept
<1>4. CASE Tick \/ UNCHANGED vars
  <2>1. /\ UNCHANGED <<mem, keys, db, object, writes, persist, tally, review, sweep, used, key,
                       backend, crashes>>
        /\ clock' \in 0..MaxTime
    BY <1>1, <1>4, ReviewAssumption DEF Tick, vars, RestTyped
  <2>2. RunTyped' /\ RestTyped'
    BY <1>1, <2>1 DEF RunTyped, RestTyped
  <2>3. /\ \A d \in Clips : Exists(d)' => Exists(d)
        /\ \A h \in Handlers : Sent(h)' => Sent(h)
    BY <2>1 DEF Exists, Sent
  <2> QED
    BY <2>1, <2>2, <2>3, RowsKept
<1> QED
  BY <1>2, <1>20, <1>3, <1>4

LEMMA ReviewInv ==
  ASSUME IInv, NEW r \in Reviews, Review(r) \/ Export(r) PROVE IInv'
<1>1. RestTyped /\ mem \in [Clips -> Rows]
  BY TypeHas DEF IInv
<1>2. \A c \in Clips : Present(c) => mem[c] \in Record
  BY <1>1 DEF Present, Rows
<1>3. CASE Review(r)
  <2>1. PICK c \in Clips, status \in {"accepted", "rejected"} :
          /\ Present(c) /\ WriteThrough(r, c, Reviewed(mem[c], status))
          /\ review' = [review EXCEPT ![r] =
                          [phase |-> "saving", quota |-> Owed(mem[c].status, status)]]
    BY <1>3 DEF Review
  <2>2. Reviewed(mem[c], status) \in Record
    BY <1>1, <1>2, <2>1, ReviewedIsRecord DEF RestTyped
  <2>3. Owed(mem[c].status, status) \in {-1, 0, 1}
    BY DEF Owed
  <2>4. review' \in [Reviews -> [phase : {"idle", "saving", "done"}, quota : {-1, 0, 1}]]
    BY <1>1, <2>1, <2>3 DEF RestTyped
  <2>5. UNCHANGED <<keys, object, persist, tally, sweep, used, key, backend, clock, crashes>>
    BY <1>3 DEF Review
  <2> QED
    BY <2>1, <2>2, <2>4, <2>5, RequestInv
<1>4. CASE Export(r)
  <2>1. PICK c \in Clips :
          /\ Present(c) /\ WriteThrough(r, c, [mem[c] EXCEPT !.exported = TRUE])
          /\ review' = [review EXCEPT ![r] = [phase |-> "saving", quota |-> 0]]
    BY <1>4 DEF Export
  <2>2. [mem[c] EXCEPT !.exported = TRUE] \in Record
    BY <1>2, <2>1 DEF Record
  <2>3. review' \in [Reviews -> [phase : {"idle", "saving", "done"}, quota : {-1, 0, 1}]]
    BY <1>1, <2>1 DEF RestTyped
  <2>4. UNCHANGED <<keys, object, persist, tally, sweep, used, key, backend, clock, crashes>>
    BY <1>4 DEF Export
  <2> QED
    BY <2>1, <2>2, <2>3, <2>4, RequestInv
<1> QED
  BY <1>3, <1>4

\* A write that reaches the table, or that the database refuses.
LEMMA LandInv ==
  ASSUME IInv, NEW h \in Handlers, Land(h) \/ Fail(h) PROVE IInv'
<1> USE DEF IInv
<1>1. /\ Sent(h) /\ writes \in [Handlers -> Writes] /\ RestTyped
      /\ mem \in [Clips -> Rows] /\ db \in [Clips -> Rows]
      /\ UNCHANGED <<mem, keys, object, persist, tally, review, sweep, used, key, backend, clock, crashes>>
  BY TypeHas DEF Land, Fail, Sent, RunTyped
<1>2. PICK st \in {"landed", "failed"} :
        /\ writes' = [writes EXCEPT ![h].state = st]
        /\ db' = [db EXCEPT ![writes[h].clip] = writes[h].rec] \/ db' = db
  BY DEF Land, Fail
<1>3. writes[h].clip \in Clips /\ writes[h].rec \in Rows
  BY <1>1 DEF Sent, Writes, NoWrite
<1> DEFINE w == [writes[h] EXCEPT !.state = st]
<1>4. w \in Writes /\ w.state # "sent"
  BY <1>1, <1>3 DEF Writes, Sent, NoWrite
<1> HIDE DEF w, Writes, Rows
<1>5. writes' = [writes EXCEPT ![h] = w]
  BY <1>2 DEF w
<1>6. writes' \in [Handlers -> Writes] /\ db' \in [Clips -> Rows]
  BY <1>1, <1>2, <1>3, <1>4, <1>5
<1>7. \A g \in Handlers : Sent(g)' => Sent(g) /\ writes'[g] = writes[g]
  BY <1>1, <1>4, <1>5 DEF Sent
<1>8. \A d \in Clips : Exists(d)' => Exists(d)
  BY <1>1, <1>2, <1>3, <1>7 DEF Exists
<1>9. RunTyped' /\ RestTyped'
  BY <1>1, <1>6 DEF RunTyped, RestTyped
<1>10. TypeOK'
  BY <1>1, <1>6, <1>9, TypeParts
<1>11. KeysOK' /\ IdleOK'
  BY <1>1, <1>8, KeysKept DEF InRun
<1>12. backend # "sqlite" /\ backend' = backend
  BY <1>1 DEF SqliteOK
<1>13. SqliteOK' /\ NoOrphanObject'
  BY <1>12 DEF SqliteOK, NoOrphanObject
<1> QED
  BY <1>9, <1>10, <1>11, <1>13

\* A step of the sweep runs that writes no row.
LEMMA RunInv ==
  ASSUME IInv, RunTyped',
         UNCHANGED <<mem, keys, db, persist, tally, review, used, key, backend, clock, crashes>>,
         object' \in [Clips -> BOOLEAN], \A c \in Clips : object'[c] => object[c],
         \A d \in Clips : Exists(d)' => Exists(d),
         \A h \in Handlers : Sent(h)' => Sent(h),
         \A s \in Sweeps, c \in Clips : InRun(s, c)' => InRun(s, c) \/ mem[c] # Absent,
         backend = "sqlite" =>
           \A s \in Sweeps : sweep'[s].phase = "unlinked" =>
             sweep[s] = sweep'[s] \/ ~object'[sweep'[s].cur]
  PROVE  IInv'
<1> USE DEF IInv
<1>1. TypeOK'
  <2>1. RestTyped'
    BY TypeHas DEF RestTyped
  <2> QED
    BY <2>1, TypeHas, TypeParts
<1>2. \A c \in Clips : mem[c] # Absent => persist[c] # "idle"
  BY DEF IdleOK, Exists
<1>3. KeysOK' /\ IdleOK'
  BY <1>2, KeysKept
<1>4. SqliteOK'
  <2> SUFFICES ASSUME backend = "sqlite", NEW s \in Sweeps, sweep'[s].phase = "unlinked"
               PROVE  ~object'[sweep'[s].cur]
    BY DEF SqliteOK
  <2>1. sweep'[s].cur \in Clips
    BY DEF RunTyped, Purging
  <2>2. CASE sweep[s] = sweep'[s]
    BY <2>1, <2>2 DEF SqliteOK
  <2> QED
    BY <2>2
<1>5. NoOrphanObject'
  BY DEF NoOrphanObject, Present
<1> QED
  BY <1>1, <1>3, <1>4, <1>5

\* The row a run deletes is one whose file is gone.
LEMMA DeleteInv ==
  ASSUME IInv, NEW s \in Sweeps, sweep[s].phase = "unlinked",
         WriteThrough(s, sweep[s].cur, Absent),
         sweep' = [sweep EXCEPT ![s].phase = "deleting"],
         UNCHANGED <<keys, object, persist, tally, review, used, key, backend, clock, crashes>>,
         Present(sweep[s].cur)
  PROVE  IInv'
<1> USE DEF IInv
<1> DEFINE c == sweep[s].cur
<1>1. c \in Clips /\ s \in Handlers /\ Absent \in Rows /\ RestTyped
  BY TypeHas DEF RunTyped, Purging, Handlers, Rows
<1>2. /\ mem' \in [Clips -> Rows] /\ db' \in [Clips -> Rows]
      /\ writes' \in [Handlers -> Writes]
      /\ mem' = [mem EXCEPT ![c] = Absent]
      /\ \A d \in Clips : Exists(d)' => Exists(d) \/ d = c
      /\ backend = "sqlite" /\ mem = db /\ (\A g \in Handlers : ~Sent(g))
         => mem' = db' /\ \A g \in Handlers : ~Sent(g)'
  BY <1>1, ThroughChanges
<1>3. sweep' \in [Sweeps -> Runs]
  BY DEF RunTyped, Runs, Purging
<1>4. \A t \in Sweeps : /\ sweep'[t].todo = sweep[t].todo /\ sweep'[t].cur = sweep[t].cur
                        /\ sweep'[t].phase = IF t = s THEN "deleting" ELSE sweep[t].phase
  BY DEF RunTyped, Runs
<1>5. \A t \in Sweeps, d \in Clips : InRun(t, d)' => InRun(t, d)
  BY <1>4 DEF InRun, Purging
<1>6. RunTyped'
  BY <1>1, <1>2, <1>3, <1>4 DEF RunTyped
<1>7. TypeOK'
  <2>1. RestTyped'
    BY <1>1 DEF RestTyped
  <2> QED
    BY <1>2, <1>6, <2>1, TypeParts
<1>8. \A d \in Clips : Exists(d)' => Exists(d)
  BY <1>2 DEF Exists, Present
<1>9. KeysOK' /\ IdleOK'
  BY <1>5, <1>8, KeysKept
<1>10. SqliteOK'
  BY <1>2, <1>4 DEF SqliteOK
<1>11. NoOrphanObject'
  <2>1. \A d \in Clips \ {c} : mem'[d] = mem[d]
    BY <1>2, TypeHas
  <2>2. backend = "sqlite" => ~object[c]
    BY DEF SqliteOK
  <2> HIDE DEF c
  <2> QED
    BY <2>1, <2>2 DEF NoOrphanObject, Present
<1> QED
  BY <1>6, <1>7, <1>9, <1>10, <1>11

LEMMA SweepInv ==
  ASSUME IInv, NEW s \in Sweeps, SweepStep(s) PROVE IInv'
<1> USE DEF IInv
<1>1. /\ RestTyped /\ sweep \in [Sweeps -> Runs] /\ writes \in [Handlers -> Writes]
      /\ \A t \in Sweeps : sweep[t].phase \in Purging => sweep[t].cur \in Clips
      /\ sweep[s] \in Runs
  BY TypeHas DEF RunTyped
<1>2. ASSUME NEW run \in Runs, sweep' = [sweep EXCEPT ![s] = run],
             run.phase \in Purging => run.cur \in Clips,
             \A c \in Clips : c \in run.todo \/ (run.phase \in Purging /\ c = run.cur)
                              => InRun(s, c) \/ mem[c] # Absent,
             backend = "sqlite" /\ run.phase = "unlinked" => ~object'[run.cur],
             object' \in [Clips -> BOOLEAN], \A c \in Clips : object'[c] => object[c],
             writes' = writes \/ writes' = [writes EXCEPT ![s] = NoWrite],
             UNCHANGED <<mem, keys, db, persist, tally, review, used, key, backend, clock, crashes>>
      PROVE  IInv'
  <2>1. sweep' \in [Sweeps -> Runs] /\ \A t \in Sweeps : sweep'[t] = IF t = s THEN run ELSE sweep[t]
    BY <1>1, <1>2
  <2>2. /\ writes' \in [Handlers -> Writes]
        /\ \A d \in Clips : Exists(d)' => Exists(d)
        /\ \A h \in Handlers : Sent(h)' => Sent(h)
    <3>1. CASE writes' = writes
      BY <1>1, <1>2, <3>1 DEF Exists, Sent
    <3>2. CASE writes' = [writes EXCEPT ![s] = NoWrite]
      BY <1>2, <3>2, Forget DEF Handlers
    <3> QED
      BY <1>2, <3>1, <3>2
  <2>3. RunTyped'
    BY <1>1, <1>2, <2>1, <2>2 DEF RunTyped
  <2>4. \A t \in Sweeps, c \in Clips : InRun(t, c)' => InRun(t, c) \/ mem[c] # Absent
    BY <1>2, <2>1 DEF InRun
  <2>5. backend = "sqlite" =>
          \A t \in Sweeps : sweep'[t].phase = "unlinked" =>
            sweep[t] = sweep'[t] \/ ~object'[sweep'[t].cur]
    BY <1>2, <2>1
  <2> QED
    BY <1>2, <2>2, <2>3, <2>4, <2>5, RunInv
<1>3. object \in [Clips -> BOOLEAN]
  BY <1>1 DEF RestTyped
<1>4. CASE SweepStart(s)
  <2> DEFINE due == {c \in Clips : Due(mem[c], clock)}
             run == [IdleSweep EXCEPT !.phase = "next", !.todo = due, !.now = clock]
  <2>1. \A c \in due : mem[c] # Absent
    BY DEF Due
  <2>2. clock \in 0..MaxTime
    BY <1>1 DEF RestTyped
  <2>3. run \in Runs /\ run.phase = "next" /\ run.todo = due
    BY <2>2 DEF Runs, Purging, IdleSweep
  <2>4. /\ sweep' = [sweep EXCEPT ![s] = run]
        /\ UNCHANGED <<mem, keys, db, object, writes, persist, tally, review, used, key, backend,
                       clock, crashes>>
    BY <1>4 DEF SweepStart
  <2> HIDE DEF due, run
  <2> QED
    BY <1>2, <1>3, <2>1, <2>3, <2>4 DEF Purging
<1>5. CASE SweepRecheck(s)
  <2>1. PICK c \in sweep[s].todo, st \in {"purging", "next"} :
          sweep' = [sweep EXCEPT ![s] =
                      [sweep[s] EXCEPT !.todo = sweep[s].todo \ {c}, !.cur = c, !.phase = st]]
    BY <1>5 DEF SweepRecheck
  <2> DEFINE run == [sweep[s] EXCEPT !.todo = sweep[s].todo \ {c}, !.cur = c, !.phase = st]
  <2>2. c \in Clips
    BY <1>1 DEF Runs
  <2>3. /\ run \in Runs /\ run.phase = st /\ run.cur = c /\ run.todo \subseteq sweep[s].todo
    BY <1>1, <2>2 DEF Runs, Purging
  <2>4. UNCHANGED <<mem, keys, db, object, writes, persist, tally, review, used, key, backend,
                    clock, crashes>>
    BY <1>5 DEF SweepRecheck
  <2>5. sweep' = [sweep EXCEPT ![s] = run]
    BY <2>1
  <2> HIDE DEF run
  <2>6. \A d \in Clips : d \in run.todo \/ d = run.cur => InRun(s, d)
    BY <2>1, <2>3 DEF InRun
  <2> QED
    BY <1>2, <1>3, <2>2, <2>3, <2>4, <2>5, <2>6
<1>6. CASE SweepEnd(s)
  <2>1. IdleSweep \in Runs /\ IdleSweep.phase = "idle" /\ IdleSweep.todo = {}
    BY ReviewAssumption DEF IdleSweep, Runs
  <2>2. /\ sweep' = [sweep EXCEPT ![s] = IdleSweep]
        /\ UNCHANGED <<mem, keys, db, object, writes, persist, tally, review, used, key, backend,
                       clock, crashes>>
    BY <1>6 DEF SweepEnd
  <2> QED
    BY <1>2, <1>3, <2>1, <2>2 DEF Purging
<1>7. ASSUME NEW st \in {"next", "unlinked"}, sweep' = [sweep EXCEPT ![s].phase = st],
             sweep[s].phase \in Purging,
             st = "unlinked" /\ backend = "sqlite" => ~object'[sweep[s].cur],
             object' \in [Clips -> BOOLEAN], \A c \in Clips : object'[c] => object[c],
             writes' = writes \/ writes' = [writes EXCEPT ![s] = NoWrite],
             UNCHANGED <<mem, keys, db, persist, tally, review, used, key, backend, clock, crashes>>
      PROVE  IInv'
  <2> DEFINE run == [sweep[s] EXCEPT !.phase = st]
  <2>1. /\ run \in Runs /\ run.phase = st /\ run.cur = sweep[s].cur
        /\ run.todo = sweep[s].todo
    BY <1>1 DEF Runs, Purging
  <2>2. sweep' = [sweep EXCEPT ![s] = run]
    BY <1>7
  <2> HIDE DEF run
  <2>3. run.cur \in Clips
    BY <1>1, <1>7, <2>1
  <2>4. \A c \in Clips : c \in run.todo \/ c = run.cur => InRun(s, c)
    BY <1>7, <2>1 DEF InRun
  <2> QED
    BY <1>2, <1>7, <2>1, <2>2, <2>3, <2>4
<1>8. CASE SweepUnlink(s)
  <2>1. /\ sweep' = [sweep EXCEPT ![s].phase = "unlinked"] /\ sweep[s].phase \in Purging
        /\ UNCHANGED <<mem, keys, db, writes, persist, tally, review, used, key, backend, clock, crashes>>
        /\ \/ object' = [object EXCEPT ![sweep[s].cur] = FALSE]
           \/ backend = "faulty" /\ object' = object
    BY <1>8 DEF SweepUnlink, Purging
  <2>2. /\ object' \in [Clips -> BOOLEAN] /\ \A c \in Clips : object'[c] => object[c]
        /\ backend = "sqlite" => ~object'[sweep[s].cur]
    BY <1>1, <1>3, <2>1
  <2> QED
    BY <1>7, <2>1, <2>2
<1>9. CASE SweepDelete(s)
  <2>1. CASE Present(sweep[s].cur)
    BY <1>9, <2>1, DeleteInv DEF SweepDelete
  <2>2. CASE ~Present(sweep[s].cur)
    BY <1>3, <1>7, <1>9, <2>2 DEF SweepDelete, Purging
  <2> QED
    BY <2>1, <2>2
<1>10. CASE SweepDeleted(s)
  BY <1>3, <1>7, <1>10 DEF SweepDeleted, Purging
<1> QED
  BY <1>4, <1>5, <1>6, <1>8, <1>9, <1>10 DEF SweepStep

\* The maps of the new process are the table, whose moments had one row each.
LEMMA RestartInv ==
  ASSUME IInv, Restart PROVE IInv'
<1> USE DEF IInv
<1>1. RestTyped /\ mem \in [Clips -> Rows] /\ db \in [Clips -> Rows]
  BY TypeHas
<1>2. /\ mem' = db /\ db' = db /\ UNCHANGED <<object, tally, used, key, backend, clock>>
      /\ keys' = {key[c] : c \in {d \in Clips : db[d] # Absent}}
      /\ writes' = [h \in Handlers |-> NoWrite] /\ sweep' = [s \in Sweeps |-> IdleSweep]
      /\ crashes' = crashes + 1 /\ crashes < MaxCrashes
  BY DEF Restart
<1>3. /\ persist' \in [Clips -> {"idle", "saving", "billing", "done"}]
      /\ \A c \in Clips : persist'[c] = "idle" => persist[c] = "idle"
      /\ \A c \in Clips : persist'[c] # "billing"
  BY <1>1 DEF Restart, RestTyped
<1>4. review' \in [Reviews -> [phase : {"idle", "saving", "done"}, quota : {-1, 0, 1}]]
  <2> SUFFICES ASSUME NEW r \in Reviews
               PROVE  (IF review[r].phase = "saving" THEN [review[r] EXCEPT !.phase = "done"]
                       ELSE review[r]) \in [phase : {"idle", "saving", "done"}, quota : {-1, 0, 1}]
    BY DEF Restart
  <2>1. review[r] \in [phase : {"idle", "saving", "done"}, quota : {-1, 0, 1}]
    BY <1>1 DEF RestTyped
  <2> QED
    BY <2>1
<1>5. RunTyped'
  BY <1>2, ReviewAssumption DEF RunTyped, Writes, Runs, Purging, IdleSweep
<1>6. keys' \subseteq {key'[c] : c \in Clips} /\ crashes' \in 0..MaxCrashes
  BY <1>1, <1>2, ReviewAssumption DEF RestTyped
<1>7. RestTyped'
  BY <1>1, <1>2, <1>3, <1>4, <1>6 DEF RestTyped
<1>8. TypeOK'
  BY <1>1, <1>2, <1>5, <1>7, TypeParts
<1>9. \A h \in Handlers : ~Sent(h)'
  BY <1>2 DEF Sent, NoWrite
<1>10. \A c \in Clips : Exists(c)' => db[c] # Absent /\ Exists(c)
  BY <1>2, <1>9 DEF Exists
<1>11. KeysOK'
  BY <1>2, <1>10 DEF KeysOK
<1>12. IdleOK'
  BY <1>2, <1>3, <1>10 DEF IdleOK, InRun, Purging, IdleSweep
<1>13. SqliteOK'
  BY <1>2, <1>9 DEF SqliteOK, IdleSweep
<1>14. NoOrphanObject'
  BY <1>2 DEF SqliteOK, NoOrphanObject, Present
<1> QED
  BY <1>5, <1>8, <1>11, <1>12, <1>13, <1>14

LEMMA StepInv ==
  ASSUME IInv, [Next]_vars PROVE IInv'
<1>1. ASSUME NEW c \in Clips, Persist(c) PROVE IInv'
  BY <1>1, PersistInv
<1>2. ASSUME NEW r \in Reviews, Review(r) \/ Export(r) PROVE IInv'
  BY <1>2, ReviewInv
<1>3. ASSUME NEW s \in Sweeps, SweepStep(s) PROVE IInv'
  BY <1>3, SweepInv
<1>4. ASSUME NEW h \in Handlers, Land(h) \/ Fail(h) PROVE IInv'
  BY <1>4, LandInv
<1> QED
  BY <1>1, <1>2, <1>3, <1>4, SettleInv, RestartInv DEF Next

LEMMA InvHolds == Spec => []IInv
<1>1. Init => IInv
  BY InitInv
<1>2. IInv /\ [Next]_vars => IInv'
  BY StepInv
<1> QED
  BY <1>1, <1>2, PTL DEF Spec
-----------------------------------------------------------------------------
(***************************************************************************)
(* Moments: one more row adds at most one, and rows that lie apart are a   *)
(* moment each.                                                            *)
(***************************************************************************)

Closed(T, S) == \A e \in T, f \in S : Overlap(e, f) => f \in T

\* The chain of c is the least closed part of S that holds c.
LEMMA ChainIs ==
  ASSUME NEW S, NEW c \in S
  PROVE  /\ c \in Chain(c, S) /\ Chain(c, S) \in SUBSET S /\ Closed(Chain(c, S), S)
         /\ \A T \in SUBSET S : c \in T /\ Closed(T, S) => Chain(c, S) \subseteq T
<1>1. \A d : d \in Chain(c, S) <=> d \in S /\ \A T \in SUBSET S : c \in T /\ Closed(T, S) => d \in T
  BY DEF Chain, Closed
<1>2. Closed(Chain(c, S), S)
  <2> SUFFICES ASSUME NEW e \in Chain(c, S), NEW f \in S, Overlap(e, f),
                      NEW T \in SUBSET S, c \in T, Closed(T, S)
               PROVE  f \in T
    BY <1>1 DEF Closed
  <2>1. e \in T
    BY <1>1
  <2> QED
    BY <2>1 DEF Closed
<1> QED
  BY <1>1, <1>2

LEMMA OverlapBoth == ASSUME NEW c, NEW d, Overlap(c, d) PROVE Overlap(d, c)
BY DEF Overlap

\* Rows of one chain have the same chain.
LEMMA ChainShared ==
  ASSUME NEW S, NEW c \in S, NEW d \in Chain(c, S)
  PROVE  Chain(d, S) = Chain(c, S)
<1>1. d \in S
  BY ChainIs
<1>2. Chain(d, S) \subseteq Chain(c, S)
  BY <1>1, ChainIs
<1>3. c \in Chain(d, S)
  <2> SUFFICES ASSUME c \notin Chain(d, S) PROVE FALSE
    OBVIOUS
  <2> DEFINE T == Chain(c, S) \ Chain(d, S)
  <2>1. c \in T /\ T \in SUBSET S
    BY ChainIs
  <2>2. Closed(T, S)
    <3> SUFFICES ASSUME NEW e \in T, NEW f \in S, Overlap(e, f) PROVE f \in T
      BY DEF Closed
    <3>1. f \in Chain(c, S)
      BY ChainIs DEF Closed
    <3>2. f \notin Chain(d, S)
      <4> SUFFICES ASSUME f \in Chain(d, S) PROVE FALSE
        OBVIOUS
      <4>1. e \in S /\ Overlap(f, e)
        BY ChainIs, OverlapBoth
      <4>2. Closed(Chain(d, S), S)
        BY <1>1, ChainIs
      <4>3. e \in Chain(d, S)
        BY <4>1, <4>2 DEF Closed
      <4> QED
        BY <4>3
    <3> QED
      BY <3>1, <3>2
  <2>3. Chain(c, S) \subseteq T
    BY <2>1, <2>2, ChainIs
  <2>4. d \in Chain(d, S)
    BY <1>1, ChainIs
  <2> QED
    BY <2>3, <2>4
<1>4. Chain(c, S) \subseteq Chain(d, S)
  <2>1. Chain(d, S) \in SUBSET S /\ Closed(Chain(d, S), S)
    BY <1>1, ChainIs
  <2> QED
    BY <1>3, <2>1, ChainIs
<1> QED
  BY <1>2, <1>4

\* A chain that a new row did not join is what it was.
LEMMA ChainApart ==
  ASSUME NEW S, NEW c, NEW d \in S, c \notin Chain(d, S \cup {c})
  PROVE  Chain(d, S \cup {c}) = Chain(d, S)
<1> DEFINE U == S \cup {c}
           X == Chain(d, U)
           Y == Chain(d, S)
<1>1. d \in U
  OBVIOUS
<1>2. d \in X /\ X \in SUBSET U /\ Closed(X, U)
  BY <1>1, ChainIs
<1>3. d \in Y /\ Y \in SUBSET S /\ Closed(Y, S)
  BY ChainIs
<1>4. Y \subseteq X
  <2>1. X \in SUBSET S /\ Closed(X, S)
    BY <1>2 DEF Closed
  <2> QED
    BY <1>2, <2>1, ChainIs
<1>5. Closed(Y, U)
  <2> SUFFICES ASSUME NEW e \in Y, NEW f \in U, Overlap(e, f) PROVE f \in Y
    BY DEF Closed
  <2>1. f \in X
    BY <1>2, <1>4 DEF Closed
  <2>2. f \in S
    BY <2>1
  <2> QED
    BY <1>3, <2>2 DEF Closed
<1>6. X \subseteq Y
  <2>1. Y \in SUBSET U
    BY <1>3
  <2> QED
    BY <1>1, <1>3, <1>5, <2>1, ChainIs
<1> QED
  BY <1>4, <1>6

LEMMA MomentAdded ==
  ASSUME NEW S \in SUBSET Clips, NEW c \in Clips
  PROVE  /\ Moments(S) \in Nat /\ Moments(S \cup {c}) \in Nat
         /\ Moments(S \cup {c}) <= Moments(S) + 1
<1> DEFINE U == S \cup {c}
           M == {Chain(d, S) : d \in S}
           N == {Chain(d, U) : d \in U}
<1>1. IsFiniteSet(M) /\ Moments(S) \in Nat /\ Moments(U) \in Nat
  BY MomentsFinite
<1>2. c \in U
  OBVIOUS
<1>3. ASSUME NEW d \in U PROVE Chain(d, U) \in M \cup {Chain(c, U)}
  <2>1. CASE c \in Chain(d, U)
    BY <2>1, ChainShared
  <2>2. CASE c \notin Chain(d, U)
    <3>1. d \in S
      <4>1. d \in Chain(d, U)
        BY ChainIs
      <4> QED
        BY <2>2, <4>1
    <3> QED
      BY <2>2, <3>1, ChainApart
  <2> QED
    BY <2>1, <2>2
<1>4. N \in SUBSET (M \cup {Chain(c, U)})
  BY <1>3
<1> DEFINE W == M \cup {Chain(c, U)}
<1>5. IsFiniteSet(W) /\ Cardinality(W) \in Nat /\ Cardinality(M) \in Nat
      /\ Cardinality(W) <= Cardinality(M) + 1
  <2> HIDE DEF M
  <2>1. IsFiniteSet(W)
    BY <1>1, FS_AddElement
  <2>2. W \ {Chain(c, U)} = M \ {Chain(c, U)}
    OBVIOUS
  <2> QED
    BY <1>1, <2>1, <2>2, OneApart
<1>6. Cardinality(N) <= Cardinality(W)
  BY <1>4, <1>5, FS_Subset
<1>7. Moments(S) = Cardinality(M) /\ Moments(U) = Cardinality(N)
  BY DEF Moments
<1> HIDE DEF M, N, W, U
<1>8. Cardinality(N) \in Nat
  BY <1>1, <1>7
<1>9. Moments(U) <= Moments(S) + 1
  BY <1>5, <1>6, <1>7, <1>8
<1> QED
  BY <1>1, <1>9 DEF U

LEMMA MomentsApart ==
  ASSUME NEW S \in SUBSET Clips, \A c, d \in S : c # d => ~Overlap(c, d)
  PROVE  Moments(S) = Cardinality(S)
<1>1. ASSUME NEW c \in S PROVE Chain(c, S) = {c}
  <2>1. {c} \in SUBSET S /\ Closed({c}, S)
    BY DEF Closed
  <2> QED
    BY <2>1, ChainIs
<1> DEFINE M == {Chain(c, S) : c \in S}
           f == [c \in S |-> Chain(c, S)]
<1>2. f \in Surjection(S, M)
  BY DEF Surjection
<1>3. f \in Injection(S, M)
  BY <1>1, <1>2 DEF Surjection, Injection, IsInjective
<1>4. IsFiniteSet(S)
  BY MomentsFinite
<1>5. Cardinality(M) = Cardinality(S)
  <2> HIDE DEF f, M
  <2> QED
    BY <1>2, <1>3, <1>4, FS_Surjection
<1> QED
  BY <1>5 DEF Moments
-----------------------------------------------------------------------------
(***************************************************************************)
(* The quota.  A moment is paid for by the total, by an insert that is     *)
(* still to debit it, or by a restore that is; a reject or an insert that  *)
(* is still to give a slot back owes one more.                             *)
(***************************************************************************)

Busy(c) == persist[c] \in {"saving", "billing"}

\* Who still owes the ledger has a write of its own to wait for, and only a
\* database that may fail lets one fail.
WritesOK ==
  /\ \A c \in Clips : Busy(c) => writes[c].state # "none"
  /\ \A r \in Reviews : review[r].phase = "saving" => writes[r].state # "none"
  /\ backend # "faulty" => \A h \in Handlers : writes[h].state # "failed"

\* Over SQLite no insert waits, and until a restart a rejected row, or a sweep,
\* tells of a request that rejected one.
SeenOK ==
  /\ backend = "sqlite" => \A c \in Clips : persist[c] # "saving"
  /\ \A r \in Reviews : review[r].phase = "idle" => review[r].quota = 0
  /\ crashes = 0 =>
       /\ \A c \in Clips : Present(c) /\ mem[c].status = "rejected" => Rejected
       /\ \A s \in Sweeps : sweep[s].phase # "idle" => Rejected

\* A handler whose write is sent.
LEMMA WriteGoes ==
  ASSUME RunTyped, WritesOK, backend' = backend, NEW h \in Handlers, NEW w,
         writes' = [writes EXCEPT ![h] = w],
         w.state \in {"sent", "landed"} \/ (w.state = "failed" /\ backend = "faulty"),
         \A c \in Clips : Busy(c)' => Busy(c) \/ c = h,
         \A r \in Reviews : review'[r].phase = "saving" => review[r].phase = "saving" \/ r = h
  PROVE  WritesOK'
<1>1. \A g \in Handlers : writes'[g] = IF g = h THEN w ELSE writes[g]
  BY DEF RunTyped
<1>2. Clips \subseteq Handlers /\ Reviews \subseteq Handlers
  BY DEF Handlers
<1> QED
  BY <1>1, <1>2 DEF WritesOK

\* A handler that is done with its write.
LEMMA WriteEnds ==
  ASSUME RunTyped, WritesOK, backend' = backend, NEW h \in Handlers,
         writes' = [writes EXCEPT ![h] = NoWrite],
         \A c \in Clips : Busy(c)' => Busy(c) /\ c # h,
         \A r \in Reviews : review'[r].phase = "saving" => review[r].phase = "saving" /\ r # h
  PROVE  WritesOK'
<1>1. \A g \in Handlers : writes'[g] = IF g = h THEN NoWrite ELSE writes[g]
  BY DEF RunTyped
<1>2. Clips \subseteq Handlers /\ Reviews \subseteq Handlers /\ NoWrite.state = "none"
  BY DEF Handlers, NoWrite
<1> QED
  BY <1>1, <1>2 DEF WritesOK

LEMMA WritesKept ==
  ASSUME WritesOK, UNCHANGED <<writes, backend>>,
         \A c \in Clips : Busy(c)' => Busy(c),
         \A r \in Reviews : review'[r].phase = "saving" => review[r].phase = "saving"
  PROVE  WritesOK'
BY DEF WritesOK

LEMMA StepWrites ==
  ASSUME IInv, WritesOK, [Next]_vars PROVE WritesOK'
<1>1. /\ RunTyped /\ persist \in [Clips -> {"idle", "saving", "billing", "done"}]
      /\ review \in [Reviews -> [phase : {"idle", "saving", "done"}, quota : {-1, 0, 1}]]
      /\ Clips \subseteq Handlers /\ Reviews \subseteq Handlers /\ Sweeps \subseteq Handlers
      /\ Clips \cap Reviews = {} /\ Clips \cap Sweeps = {} /\ Reviews \cap Sweeps = {}
  BY ReviewAssumption DEF IInv, TypeOK, Handlers
<1>2. ASSUME NEW h \in Handlers, NEW c, NEW rec, WriteThrough(h, c, rec)
      PROVE  \E w : /\ writes' = [writes EXCEPT ![h] = w]
                    /\ w.state \in {"sent", "landed"}
  <2>1. PICK st \in {"sent", "landed"} :
          writes' = [writes EXCEPT ![h] = [state |-> st, clip |-> c, rec |-> rec]]
    BY <1>2 DEF WriteThrough
  <2>2. [state |-> st, clip |-> c, rec |-> rec].state = st
    OBVIOUS
  <2> QED
    BY <2>1, <2>2
<1>3. ASSUME NEW c \in Clips, Persist(c) PROVE WritesOK'
  <2>1. backend' = backend /\ review' = review
    BY <1>3 DEF Persist
  <2>2. CASE key[c] \in keys
    <3>1. writes' = writes /\ persist' = [persist EXCEPT ![c] = "done"]
      BY <1>3, <2>2 DEF Persist
    <3>2. \A d \in Clips : Busy(d)' => Busy(d)
      BY <1>1, <3>1 DEF Busy
    <3> QED
      BY <2>1, <3>1, <3>2, WritesKept
  <2>3. CASE key[c] \notin keys
    <3>1. /\ WriteThrough(c, c, NewRecord)
          /\ \/ persist' = [persist EXCEPT ![c] = "saving"]
             \/ persist' = [persist EXCEPT ![c] = "billing"]
      BY <1>3, <2>3 DEF Persist, Insert
    <3>2. PICK w : writes' = [writes EXCEPT ![c] = w] /\ w.state \in {"sent", "landed"}
      BY <1>1, <1>2, <3>1
    <3>3. \A d \in Clips : Busy(d)' => Busy(d) \/ d = c
      BY <1>1, <3>1 DEF Busy
    <3>4. \A r \in Reviews : review'[r].phase = "saving" => review[r].phase = "saving" \/ r = c
      BY <2>1
    <3>5. c \in Handlers
      BY <1>1
    <3> QED
      BY <1>1, <2>1, <3>2, <3>3, <3>4, <3>5, WriteGoes
  <2> QED
    BY <2>2, <2>3
<1>4. ASSUME NEW c \in Clips, PersistSaved(c) \/ PersistSettle(c) PROVE WritesOK'
  <2>0. /\ backend' = backend /\ review' = review /\ Busy(c)
        /\ \/ /\ writes' = [writes EXCEPT ![c] = NoWrite]
              /\ persist' = [persist EXCEPT ![c] = "done"]
           \/ writes' = writes /\ persist' = [persist EXCEPT ![c] = "billing"]
    BY <1>4 DEF PersistSaved, PersistSettle, Busy
  <2>4. CASE writes' = writes /\ persist' = [persist EXCEPT ![c] = "billing"]
    <3>1. \A d \in Clips : Busy(d)' => Busy(d)
      BY <1>1, <2>0, <2>4 DEF Busy
    <3> QED
      BY <2>0, <2>4, <3>1, WritesKept
  <2> SUFFICES ASSUME writes' = [writes EXCEPT ![c] = NoWrite],
                      persist' = [persist EXCEPT ![c] = "done"]
               PROVE  WritesOK'
    BY <2>0, <2>4
  <2>1. backend' = backend /\ review' = review
    BY <2>0
  <2>2. \A d \in Clips : Busy(d)' => Busy(d) /\ d # c
    BY <1>1 DEF Busy
  <2>3. \A r \in Reviews : review'[r].phase = "saving" => review[r].phase = "saving" /\ r # c
    BY <1>1, <2>1
  <2> QED
    BY <1>1, <2>1, <2>2, <2>3, WriteEnds
<1>5. ASSUME NEW r \in Reviews, Review(r) \/ Export(r) PROVE WritesOK'
  <2>1. PICK c, rec, amount :
          /\ WriteThrough(r, c, rec)
          /\ review' = [review EXCEPT ![r] = [phase |-> "saving", quota |-> amount]]
          /\ persist' = persist /\ backend' = backend
    BY <1>5 DEF Review, Export
  <2>2. PICK w : writes' = [writes EXCEPT ![r] = w] /\ w.state \in {"sent", "landed"}
    BY <1>1, <1>2, <2>1
  <2>3. \A q \in Reviews : review'[q].phase = "saving" => review[q].phase = "saving" \/ q = r
    BY <1>1, <2>1
  <2>4. \A d \in Clips : Busy(d)' => Busy(d) \/ d = r
    BY <2>1 DEF Busy
  <2>5. r \in Handlers
    BY <1>1
  <2> QED
    BY <1>1, <2>1, <2>2, <2>3, <2>4, <2>5, WriteGoes
<1>6. ASSUME NEW r \in Reviews, ReviewSettle(r) PROVE WritesOK'
  <2>1. /\ writes' = [writes EXCEPT ![r] = NoWrite] /\ backend' = backend /\ persist' = persist
        /\ review' = [review EXCEPT ![r].phase = "done"]
    BY <1>6 DEF ReviewSettle
  <2>2. \A q \in Reviews : review'[q].phase = "saving" => review[q].phase = "saving" /\ q # r
    BY <1>1, <2>1
  <2>3. \A c \in Clips : Busy(c)' => Busy(c) /\ c # r
    BY <1>1, <2>1 DEF Busy
  <2> QED
    BY <1>1, <2>1, <2>2, <2>3, WriteEnds
<1>7. ASSUME NEW s \in Sweeps, SweepStep(s) PROVE WritesOK'
  <2>1. persist' = persist /\ review' = review /\ backend' = backend
    BY <1>7 DEF SweepStep, SweepStart, SweepRecheck, SweepEnd, SweepUnlink, SweepDelete, SweepDeleted
  <2>2. \/ writes' = writes \/ writes' = [writes EXCEPT ![s] = NoWrite]
        \/ WriteThrough(s, sweep[s].cur, Absent)
    BY <1>7 DEF SweepStep, SweepStart, SweepRecheck, SweepEnd, SweepUnlink, SweepDelete, SweepDeleted
  <2>3. CASE writes' = writes
    BY <2>1, <2>3, WritesKept DEF Busy
  <2>4. CASE writes' = [writes EXCEPT ![s] = NoWrite]
    <3>1. /\ \A c \in Clips : Busy(c)' => Busy(c) /\ c # s
          /\ \A r \in Reviews : review'[r].phase = "saving" => review[r].phase = "saving" /\ r # s
      BY <1>1, <2>1 DEF Busy
    <3>2. s \in Handlers
      BY <1>1
    <3> QED
      BY <1>1, <2>1, <2>4, <3>1, <3>2, WriteEnds
  <2>5. CASE WriteThrough(s, sweep[s].cur, Absent)
    <3>1. PICK w : writes' = [writes EXCEPT ![s] = w] /\ w.state \in {"sent", "landed"}
      BY <1>1, <1>2, <2>5
    <3>2. /\ \A c \in Clips : Busy(c)' => Busy(c) \/ c = s
          /\ \A r \in Reviews : review'[r].phase = "saving" => review[r].phase = "saving" \/ r = s
      BY <2>1 DEF Busy
    <3>3. s \in Handlers
      BY <1>1
    <3> QED
      BY <1>1, <2>1, <3>1, <3>2, <3>3, WriteGoes
  <2> QED
    BY <2>2, <2>3, <2>4, <2>5
<1>8. ASSUME NEW h \in Handlers, Land(h) \/ Fail(h) PROVE WritesOK'
  <2>1. persist' = persist /\ review' = review /\ backend' = backend /\ writes[h].state = "sent"
    BY <1>8 DEF Land, Fail
  <2>2. PICK st \in {"landed", "failed"} :
          /\ writes' = [writes EXCEPT ![h].state = st]
          /\ st = "failed" => backend = "faulty"
    BY <1>8 DEF Land, Fail
  <2> DEFINE w == [writes[h] EXCEPT !.state = st]
  <2>3. w.state = st
    BY <1>1, <2>1 DEF RunTyped, Writes, NoWrite
  <2>4. writes' = [writes EXCEPT ![h] = w]
    BY <2>2
  <2> HIDE DEF w
  <2>5. /\ \A c \in Clips : Busy(c)' => Busy(c) \/ c = h
        /\ \A r \in Reviews : review'[r].phase = "saving" => review[r].phase = "saving" \/ r = h
    BY <2>1 DEF Busy
  <2>6. w.state \in {"sent", "landed"} \/ (w.state = "failed" /\ backend = "faulty")
    BY <2>2, <2>3
  <2> QED
    BY <1>1, <2>1, <2>4, <2>5, <2>6, WriteGoes
<1>9. CASE Tick \/ UNCHANGED vars
  BY <1>9, WritesKept DEF Tick, vars, Busy
<1>10. CASE Restart
  <2>1. /\ writes' = [h \in Handlers |-> NoWrite]
        /\ persist' = [c \in Clips |-> IF persist[c] \in {"saving", "billing"} THEN "done" ELSE persist[c]]
        /\ review' = [r \in Reviews |-> IF review[r].phase = "saving"
                                        THEN [review[r] EXCEPT !.phase = "done"] ELSE review[r]]
    BY <1>10 DEF Restart
  <2>2. \A c \in Clips : ~Busy(c)'
    BY <2>1 DEF Busy
  <2>3. \A r \in Reviews : review'[r].phase # "saving"
    BY <1>1, <2>1
  <2>4. \A h \in Handlers : writes'[h].state = "none"
    BY <2>1 DEF NoWrite
  <2> QED
    BY <2>2, <2>3, <2>4 DEF WritesOK
<1> QED
  BY <1>3, <1>4, <1>5, <1>6, <1>7, <1>8, <1>9, <1>10 DEF Next

LEMMA StepRejected ==
  ASSUME IInv, SeenOK, [Next]_vars PROVE Rejected => Rejected'
<1> SUFFICES ASSUME NEW r \in Reviews, review[r].quota = -1 PROVE Rejected'
  BY DEF Rejected
<1>1. review \in [Reviews -> [phase : {"idle", "saving", "done"}, quota : {-1, 0, 1}]]
  BY DEF IInv, TypeOK
<1>2. review[r].phase # "idle"
  BY DEF SeenOK
<1>3. ASSUME NEW q \in Reviews, Review(q) \/ Export(q) PROVE review'[r] = review[r]
  BY <1>1, <1>2, <1>3 DEF Review, Export
<1>4. ASSUME NEW q \in Reviews, ReviewSettle(q) PROVE review'[r].quota = review[r].quota
  BY <1>1, <1>4 DEF ReviewSettle
<1>5. ASSUME Restart PROVE review'[r].quota = review[r].quota
  BY <1>1, <1>5 DEF Restart
<1>6. ASSUME \/ \E c \in Clips : Persist(c) \/ PersistSaved(c) \/ PersistSettle(c)
             \/ \E s \in Sweeps : SweepStep(s)
             \/ \E h \in Handlers : Land(h) \/ Fail(h)
             \/ Tick \/ UNCHANGED vars
      PROVE  review' = review
  BY <1>6 DEF Persist, PersistSaved, PersistSettle, SweepStep, SweepStart, SweepRecheck, SweepEnd,
     SweepUnlink, SweepDelete, SweepDeleted, Land, Fail, Tick, vars
<1>7. review'[r].quota = review[r].quota
  <2>1. CASE review' = review
    BY <2>1
  <2> QED
    BY <1>3, <1>4, <1>5, <1>6, <2>1 DEF Next
<1> QED
  BY <1>7 DEF Rejected

LEMMA StepOverlapped ==
  ASSUME IInv, [Next]_vars PROVE Overlapped => Overlapped'
<1>1. persist \in [Clips -> {"idle", "saving", "billing", "done"}]
  BY DEF IInv, TypeOK
<1>2. key' = key
  BY DEF Next, vars, Persist, PersistSaved, PersistSettle, Review, Export, ReviewSettle, SweepStep,
     SweepStart, SweepRecheck, SweepEnd, SweepUnlink, SweepDelete, SweepDeleted, Land, Fail,
     Tick, Restart
<1>3. ASSUME NEW c \in Clips, Persist(c) \/ PersistSaved(c) \/ PersistSettle(c)
      PROVE  \E st \in {"saving", "billing", "done"} : persist' = [persist EXCEPT ![c] = st]
  BY <1>3 DEF Persist, Insert, PersistSaved, PersistSettle
<1>4. CASE Restart
  BY <1>1, <1>2, <1>4 DEF Restart, Overlapped
<1>5. CASE \/ \E r \in Reviews : Review(r) \/ Export(r) \/ ReviewSettle(r)
           \/ \E s \in Sweeps : SweepStep(s)
           \/ \E h \in Handlers : Land(h) \/ Fail(h)
           \/ Tick \/ UNCHANGED vars
  <2>1. persist' = persist
    BY <1>5 DEF Review, Export, ReviewSettle, SweepStep, SweepStart, SweepRecheck, SweepEnd,
       SweepUnlink, SweepDelete, SweepDeleted, Land, Fail, Tick, vars
  <2> QED
    BY <1>2, <2>1 DEF Overlapped
<1>6. CASE \E c \in Clips : Persist(c) \/ PersistSaved(c) \/ PersistSettle(c)
  <2>1. PICK c \in Clips, st \in {"saving", "billing", "done"} : persist' = [persist EXCEPT ![c] = st]
    BY <1>3, <1>6
  <2>2. \A d \in Clips : persist'[d] = "idle" => persist[d] = "idle"
    BY <1>1, <2>1
  <2> QED
    BY <1>2, <2>2 DEF Overlapped
<1> QED
  BY <1>4, <1>5, <1>6 DEF Next

LEMMA NoRestart ==
  ASSUME IInv, [Next]_vars, crashes' = 0 PROVE crashes = 0 /\ ~Restart
<1>1. crashes \in Nat
  BY ReviewAssumption DEF IInv, TypeOK
<1>2. ~Restart
  BY <1>1 DEF Restart
<1> QED
  BY <1>2 DEF Next, vars, Persist, PersistSaved, PersistSettle, Review, Export, ReviewSettle,
     SweepStep, SweepStart, SweepRecheck, SweepEnd, SweepUnlink, SweepDelete, SweepDeleted,
     Land, Fail, Tick

\* What a request does to the record of its clip, and what it owes for it.
Requested(r, c, rec, amount) ==
  /\ Present(c) /\ mem' = [mem EXCEPT ![c] = rec] /\ review[r].phase = "idle"
  /\ review' = [review EXCEPT ![r] = [phase |-> "saving", quota |-> amount]]
  /\ amount = 1 <=> mem[c].status = "rejected" /\ rec.status # "rejected"
  /\ amount = -1 <=> mem[c].status # "rejected" /\ rec.status = "rejected"
  /\ UNCHANGED <<persist, tally, sweep, used, key, backend, clock, crashes>>

LEMMA RequestIs ==
  ASSUME IInv, NEW r \in Reviews, Review(r) \/ Export(r)
  PROVE  \E c \in Clips, rec \in Record, amount \in {-1, 0, 1} : Requested(r, c, rec, amount)
<1>1. mem \in [Clips -> Rows] /\ clock \in 0..MaxTime
  BY TypeHas DEF IInv, RestTyped
<1>2. \A c \in Clips : Present(c) => mem[c] \in Record
  BY <1>1 DEF Present, Rows
<1>3. CASE Review(r)
  <2>1. PICK c \in Clips, status \in {"accepted", "rejected"} :
          /\ Present(c) /\ WriteThrough(r, c, Reviewed(mem[c], status))
          /\ review' = [review EXCEPT ![r] =
                          [phase |-> "saving", quota |-> Owed(mem[c].status, status)]]
    BY <1>3 DEF Review
  <2>2. mem[c] \in Record
    BY <1>2, <2>1
  <2>3. Reviewed(mem[c], status) \in Record
    BY <1>1, <2>2, ReviewedIsRecord
  <2>4. Reviewed(mem[c], status).status = status
    BY <2>2 DEF Reviewed, Record
  <2> DEFINE amount == Owed(mem[c].status, status)
  <2>5. /\ amount \in {-1, 0, 1}
        /\ amount = 1 <=> mem[c].status = "rejected" /\ status # "rejected"
        /\ amount = -1 <=> mem[c].status # "rejected" /\ status = "rejected"
    BY DEF Owed
  <2>6. mem' = [mem EXCEPT ![c] = Reviewed(mem[c], status)] /\ review[r].phase = "idle"
        /\ UNCHANGED <<persist, tally, sweep, used, key, backend, clock, crashes>>
    BY <1>3, <2>1 DEF WriteThrough, Review
  <2>7. review' = [review EXCEPT ![r] = [phase |-> "saving", quota |-> amount]]
    BY <2>1
  <2> HIDE DEF amount
  <2> DEFINE rec == Reviewed(mem[c], status)
  <2>8. rec \in Record /\ rec.status = status /\ mem' = [mem EXCEPT ![c] = rec]
    BY <2>3, <2>4, <2>6
  <2> HIDE DEF rec
  <2>9. Requested(r, c, rec, amount)
    BY <2>1, <2>5, <2>6, <2>7, <2>8 DEF Requested
  <2> QED
    BY <2>5, <2>8, <2>9
<1>4. CASE Export(r)
  <2>1. PICK c \in Clips :
          /\ Present(c) /\ WriteThrough(r, c, [mem[c] EXCEPT !.exported = TRUE])
          /\ review' = [review EXCEPT ![r] = [phase |-> "saving", quota |-> 0]]
    BY <1>4 DEF Export
  <2> DEFINE rec == [mem[c] EXCEPT !.exported = TRUE]
  <2>2. rec \in Record /\ rec.status = mem[c].status
    BY <1>2, <2>1 DEF Record
  <2>3. mem' = [mem EXCEPT ![c] = rec] /\ review[r].phase = "idle"
        /\ UNCHANGED <<persist, tally, sweep, used, key, backend, clock, crashes>>
    BY <1>4, <2>1 DEF WriteThrough, Export
  <2> HIDE DEF rec
  <2>4. Requested(r, c, rec, 0)
    BY <2>1, <2>2, <2>3 DEF Requested
  <2> QED
    BY <2>2, <2>4
<1> QED
  BY <1>3, <1>4

LEMMA StepSeen ==
  ASSUME IInv, SeenOK, [Next]_vars PROVE SeenOK'
<1>1. /\ review \in [Reviews -> [phase : {"idle", "saving", "done"}, quota : {-1, 0, 1}]]
      /\ persist \in [Clips -> {"idle", "saving", "billing", "done"}]
      /\ mem \in [Clips -> Rows] /\ sweep \in [Sweeps -> Runs]
  BY TypeHas DEF IInv, TypeOK, RunTyped
<1>2. backend' = backend /\ \A c \in Clips : persist'[c] = "saving" =>
        persist[c] = "saving" \/ backend # "sqlite"
  BY <1>1 DEF Next, vars, Persist, Insert, PersistSaved, PersistSettle, Review, Export, ReviewSettle,
     SweepStep, SweepStart, SweepRecheck, SweepEnd, SweepUnlink, SweepDelete, SweepDeleted,
     Land, Fail, Tick, Restart
<1> DEFINE Fresh == \A q \in Reviews : review'[q].phase = "idle" => review'[q].quota = 0
<1>3. Fresh
  <2>1. ASSUME NEW r \in Reviews, Review(r) \/ Export(r) PROVE Fresh
    <3>1. PICK amount : review' = [review EXCEPT ![r] = [phase |-> "saving", quota |-> amount]]
      BY <2>1 DEF Review, Export
    <3> QED
      BY <1>1, <3>1 DEF SeenOK
  <2>2. ASSUME NEW r \in Reviews, ReviewSettle(r) PROVE Fresh
    BY <1>1, <2>2 DEF ReviewSettle, SeenOK
  <2>3. CASE Restart
    BY <1>1, <2>3 DEF Restart, SeenOK
  <2>4. CASE review' = review
    BY <2>4 DEF SeenOK
  <2> QED
    BY <2>1, <2>2, <2>3, <2>4 DEF Next, vars, Persist, PersistSaved, PersistSettle,
       SweepStep, SweepStart, SweepRecheck, SweepEnd, SweepUnlink, SweepDelete, SweepDeleted,
       Land, Fail, Tick
<1>4. ASSUME crashes' = 0
      PROVE  /\ \A c \in Clips : Present(c)' /\ mem'[c].status = "rejected" => Rejected'
             /\ \A s \in Sweeps : sweep'[s].phase # "idle" => Rejected'
  <2> SUFFICES ASSUME ~Rejected'
               PROVE  /\ \A c \in Clips : Present(c)' => mem'[c].status # "rejected"
                      /\ \A s \in Sweeps : sweep'[s].phase = "idle"
    OBVIOUS
  <2>1. crashes = 0 /\ ~Restart
    BY <1>4, NoRestart
  <2>2. ~Rejected
    BY StepRejected
  <2>3. /\ \A c \in Clips : Present(c) => mem[c].status # "rejected"
        /\ \A s \in Sweeps : sweep[s].phase = "idle"
    BY <2>1, <2>2 DEF SeenOK
  <2>4. ASSUME NEW s \in Sweeps, SweepStep(s) PROVE FALSE
    <3>1. SweepStart(s)
      BY <2>3, <2>4 DEF SweepStep, SweepRecheck, SweepEnd, SweepUnlink, SweepDelete, SweepDeleted
    <3>2. PICK c \in Clips : Due(mem[c], clock)
      BY <3>1 DEF SweepStart
    <3> QED
      BY <2>3, <3>2 DEF Due, Present
  <2>5. ASSUME NEW c \in Clips, Persist(c)
        PROVE  \A d \in Clips : Present(d)' => mem'[d].status # "rejected"
    <3>1. mem' = mem \/ mem' = [mem EXCEPT ![c] = NewRecord]
      BY <2>5 DEF Persist, Insert, WriteThrough
    <3>2. NewRecord.status # "rejected"
      BY DEF NewRecord
    <3> QED
      BY <1>1, <2>3, <3>1, <3>2 DEF Present
  <2>6. ASSUME NEW r \in Reviews, Review(r) \/ Export(r)
        PROVE  \A d \in Clips : Present(d)' => mem'[d].status # "rejected"
    <3>1. PICK c \in Clips, rec \in Record, amount \in {-1, 0, 1} : Requested(r, c, rec, amount)
      BY <2>6, RequestIs
    <3>2. amount # -1
      <4> SUFFICES ASSUME amount = -1 PROVE FALSE
        OBVIOUS
      <4>1. review'[r].quota = -1
        BY <1>1, <3>1 DEF Requested
      <4> QED
        BY <4>1 DEF Rejected
    <3>3. mem[c].status # "rejected" /\ rec.status # "rejected"
      BY <2>3, <3>1, <3>2 DEF Requested
    <3> QED
      BY <1>1, <2>3, <3>1, <3>3 DEF Requested, Present
  <2>7. \A c \in Clips : Present(c)' => mem'[c].status # "rejected"
    <3>1. CASE mem' = mem
      BY <2>3, <3>1 DEF Present
    <3> QED
      BY <2>1, <2>4, <2>5, <2>6, <3>1 DEF Next, vars, PersistSaved, PersistSettle, ReviewSettle,
         Land, Fail, Tick
  <2>8. sweep' = sweep
    BY <2>1, <2>4 DEF Next, vars, Persist, PersistSaved, PersistSettle, Review, Export, ReviewSettle,
         Land, Fail, Tick
  <2> QED
    BY <2>3, <2>7, <2>8
<1> QED
  BY <1>2, <1>3, <1>4 DEF SeenOK

Charging(amount) ==
  {c \in Clips : \/ persist[c] = "billing" /\ tally[c] = amount
                 \/ persist[c] = "saving" /\ amount = 1}
Owing(amount) == {r \in Reviews : review[r].phase = "saving" /\ review[r].quota = amount}

Finite ==
  /\ IsFiniteSet(Charging(1)) /\ IsFiniteSet(Charging(-1))
  /\ IsFiniteSet(Owing(1)) /\ IsFiniteSet(Owing(-1))

Covered ==
  (Moments(Kept) + Cardinality(Owing(-1))) + Cardinality(Charging(-1))
    <= (Total(used) + Cardinality(Owing(1))) + Cardinality(Charging(1))

\* An insert that waits on the pool has its row among the ones it will find.
Counted == \A c \in Clips : persist[c] = "saving" => tally[c] < Moments(Kept)

\* At most one of the three.
OneAtATime ==
  ~(Overlapped /\ Rejected) /\ ~(Overlapped /\ Pooled) /\ ~(Rejected /\ Pooled)

Balanced == Finite /\ Covered /\ Counted

QuotaOK == backend # "faulty" /\ crashes = 0 /\ OneAtATime => Balanced

QuotaInv == IInv /\ WritesOK /\ SeenOK /\ QuotaOK

\* The rows that count have been inserted, under keys of their own.
LEMMA KeptApart ==
  ASSUME IInv, ~Overlapped
  PROVE  Kept \in SUBSET Clips /\ Moments(Kept) = Cardinality(Kept)
<1>1. Kept \in SUBSET Clips
  BY DEF Kept
<1>2. ASSUME NEW c \in Kept, NEW d \in Kept, c # d, Overlap(c, d) PROVE FALSE
  <2>1. c \in Clips /\ d \in Clips /\ Exists(c) /\ Exists(d)
    BY DEF Kept, Present, Exists
  <2>2. key[c] # key[d]
    BY <1>2, <2>1 DEF IInv, KeysOK
  <2>3. persist[c] # "idle" /\ persist[d] # "idle"
    BY <2>1 DEF IInv, IdleOK
  <2> QED
    BY <1>2, <2>1, <2>2, <2>3 DEF Overlapped
<1> QED
  BY <1>1, <1>2, MomentsApart

LEMMA KeptApartNext ==
  ASSUME IInv', ~Overlapped'
  PROVE  Moments(Kept)' = Cardinality(Kept')
<1>1. Kept' \in SUBSET Clips
  BY DEF Kept
<1>2. ASSUME NEW c \in Kept', NEW d \in Kept', c # d, Overlap(c, d) PROVE FALSE
  <2>1. c \in Clips /\ d \in Clips /\ Exists(c)' /\ Exists(d)'
    BY DEF Kept, Present, Exists
  <2>2. key'[c] # key'[d]
    BY <1>2, <2>1 DEF IInv, KeysOK
  <2>3. persist'[c] # "idle" /\ persist'[d] # "idle"
    BY <2>1 DEF IInv, IdleOK
  <2> QED
    BY <1>2, <2>1, <2>2, <2>3 DEF Overlapped
<1> QED
  BY <1>1, <1>2, MomentsApart

LEMMA QuotaNumbers ==
  ASSUME IInv, Finite
  PROVE  /\ Moments(Kept) \in Nat /\ Total(used) \in Nat
         /\ Cardinality(Owing(1)) \in Nat /\ Cardinality(Owing(-1)) \in Nat
         /\ Cardinality(Charging(1)) \in Nat /\ Cardinality(Charging(-1)) \in Nat
<1>1. Total(used) \in Nat
  BY DebitTotal DEF IInv, TypeOK
<1> QED
  BY <1>1, KeptMoments, FS_CardinalityType DEF Finite

\* The handler of one clip goes on: what it is to debit changes for that clip.
LEMMA ChargingChanges ==
  ASSUME IInv, Finite, NEW c \in Clips, NEW amount \in {-1, 1},
         \A d \in Clips \ {c} : persist'[d] = persist[d] /\ tally'[d] = tally[d]
  PROVE  /\ IsFiniteSet(Charging(amount)') /\ Cardinality(Charging(amount)') \in Nat
         /\ c \in Charging(amount) /\ c \notin Charging(amount)' =>
              Cardinality(Charging(amount)') = Cardinality(Charging(amount)) - 1
         /\ c \notin Charging(amount) /\ c \in Charging(amount)' =>
              Cardinality(Charging(amount)') = Cardinality(Charging(amount)) + 1
         /\ (c \in Charging(amount) <=> c \in Charging(amount)') =>
              Cardinality(Charging(amount)') = Cardinality(Charging(amount))
<1>1. Charging(amount)' \ {c} = Charging(amount) \ {c}
  BY DEF Charging
<1>2. IsFiniteSet(Charging(amount))
  BY DEF Finite
<1> QED
  BY <1>1, <1>2, OneApart

LEMMA PersistQuota ==
  ASSUME IInv, IInv', WritesOK, SeenOK, Balanced, backend # "faulty", OneAtATime', backend' = backend,
         NEW c \in Clips, Persist(c)
  PROVE  Balanced'
<1> USE DEF Balanced
<1>1. /\ mem \in [Clips -> Rows] /\ tally \in [Clips -> Int]
      /\ persist \in [Clips -> {"idle", "saving", "billing", "done"}] /\ persist[c] = "idle"
  BY TypeHas DEF IInv, RestTyped, Persist
<1>2. /\ Moments(Kept) \in Nat /\ Total(used) \in Nat
      /\ Cardinality(Owing(1)) \in Nat /\ Cardinality(Owing(-1)) \in Nat
      /\ Cardinality(Charging(1)) \in Nat /\ Cardinality(Charging(-1)) \in Nat
  BY QuotaNumbers
<1>3. review' = review /\ used' = used
  BY DEF Persist
<1>4. Owing(1)' = Owing(1) /\ Owing(-1)' = Owing(-1)
  BY <1>3 DEF Owing
<1>5. c \notin Charging(1) /\ c \notin Charging(-1)
  BY <1>1 DEF Charging
<1>6. CASE key[c] \in keys
  <2>1. mem' = mem /\ tally' = tally /\ persist' = [persist EXCEPT ![c] = "done"]
    BY <1>6 DEF Persist
  <2>2. Kept' = Kept
    BY <2>1 DEF Kept, Present
  <2>3. c \notin Charging(1)' /\ c \notin Charging(-1)'
    BY <1>1, <2>1 DEF Charging
  <2>4. Charging(1)' = Charging(1) /\ Charging(-1)' = Charging(-1)
    BY <1>1, <1>5, <2>1, <2>3 DEF Charging
  <2>5. Counted'
    BY <1>1, <2>1, <2>2 DEF Counted
  <2> QED
    BY <1>3, <1>4, <2>2, <2>4, <2>5 DEF Finite, Covered
<1>7. CASE key[c] \notin keys
  <2>1. mem' = [mem EXCEPT ![c] = NewRecord] /\ Insert(c)
    BY <1>7 DEF Persist, Insert, WriteThrough
  <2>2. mem[c] = Absent
    BY <1>1 DEF IInv, IdleOK, Exists
  <2>3. NewRecord # Absent /\ NewRecord.status # "rejected"
    BY NewIsRecord DEF NewRecord
  <2>4. c \notin Kept /\ Kept' = Kept \cup {c} /\ Kept \in SUBSET Clips
    BY <1>1, <2>1, <2>2, <2>3 DEF Kept, Present
  <2>5. Moments(Kept)' = Moments(Kept \cup {c})
    BY <2>4
  <2>6. Moments(Kept \cup {c}) \in Nat /\ Moments(Kept \cup {c}) <= Moments(Kept) + 1
    BY <2>4, MomentAdded
  <2>7. CASE backend = "sqlite"
    <3> DEFINE charge == Charge(Moments(Kept), Moments(Kept \cup {c}))
    <3>1. persist' = [persist EXCEPT ![c] = "billing"] /\ tally' = [tally EXCEPT ![c] = charge]
      BY <2>1, <2>7 DEF Insert
    <3>2. /\ charge \in {-1, 0, 1}
          /\ charge = 1 => Moments(Kept \cup {c}) <= Moments(Kept) + 1
          /\ charge = 0 => Moments(Kept \cup {c}) <= Moments(Kept)
          /\ charge = -1 => Moments(Kept \cup {c}) <= Moments(Kept) - 1
      BY <1>2, <2>6 DEF Charge
    <3> HIDE DEF charge
    <3>3. \A d \in Clips \ {c} : persist'[d] = persist[d] /\ tally'[d] = tally[d]
      BY <1>1, <3>1
    <3>4. c \in Charging(1)' <=> charge = 1
      BY <1>1, <3>1 DEF Charging
    <3>5. c \in Charging(-1)' <=> charge = -1
      BY <1>1, <3>1 DEF Charging
    <3>6. /\ IsFiniteSet(Charging(1)')
          /\ charge = 1 => Cardinality(Charging(1)') = Cardinality(Charging(1)) + 1
          /\ charge # 1 => Cardinality(Charging(1)') = Cardinality(Charging(1))
      BY <1>5, <3>3, <3>4, ChargingChanges
    <3>7. /\ IsFiniteSet(Charging(-1)')
          /\ charge = -1 => Cardinality(Charging(-1)') = Cardinality(Charging(-1)) + 1
          /\ charge # -1 => Cardinality(Charging(-1)') = Cardinality(Charging(-1))
      BY <1>5, <3>3, <3>5, ChargingChanges
    <3>8. Counted'
      <4>1. \A d \in Clips : persist'[d] # "saving"
        BY <1>1, <2>7, <3>1 DEF SeenOK
      <4> QED
        BY <4>1 DEF Counted
    <3>9. Covered'
      BY <1>2, <1>3, <1>4, <2>5, <2>6, <3>2, <3>6, <3>7 DEF Covered
    <3> QED
      BY <1>4, <3>6, <3>7, <3>8, <3>9 DEF Finite
  <2>8. CASE backend # "sqlite"
    <3>1. persist' = [persist EXCEPT ![c] = "saving"]
          /\ tally' = [tally EXCEPT ![c] = Moments(Kept)]
      BY <2>1, <2>8 DEF Insert
    <3>2. backend = "postgres"
      BY <2>8, ReviewAssumption DEF IInv, TypeOK
    <3>3. ~Overlapped'
      BY <3>2 DEF OneAtATime, Pooled
    <3>4. ~Overlapped
      <4>1. key' = key
        BY DEF Persist
      <4> QED
        BY <1>1, <3>1, <3>3, <4>1 DEF Overlapped
    <3>5. Moments(Kept)' = Cardinality(Kept') /\ Moments(Kept) = Cardinality(Kept)
      BY <3>3, <3>4, KeptApart, KeptApartNext
    <3>6. Moments(Kept)' = Moments(Kept) + 1
      BY <2>4, <3>5, KeptMoments, FS_AddElement
    <3>7. \A d \in Clips \ {c} : persist'[d] = persist[d] /\ tally'[d] = tally[d]
      BY <1>1, <3>1
    <3>8. c \in Charging(1)' /\ c \notin Charging(-1)'
      BY <1>1, <3>1 DEF Charging
    <3>9. IsFiniteSet(Charging(1)') /\ Cardinality(Charging(1)') = Cardinality(Charging(1)) + 1
      BY <1>5, <3>7, <3>8, ChargingChanges
    <3>10. IsFiniteSet(Charging(-1)') /\ Cardinality(Charging(-1)') = Cardinality(Charging(-1))
      BY <1>5, <3>7, <3>8, ChargingChanges
    <3>11. Counted'
      <4> SUFFICES ASSUME NEW d \in Clips, persist'[d] = "saving"
                   PROVE  tally'[d] < Moments(Kept)'
        BY DEF Counted
      <4>1. CASE d = c
        BY <1>1, <1>2, <3>1, <3>6, <4>1
      <4>2. CASE d # c
        <5>1. tally'[d] = tally[d] /\ tally[d] < Moments(Kept) /\ tally[d] \in Int
          BY <1>1, <3>7, <4>2 DEF Counted
        <5> QED
          BY <1>2, <3>6, <5>1
      <4> QED
        BY <4>1, <4>2
    <3>12. Covered'
      BY <1>2, <1>3, <1>4, <3>6, <3>9, <3>10 DEF Covered
    <3> QED
      BY <1>4, <3>9, <3>10, <3>11, <3>12 DEF Finite
  <2> QED
    BY <2>7, <2>8
<1> QED
  BY <1>6, <1>7


\* The pool has answered: what was a slot to debit still is one.
LEMMA PersistSavedQuota ==
  ASSUME IInv, WritesOK, Balanced, backend # "faulty", NEW c \in Clips, PersistSaved(c)
  PROVE  Balanced'
<1> USE DEF Balanced
<1>1. /\ persist \in [Clips -> {"idle", "saving", "billing", "done"}] /\ tally \in [Clips -> Int]
      /\ persist[c] = "saving" /\ Settled(c) /\ c \in Handlers
  BY DEF IInv, TypeOK, PersistSaved, Handlers
<1>2. writes[c].state = "landed"
  BY <1>1 DEF WritesOK, Settled
<1>3. Charge(tally[c], Moments(Kept)) = 1
  BY <1>1, KeptMoments DEF Counted, Charge
<1>4. /\ persist' = [persist EXCEPT ![c] = "billing"] /\ tally' = [tally EXCEPT ![c] = 1]
      /\ mem' = mem /\ review' = review /\ used' = used
  BY <1>2, <1>3 DEF PersistSaved
<1>5. \A d \in Clips \ {c} : persist'[d] = persist[d] /\ tally'[d] = tally[d]
  BY <1>1, <1>4
<1>6. persist'[c] = "billing" /\ tally'[c] = 1
  BY <1>1, <1>4
<1>7. Charging(1)' = Charging(1) /\ Charging(-1)' = Charging(-1)
  BY <1>1, <1>5, <1>6 DEF Charging
<1>8. Kept' = Kept /\ Owing(1)' = Owing(1) /\ Owing(-1)' = Owing(-1)
  BY <1>4 DEF Kept, Present, Owing
<1>9. Counted'
  BY <1>5, <1>6, <1>8 DEF Counted
<1> QED
  BY <1>4, <1>7, <1>8, <1>9 DEF Finite, Covered

\* The debit or the refund of an insert.
LEMMA PersistSettleQuota ==
  ASSUME IInv, Balanced, backend # "faulty", NEW c \in Clips, PersistSettle(c)
  PROVE  Balanced'
<1> USE DEF Balanced
<1>1. /\ persist \in [Clips -> {"idle", "saving", "billing", "done"}] /\ tally \in [Clips -> Int]
      /\ used \in [Months -> Nat] /\ clock \in 0..MaxTime
      /\ persist[c] = "billing" /\ tally[c] \in {-1, 0, 1}
  BY DEF IInv, TypeOK, PersistSettle
<1>2. /\ Moments(Kept) \in Nat /\ Total(used) \in Nat
      /\ Cardinality(Owing(1)) \in Nat /\ Cardinality(Owing(-1)) \in Nat
      /\ Cardinality(Charging(1)) \in Nat /\ Cardinality(Charging(-1)) \in Nat
  BY QuotaNumbers
<1> DEFINE amount == tally[c]
<1>3. /\ used' = Debited(Month(clock), amount) /\ persist' = [persist EXCEPT ![c] = "done"]
      /\ mem' = mem /\ review' = review /\ tally' = tally
  BY DEF PersistSettle
<1>4. /\ amount \in {-1, 0, 1}
      /\ c \in Charging(1) <=> amount = 1
      /\ c \in Charging(-1) <=> amount = -1
  BY <1>1 DEF Charging
<1> HIDE DEF amount
<1>5. Total(used') \in Nat /\ Total(used') >= Total(used) + amount
  BY <1>1, <1>3, <1>4, DebitTotal
<1>6. Kept' = Kept /\ Owing(1)' = Owing(1) /\ Owing(-1)' = Owing(-1)
  BY <1>3 DEF Kept, Present, Owing
<1>7. \A d \in Clips \ {c} : persist'[d] = persist[d] /\ tally'[d] = tally[d]
  BY <1>1, <1>3
<1>8. persist'[c] = "done"
  BY <1>1, <1>3
<1>9. c \notin Charging(1)' /\ c \notin Charging(-1)'
  BY <1>8 DEF Charging
<1>10. /\ IsFiniteSet(Charging(1)') /\ Cardinality(Charging(1)') \in Nat
       /\ Cardinality(Charging(1)') =
            IF amount = 1 THEN Cardinality(Charging(1)) - 1 ELSE Cardinality(Charging(1))
  BY <1>4, <1>7, <1>9, ChargingChanges
<1>11. /\ IsFiniteSet(Charging(-1)') /\ Cardinality(Charging(-1)') \in Nat
       /\ Cardinality(Charging(-1)') =
            IF amount = -1 THEN Cardinality(Charging(-1)) - 1 ELSE Cardinality(Charging(-1))
  BY <1>4, <1>7, <1>9, ChargingChanges
<1>12. Counted'
  BY <1>3, <1>6, <1>7, <1>8 DEF Counted
<1>13. Covered'
  <2>1. Total(used)' = Total(used')
    BY DEF Total
  <2> QED
    BY <1>2, <1>4, <1>5, <1>6, <1>10, <1>11, <2>1 DEF Covered
<1> QED
  BY <1>6, <1>10, <1>11, <1>12, <1>13 DEF Finite

\* A request and what it is to debit or to give back come together.
LEMMA RequestQuota ==
  ASSUME IInv, IInv', WritesOK, SeenOK, SeenOK', Balanced, backend # "faulty", crashes = 0,
         OneAtATime', [Next]_vars, NEW r \in Reviews, Review(r) \/ Export(r)
  PROVE  Balanced'
<1> USE DEF Balanced
<1>1. PICK c \in Clips, rec \in Record, amount \in {-1, 0, 1} : Requested(r, c, rec, amount)
  BY RequestIs
<1>2. /\ mem \in [Clips -> Rows] /\ backend \in Backends
      /\ review \in [Reviews -> [phase : {"idle", "saving", "done"}, quota : {-1, 0, 1}]]
  BY TypeHas DEF IInv, TypeOK
<1>3. /\ Moments(Kept) \in Nat /\ Total(used) \in Nat
      /\ Cardinality(Owing(1)) \in Nat /\ Cardinality(Owing(-1)) \in Nat
      /\ Cardinality(Charging(1)) \in Nat /\ Cardinality(Charging(-1)) \in Nat
  BY QuotaNumbers
<1>4. /\ Present(c) /\ mem' = [mem EXCEPT ![c] = rec] /\ review[r].phase = "idle"
      /\ review' = [review EXCEPT ![r] = [phase |-> "saving", quota |-> amount]]
      /\ amount = 1 <=> mem[c].status = "rejected" /\ rec.status # "rejected"
      /\ amount = -1 <=> mem[c].status # "rejected" /\ rec.status = "rejected"
      /\ persist' = persist /\ tally' = tally /\ used' = used /\ backend' = backend
  BY <1>1 DEF Requested
<1>5. Charging(1)' = Charging(1) /\ Charging(-1)' = Charging(-1)
  BY <1>4 DEF Charging
<1>6. /\ review'[r] = [phase |-> "saving", quota |-> amount]
      /\ \A q \in Reviews \ {r} : review'[q] = review[q]
  BY <1>2, <1>4
<1>7. ASSUME NEW a \in {-1, 1}
      PROVE  /\ Owing(a)' \ {r} = Owing(a) \ {r} /\ r \notin Owing(a)
             /\ r \in Owing(a)' <=> a = amount
  BY <1>4, <1>6 DEF Owing
<1>8. /\ IsFiniteSet(Owing(1)')
      /\ Cardinality(Owing(1)') = IF amount = 1 THEN Cardinality(Owing(1)) + 1 ELSE Cardinality(Owing(1))
  BY <1>7, OneApart DEF Finite
<1>9. /\ IsFiniteSet(Owing(-1)')
      /\ Cardinality(Owing(-1)') = IF amount = -1 THEN Cardinality(Owing(-1)) + 1 ELSE Cardinality(Owing(-1))
  BY <1>7, OneApart DEF Finite
<1>10. Finite'
  BY <1>5, <1>8, <1>9 DEF Finite
<1>11. /\ mem[c] # Absent /\ mem'[c] = rec /\ rec # Absent
       /\ \A d \in Clips \ {c} : mem'[d] = mem[d]
  BY <1>2, <1>4, NewIsRecord DEF Present
<1>12. CASE amount = 0
  <2>1. Kept' = Kept
    BY <1>4, <1>11, <1>12 DEF Kept, Present
  <2>2. Counted'
    BY <1>4, <2>1 DEF Counted
  <2>3. Covered'
    BY <1>3, <1>4, <1>5, <1>8, <1>9, <1>12, <2>1 DEF Covered
  <2> QED
    BY <1>10, <2>2, <2>3
<1>13. CASE amount \in {-1, 1}
  <2>1. Rejected'
    <3>1. CASE amount = -1
      BY <1>6, <3>1 DEF Rejected
    <3>2. CASE amount = 1
      <4>1. Rejected
        BY <1>4, <3>2 DEF SeenOK
      <4> QED
        BY <4>1, StepRejected
    <3> QED
      BY <1>13, <3>1, <3>2
  <2>2. ~Overlapped' /\ ~Pooled'
    BY <2>1 DEF OneAtATime
  <2>3. ~Overlapped
    BY <2>2, StepOverlapped
  <2>4. backend = "sqlite"
    BY <1>2, <1>4, <2>2, ReviewAssumption DEF Pooled
  <2>5. Moments(Kept) = Cardinality(Kept) /\ Moments(Kept)' = Cardinality(Kept')
    BY <2>2, <2>3, KeptApart, KeptApartNext
  <2>6. /\ Kept' \ {c} = Kept \ {c}
        /\ c \in Kept <=> mem[c].status # "rejected"
        /\ c \in Kept' <=> rec.status # "rejected"
    BY <1>11 DEF Kept, Present
  <2>7. Cardinality(Kept') = Cardinality(Kept) + amount /\ Cardinality(Kept) \in Nat
    BY <1>4, <1>13, <2>6, KeptMoments, OneApart
  <2>8. Counted'
    BY <1>4, <2>4 DEF Counted, SeenOK
  <2>9. Covered'
    BY <1>3, <1>4, <1>5, <1>8, <1>9, <1>13, <2>5, <2>7 DEF Covered
  <2> QED
    BY <1>10, <2>8, <2>9
<1> QED
  BY <1>12, <1>13

\* The debit or the release of a request whose record is saved.
LEMMA ReviewSettleQuota ==
  ASSUME IInv, WritesOK, Balanced, backend # "faulty", NEW r \in Reviews, ReviewSettle(r)
  PROVE  Balanced'
<1> USE DEF Balanced
<1>1. /\ used \in [Months -> Nat] /\ clock \in 0..MaxTime
      /\ review \in [Reviews -> [phase : {"idle", "saving", "done"}, quota : {-1, 0, 1}]]
  BY TypeHas DEF IInv, RestTyped
<1>2. /\ Moments(Kept) \in Nat /\ Total(used) \in Nat
      /\ Cardinality(Owing(1)) \in Nat /\ Cardinality(Owing(-1)) \in Nat
      /\ Cardinality(Charging(1)) \in Nat /\ Cardinality(Charging(-1)) \in Nat
  BY QuotaNumbers
<1> DEFINE amount == review[r].quota
<1>3. /\ mem' = mem /\ persist' = persist /\ tally' = tally /\ review[r].phase = "saving"
      /\ review' = [review EXCEPT ![r].phase = "done"]
      /\ writes[r].state = "landed" => used' = Debited(Month(clock), amount)
      /\ writes[r].state \in {"landed", "failed"}
  BY DEF ReviewSettle, Settled
<1>4. amount \in {-1, 0, 1} /\ writes[r].state = "landed"
  BY <1>1, <1>3 DEF WritesOK, Handlers
<1> HIDE DEF amount
<1>5. Total(used)' \in Nat /\ Total(used)' >= Total(used) + amount
  <2>1. Total(used)' = Total(used')
    BY DEF Total
  <2> QED
    BY <1>1, <1>3, <1>4, <2>1, DebitTotal
<1>6. Kept' = Kept /\ Charging(1)' = Charging(1) /\ Charging(-1)' = Charging(-1)
  BY <1>3 DEF Kept, Present, Charging
<1>7. review'[r].phase = "done" /\ \A q \in Reviews \ {r} : review'[q] = review[q]
  BY <1>1, <1>3
<1>8. ASSUME NEW a \in {-1, 1}
      PROVE  /\ Owing(a)' \ {r} = Owing(a) \ {r} /\ r \notin Owing(a)'
             /\ r \in Owing(a) <=> a = amount
  BY <1>3, <1>7 DEF Owing, amount
<1>9. /\ IsFiniteSet(Owing(1)')
      /\ Cardinality(Owing(1)') = IF amount = 1 THEN Cardinality(Owing(1)) - 1 ELSE Cardinality(Owing(1))
  BY <1>8, OneApart DEF Finite
<1>10. /\ IsFiniteSet(Owing(-1)')
       /\ Cardinality(Owing(-1)') = IF amount = -1 THEN Cardinality(Owing(-1)) - 1 ELSE Cardinality(Owing(-1))
  BY <1>8, OneApart DEF Finite
<1>11. Counted'
  BY <1>3, <1>6 DEF Counted
<1>12. Covered'
  BY <1>2, <1>4, <1>5, <1>6, <1>9, <1>10 DEF Covered
<1> QED
  BY <1>6, <1>9, <1>10, <1>11, <1>12 DEF Finite

\* A purge takes a row that was rejected, so no other overlapped it, and gives
\* no slot back.
LEMMA SweepQuota ==
  ASSUME IInv, IInv', SeenOK, Balanced, backend # "faulty", crashes = 0, OneAtATime',
         [Next]_vars, NEW s \in Sweeps, SweepStep(s)
  PROVE  Balanced'
<1> USE DEF Balanced
<1>1. mem \in [Clips -> Rows] /\ backend \in Backends
  BY TypeHas DEF IInv, TypeOK
<1>2. /\ Moments(Kept) \in Nat /\ Total(used) \in Nat
      /\ Cardinality(Owing(1)) \in Nat /\ Cardinality(Owing(-1)) \in Nat
      /\ Cardinality(Charging(1)) \in Nat /\ Cardinality(Charging(-1)) \in Nat
  BY QuotaNumbers
<1>3. /\ persist' = persist /\ tally' = tally /\ review' = review /\ used' = used
      /\ backend' = backend
  BY DEF SweepStep, SweepStart, SweepRecheck, SweepEnd, SweepUnlink, SweepDelete, SweepDeleted
<1>4. /\ Owing(1)' = Owing(1) /\ Owing(-1)' = Owing(-1)
      /\ Charging(1)' = Charging(1) /\ Charging(-1)' = Charging(-1)
  BY <1>3 DEF Owing, Charging
<1>5. CASE mem' = mem
  <2>1. Kept' = Kept
    BY <1>5 DEF Kept, Present
  <2> QED
    BY <1>3, <1>4, <2>1 DEF Finite, Covered, Counted
<1>6. CASE mem' # mem
  <2>1. SweepDelete(s) /\ mem' = [mem EXCEPT ![sweep[s].cur] = Absent]
    BY <1>6 DEF SweepStep, SweepStart, SweepRecheck, SweepEnd, SweepUnlink, SweepDelete,
       SweepDeleted, WriteThrough
  <2>2. sweep[s].phase # "idle"
    BY <2>1 DEF SweepDelete
  <2>3. Rejected /\ Rejected'
    BY <2>2, StepRejected DEF SeenOK
  <2>4. ~Overlapped' /\ ~Overlapped /\ backend = "sqlite"
    BY <1>1, <1>3, <2>3, StepOverlapped, ReviewAssumption DEF OneAtATime, Pooled
  <2>5. Moments(Kept) = Cardinality(Kept) /\ Moments(Kept)' = Cardinality(Kept')
    BY <2>4, KeptApart, KeptApartNext
  <2>6. Kept' \in SUBSET Kept
    BY <1>1, <2>1 DEF Kept, Present
  <2>7. Cardinality(Kept') \in Nat /\ Cardinality(Kept') <= Cardinality(Kept)
    BY <2>6, KeptMoments, FS_Subset, FS_CardinalityType
  <2>8. Counted'
    BY <1>3, <2>4 DEF Counted, SeenOK
  <2>9. Covered'
    BY <1>2, <1>3, <1>4, <2>5, <2>7 DEF Covered
  <2> QED
    BY <1>4, <2>8, <2>9 DEF Finite
<1> QED
  BY <1>5, <1>6

LEMMA StepQuota ==
  ASSUME IInv, IInv', WritesOK, SeenOK, SeenOK', QuotaOK, [Next]_vars PROVE QuotaOK'
<1> SUFFICES ASSUME backend' # "faulty", crashes' = 0, OneAtATime' PROVE Balanced'
  BY DEF QuotaOK
<1>1. backend' = backend
  BY DEF Next, vars, Persist, PersistSaved, PersistSettle, Review, Export, ReviewSettle,
     SweepStep, SweepStart, SweepRecheck, SweepEnd, SweepUnlink, SweepDelete, SweepDeleted,
     Land, Fail, Tick, Restart
<1>2. crashes = 0 /\ ~Restart
  BY NoRestart
<1>3. OneAtATime
  BY <1>1, StepRejected, StepOverlapped DEF OneAtATime, Pooled
<1>4. Balanced /\ backend # "faulty"
  BY <1>1, <1>2, <1>3 DEF QuotaOK
<1>5. CASE \/ \E h \in Handlers : Land(h) \/ Fail(h)
           \/ Tick \/ UNCHANGED vars
  <2>1. UNCHANGED <<mem, persist, tally, review, used>>
    BY <1>5 DEF Land, Fail, Tick, vars
  <2>2. /\ Kept' = Kept /\ Owing(1)' = Owing(1) /\ Owing(-1)' = Owing(-1)
        /\ Charging(1)' = Charging(1) /\ Charging(-1)' = Charging(-1)
    BY <2>1 DEF Kept, Present, Charging, Owing
  <2> QED
    BY <1>4, <2>1, <2>2 DEF Balanced, Finite, Covered, Counted
<1>6. ASSUME NEW c \in Clips, Persist(c) PROVE Balanced'
  BY <1>1, <1>4, <1>6, PersistQuota
<1>7. ASSUME NEW c \in Clips, PersistSaved(c) PROVE Balanced'
  BY <1>4, <1>7, PersistSavedQuota
<1>8. ASSUME NEW c \in Clips, PersistSettle(c) PROVE Balanced'
  BY <1>4, <1>8, PersistSettleQuota
<1>9. ASSUME NEW r \in Reviews, Review(r) \/ Export(r) PROVE Balanced'
  BY <1>2, <1>4, <1>9, RequestQuota
<1>10. ASSUME NEW r \in Reviews, ReviewSettle(r) PROVE Balanced'
  BY <1>4, <1>10, ReviewSettleQuota
<1>11. ASSUME NEW s \in Sweeps, SweepStep(s) PROVE Balanced'
  BY <1>2, <1>4, <1>11, SweepQuota
<1> QED
  BY <1>2, <1>5, <1>6, <1>7, <1>8, <1>9, <1>10, <1>11 DEF Next

LEMMA QuotaInvHolds == Spec => []QuotaInv
<1>1. ASSUME Init PROVE QuotaInv
  <2>1. IInv
    BY <1>1, InitInv
  <2>2. WritesOK
    BY <1>1 DEF Init, WritesOK, NoWrite, Busy
  <2>3. /\ Kept = {} /\ Charging(1) = {} /\ Charging(-1) = {}
        /\ Owing(1) = {} /\ Owing(-1) = {}
    BY <1>1 DEF Init, Kept, Present, Charging, Owing
  <2>4. SeenOK
    BY <1>1 DEF Init, SeenOK, Present, IdleSweep
  <2>5. Moments(Kept) = 0
    <3>1. {Chain(c, Kept) : c \in Kept} = {}
      BY <2>3
    <3> QED
      BY <3>1, FS_EmptySet DEF Moments
  <2>6. Total(used) \in Nat
    BY <2>1, DebitTotal DEF IInv, TypeOK
  <2>7. Counted
    BY <1>1 DEF Init, Counted
  <2>8. Finite
    BY <2>3, FS_EmptySet DEF Finite
  <2>9. Covered
    <3>1. /\ Cardinality(Owing(1)) = 0 /\ Cardinality(Owing(-1)) = 0
          /\ Cardinality(Charging(1)) = 0 /\ Cardinality(Charging(-1)) = 0
      BY <2>3, FS_EmptySet
    <3> QED
      BY <2>5, <2>6, <3>1 DEF Covered
  <2> QED
    BY <2>1, <2>2, <2>4, <2>7, <2>8, <2>9 DEF QuotaInv, QuotaOK, Balanced
<1>2. QuotaInv /\ [Next]_vars => QuotaInv'
  <2> SUFFICES ASSUME QuotaInv, [Next]_vars PROVE QuotaInv'
    OBVIOUS
  <2>1. IInv'
    BY StepInv DEF QuotaInv
  <2>2. WritesOK' /\ SeenOK'
    BY StepWrites, StepSeen DEF QuotaInv
  <2>3. QuotaOK'
    BY <2>1, <2>2, StepQuota DEF QuotaInv
  <2> QED
    BY <2>1, <2>2, <2>3 DEF QuotaInv
<1> QED
  BY <1>1, <1>2, PTL DEF Spec
-----------------------------------------------------------------------------
\* The maps, the table, the handlers and the ledger keep their types; the
\* ledger's count never falls below zero.
THEOREM TypeCorrect == Spec => []TypeOK
<1>1. IInv => TypeOK
  BY DEF IInv
<1> QED
  BY <1>1, InvHolds, PTL

\* addHighlight's idempotency: no moment ever has two rows in the store, over
\* any backend, whatever writes land late, fail or are lost to a restart.
THEOREM UniqueKeyHolds == Spec => []UniqueKey
<1>1. IInv => UniqueKey
  BY DEF IInv, KeysOK, UniqueKey, Exists, Present
<1> QED
  BY <1>1, InvHolds, PTL

\* Over SQLite no file is left that no row names: the purge takes the file
\* before the row, and a restart between the two keeps the row.
THEOREM NoOrphanObjectHolds == Spec => []NoOrphanObject
<1>1. IInv => NoOrphanObject
  BY DEF IInv
<1> QED
  BY <1>1, InvHolds, PTL

\* Over SQLite a purged row never comes back, from a late write or at a boot.
THEOREM NoResurrectionHolds == Spec => NoResurrection
<1> DEFINE Stays == backend = "sqlite" =>
             \A c \in Clips : mem[c] = Absent /\ mem'[c] # Absent => persist[c] = "idle"
<1>1. ASSUME IInv, [Next]_vars PROVE [Stays]_vars
  <2> SUFFICES ASSUME backend = "sqlite", NEW c \in Clips, mem[c] = Absent, mem'[c] # Absent
               PROVE  persist[c] = "idle"
    OBVIOUS
  <2>1. mem \in [Clips -> Rows] /\ mem = db
    BY <1>1, TypeHas DEF IInv, SqliteOK
  <2>2. ASSUME NEW h \in Handlers, NEW d \in Clips, NEW rec \in Rows, WriteThrough(h, d, rec),
               mem[d] # Absent
        PROVE  FALSE
    BY <2>1, <2>2 DEF WriteThrough
  <2>3. ASSUME NEW d \in Clips, Persist(d) PROVE persist[c] = "idle"
    BY <2>1, <2>3 DEF Persist, Insert, WriteThrough
  <2>4. ASSUME NEW r \in Reviews, Review(r) \/ Export(r) PROVE FALSE
    BY <2>1, <2>4 DEF Review, Export, Present, WriteThrough
  <2>5. ASSUME NEW s \in Sweeps, SweepStep(s) PROVE FALSE
    BY <2>1, <2>5 DEF SweepStep, SweepStart, SweepRecheck, SweepEnd, SweepUnlink,
                       SweepDelete, SweepDeleted, WriteThrough
  <2>6. CASE \/ \E d \in Clips : PersistSaved(d) \/ PersistSettle(d)
             \/ \E r \in Reviews : ReviewSettle(r)
             \/ \E h \in Handlers : Land(h) \/ Fail(h)
             \/ Tick \/ Restart \/ UNCHANGED vars
    BY <2>1, <2>6 DEF PersistSaved, PersistSettle, ReviewSettle, Land, Fail, Tick, Restart, vars
  <2> QED
    BY <1>1, <2>3, <2>4, <2>5, <2>6 DEF Next
<1> QED
  BY <1>1, InvHolds, PTL DEF Spec, NoResurrection

\* No overspend: over a database that does not fail, and until a restart, when
\* every handler is done the slots debited in all months cover the moments that
\* are not rejected, whatever inserts, repeats, rejects, restores, purges and
\* month ends came in which order, as long as no two of an overlap of windows, a
\* reject and a pool come together.
THEOREM QuotaCoversMomentsHolds == Spec => []QuotaCoversMoments
<1>1. ASSUME QuotaInv PROVE QuotaCoversMoments
  <2> SUFFICES ASSUME Quiet, backend # "faulty", crashes = 0, OneAtATime
               PROVE  Total(used) >= Moments(Kept)
    BY TotalIsSum DEF QuotaCoversMoments, OneAtATime
  <2>1. Clips \subseteq Handlers /\ Reviews \subseteq Handlers
    BY DEF Handlers
  <2>2. /\ Charging(1) = {} /\ Charging(-1) = {}
        /\ Owing(1) = {} /\ Owing(-1) = {}
    BY <1>1, <2>1 DEF QuotaInv, WritesOK, Quiet, NoWrite, Busy, Charging, Owing
  <2>3. Balanced
    BY <1>1 DEF QuotaInv, QuotaOK
  <2>4. Total(used) \in Nat /\ Moments(Kept) \in Nat
    BY <1>1, DebitTotal, KeptMoments DEF QuotaInv, IInv, TypeOK
  <2> QED
    BY <2>2, <2>3, <2>4, FS_EmptySet DEF Balanced, Covered
<1> QED
  BY <1>1, QuotaInvHolds, PTL
=============================================================================
