------------------------ MODULE DecideAdmissionProofs ------------------------
(***************************************************************************)
(* Proofs that the decide gate, for any number of calls, any ceiling and   *)
(* any timing, keeps its types, its slot accounting, the funded ceiling,   *)
(* the exclusivity of the probe and the order of arrival, and loses no     *)
(* wake-up.                                                                *)
(*                                                                         *)
(* The gate's helpers are functions from gate to gate, so the argument is  *)
(* made helper by helper: GateOK(g) is the part of the inductive invariant *)
(* that speaks of the gate alone, one lemma per helper says that it is     *)
(* kept and which calls are queued and in flight afterwards, and the       *)
(* handlers are compositions of the helpers.                               *)
(***************************************************************************)
EXTENDS DecideAdmission, TLAPS, FiniteSetTheorems, SequenceTheorems

Distinct(q) == \A i, j \in 1..Len(q) : q[i] = q[j] => i = j

-----------------------------------------------------------------------------
(***************************************************************************)
(* Sequences without duplicates.                                           *)
(***************************************************************************)

\* Inserting a new element keeps a sequence free of duplicates (the queue
\* insertion of acquireDecideSlot).
LEMMA InsertDistinct ==
  ASSUME NEW S, NEW q \in Seq(S), Distinct(q), NEW c \in S, c \notin ToSet(q),
         NEW at \in 1..(Len(q) + 1)
  PROVE  /\ InsertAt(q, at, c) \in Seq(S)
         /\ Distinct(InsertAt(q, at, c))
         /\ ToSet(InsertAt(q, at, c)) = ToSet(q) \cup {c}
         /\ Len(InsertAt(q, at, c)) = Len(q) + 1
         /\ \A i \in 1..(Len(q) + 1) :
              InsertAt(q, at, c)[i] =
                IF i < at THEN q[i] ELSE IF i = at THEN c ELSE q[i - 1]
<1> DEFINE a == SubSeq(q, 1, at - 1)
           b == SubSeq(q, at, Len(q))
           m == a \o <<c>>
           r == InsertAt(q, at, c)
<1>q. Len(q) \in Nat /\ DOMAIN q = 1..Len(q) /\ \A i \in 1..Len(q) : q[i] \in S
  BY LenProperties, ElementOfSeq
<1>1. a \in Seq(S) /\ Len(a) = at - 1 /\ \A i \in 1..(at - 1) : a[i] = q[i]
  <2>1. at - 1 \in Int /\ \A i \in 1..(at - 1) : q[i] \in S
    BY <1>q
  <2> HIDE DEF a
  <2>2. a \in Seq(S) /\ Len(a) = (IF 1 <= at - 1 THEN (at - 1) - 1 + 1 ELSE 0)
           /\ \A i \in 1..((at - 1) - 1 + 1) : a[i] = q[1 + i - 1]
    BY <2>1, SubSeqProperties DEF a
  <2> QED BY <2>2, <1>q
<1>2. b \in Seq(S) /\ Len(b) = Len(q) + 1 - at
        /\ \A i \in 1..(Len(q) + 1 - at) : b[i] = q[at + i - 1]
  <2>1. at \in Int /\ Len(q) \in Int /\ \A i \in at..Len(q) : q[i] \in S
    BY <1>q
  <2> HIDE DEF b
  <2>2. b \in Seq(S) /\ Len(b) = (IF at <= Len(q) THEN Len(q) - at + 1 ELSE 0)
           /\ \A i \in 1..(Len(q) - at + 1) : b[i] = q[at + i - 1]
    BY <2>1, SubSeqProperties DEF b
  <2> QED BY <2>2, <1>q
<1>3. <<c>> \in Seq(S) /\ Len(<<c>>) = 1 /\ <<c>>[1] = c
  OBVIOUS
<1> HIDE DEF a, b
<1>4. /\ m \in Seq(S)
      /\ Len(m) = at
      /\ \A i \in 1..at : m[i] = IF i < at THEN q[i] ELSE c
  <2>1. /\ m \in Seq(S)
        /\ Len(m) = Len(a) + Len(<<c>>)
        /\ \A i \in 1..(Len(a) + Len(<<c>>)) :
             m[i] = IF i <= Len(a) THEN a[i] ELSE <<c>>[i - Len(a)]
    BY <1>1, <1>3, ConcatProperties
  <2> HIDE DEF m
  <2>2. Len(a) + Len(<<c>>) = at
    BY <1>1, <1>3, <1>q
  <2> QED BY <2>1, <2>2, <1>1, <1>3, <1>q
<1>5. /\ r \in Seq(S)
      /\ Len(r) = Len(q) + 1
      /\ \A i \in 1..(Len(q) + 1) :
           r[i] = IF i < at THEN q[i] ELSE IF i = at THEN c ELSE q[i - 1]
  <2>1. r = m \o b
    BY DEF InsertAt, a, b
  <2> HIDE DEF r, m
  <2>2. /\ r \in Seq(S)
        /\ Len(r) = Len(m) + Len(b)
        /\ \A i \in 1..(Len(m) + Len(b)) :
             r[i] = IF i <= Len(m) THEN m[i] ELSE b[i - Len(m)]
    BY <2>1, <1>4, <1>2, ConcatProperties
  <2>3. Len(m) + Len(b) = Len(q) + 1
    BY <1>4, <1>2, <1>q
  <2>4. ASSUME NEW i \in 1..(Len(q) + 1)
        PROVE  r[i] = IF i < at THEN q[i] ELSE IF i = at THEN c ELSE q[i - 1]
    <3>1. CASE i <= at
      BY <3>1, <2>2, <2>3, <1>4
    <3>2. CASE i > at
      <4>1. i - at \in 1..(Len(q) + 1 - at) /\ at + (i - at) - 1 = i - 1
        BY <3>2, <1>q
      <4>2. r[i] = b[i - at]
        BY <3>2, <2>2, <2>3, <1>4
      <4>3. b[i - at] = q[at + (i - at) - 1]
        BY <4>1, <1>2
      <4> QED BY <3>2, <4>1, <4>2, <4>3
    <3> QED BY <3>1, <3>2, <1>q
  <2> QED BY <2>2, <2>3, <2>4
<1> HIDE DEF r
<1>6. DOMAIN r = 1..(Len(q) + 1)
  BY <1>5, LenProperties
<1>7. Distinct(r)
  <2> SUFFICES ASSUME NEW i \in 1..Len(r), NEW j \in 1..Len(r), r[i] = r[j]
               PROVE  i = j
    BY DEF Distinct
  <2>1. \A k \in 1..Len(q) : q[k] # c
    BY <1>q DEF ToSet
  <2>2. i \in 1..(Len(q) + 1) /\ j \in 1..(Len(q) + 1)
    BY <1>5
  <2>3. r[i] = (IF i < at THEN q[i] ELSE IF i = at THEN c ELSE q[i - 1])
    BY <2>2, <1>5
  <2>4. r[j] = (IF j < at THEN q[j] ELSE IF j = at THEN c ELSE q[j - 1])
    BY <2>2, <1>5
  <2>5. \A k, l \in 1..Len(q) : q[k] = q[l] => k = l
    BY DEF Distinct
  <2>6. \A k \in 1..(Len(q) + 1) :
          (k < at => k \in 1..Len(q)) /\ (k > at => k - 1 \in 1..Len(q))
    BY <1>q
  <2>a. ASSUME NEW k \in 1..(Len(q) + 1), k # at
        PROVE  (IF k < at THEN q[k] ELSE IF k = at THEN c ELSE q[k - 1]) # c
    <3>1. CASE k < at
      BY <3>1, <2>1, <2>6
    <3>2. CASE k > at
      <4>1. k - 1 \in 1..Len(q) /\ ~(k < at)
        BY <3>2, <2>6, <1>q
      <4>2. q[k - 1] # c
        BY <4>1, <2>1
      <4> QED BY <4>1, <4>2, <2>a
    <3> QED BY <3>1, <3>2, <2>a, <1>q
  <2>b. r[at] = c
    <3>1. at \in 1..(Len(q) + 1) /\ ~(at < at)
      BY <1>q
    <3> QED BY <3>1, <1>5
  <2>7. CASE i = at
    BY <2>a, <2>2, <2>4, <2>b, <2>7
  <2>8. CASE j = at
    BY <2>a, <2>2, <2>3, <2>b, <2>8
  <2>9. CASE i # at /\ j # at
    <3> DEFINE p(k) == IF k < at THEN k ELSE k - 1
    <3>1. p(i) \in 1..Len(q) /\ p(j) \in 1..Len(q)
      BY <2>2, <2>6, <2>9, <1>q
    <3>2. q[p(i)] = q[p(j)]
      BY <2>3, <2>4, <2>9, <2>2, <1>q
    <3>3. p(i) = p(j)
      BY <3>1, <3>2, <2>5
    <3> QED BY <3>3, <2>2, <2>9, <1>q
  <2> QED BY <2>7, <2>8, <2>9
<1>8. ToSet(r) = ToSet(q) \cup {c}
  <2>1. ASSUME NEW x \in ToSet(r) PROVE x \in ToSet(q) \cup {c}
    BY <2>1, <1>5, <1>6, <1>q DEF ToSet
  <2>2. c \in ToSet(r)
    BY <1>5, <1>6, <1>q DEF ToSet
  <2>3. ASSUME NEW k \in 1..Len(q) PROVE q[k] \in ToSet(r)
    <3>1. CASE k < at BY <3>1, <1>5, <1>6, <1>q DEF ToSet
    <3>2. CASE k >= at
      <4>1. r[k + 1] = q[k] /\ k + 1 \in 1..(Len(q) + 1) BY <3>2, <1>5, <1>q
      <4> QED BY <4>1, <1>6 DEF ToSet
    <3> QED BY <3>1, <3>2, <1>q
  <2> QED BY <2>1, <2>2, <2>3, <1>q DEF ToSet
<1> QED BY <1>5, <1>7, <1>8 DEF r

\* Taking one element out of a sequence free of duplicates takes out that
\* element and no other (the splice of the queue timer).
LEMMA RemoveDistinct ==
  ASSUME NEW S, NEW q \in Seq(S), Distinct(q), NEW at \in 1..Len(q)
  PROVE  /\ RemoveAt(q, at) \in Seq(S)
         /\ Distinct(RemoveAt(q, at))
         /\ ToSet(RemoveAt(q, at)) = ToSet(q) \ {q[at]}
         /\ Len(RemoveAt(q, at)) = Len(q) - 1
         /\ \A i \in 1..(Len(q) - 1) : RemoveAt(q, at)[i] = q[IF i < at THEN i ELSE i + 1]
<1> DEFINE a == SubSeq(q, 1, at - 1)
           b == SubSeq(q, at + 1, Len(q))
           r == RemoveAt(q, at)
           p(k) == IF k < at THEN k ELSE k + 1
<1>q. Len(q) \in Nat /\ DOMAIN q = 1..Len(q) /\ \A i \in 1..Len(q) : q[i] \in S
  BY LenProperties, ElementOfSeq
<1>n. Len(q) \in Nat
  BY <1>q
<1>m. at \in Nat /\ 1 <= at /\ at <= Len(q)
  BY <1>n
<1>1. a \in Seq(S) /\ Len(a) = at - 1 /\ \A i \in 1..(at - 1) : a[i] = q[i]
  <2>1. at - 1 \in Int /\ \A i \in 1..(at - 1) : q[i] \in S
    BY <1>q
  <2> HIDE DEF a
  <2>2. a \in Seq(S) /\ Len(a) = (IF 1 <= at - 1 THEN (at - 1) - 1 + 1 ELSE 0)
           /\ \A i \in 1..((at - 1) - 1 + 1) : a[i] = q[1 + i - 1]
    BY <2>1, SubSeqProperties DEF a
  <2> QED BY <2>2, <1>q
<1>2. b \in Seq(S) /\ Len(b) = Len(q) - at
        /\ \A i \in 1..(Len(q) - at) : b[i] = q[at + i]
  <2>1. at + 1 \in Int /\ Len(q) \in Int /\ \A i \in (at + 1)..Len(q) : q[i] \in S
    BY <1>q
  <2> HIDE DEF b
  <2>2. b \in Seq(S) /\ Len(b) = (IF at + 1 <= Len(q) THEN Len(q) - (at + 1) + 1 ELSE 0)
           /\ \A i \in 1..(Len(q) - (at + 1) + 1) : b[i] = q[(at + 1) + i - 1]
    BY <2>1, SubSeqProperties DEF b
  <2>3. Len(q) - (at + 1) + 1 = Len(q) - at
    BY <1>q
  <2>4. Len(b) = Len(q) - at
    <3>1. CASE at < Len(q)
      <4>1. at + 1 <= Len(q)
        BY <3>1, <1>q
      <4> QED BY <4>1, <2>2, <2>3
    <3>2. CASE at = Len(q)
      <4>1. ~(at + 1 <= Len(q)) /\ Len(q) - at = 0
        BY <3>2, <1>q
      <4>2. Len(b) = 0
        BY <4>1, <2>2
      <4> QED BY <4>1, <4>2
    <3>3. at < Len(q) \/ at = Len(q)
      BY <1>n, <1>m
    <3> QED BY <3>1, <3>2, <3>3
  <2>5. ASSUME NEW i \in 1..(Len(q) - at)
        PROVE  b[i] = q[at + i]
    <3>1. (at + 1) + i - 1 = at + i
      BY <1>q
    <3>2. b[i] = q[(at + 1) + i - 1]
      BY <2>2, <2>3
    <3> QED BY <3>1, <3>2
  <2> QED BY <2>2, <2>4, <2>5
<1> HIDE DEF a, b
<1>3. /\ r \in Seq(S)
      /\ Len(r) = Len(q) - 1
      /\ \A i \in 1..(Len(q) - 1) : r[i] = q[p(i)]
  <2>1. r = a \o b
    BY DEF RemoveAt, a, b
  <2> HIDE DEF r
  <2>2. /\ r \in Seq(S)
        /\ Len(r) = Len(a) + Len(b)
        /\ \A i \in 1..(Len(a) + Len(b)) :
             r[i] = IF i <= Len(a) THEN a[i] ELSE b[i - Len(a)]
    BY <2>1, <1>1, <1>2, ConcatProperties
  <2>3. Len(a) + Len(b) = Len(q) - 1
    BY <1>1, <1>2, <1>q
  <2>4. ASSUME NEW i \in 1..(Len(q) - 1)
        PROVE  r[i] = q[p(i)]
    <3>1. CASE i < at
      BY <3>1, <2>2, <2>3, <1>1, <1>q
    <3>2. CASE i >= at
      <4>1. i - (at - 1) \in 1..(Len(q) - at) /\ at + (i - (at - 1)) = i + 1
        BY <3>2, <1>q
      <4>2. r[i] = b[i - (at - 1)]
        BY <3>2, <2>2, <2>3, <1>1, <1>q
      <4>3. b[i - (at - 1)] = q[at + (i - (at - 1))]
        BY <4>1, <1>2
      <4> QED BY <3>2, <4>1, <4>2, <4>3, <1>q
    <3> QED BY <3>1, <3>2, <1>q
  <2> QED BY <2>2, <2>3, <2>4
<1> HIDE DEF r
<1>4. DOMAIN r = 1..(Len(q) - 1)
  BY <1>3, LenProperties
<1>5. /\ \A k \in 1..(Len(q) - 1) : p(k) \in 1..Len(q) /\ p(k) # at
      /\ \A k, l \in 1..(Len(q) - 1) : p(k) = p(l) => k = l
      /\ \A i \in 1..Len(q) : i # at => \E k \in 1..(Len(q) - 1) : p(k) = i
  <2>1. ASSUME NEW i \in 1..Len(q), i # at
        PROVE  \E k \in 1..(Len(q) - 1) : p(k) = i
    <3>1. CASE i < at
      <4>1. i \in 1..(Len(q) - 1) /\ p(i) = i
        BY <3>1, <1>q
      <4> QED BY <4>1
    <3>2. CASE i > at
      <4>1. i - 1 \in 1..(Len(q) - 1) /\ p(i - 1) = i
        BY <3>2, <1>q
      <4> QED BY <4>1
    <3> QED BY <3>1, <3>2, <2>1, <1>q
  <2> QED BY <2>1, <1>q
<1> HIDE DEF p
<1>d. \A k, l \in 1..Len(q) : q[k] = q[l] => k = l
  BY DEF Distinct
<1>6. Distinct(r)
  <2> SUFFICES ASSUME NEW i \in 1..Len(r), NEW j \in 1..Len(r), r[i] = r[j]
               PROVE  i = j
    BY DEF Distinct
  <2>1. i \in 1..(Len(q) - 1) /\ j \in 1..(Len(q) - 1)
    BY <1>3
  <2>2. q[p(i)] = q[p(j)] /\ p(i) \in 1..Len(q) /\ p(j) \in 1..Len(q)
    BY <2>1, <1>3, <1>5
  <2>3. p(i) = p(j)
    BY <2>2, <1>d
  <2> QED BY <2>1, <2>3, <1>5
<1>7. ToSet(r) = ToSet(q) \ {q[at]}
  <2>1. ASSUME NEW x \in ToSet(r) PROVE x \in ToSet(q) \ {q[at]}
    <3>1. PICK k \in 1..(Len(q) - 1) : x = r[k]
      BY <1>4 DEF ToSet
    <3>2. x = q[p(k)] /\ p(k) \in 1..Len(q) /\ p(k) # at
      BY <3>1, <1>3, <1>5
    <3> QED BY <3>2, <1>d, <1>q DEF ToSet
  <2>2. ASSUME NEW x \in ToSet(q) \ {q[at]} PROVE x \in ToSet(r)
    <3>1. PICK i \in 1..Len(q) : x = q[i] /\ i # at
      BY <2>2, <1>q DEF ToSet
    <3>2. PICK k \in 1..(Len(q) - 1) : p(k) = i
      BY <3>1, <1>5
    <3>3. x = r[k]
      BY <3>1, <3>2, <1>3
    <3> QED BY <3>3, <1>4 DEF ToSet
  <2> QED BY <2>1, <2>2
<1> QED BY <1>3, <1>6, <1>7 DEF r, p

\* Granting the first n waiters splits a queue free of duplicates into n calls
\* and the rest (the loop of pumpDecideQueue).
LEMMA SplitDistinct ==
  ASSUME NEW S, NEW q \in Seq(S), Distinct(q), NEW n \in 0..Len(q)
  PROVE  /\ SubSeq(q, n + 1, Len(q)) \in Seq(S)
         /\ Distinct(SubSeq(q, n + 1, Len(q)))
         /\ ToSet(SubSeq(q, 1, n)) \subseteq S
         /\ ToSet(SubSeq(q, 1, n)) \cap ToSet(SubSeq(q, n + 1, Len(q))) = {}
         /\ ToSet(SubSeq(q, 1, n)) \cup ToSet(SubSeq(q, n + 1, Len(q))) = ToSet(q)
         /\ IsFiniteSet(ToSet(SubSeq(q, 1, n)))
         /\ Cardinality(ToSet(SubSeq(q, 1, n))) = n
         /\ ToSet(SubSeq(q, 1, n)) = {q[i] : i \in 1..n}
         /\ Len(SubSeq(q, n + 1, Len(q))) = Len(q) - n
         /\ \A i \in 1..(Len(q) - n) : SubSeq(q, n + 1, Len(q))[i] = q[n + i]
<1> DEFINE a == SubSeq(q, 1, n)
           b == SubSeq(q, n + 1, Len(q))
<1>q. Len(q) \in Nat /\ DOMAIN q = 1..Len(q) /\ \A i \in 1..Len(q) : q[i] \in S
  BY LenProperties, ElementOfSeq
<1>1. a \in Seq(S) /\ Len(a) = n /\ \A i \in 1..n : a[i] = q[i]
  <2>1. n \in Int /\ \A i \in 1..n : q[i] \in S
    BY <1>q
  <2> HIDE DEF a
  <2>2. a \in Seq(S) /\ Len(a) = (IF 1 <= n THEN n - 1 + 1 ELSE 0)
           /\ \A i \in 1..(n - 1 + 1) : a[i] = q[1 + i - 1]
    BY <2>1, SubSeqProperties DEF a
  <2> QED BY <2>2, <1>q
<1>2. b \in Seq(S) /\ Len(b) = Len(q) - n /\ \A i \in 1..(Len(q) - n) : b[i] = q[n + i]
  <2>1. n + 1 \in Int /\ Len(q) \in Int /\ \A i \in (n + 1)..Len(q) : q[i] \in S
    BY <1>q
  <2> HIDE DEF b
  <2>2. b \in Seq(S) /\ Len(b) = (IF n + 1 <= Len(q) THEN Len(q) - (n + 1) + 1 ELSE 0)
           /\ \A i \in 1..(Len(q) - (n + 1) + 1) : b[i] = q[(n + 1) + i - 1]
    BY <2>1, SubSeqProperties DEF b
  <2>3. Len(q) - (n + 1) + 1 = Len(q) - n
    BY <1>q
  <2>4. Len(b) = Len(q) - n
    <3>1. Len(b) = (IF n + 1 <= Len(q) THEN Len(q) - (n + 1) + 1 ELSE 0)
      BY <2>2
    <3>2. Len(q) \in Nat /\ n \in Nat /\ n <= Len(q)
      BY <1>q
    <3>3. CASE n + 1 <= Len(q)
      BY <2>3, <3>1, <3>3
    <3>4. CASE ~(n + 1 <= Len(q))
      BY <3>1, <3>2, <3>4
    <3> QED BY <3>3, <3>4
  <2>5. ASSUME NEW i \in 1..(Len(q) - n)
        PROVE  b[i] = q[n + i]
    <3>1. (n + 1) + i - 1 = n + i
      BY <1>q
    <3>2. b[i] = q[(n + 1) + i - 1]
      BY <2>2, <2>3
    <3> QED BY <3>1, <3>2
  <2> QED BY <2>2, <2>4, <2>5
<1> HIDE DEF a, b
<1>3. DOMAIN a = 1..n /\ DOMAIN b = 1..(Len(q) - n)
  BY <1>1, <1>2, LenProperties
<1>d. \A k, l \in 1..Len(q) : q[k] = q[l] => k = l
  BY DEF Distinct
<1>4. ToSet(a) = {q[i] : i \in 1..n}
  BY <1>1, <1>3 DEF ToSet
<1>5. ToSet(b) = {q[i] : i \in (n + 1)..Len(q)}
  <2>1. ASSUME NEW x \in ToSet(b) PROVE x \in {q[i] : i \in (n + 1)..Len(q)}
    <3>1. PICK k \in 1..(Len(q) - n) : x = b[k]
      BY <1>3 DEF ToSet
    <3>2. x = q[n + k] /\ n + k \in (n + 1)..Len(q)
      BY <3>1, <1>2, <1>q
    <3> QED BY <3>2
  <2>2. ASSUME NEW i \in (n + 1)..Len(q) PROVE q[i] \in ToSet(b)
    <3>1. i - n \in 1..(Len(q) - n) /\ n + (i - n) = i
      BY <1>q
    <3>2. q[i] = b[i - n]
      BY <3>1, <1>2
    <3> QED BY <3>1, <3>2, <1>3 DEF ToSet
  <2> QED BY <2>1, <2>2
<1>6. ToSet(q) = {q[i] : i \in 1..Len(q)}
  BY <1>q DEF ToSet
<1>7. Distinct(b)
  <2> SUFFICES ASSUME NEW i \in 1..Len(b), NEW j \in 1..Len(b), b[i] = b[j]
               PROVE  i = j
    BY DEF Distinct
  <2>1. n + i \in 1..Len(q) /\ n + j \in 1..Len(q) /\ q[n + i] = q[n + j]
    BY <1>2, <1>q
  <2>2. n + i = n + j
    BY <2>1, <1>d
  <2> QED BY <2>2, <1>2, <1>q
<1>8. ToSet(a) \cap ToSet(b) = {}
  <2> SUFFICES ASSUME NEW x \in ToSet(a), x \in ToSet(b) PROVE FALSE
    OBVIOUS
  <2>1. PICK i \in 1..n : x = q[i]
    BY <1>4
  <2>2. PICK j \in (n + 1)..Len(q) : x = q[j]
    BY <1>5
  <2>3. i \in 1..Len(q) /\ j \in 1..Len(q) /\ i # j
    BY <1>q
  <2> QED BY <2>1, <2>2, <2>3, <1>d
<1>9. ToSet(a) \cup ToSet(b) = ToSet(q)
  <2>1. 1..Len(q) = (1..n) \cup ((n + 1)..Len(q))
    BY <1>q
  <2> QED BY <2>1, <1>4, <1>5, <1>6
<1>10. IsFiniteSet(ToSet(a)) /\ Cardinality(ToSet(a)) = n
  <2> DEFINE f == [i \in 1..n |-> q[i]]
  <2>1. f \in Bijection(1..n, ToSet(a))
    <3>1. f \in [1..n -> ToSet(a)]
      BY <1>4
    <3>2. \A i, j \in 1..n : f[i] = f[j] => i = j
      BY <1>d, <1>q
    <3>3. \A t \in ToSet(a) : \E i \in 1..n : f[i] = t
      BY <1>4
    <3> QED BY <3>1, <3>2, <3>3 DEF Bijection, Injection, Surjection, IsInjective
  <2>2. IsFiniteSet(1..n) /\ Cardinality(1..n) = n
    BY FS_Interval
  <2> QED BY <2>1, <2>2, FS_Bijection DEF ExistsBijection
<1>11. ToSet(a) \subseteq S
  BY <1>4, <1>q
<1> QED BY <1>2, <1>4, <1>7, <1>8, <1>9, <1>10, <1>11 DEF a, b

-----------------------------------------------------------------------------
(***************************************************************************)
(* The helpers of the gate.                                                *)
(***************************************************************************)

\* The conjuncts of the inductive invariant that speak of the gate alone.
GateOK(g) ==
  /\ g \in Gate
  /\ g.inFlight = Cardinality(g.slots)
  /\ g.inFlight <= Funded
  /\ g.probes \subseteq g.slots
  /\ g.probes # {} => g.slots = g.probes /\ g.inFlight = 1 /\ g.pauseOpen
  /\ Distinct(g.queue)
  /\ Queued(g) \cap g.slots = {}

\* The calls the gate knows of.
Held(g) == Queued(g) \cup g.slots

\* The calls are finitely many, so every set of slots is.
LEMMA SlotsFinite == \A T \in SUBSET Calls : IsFiniteSet(T) /\ Cardinality(T) \in Nat
BY GateAssumption, FS_Subset, FS_CardinalityType

\* The fields of a gate, one by one.
LEMMA GateFields ==
  ASSUME NEW g \in Gate
  PROVE  /\ g.queue \in Seq(Calls) /\ g.slots \in SUBSET Calls
         /\ g.probes \in SUBSET Calls /\ g.inFlight \in Nat
         /\ g.effective \in Nat /\ 1 <= g.effective /\ g.effective <= Funded
         /\ g.pauseOpen \in BOOLEAN /\ g.pauseLeft \in Nat
         /\ g.pauseWindow \in 0..MaxWindow /\ g.probeOutstanding \in BOOLEAN
         /\ g.pumpTimer \in Nat \cup {NoTimer}
         /\ Len(g.queue) \in Nat /\ Queued(g) \subseteq Calls
<1>1. g.queue \in Seq(Calls) /\ g.effective \in 1..Funded
  BY DEF Gate
<1>2. Len(g.queue) \in Nat /\ ToSet(g.queue) \subseteq Calls
  BY <1>1, LenProperties, ElementOfSeq DEF ToSet
<1> QED BY <1>1, <1>2, GateAssumption DEF Gate, TimeLeft, Queued

\* Taking the fast path keeps the gate, and adds the call to the slots.
LEMMA TakeSlotOK ==
  ASSUME NEW g, GateOK(g), NEW c \in Calls, c \notin Held(g), FastPath(g)
  PROVE  GateOK(TakeSlot(g, c)) /\ Held(TakeSlot(g, c)) = Held(g) \cup {c}
<1> DEFINE h == TakeSlot(g, c)
<1>g. g \in Gate
  BY DEF GateOK
<1>1. /\ h \in Gate
      /\ h.slots = g.slots \cup {c} /\ h.inFlight = g.inFlight + 1
      /\ h.queue = g.queue /\ h.probes = g.probes /\ h.pauseOpen = g.pauseOpen
  <2>1. g.slots \cup {c} \in SUBSET Calls /\ g.inFlight + 1 \in Nat
    BY <1>g, GateFields
  <2> QED BY <1>g, <2>1 DEF TakeSlot, Gate
<1> HIDE DEF h
<1>2. h.inFlight = Cardinality(h.slots)
  <2>1. IsFiniteSet(g.slots) /\ c \notin g.slots
    BY <1>g, GateFields, SlotsFinite DEF Held
  <2>2. Cardinality(g.slots \cup {c}) = Cardinality(g.slots) + 1
    BY <2>1, FS_AddElement
  <2> QED BY <1>1, <2>2 DEF GateOK
<1>3. h.inFlight <= Funded
  BY <1>g, <1>1, GateFields, GateAssumption DEF FastPath
<1>4. h.probes = {}
  <2>1. ~g.pauseOpen
    BY DEF FastPath
  <2> QED BY <1>1, <2>1 DEF GateOK
<1>5. Queued(h) = Queued(g) /\ Distinct(h.queue)
  BY <1>1 DEF Queued, GateOK
<1>6. Queued(h) \cap h.slots = {}
  BY <1>1, <1>5 DEF Held, GateOK
<1> QED BY <1>1, <1>2, <1>3, <1>4, <1>5, <1>6 DEF GateOK, Held, h

\* Enqueueing keeps the gate, and adds the call to the queue.
LEMMA EnqueueOK ==
  ASSUME NEW g, GateOK(g), NEW seqOf, NEW c \in Calls, c \notin Held(g)
  PROVE  GateOK(Enqueue(g, seqOf, c)) /\ Held(Enqueue(g, seqOf, c)) = Held(g) \cup {c}
<1> DEFINE Earlier == {i \in 1..Len(g.queue) : seqOf[g.queue[i]] <= seqOf[c]}
           at == Cardinality(Earlier) + 1
           h == Enqueue(g, seqOf, c)
<1>g. g \in Gate /\ g.queue \in Seq(Calls) /\ Len(g.queue) \in Nat
  BY GateFields DEF GateOK
<1>1. at \in 1..(Len(g.queue) + 1)
  <2>1. Earlier \in SUBSET (1..Len(g.queue))
    OBVIOUS
  <2>2. IsFiniteSet(1..Len(g.queue)) /\ Cardinality(1..Len(g.queue)) = Len(g.queue)
    BY <1>g, FS_Interval
  <2>3. IsFiniteSet(Earlier) /\ Cardinality(Earlier) <= Len(g.queue)
    BY <2>1, <2>2, FS_Subset
  <2>4. Cardinality(Earlier) \in Nat
    BY <2>3, FS_CardinalityType
  <2> QED BY <2>3, <2>4, <1>g
<1> HIDE DEF at
<1>2. /\ h.queue = InsertAt(g.queue, at, c)
      /\ h.slots = g.slots /\ h.inFlight = g.inFlight
      /\ h.probes = g.probes /\ h.pauseOpen = g.pauseOpen
      /\ h = [g EXCEPT !.queue = InsertAt(g.queue, at, c)]
  BY <1>g DEF Enqueue, Gate, at
<1>3. /\ InsertAt(g.queue, at, c) \in Seq(Calls)
      /\ Distinct(InsertAt(g.queue, at, c))
      /\ ToSet(InsertAt(g.queue, at, c)) = Queued(g) \cup {c}
  BY <1>g, <1>1, InsertDistinct DEF GateOK, Held, Queued
<1>4. h \in Gate
  BY <1>g, <1>2, <1>3 DEF Gate
<1> HIDE DEF h
<1> QED BY <1>2, <1>3, <1>4 DEF GateOK, Held, Queued, h

\* The expired waiter is the only one that leaves.
LEMMA WithdrawOK ==
  ASSUME NEW g, GateOK(g), NEW c \in Queued(g)
  PROVE  /\ GateOK(Withdraw(g, c))
         /\ Held(Withdraw(g, c)) = Held(g) \ {c}
<1> DEFINE at == CHOOSE i \in 1..Len(g.queue) : g.queue[i] = c
           h == Withdraw(g, c)
<1>g. g \in Gate /\ g.queue \in Seq(Calls) /\ DOMAIN g.queue = 1..Len(g.queue)
  BY GateFields, LenProperties DEF GateOK
<1>1. at \in 1..Len(g.queue) /\ g.queue[at] = c
  BY <1>g DEF Queued, ToSet
<1> HIDE DEF at
<1>2. /\ h = [g EXCEPT !.queue = RemoveAt(g.queue, at)]
      /\ h.queue = RemoveAt(g.queue, at)
      /\ h.slots = g.slots /\ h.inFlight = g.inFlight
      /\ h.probes = g.probes /\ h.pauseOpen = g.pauseOpen
  BY <1>g DEF Withdraw, Gate, at
<1>3. /\ RemoveAt(g.queue, at) \in Seq(Calls)
      /\ Distinct(RemoveAt(g.queue, at))
      /\ ToSet(RemoveAt(g.queue, at)) = Queued(g) \ {c}
  BY <1>g, <1>1, RemoveDistinct DEF GateOK, Queued
<1>4. h \in Gate
  BY <1>g, <1>2, <1>3 DEF Gate
<1>5. c \notin g.slots
  BY DEF GateOK
<1> HIDE DEF h
<1> QED BY <1>2, <1>3, <1>4, <1>5 DEF GateOK, Held, Queued, h

\* Handing a slot back keeps the gate, and takes the call out of the slots.
LEMMA ReleaseSlotOK ==
  ASSUME NEW g, GateOK(g), NEW c \in g.slots
  PROVE  /\ GateOK(ReleaseSlot(g, c))
         /\ Held(ReleaseSlot(g, c)) = Held(g) \ {c}
<1> DEFINE h == ReleaseSlot(g, c)
<1>g. g \in Gate /\ g.inFlight \in Nat /\ g.slots \in SUBSET Calls
  BY GateFields DEF GateOK
<1>1. Cardinality(g.slots \ {c}) = g.inFlight - 1 /\ g.inFlight > 0
  <2>1. IsFiniteSet(g.slots) /\ Cardinality(g.slots) \in Nat
    BY <1>g, SlotsFinite
  <2>2. Cardinality(g.slots) # 0
    BY <2>1, FS_EmptySet
  <2>3. Cardinality(g.slots \ {c}) = Cardinality(g.slots) - 1
    BY <2>1, FS_RemoveElement
  <2> QED BY <2>1, <2>2, <2>3 DEF GateOK
<1>2. /\ h \in Gate
      /\ h.slots = g.slots \ {c} /\ h.inFlight = g.inFlight - 1
      /\ h.queue = g.queue /\ h.probes = g.probes \ {c}
      /\ h.pauseOpen = g.pauseOpen
  <2>1. /\ g.slots \ {c} \in SUBSET Calls /\ g.inFlight - 1 \in Nat
        /\ g.probes \ {c} \in SUBSET Calls
    BY <1>g, <1>1, GateFields
  <2> QED BY <1>g, <1>1, <2>1 DEF ReleaseSlot, Gate
<1> HIDE DEF h
<1>3. h.inFlight <= Funded
  BY <1>g, <1>2, GateAssumption DEF GateOK
<1>4. h.probes = {}
  <2>1. CASE g.probes = {}
    BY <2>1, <1>2
  <2>2. CASE g.probes # {}
    <3>1. g.slots = g.probes /\ Cardinality(g.slots) = 1
      BY <2>2 DEF GateOK
    <3>2. PICK x : g.slots = {x}
      BY <3>1, <1>g, SlotsFinite, FS_Singleton
    <3> QED BY <3>1, <3>2, <1>2
  <2> QED BY <2>1, <2>2
<1>5. Queued(h) = Queued(g) /\ Distinct(h.queue) /\ c \notin Queued(g)
  BY <1>2 DEF Queued, GateOK
<1> QED BY <1>1, <1>2, <1>3, <1>4, <1>5 DEF GateOK, Held, h

\* Once the slot is back, no probe is out.
LEMMA ReleaseEndsProbe ==
  ASSUME NEW g, GateOK(g), NEW c \in g.slots
  PROVE  ReleaseSlot(g, c).probes = {}
<1>g. g \in Gate /\ g.slots \in SUBSET Calls
  BY GateFields DEF GateOK
<1>1. ReleaseSlot(g, c).probes = g.probes \ {c}
  BY <1>g DEF ReleaseSlot, Gate
<1>2. CASE g.probes = {}
  BY <1>1, <1>2
<1>3. CASE g.probes # {}
  <2>1. g.slots = g.probes /\ Cardinality(g.slots) = 1
    BY <1>3 DEF GateOK
  <2>2. PICK x : g.slots = {x}
    BY <2>1, <1>g, SlotsFinite, FS_Singleton
  <2> QED BY <2>1, <2>2, <1>1
<1> QED BY <1>2, <1>3

\* Fields that decide who is queued and who is in flight are the same.
SameCalls(g, h) ==
  h.queue = g.queue /\ h.slots = g.slots /\ h.probes = g.probes /\ h.inFlight = g.inFlight

\* A gate with the same calls is as good, as long as the pause stays open
\* under a probe.
LEMMA SameCallsOK ==
  ASSUME NEW g, GateOK(g), NEW h \in Gate, SameCalls(g, h),
         g.probes # {} => h.pauseOpen
  PROVE  GateOK(h) /\ Held(h) = Held(g)
BY DEF GateOK, SameCalls, Held, Queued

\* A backoff window is a whole number of ticks.
LEMMA BackoffType == \A n \in 0..(MaxWindow + MaxAttempts) : Backoff(n) \in Nat
BY GateAssumption, DoublingAssumption DEF Backoff, Lesser

\* Opening the pause window changes no call's place.
LEMMA OpenPauseWindowOK ==
  ASSUME NEW g, GateOK(g), NEW jitter \in Nat
  PROVE  /\ GateOK(OpenPauseWindow(g, jitter))
         /\ Held(OpenPauseWindow(g, jitter)) = Held(g)
         /\ SameCalls(g, OpenPauseWindow(g, jitter))
<1> DEFINE h == OpenPauseWindow(g, jitter)
<1>g. g \in Gate /\ g.pauseWindow \in 0..MaxWindow
  BY GateFields DEF GateOK
<1>1. Backoff(g.pauseWindow) + jitter \in Nat
  BY <1>g, BackoffType, GateAssumption
<1>2. Lesser(g.pauseWindow + 1, MaxWindow) \in 0..MaxWindow
  BY <1>g, GateAssumption DEF Lesser
<1>3. h \in Gate /\ SameCalls(g, h) /\ h.pauseOpen
  BY <1>g, <1>1, <1>2 DEF OpenPauseWindow, Gate, SameCalls, TimeLeft
<1> QED BY <1>3, SameCallsOK

\* So does a 503, whether it opens a window or falls into one.
LEMMA NoteDecide503OK ==
  ASSUME NEW g, GateOK(g), NEW jitter \in Nat
  PROVE  /\ GateOK(NoteDecide503(g, jitter))
         /\ Held(NoteDecide503(g, jitter)) = Held(g)
         /\ NoteDecide503(g, jitter).slots = g.slots
<1>1. CASE ~g.pauseOpen \/ g.pauseLeft = 0
  BY <1>1, OpenPauseWindowOK DEF NoteDecide503, SameCalls
<1>2. CASE ~(~g.pauseOpen \/ g.pauseLeft = 0)
  <2> DEFINE h == [g EXCEPT !.probeOutstanding = FALSE]
  <2>1. NoteDecide503(g, jitter) = h
    BY <1>2 DEF NoteDecide503
  <2>2. h \in Gate /\ SameCalls(g, h) /\ h.pauseOpen
    BY <1>2 DEF GateOK, Gate, SameCalls
  <2>3. GateOK(h) /\ Held(h) = Held(g)
    BY <2>2, SameCallsOK
  <2> QED BY <2>1, <2>2, <2>3 DEF SameCalls
<1> QED BY <1>1, <1>2

\* Closing the episode and handing the slot back: the only probe there can be
\* is the call that succeeded, so none is left over a closed pause.
LEMMA ReleaseServedOK ==
  ASSUME NEW g, GateOK(g), NEW c \in g.slots
  PROVE  /\ GateOK(ReleaseSlot(NoteDecideSucceeded(g), c))
         /\ Held(ReleaseSlot(NoteDecideSucceeded(g), c)) = Held(g) \ {c}
<1> DEFINE r == ReleaseSlot(g, c)
           h == ReleaseSlot(NoteDecideSucceeded(g), c)
<1>1. GateOK(r) /\ Held(r) = Held(g) \ {c} /\ r.probes = {}
  BY ReleaseSlotOK, ReleaseEndsProbe
<1>2. CASE ~g.pauseOpen
  BY <1>1, <1>2 DEF NoteDecideSucceeded
<1>3. CASE g.pauseOpen
  <2>1. g \in Gate /\ r \in Gate
    BY <1>1 DEF GateOK
  <2>2. SameCalls(r, h)
    BY <1>3, <2>1 DEF NoteDecideSucceeded, ReleaseSlot, Gate, SameCalls
  <2>3. NoteDecideSucceeded(g) \in Gate
    <3>1. 0 \in TimeLeft /\ 0 \in 0..MaxWindow
      BY GateAssumption DEF TimeLeft
    <3> QED BY <1>3, <2>1, <3>1 DEF NoteDecideSucceeded, Gate
  <2>4. /\ h.queue \in Seq(Calls) /\ h.slots \in SUBSET Calls
        /\ h.probes \in SUBSET Calls /\ h.inFlight \in Nat
    BY <2>1, <2>2 DEF Gate, SameCalls
  <2>5. h \in Gate
    BY <2>3, <2>4 DEF ReleaseSlot, Gate
  <2> HIDE DEF r, h
  <2> QED BY <1>1, <2>2, <2>5, SameCallsOK DEF h
<1> QED BY <1>2, <1>3

\* Granting the first n waiters, as many as there is room for.
LEMMA GrantFirstOK ==
  ASSUME NEW g, GateOK(g), ~g.pauseOpen,
         NEW n \in 0..Len(g.queue), n = 0 \/ g.inFlight + n <= g.effective
  PROVE  GateOK(GrantFirst(g, n)) /\ Held(GrantFirst(g, n)) = Held(g)
<1> DEFINE first == SubSeq(g.queue, 1, n)
           rest == SubSeq(g.queue, n + 1, Len(g.queue))
           h == GrantFirst(g, n)
<1>g. /\ g \in Gate /\ g.queue \in Seq(Calls) /\ Distinct(g.queue)
      /\ Len(g.queue) \in Nat /\ g.slots \in SUBSET Calls /\ g.inFlight \in Nat
      /\ g.effective \in Nat /\ g.effective <= Funded
  BY GateFields DEF GateOK
<1>n. n \in Nat
  BY <1>g
<1>1. /\ rest \in Seq(Calls) /\ Distinct(rest) /\ ToSet(first) \subseteq Calls
      /\ ToSet(first) \cap ToSet(rest) = {}
      /\ ToSet(first) \cup ToSet(rest) = Queued(g)
      /\ IsFiniteSet(ToSet(first)) /\ Cardinality(ToSet(first)) = n
  BY <1>g, SplitDistinct DEF Queued
<1> HIDE DEF first, rest
<1>2. /\ h \in Gate
      /\ h.queue = rest /\ h.slots = g.slots \cup ToSet(first)
      /\ h.inFlight = g.inFlight + n
      /\ h.probes = g.probes /\ h.pauseOpen = g.pauseOpen
  <2>1. g.slots \cup ToSet(first) \in SUBSET Calls /\ g.inFlight + n \in Nat
    BY <1>g, <1>n, <1>1
  <2> QED BY <1>g, <1>1, <2>1 DEF GrantFirst, Gate, first, rest
<1> HIDE DEF h
<1>3. h.inFlight = Cardinality(h.slots)
  <2>1. IsFiniteSet(g.slots) /\ Cardinality(g.slots) = g.inFlight
    BY <1>g, SlotsFinite DEF GateOK
  <2>2. g.slots \cap ToSet(first) = {}
    BY <1>1 DEF GateOK
  <2>3. Cardinality(g.slots \cup ToSet(first))
          = Cardinality(g.slots) + Cardinality(ToSet(first)) - Cardinality({})
    BY <2>1, <2>2, <1>1, FS_Union
  <2> QED BY <2>1, <2>3, <1>1, <1>2, <1>g, <1>n, FS_EmptySet
<1>4. h.inFlight <= Funded
  BY <1>2, <1>g, <1>n, GateAssumption DEF GateOK
<1>5. h.probes = {}
  BY <1>2 DEF GateOK
<1>6. Queued(h) \cap h.slots = {}
  BY <1>1, <1>2 DEF Queued, GateOK
<1>7. Held(h) = Held(g)
  BY <1>1, <1>2 DEF Held, Queued
<1> QED BY <1>1, <1>2, <1>3, <1>4, <1>5, <1>6, <1>7 DEF GateOK, h

\* Granting the probe, when nothing is in flight.
LEMMA GrantProbeOK ==
  ASSUME NEW g, GateOK(g), g.pauseOpen, g.inFlight = 0, g.queue # <<>>
  PROVE  GateOK(GrantProbe(g)) /\ Held(GrantProbe(g)) = Held(g)
<1> DEFINE first == SubSeq(g.queue, 1, 1)
           rest == SubSeq(g.queue, 2, Len(g.queue))
           c == Head(g.queue)
           h == GrantProbe(g)
<1>g. /\ g \in Gate /\ g.queue \in Seq(Calls) /\ Distinct(g.queue)
      /\ Len(g.queue) \in Nat /\ g.slots \in SUBSET Calls
  BY GateFields DEF GateOK
<1>n. Len(g.queue) >= 1
  BY <1>g, EmptySeq
<1>1. /\ rest \in Seq(Calls) /\ Distinct(rest)
      /\ ToSet(first) \cap ToSet(rest) = {}
      /\ ToSet(first) \cup ToSet(rest) = Queued(g)
  <2>1. 1 \in 0..Len(g.queue) /\ 1 + 1 = 2
    BY <1>g, <1>n
  <2> QED BY <1>g, <2>1, SplitDistinct DEF Queued
<1>2. ToSet(first) = {c} /\ c \in Calls
  <2>1. \A i \in 1..1 : g.queue[i] \in Calls
    BY <1>g, <1>n, ElementOfSeq
  <2>2. first \in Seq(Calls) /\ Len(first) = 1 /\ first[1] = g.queue[1]
    <3>1. /\ first \in Seq(Calls)
          /\ Len(first) = IF 1 <= 1 THEN 1 - 1 + 1 ELSE 0
          /\ \A i \in 1..(1 - 1 + 1) : first[i] = g.queue[1 + i - 1]
      BY <2>1, SubSeqProperties
    <3> HIDE DEF first
    <3> QED BY <3>1
  <2> HIDE DEF first
  <2>3. DOMAIN first = 1..1
    BY <2>2, LenProperties
  <2>4. c = g.queue[1]
    BY <1>g, <1>n
  <2> QED BY <2>1, <2>2, <2>3, <2>4 DEF ToSet
<1>3. Tail(g.queue) = rest
  BY <1>g, TailIsSubSeq
<1> HIDE DEF first, rest, c
<1>4. g.slots = {} /\ g.probes = {}
  <2>1. IsFiniteSet(g.slots) /\ Cardinality(g.slots) = 0
    BY <1>g, SlotsFinite DEF GateOK
  <2> QED BY <2>1, FS_EmptySet DEF GateOK
<1>5. /\ h \in Gate
      /\ h.queue = rest /\ h.slots = {c} /\ h.probes = {c}
      /\ h.inFlight = 1 /\ h.pauseOpen = g.pauseOpen
  <2>1. {c} \in SUBSET Calls
    BY <1>2
  <2>2. h = [g EXCEPT !.slots = g.slots \cup {c}, !.probes = g.probes \cup {c},
                      !.inFlight = g.inFlight + 1, !.probeOutstanding = TRUE,
                      !.queue = rest]
    BY <1>3 DEF GrantProbe, c
  <2>3. /\ g.slots \cup {c} = {c} /\ g.probes \cup {c} = {c} /\ g.inFlight + 1 = 1
    BY <1>4
  <2>4. /\ g.slots \cup {c} \in SUBSET Calls /\ g.probes \cup {c} \in SUBSET Calls
        /\ g.inFlight + 1 \in Nat
    BY <2>1, <2>3
  <2> HIDE DEF h
  <2>5. h \in Gate
    BY <1>g, <1>1, <2>2, <2>4 DEF Gate
  <2>6. /\ h.queue = rest /\ h.slots = g.slots \cup {c} /\ h.probes = g.probes \cup {c}
        /\ h.inFlight = g.inFlight + 1 /\ h.pauseOpen = g.pauseOpen
    BY <1>g, <2>2 DEF Gate
  <2> QED BY <2>3, <2>5, <2>6
<1> HIDE DEF h
<1>6. Cardinality({c}) = 1
  BY FS_Singleton
<1>7. Held(h) = Held(g) /\ Queued(h) \cap h.slots = {}
  BY <1>1, <1>2, <1>4, <1>5 DEF Held, Queued
<1> QED BY <1>1, <1>5, <1>6, <1>7, GateAssumption DEF GateOK, h

\* Pumping the queue keeps the gate and moves calls only from the queue into
\* slots.
LEMMA PumpOK ==
  ASSUME NEW g, GateOK(g)
  PROVE  GateOK(Pump(g)) /\ Held(Pump(g)) = Held(g)
<1>g. /\ g \in Gate /\ g.pauseLeft \in Nat /\ g.inFlight \in Nat /\ g.effective \in Nat
      /\ Len(g.queue) \in Nat /\ g.pumpTimer \in Nat \cup {NoTimer} /\ g.pauseOpen \in BOOLEAN
  BY GateFields DEF GateOK
<1>1. \A t \in Nat \cup {NoTimer} :
        LET h == [g EXCEPT !.pumpTimer = t] IN GateOK(h) /\ Held(h) = Held(g)
  <2> TAKE t \in Nat \cup {NoTimer}
  <2> DEFINE h == [g EXCEPT !.pumpTimer = t]
  <2>1. h \in Gate /\ SameCalls(g, h) /\ h.pauseOpen = g.pauseOpen
    BY <1>g DEF Gate, SameCalls, TimeLeft
  <2>2. g.probes # {} => h.pauseOpen
    BY <2>1 DEF GateOK
  <2> HIDE DEF h
  <2>3. GateOK(h) /\ Held(h) = Held(g)
    BY <2>1, <2>2, SameCallsOK
  <2> QED BY <2>3 DEF h
<1>2. CASE g.queue = <<>>
  BY <1>1, <1>2 DEF Pump
<1>3. CASE g.queue # <<>> /\ g.pauseLeft > 0
  BY <1>1, <1>3, <1>g DEF Pump
<1>4. CASE g.queue # <<>> /\ g.pauseLeft = 0 /\ g.pauseOpen
  <2>1. CASE g.probeOutstanding \/ g.inFlight > 0
    BY <1>4, <2>1 DEF Pump
  <2>2. CASE ~(g.probeOutstanding \/ g.inFlight > 0)
    BY <1>4, <2>2, <1>g, GrantProbeOK DEF Pump
  <2> QED BY <2>1, <2>2
<1>5. CASE g.queue # <<>> /\ g.pauseLeft = 0 /\ ~g.pauseOpen
  <2>1. Pump(g) = GrantFirst(g, Room(g))
    BY <1>5 DEF Pump
  <2>2. Room(g) \in 0..Len(g.queue)
    BY <1>g DEF Room, Lesser, Greater
  <2>3. Room(g) = 0 \/ g.inFlight + Room(g) <= g.effective
    BY <1>g DEF Room, Lesser, Greater
  <2> QED BY <1>5, <2>1, <2>2, <2>3, GrantFirstOK
<1> QED BY <1>2, <1>3, <1>4, <1>5, <1>g

\* Releasing a slot and pumping.
LEMMA ReleaseOK ==
  ASSUME NEW g, GateOK(g), NEW c \in g.slots
  PROVE  GateOK(Release(g, c)) /\ Held(Release(g, c)) = Held(g) \ {c}
BY ReleaseSlotOK, PumpOK DEF Release

\* Asking for a slot puts the call in the gate, in flight or queued.
LEMMA AcquireOK ==
  ASSUME NEW g, GateOK(g), NEW seqOf, NEW c \in Calls, c \notin Held(g)
  PROVE  GateOK(Acquire(g, seqOf, c)) /\ Held(Acquire(g, seqOf, c)) = Held(g) \cup {c}
<1>1. CASE FastPath(g)
  BY <1>1, TakeSlotOK DEF Acquire
<1>2. CASE ~FastPath(g)
  <2>1. GateOK(Enqueue(g, seqOf, c)) /\ Held(Enqueue(g, seqOf, c)) = Held(g) \cup {c}
    BY EnqueueOK
  <2> QED BY <1>2, <2>1, PumpOK DEF Acquire
<1> QED BY <1>1, <1>2

\* A new ceiling never takes a slot away: those in flight stay, whatever the
\* fleet advertises.
LEMMA CeilingOK ==
  ASSUME NEW g, GateOK(g), NEW ceiling \in 1..Funded
  PROVE  LET h == [g EXCEPT !.effective = ceiling]
         IN  GateOK(h) /\ Held(h) = Held(g)
<1> DEFINE h == [g EXCEPT !.effective = ceiling]
<1>1. h \in Gate /\ SameCalls(g, h) /\ h.pauseOpen = g.pauseOpen
  BY DEF GateOK, Gate, SameCalls
<1>2. g.probes # {} => h.pauseOpen
  BY <1>1 DEF GateOK
<1> HIDE DEF h
<1>3. GateOK(h) /\ Held(h) = Held(g)
  BY <1>1, <1>2, SameCallsOK
<1> QED BY <1>3 DEF h

\* The ceilings a refresh may install lie between one and the funded ceiling.
LEMMA CeilingType ==
  ASSUME NEW ceiling \in {Clamp(n) : n \in Advertised} \cup {gate.effective}, gate \in Gate
  PROVE  ceiling \in 1..Funded
BY GateAssumption DEF Clamp, Lesser, Greater, Gate

\* Recomputing the capacity changes the ceiling and may pump.
LEMMA RecomputeOK ==
  ASSUME NEW g, GateOK(g), NEW ceiling \in 1..Funded, Recompute(g, ceiling)
  PROVE  GateOK(gate') /\ Held(gate') = Held(g)
<1>1. LET h == [g EXCEPT !.effective = ceiling]
      IN  GateOK(h) /\ Held(h) = Held(g)
  BY CeilingOK
<1> QED BY <1>1, PumpOK DEF Recompute

-----------------------------------------------------------------------------
(***************************************************************************)
(* The inductive invariant.  Slot accounting alone is not inductive: a     *)
(* grant must be known to go to a call that is not in flight yet, hence    *)
(* the queue has no duplicate and is disjoint from the slots, and a call   *)
(* that asks for a slot is nowhere in the gate, hence the correspondence   *)
(* with the calls' own status.                                             *)
(***************************************************************************)
IInv ==
  /\ TypeOK
  /\ GateOK(gate)
  /\ \A c \in Calls : call[c].status = "admitting" <=> c \in Held(gate)

\* The step leaves every call but c alone and puts c in the given record.
OnlyCall(c, rec) == call' = [call EXCEPT ![c] = rec]

\* What a handler of one call must show: where the gate puts the call agrees
\* with the status it is left in.
LEMMA HandlerStep ==
  ASSUME IInv, NEW c \in Calls, NEW rec \in Call, OnlyCall(c, rec), GateOK(gate'),
         \/ rec.status = "admitting" /\ Held(gate') = Held(gate) \cup {c}
         \/ rec.status # "admitting" /\ Held(gate') = Held(gate) \ {c},
         nextSeq' \in Nat, capacity' \in Capacity, dropped' \in Nat,
         baseline' = baseline, begun' = begun
  PROVE  IInv'
<1>1. call' \in [Calls -> Call]
  BY DEF IInv, TypeOK, OnlyCall
<1>2. gate' \in Gate
  BY DEF GateOK
<1>3. TypeOK'
  BY <1>1, <1>2 DEF IInv, TypeOK
<1>4. ASSUME NEW d \in Calls
      PROVE  call'[d].status = "admitting" <=> d \in Held(gate')
  <2>1. CASE d = c
    BY <2>1 DEF IInv, TypeOK, OnlyCall
  <2>2. CASE d # c
    <3>1. call'[d] = call[d]
      BY <2>2 DEF IInv, TypeOK, OnlyCall
    <3>2. d \in Held(gate') <=> d \in Held(gate)
      BY <2>2
    <3> QED BY <3>1, <3>2 DEF IInv
  <2> QED BY <2>1, <2>2
<1> QED BY <1>3, <1>4 DEF IInv

\* A step that leaves the calls' status and places alone.
LEMMA QuietStep ==
  ASSUME IInv, GateOK(gate'), Held(gate') = Held(gate),
         call' \in [Calls -> Call], \A c \in Calls : call'[c].status = call[c].status,
         nextSeq' = nextSeq, capacity' \in Capacity, dropped' = dropped,
         baseline' \in Nat, begun' \in [Jobs -> Nat \cup {NotBegun}]
  PROVE  IInv'
<1>1. gate' \in Gate
  BY DEF GateOK
<1> QED BY <1>1 DEF IInv, TypeOK

\* The fields of a call and of the capacity, one by one.
LEMMA LocalFields ==
  ASSUME TypeOK, NEW c \in Calls
  PROVE  /\ call[c] \in Call /\ call[c].attempt \in 0..(MaxAttempts - 1)
         /\ call[c].seq \in Nat /\ call[c].deadline \in Nat /\ call[c].backoff \in Nat
BY DEF TypeOK, Call, TimeLeft

\* Starting a capacity refresh keeps its types.
LEMMA StartRefreshType ==
  ASSUME TypeOK
  PROVE  StartRefresh \in Capacity
BY GateAssumption DEF TypeOK, StartRefresh, Capacity, TimeLeft

\* So does the refresh that the decide path asks for.
LEMMA RefreshType ==
  ASSUME TypeOK, RefreshIfDue
  PROVE  capacity' \in Capacity
BY StartRefreshType DEF RefreshIfDue, TypeOK

\* Ending a call leaves a well-typed record whose status is not admitting.
LEMMA EndRecord ==
  ASSUME TypeOK, NEW c \in Calls, NEW status \in Ended, End(c, status)
  PROVE  \E rec \in Call : OnlyCall(c, rec) /\ rec.status # "admitting"
<1> DEFINE rec == [call[c] EXCEPT !.status = status, !.deadline = 0, !.backoff = 0]
<1>1. rec \in Call /\ rec.status = status
  BY LocalFields DEF Call, TimeLeft
<1>2. OnlyCall(c, rec)
  BY DEF End, OnlyCall, TypeOK
<1>3. status # "admitting"
  BY DEF Ended
<1> QED BY <1>1, <1>2, <1>3

\* The length of a jitter is a number.
LEMMA JitterType ==
  ASSUME NEW g \in Gate, NEW jitter \in Jitter(g)
  PROVE  jitter \in Nat
BY DEF Jitter

\* A fresh client has an empty gate and no call under way.
LEMMA InitIInv == Init => IInv
<1> SUFFICES ASSUME Init PROVE IInv
  OBVIOUS
<1>1. gate \in Gate
  <2>1. <<>> \in Seq(Calls) /\ {} \in SUBSET Calls /\ 0 \in 0..MaxWindow /\ Funded \in 1..Funded
    BY GateAssumption
  <2> QED BY <2>1 DEF Init, Gate, TimeLeft, NoTimer
<1>2. TypeOK
  <2>1. 0 \in 0..(MaxAttempts - 1) /\ 0 \in 0..2
    BY GateAssumption
  <2> QED BY <1>1, <2>1 DEF Init, TypeOK, Call, Capacity, TimeLeft, NotBegun
<1>3. /\ gate.queue = <<>> /\ gate.slots = {} /\ gate.probes = {} /\ gate.inFlight = 0
  BY DEF Init
<1>4. Distinct(gate.queue) /\ Queued(gate) = {}
  BY <1>3 DEF Distinct, Queued, ToSet
<1>5. GateOK(gate)
  BY <1>1, <1>3, <1>4, GateAssumption, FS_EmptySet DEF GateOK
<1>6. \A c \in Calls : call[c].status # "admitting"
  BY DEF Init
<1> QED BY <1>2, <1>3, <1>4, <1>5, <1>6 DEF IInv, Held

\* A call that is made enters the gate, on the fast path or queued.
LEMMA StartStep ==
  ASSUME IInv, NEW c \in Calls, Start(c)
  PROVE  IInv'
<1> DEFINE rec == [call[c] EXCEPT !.status = "admitting", !.seq = nextSeq, !.deadline = MaxWait]
<1>t. TypeOK /\ GateOK(gate) /\ nextSeq \in Nat
  BY DEF IInv, TypeOK
<1>1. c \notin Held(gate)
  BY DEF IInv, Start
<1>2. GateOK(gate') /\ Held(gate') = Held(gate) \cup {c}
  BY <1>t, <1>1, AcquireOK DEF Start
<1>3. rec \in Call /\ rec.status = "admitting"
  BY <1>t, LocalFields, GateAssumption DEF Call, TimeLeft
<1>4. OnlyCall(c, rec)
  BY DEF Start, OnlyCall
<1>5. capacity' \in Capacity
  BY <1>t, RefreshType DEF Start
<1>6. nextSeq' \in Nat /\ dropped' \in Nat /\ baseline' = baseline /\ begun' = begun
  BY <1>t DEF Start, TypeOK
<1> HIDE DEF rec
<1> QED BY <1>2, <1>3, <1>4, <1>5, <1>6, HandlerStep

\* An answered call leaves the gate, and closes the pause.
LEMMA ServedStep ==
  ASSUME IInv, NEW c \in Calls, Served(c)
  PROVE  IInv'
<1>t. TypeOK /\ GateOK(gate) /\ c \in gate.slots
  BY DEF IInv, Served
<1>1. GateOK(gate') /\ Held(gate') = Held(gate) \ {c}
  BY <1>t, ReleaseServedOK, PumpOK DEF Served, Release
<1>2. PICK rec \in Call : OnlyCall(c, rec) /\ rec.status # "admitting"
  <2>1. End(c, "served") /\ "served" \in Ended
    BY DEF Served, Ended
  <2> QED BY <1>t, <2>1, EndRecord
<1>3. /\ nextSeq' \in Nat /\ capacity' \in Capacity /\ dropped' \in Nat
      /\ baseline' = baseline /\ begun' = begun
  BY <1>t DEF Served, TypeOK
<1> QED BY <1>1, <1>2, <1>3, HandlerStep

\* A challenged or failed call leaves the gate.
LEMMA ThrownStep ==
  ASSUME IInv, NEW c \in Calls, Thrown(c)
  PROVE  IInv'
<1>t. TypeOK /\ GateOK(gate) /\ c \in gate.slots
  BY DEF IInv, Thrown
<1>1. GateOK(gate') /\ Held(gate') = Held(gate) \ {c}
  BY <1>t, ReleaseOK DEF Thrown
<1>2. PICK rec \in Call : OnlyCall(c, rec) /\ rec.status # "admitting"
  <2>1. PICK outcome \in {"challenged", "error"} : End(c, outcome)
    BY DEF Thrown
  <2>2. outcome \in Ended
    BY DEF Ended
  <2> QED BY <1>t, <2>1, <2>2, EndRecord
<1>3. /\ nextSeq' \in Nat /\ capacity' \in Capacity /\ dropped' \in Nat
      /\ baseline' = baseline /\ begun' = begun
  BY <1>t DEF Thrown, TypeOK
<1> QED BY <1>1, <1>2, <1>3, HandlerStep

\* A 503 gives the slot back and the call asks for the next one at once.
LEMMA NoCapacityRetryStep ==
  ASSUME IInv, NEW c \in Calls, NoCapacityRetry(c)
  PROVE  IInv'
<1> DEFINE rec == [call[c] EXCEPT !.attempt = call[c].attempt + 1]
<1>t. TypeOK /\ GateOK(gate) /\ gate \in Gate /\ c \in gate.slots
  BY DEF IInv, GateOK, NoCapacityRetry
<1>1. GateOK(gate') /\ Held(gate') = Held(gate) \cup {c}
  <2>1. PICK jitter \in Jitter(gate) :
          gate' = Acquire(Release(NoteDecide503(gate, jitter), c), CallSeq, c)
    BY DEF NoCapacityRetry
  <2> DEFINE g1 == NoteDecide503(gate, jitter)
             g2 == Release(g1, c)
  <2>2. jitter \in Nat
    BY <1>t, JitterType
  <2>3. GateOK(g1) /\ Held(g1) = Held(gate) /\ c \in g1.slots
    BY <1>t, <2>2, NoteDecide503OK
  <2> HIDE DEF g1
  <2>4. GateOK(g2) /\ Held(g2) = Held(g1) \ {c}
    BY <2>3, ReleaseOK
  <2> HIDE DEF g2
  <2>5. gate' = Acquire(g2, CallSeq, c)
    BY <2>1 DEF g1, g2
  <2>6. GateOK(gate') /\ Held(gate') = Held(g2) \cup {c}
    BY <2>4, <2>5, AcquireOK
  <2> QED BY <2>3, <2>4, <2>6
<1>2. c \in Held(gate)
  BY <1>t DEF Held
<1>3. rec \in Call /\ rec.status = "admitting"
  <2>1. call[c].attempt + 1 \in 0..(MaxAttempts - 1)
    BY <1>t, LocalFields, GateAssumption DEF NoCapacityRetry, LastAttempt
  <2>2. call[c].status = "admitting"
    BY <1>2 DEF IInv
  <2> QED BY <1>t, <2>1, <2>2, LocalFields DEF Call
<1>4. OnlyCall(c, rec)
  BY <1>t DEF NoCapacityRetry, OnlyCall, TypeOK, Call
<1>5. capacity' \in Capacity
  BY <1>t, RefreshType DEF NoCapacityRetry
<1>6. nextSeq' \in Nat /\ dropped' \in Nat /\ baseline' = baseline /\ begun' = begun
  BY <1>t DEF NoCapacityRetry, TypeOK
<1> HIDE DEF rec
<1> QED BY <1>1, <1>2, <1>3, <1>4, <1>5, <1>6, HandlerStep

\* A 503 on the last attempt takes the call out of the gate.
LEMMA NoCapacityGiveUpStep ==
  ASSUME IInv, NEW c \in Calls, NoCapacityGiveUp(c)
  PROVE  IInv'
<1>t. TypeOK /\ GateOK(gate) /\ gate \in Gate /\ c \in gate.slots
  BY DEF IInv, GateOK, NoCapacityGiveUp
<1>1. GateOK(gate') /\ Held(gate') = Held(gate) \ {c}
  <2>1. PICK jitter \in Jitter(gate) : gate' = Release(NoteDecide503(gate, jitter), c)
    BY DEF NoCapacityGiveUp
  <2>2. jitter \in Nat
    BY <1>t, JitterType
  <2> QED BY <1>t, <2>1, <2>2, NoteDecide503OK, ReleaseOK
<1>2. PICK rec \in Call : OnlyCall(c, rec) /\ rec.status # "admitting"
  <2>1. End(c, "dropped") /\ "dropped" \in Ended
    BY DEF NoCapacityGiveUp, Ended
  <2> QED BY <1>t, <2>1, EndRecord
<1>3. /\ nextSeq' \in Nat /\ capacity' \in Capacity /\ dropped' \in Nat
      /\ baseline' = baseline /\ begun' = begun
  BY <1>t DEF NoCapacityGiveUp, TypeOK
<1> QED BY <1>1, <1>2, <1>3, HandlerStep

\* A 404 takes the call out of the gate, for its backoff or for good.
LEMMA NotFoundStep ==
  ASSUME IInv, NEW c \in Calls, NotFound(c)
  PROVE  IInv'
<1>t. TypeOK /\ GateOK(gate) /\ c \in gate.slots
  BY DEF IInv, NotFound
<1>1. GateOK(gate') /\ Held(gate') = Held(gate) \ {c}
  BY <1>t, ReleaseOK DEF NotFound
<1>2. PICK rec \in Call : OnlyCall(c, rec) /\ rec.status # "admitting"
  <2>1. CASE LastAttempt(c)
    <3>1. End(c, "error") /\ "error" \in Ended
      BY <2>1 DEF NotFound, Ended
    <3> QED BY <1>t, <3>1, EndRecord
  <2>2. CASE ~LastAttempt(c)
    <3> DEFINE r == [call[c] EXCEPT !.status = "backoff", !.attempt = call[c].attempt + 1,
                                    !.backoff = Backoff(call[c].attempt)]
    <3>1. call[c].attempt + 1 \in 0..(MaxAttempts - 1)
      BY <1>t, <2>2, LocalFields, GateAssumption DEF LastAttempt
    <3>2. Backoff(call[c].attempt) \in Nat
      <4>1. call[c].attempt \in 0..(MaxWindow + MaxAttempts)
        BY <1>t, LocalFields, GateAssumption
      <4> QED BY <4>1, BackoffType
    <3>3. r \in Call /\ r.status = "backoff"
      BY <1>t, <3>1, <3>2, LocalFields DEF Call, TimeLeft
    <3>4. OnlyCall(c, r)
      <4>1. call' = [call EXCEPT ![c] = [call[c] EXCEPT
                       !.status = "backoff", !.attempt = call[c].attempt + 1,
                       !.backoff = Backoff(call[c].attempt)]]
        BY <1>t, <2>2 DEF NotFound, TypeOK, Call
      <4> QED BY <4>1 DEF OnlyCall
    <3> HIDE DEF r
    <3> QED BY <3>3, <3>4
  <2> QED BY <2>1, <2>2
<1>3. /\ nextSeq' \in Nat /\ capacity' \in Capacity /\ dropped' \in Nat
      /\ baseline' = baseline /\ begun' = begun
  BY <1>t DEF NotFound, TypeOK
<1> QED BY <1>1, <1>2, <1>3, HandlerStep

\* After its backoff the call enters the gate again.
LEMMA RetryNotFoundStep ==
  ASSUME IInv, NEW c \in Calls, RetryNotFound(c)
  PROVE  IInv'
<1> DEFINE rec == [call[c] EXCEPT !.status = "admitting"]
<1>t. TypeOK /\ GateOK(gate)
  BY DEF IInv
<1>1. c \notin Held(gate)
  BY DEF IInv, RetryNotFound
<1>2. GateOK(gate') /\ Held(gate') = Held(gate) \cup {c}
  BY <1>t, <1>1, AcquireOK DEF RetryNotFound
<1>3. rec \in Call /\ rec.status = "admitting"
  BY <1>t, LocalFields DEF Call
<1>4. OnlyCall(c, rec)
  BY <1>t DEF RetryNotFound, OnlyCall, TypeOK, Call
<1>5. capacity' \in Capacity
  BY <1>t, RefreshType DEF RetryNotFound
<1>6. nextSeq' \in Nat /\ dropped' \in Nat /\ baseline' = baseline /\ begun' = begun
  BY <1>t DEF RetryNotFound, TypeOK
<1> HIDE DEF rec
<1> QED BY <1>2, <1>3, <1>4, <1>5, <1>6, HandlerStep

\* An expired waiter leaves the gate.
LEMMA QueueTimeoutStep ==
  ASSUME IInv, NEW c \in Calls, QueueTimeout(c)
  PROVE  IInv'
<1>t. TypeOK /\ GateOK(gate) /\ c \in Queued(gate)
  BY DEF IInv, QueueTimeout
<1>1. GateOK(gate') /\ Held(gate') = Held(gate) \ {c}
  BY <1>t, WithdrawOK, PumpOK DEF QueueTimeout
<1>2. PICK rec \in Call : OnlyCall(c, rec) /\ rec.status # "admitting"
  <2>1. End(c, "dropped") /\ "dropped" \in Ended
    BY DEF QueueTimeout, Ended
  <2> QED BY <1>t, <2>1, EndRecord
<1>3. /\ nextSeq' \in Nat /\ capacity' \in Capacity /\ dropped' \in Nat
      /\ baseline' = baseline /\ begun' = begun
  BY <1>t DEF QueueTimeout, TypeOK
<1> QED BY <1>1, <1>2, <1>3, HandlerStep

\* Announcing a job touches neither the gate nor the calls.
LEMMA BeginDecideJobStep ==
  ASSUME IInv, NEW j \in Jobs, BeginDecideJob(j)
  PROVE  IInv'
<1>t. TypeOK /\ GateOK(gate)
  BY DEF IInv
<1>1. gate' = gate /\ call' = call /\ nextSeq' = nextSeq /\ dropped' = dropped
  BY DEF BeginDecideJob
<1>2. GateOK(gate') /\ Held(gate') = Held(gate)
  BY <1>t, <1>1
<1>3. call' \in [Calls -> Call] /\ \A c \in Calls : call'[c].status = call[c].status
  BY <1>t, <1>1 DEF TypeOK
<1>4. capacity' \in Capacity
  BY <1>t, StartRefreshType DEF BeginDecideJob, TypeOK
<1>5. baseline' \in Nat /\ begun' \in [Jobs -> Nat \cup {NotBegun}]
  BY <1>t DEF BeginDecideJob, TypeOK
<1> QED BY <1>1, <1>2, <1>3, <1>4, <1>5, QuietStep

\* The wake-up pumps the queue.
LEMMA PumpTimerStep ==
  ASSUME IInv, PumpTimerFires
  PROVE  IInv'
<1> DEFINE g == [gate EXCEPT !.pumpTimer = NoTimer]
<1>t. TypeOK /\ GateOK(gate) /\ gate \in Gate
  BY DEF IInv, GateOK
<1>1. g \in Gate /\ SameCalls(gate, g) /\ g.pauseOpen = gate.pauseOpen
  BY <1>t DEF Gate, SameCalls
<1>2. gate.probes # {} => g.pauseOpen
  BY <1>t, <1>1 DEF GateOK
<1> HIDE DEF g
<1>3. GateOK(g) /\ Held(g) = Held(gate)
  BY <1>t, <1>1, <1>2, SameCallsOK
<1>4. gate' = Pump(g)
  BY DEF PumpTimerFires, g
<1>5. GateOK(gate') /\ Held(gate') = Held(gate)
  BY <1>3, <1>4, PumpOK
<1>6. /\ call' = call /\ nextSeq' = nextSeq /\ dropped' = dropped
      /\ capacity' = capacity /\ baseline' = baseline /\ begun' = begun
  BY DEF PumpTimerFires
<1> QED BY <1>t, <1>5, <1>6, QuietStep DEF TypeOK

\* The end of a refresh, however it ends, changes only the ceiling, the pause
\* and who of the waiting is granted.
LEMMA RefreshEndsStep ==
  ASSUME IInv, RefreshEnds
  PROVE  IInv'
<1>t. TypeOK /\ GateOK(gate) /\ gate \in Gate /\ gate.effective \in 1..Funded
  BY DEF IInv, GateOK, Gate
<1>1. GateOK(gate') /\ Held(gate') = Held(gate)
  <2>1. CASE CapacityAnswered
    <3>1. PICK ceiling \in {Clamp(n) : n \in Advertised} \cup {gate.effective} :
            Recompute(gate, ceiling)
      BY <2>1 DEF CapacityAnswered
    <3>2. ceiling \in 1..Funded
      BY <1>t, CeilingType
    <3> QED BY <1>t, <3>1, <3>2, RecomputeOK
  <2>2. CASE CapacityStalled
    <3>1. PICK ceiling \in {Clamp(n) : n \in Advertised} \cup {gate.effective} :
            IF capacity.stallStreak >= 1
            THEN \E jitter \in Jitter(gate) :
                   Recompute(OpenPauseWindow(gate, jitter), ceiling)
            ELSE Recompute(gate, ceiling)
      BY <2>2 DEF CapacityStalled
    <3>2. ceiling \in 1..Funded
      BY <1>t, CeilingType
    <3>3. CASE capacity.stallStreak >= 1
      <4>1. PICK jitter \in Jitter(gate) :
              Recompute(OpenPauseWindow(gate, jitter), ceiling)
        BY <3>1, <3>3
      <4>2. /\ GateOK(OpenPauseWindow(gate, jitter))
            /\ Held(OpenPauseWindow(gate, jitter)) = Held(gate)
        BY <1>t, JitterType, OpenPauseWindowOK
      <4> DEFINE g == OpenPauseWindow(gate, jitter)
      <4>3. Recompute(g, ceiling) /\ GateOK(g) /\ Held(g) = Held(gate)
        BY <4>1, <4>2
      <4> HIDE DEF g
      <4> QED BY <3>2, <4>3, RecomputeOK
    <3>4. CASE ~(capacity.stallStreak >= 1)
      BY <1>t, <3>1, <3>2, <3>4, RecomputeOK
    <3> QED BY <3>3, <3>4
  <2>3. CASE CapacityFailed
    BY <1>t, <2>3, RecomputeOK DEF CapacityFailed
  <2> QED BY <2>1, <2>2, <2>3 DEF RefreshEnds
<1>2. capacity' \in Capacity
  <2>1. capacity \in Capacity /\ capacity.stallStreak \in 0..2
    BY <1>t DEF TypeOK, Capacity
  <2>2. Lesser(capacity.stallStreak + 1, 2) \in 0..2
    BY <2>1 DEF Lesser
  <2>3. CASE CapacityAnswered
    <3>1. capacity' = [capacity EXCEPT !.probing = FALSE, !.stallStreak = 0]
      BY <2>3 DEF CapacityAnswered
    <3>2. capacity.refresh \in TimeLeft /\ 0 \in 0..2
      BY <2>1 DEF Capacity
    <3>3. capacity' = [probing |-> FALSE, refresh |-> capacity.refresh, stallStreak |-> 0]
      BY <2>1, <3>1 DEF Capacity
    <3> QED BY <3>2, <3>3 DEF Capacity
  <2>4. CASE CapacityStalled
    <3>1. capacity' = [capacity EXCEPT !.probing = FALSE,
                                       !.stallStreak = Lesser(capacity.stallStreak + 1, 2)]
      BY <2>4 DEF CapacityStalled
    <3> QED BY <2>1, <2>2, <3>1 DEF Capacity
  <2>5. CASE CapacityFailed
    BY <2>1, <2>5 DEF CapacityFailed, Capacity
  <2> QED BY <2>3, <2>4, <2>5 DEF RefreshEnds
<1>3. /\ call' = call /\ nextSeq' = nextSeq /\ dropped' = dropped
      /\ baseline' = baseline /\ begun' = begun
  BY DEF RefreshEnds, CapacityAnswered, CapacityStalled, CapacityFailed
<1> QED BY <1>t, <1>1, <1>2, <1>3, QuietStep DEF TypeOK

\* Counting down a deadline, or no timer, stays within its type.
LEMMA Less1Type ==
  /\ \A t \in TimeLeft : Less1(t) \in TimeLeft
  /\ \A t \in TimeLeft \cup {NoTimer} : Less1(t) \in TimeLeft \cup {NoTimer}
BY DEF Less1, TimeLeft, NoTimer

\* Time passes for the deadlines only.
LEMMA TickStep ==
  ASSUME IInv, Tick
  PROVE  IInv'
<1> DEFINE g == [gate EXCEPT !.pauseLeft = Less1(@), !.pumpTimer = Less1(@)]
<1>t. TypeOK /\ GateOK(gate) /\ gate \in Gate
  BY DEF IInv, GateOK
<1>1. g \in Gate /\ SameCalls(gate, g) /\ g.pauseOpen = gate.pauseOpen
  <2>1. Less1(gate.pauseLeft) \in TimeLeft /\ Less1(gate.pumpTimer) \in TimeLeft \cup {NoTimer}
    BY <1>t, Less1Type DEF Gate
  <2> QED BY <1>t, <2>1 DEF Gate, SameCalls
<1>2. gate.probes # {} => g.pauseOpen
  BY <1>t, <1>1 DEF GateOK
<1>3. gate' = g
  BY DEF Tick
<1> HIDE DEF g
<1>4. GateOK(gate') /\ Held(gate') = Held(gate)
  BY <1>t, <1>1, <1>2, <1>3, SameCallsOK
<1>5. call' \in [Calls -> Call] /\ \A c \in Calls : call'[c].status = call[c].status
  <2>1. ASSUME NEW c \in Calls
        PROVE  /\ [call[c] EXCEPT !.deadline = Less1(@), !.backoff = Less1(@)] \in Call
               /\ [call[c] EXCEPT !.deadline = Less1(@), !.backoff = Less1(@)].status
                    = call[c].status
    <3>1. call[c] \in Call
      BY <1>t, LocalFields
    <3>2. Less1(call[c].deadline) \in TimeLeft /\ Less1(call[c].backoff) \in TimeLeft
      BY <3>1, Less1Type DEF Call
    <3> QED BY <3>1, <3>2 DEF Call
  <2> QED BY <2>1 DEF Tick
<1>6. capacity' \in Capacity
  <2>1. capacity \in Capacity /\ Less1(capacity.refresh) \in TimeLeft
    BY <1>t, Less1Type DEF TypeOK, Capacity
  <2> QED BY <2>1 DEF Tick, Capacity
<1>7. nextSeq' = nextSeq /\ dropped' = dropped /\ baseline' = baseline /\ begun' = begun
  BY DEF Tick
<1> QED BY <1>t, <1>4, <1>5, <1>6, <1>7, QuietStep DEF TypeOK

\* The invariant is inductive: every handler, timer and refresh keeps it.
LEMMA NextIInv == IInv /\ [Next]_vars => IInv'
<1> SUFFICES ASSUME IInv, [Next]_vars PROVE IInv'
  OBVIOUS
<1>1. CASE \E j \in Jobs : BeginDecideJob(j)
  BY <1>1, BeginDecideJobStep
<1>2. CASE \E c \in Calls : Start(c) \/ Respond(c) \/ RetryNotFound(c) \/ QueueTimeout(c)
  <2>1. PICK c \in Calls : Start(c) \/ Respond(c) \/ RetryNotFound(c) \/ QueueTimeout(c)
    BY <1>2
  <2>2. CASE Start(c)
    BY <2>2, StartStep
  <2>3. CASE Respond(c)
    BY <2>3, ServedStep, ThrownStep, NoCapacityRetryStep, NoCapacityGiveUpStep,
       NotFoundStep DEF Respond
  <2>4. CASE RetryNotFound(c)
    BY <2>4, RetryNotFoundStep
  <2>5. CASE QueueTimeout(c)
    BY <2>5, QueueTimeoutStep
  <2> QED BY <2>1, <2>2, <2>3, <2>4, <2>5
<1>3. CASE PumpTimerFires
  BY <1>3, PumpTimerStep
<1>4. CASE RefreshEnds
  BY <1>4, RefreshEndsStep
<1>5. CASE Tick
  BY <1>5, TickStep
<1>6. CASE UNCHANGED vars
  BY <1>6 DEF vars, IInv, TypeOK
<1> QED BY <1>1, <1>2, <1>3, <1>4, <1>5, <1>6 DEF Next, Quiescent

\* The invariant holds in every reachable state of the gate.
LEMMA Inductive == Spec => []IInv
<1> QED BY InitIInv, NextIInv, PTL DEF Spec

-----------------------------------------------------------------------------
(***************************************************************************)
(* The theorems.                                                           *)
(***************************************************************************)

\* The gate, the calls and the counters keep their types.
THEOREM TypeCorrect == Spec => []TypeOK
<1>1. IInv => TypeOK
  BY DEF IInv
<1> QED BY <1>1, Inductive, PTL

\* The admission counter never drifts from the grants still out, through any
\* mixture of answers, retries, probes, timeouts and refreshes.
THEOREM SlotAccountingHolds == Spec => []SlotAccounting
<1>1. IInv => SlotAccounting
  BY DEF IInv, GateOK, SlotAccounting
<1> QED BY <1>1, Inductive, PTL

\* No more paid requests are ever in flight than the funded ceiling.
THEOREM FundedCeilingHolds == Spec => []FundedCeiling
<1>1. IInv => FundedCeiling
  BY DEF IInv, GateOK, FundedCeiling
<1> QED BY <1>1, Inductive, PTL

\* A probe never overlaps another request, and the pause it probes stays open
\* until its own answer.
THEOREM ProbeIsAloneHolds == Spec => []ProbeIsAlone
<1>1. IInv => ProbeIsAlone
  BY DEF IInv, GateOK, ProbeIsAlone
<1> QED BY <1>1, Inductive, PTL

-----------------------------------------------------------------------------
(***************************************************************************)
(* First called, first served.  The queue is in the order of the calls     *)
(* (decideSeq), and a step grants only from its front: so what is granted  *)
(* is older than what is left waiting.                                     *)
(***************************************************************************)
Sorted(q, seqOf) == \A i, j \in 1..Len(q) : i < j => seqOf[q[i]] < seqOf[q[j]]

\* From g to h the queue stays in order, and a call granted a slot is older
\* than any left in the queue.
Fair(g, h, seqOf) ==
  /\ Sorted(h.queue, seqOf)
  /\ \A c \in h.slots \ g.slots, d \in Queued(h) : seqOf[c] < seqOf[d]

\* The first n places are n.
LEMMA PlacesCount == ASSUME NEW n \in Nat PROVE IsFiniteSet(1..n) /\ Cardinality(1..n) = n
<1>1. Cardinality(1..n) = IF 1 > n THEN 0 ELSE n - 1 + 1
  BY FS_Interval
<1>2. IsFiniteSet(1..n)
  BY FS_Interval
<1> QED
  BY <1>1, <1>2

\* In a queue in order, the calls before a given one are its first ones.
LEMMA EarlierIsPrefix ==
  ASSUME NEW q \in Seq(Calls), NEW seqOf \in [Calls -> Nat], Sorted(q, seqOf), NEW c \in Calls
  PROVE  LET Earlier == {i \in 1..Len(q) : seqOf[q[i]] <= seqOf[c]}
         IN  /\ Cardinality(Earlier) \in 0..Len(q)
             /\ \A i \in 1..Len(q) : seqOf[q[i]] <= seqOf[c] <=> i <= Cardinality(Earlier)
<1> DEFINE Earlier == {i \in 1..Len(q) : seqOf[q[i]] <= seqOf[c]}
           k == Cardinality(Earlier)
           n == Len(q)
<1>1. n \in Nat /\ \A i \in 1..n : q[i] \in Calls
  BY LenProperties, ElementOfSeq
<1>n. n \in Nat
  BY <1>1
<1>2. /\ IsFiniteSet(Earlier) /\ k \in 0..n
  <2>1. Earlier \in SUBSET (1..n)
    OBVIOUS
  <2> HIDE DEF Earlier, n
  <2>2. IsFiniteSet(1..n) /\ Cardinality(1..n) = n
    BY <1>n, PlacesCount
  <2>3. IsFiniteSet(Earlier) /\ k <= n
    BY <2>1, <2>2, FS_Subset
  <2>4. k \in Nat
    BY <2>3, FS_CardinalityType
  <2> QED
    BY <1>1, <2>3, <2>4
<1>3. ASSUME NEW i \in 1..n, seqOf[q[i]] <= seqOf[c] PROVE i <= k
  <2>1. \A j \in 1..i : j \in 1..n /\ seqOf[q[j]] <= seqOf[c]
    <3> SUFFICES ASSUME NEW j \in 1..i, j # i PROVE j \in 1..n /\ seqOf[q[j]] <= seqOf[c]
      BY <1>3
    <3>1. j \in 1..n /\ j < i
      BY <1>1
    <3>2. seqOf[q[j]] < seqOf[q[i]]
      BY <3>1 DEF Sorted
    <3> QED
      BY <1>1, <1>3, <3>1, <3>2
  <2>2. (1..i) \in SUBSET Earlier
    BY <2>1
  <2>3. i \in Nat
    BY <1>1
  <2> HIDE DEF Earlier
  <2>4. IsFiniteSet(1..i) /\ Cardinality(1..i) = i
    BY <2>3, PlacesCount
  <2>5. Cardinality(1..i) <= Cardinality(Earlier)
    BY <1>2, <2>2, FS_Subset
  <2> QED
    BY <2>4, <2>5
<1>4. ASSUME NEW i \in 1..n, ~(seqOf[q[i]] <= seqOf[c]) PROVE ~(i <= k)
  <2>1. \A j \in Earlier : j < i
    <3> SUFFICES ASSUME NEW j \in 1..n, seqOf[q[j]] <= seqOf[c], ~(j < i) PROVE FALSE
      OBVIOUS
    <3>1. j = i \/ i < j
      BY <1>1
    <3>2. i < j => seqOf[q[i]] < seqOf[q[j]]
      BY DEF Sorted
    <3> QED
      BY <1>1, <1>4, <3>1, <3>2
  <2>2. Earlier \in SUBSET (1..(i - 1)) /\ i - 1 \in Nat
    BY <1>1, <2>1
  <2> HIDE DEF Earlier
  <2> DEFINE m == i - 1
  <2>3. IsFiniteSet(1..m) /\ Cardinality(1..m) = m /\ Earlier \in SUBSET (1..m) /\ m \in Nat
    <3>1. m \in Nat
      BY <2>2
    <3>2. Earlier \in SUBSET (1..m)
      BY <2>2
    <3> HIDE DEF m
    <3>3. IsFiniteSet(1..m) /\ Cardinality(1..m) = m
      BY <3>1, PlacesCount
    <3> QED
      BY <3>1, <3>2, <3>3
  <2>4. k <= m
    BY <2>3, FS_Subset
  <2> QED
    BY <1>1, <1>2, <2>3, <2>4
<1> QED
  BY <1>2, <1>3, <1>4

\* The insertion of acquireDecideSlot keeps the order.
LEMMA InsertSorted ==
  ASSUME NEW q \in Seq(Calls), Distinct(q), NEW seqOf \in [Calls -> Nat], Sorted(q, seqOf),
         NEW c \in Calls, c \notin ToSet(q), \A i \in 1..Len(q) : seqOf[q[i]] # seqOf[c],
         NEW k \in 0..Len(q), \A i \in 1..Len(q) : seqOf[q[i]] <= seqOf[c] <=> i <= k
  PROVE  Sorted(InsertAt(q, k + 1, c), seqOf)
<1> DEFINE r == InsertAt(q, k + 1, c)
<1>1. Len(q) \in Nat /\ k \in Nat /\ k + 1 \in 1..(Len(q) + 1) /\ \A i \in 1..Len(q) : q[i] \in Calls
  BY LenProperties, ElementOfSeq
<1>2. /\ Len(r) = Len(q) + 1
      /\ \A i \in 1..(Len(q) + 1) :
           r[i] = IF i < k + 1 THEN q[i] ELSE IF i = k + 1 THEN c ELSE q[i - 1]
  BY <1>1, InsertDistinct
<1> HIDE DEF r
<1>3. ASSUME NEW i \in 1..Len(r), NEW j \in 1..Len(r), i < j PROVE seqOf[r[i]] < seqOf[r[j]]
  <2>1. i \in 1..(Len(q) + 1) /\ j \in 1..(Len(q) + 1)
    BY <1>2
  <2>2. CASE i < k + 1 /\ j < k + 1
    <3>1. r[i] = q[i] /\ r[j] = q[j] /\ i \in 1..Len(q) /\ j \in 1..Len(q)
      BY <1>1, <1>2, <2>1, <2>2
    <3> QED
      BY <1>3, <3>1 DEF Sorted
  <2>3. CASE i < k + 1 /\ j = k + 1
    <3>1. r[i] = q[i] /\ r[j] = c /\ i \in 1..Len(q) /\ i <= k
      BY <1>1, <1>2, <2>1, <2>3
    <3>2. seqOf[q[i]] <= seqOf[c] /\ seqOf[q[i]] # seqOf[c]
      BY <3>1
    <3> QED
      BY <1>1, <3>1, <3>2
  <2>4. CASE i < k + 1 /\ j > k + 1
    <3>1. r[i] = q[i] /\ r[j] = q[j - 1] /\ i \in 1..Len(q) /\ j - 1 \in 1..Len(q) /\ i < j - 1
      BY <1>1, <1>2, <2>1, <2>4
    <3> QED
      BY <3>1 DEF Sorted
  <2>5. CASE i = k + 1
    <3>1. r[i] = c /\ r[j] = q[j - 1] /\ j - 1 \in 1..Len(q) /\ ~(j - 1 <= k)
      BY <1>1, <1>2, <1>3, <2>1, <2>5
    <3>2. ~(seqOf[q[j - 1]] <= seqOf[c]) /\ q[j - 1] \in Calls
      BY <1>1, <3>1
    <3> QED
      BY <3>1, <3>2
  <2>6. CASE i > k + 1
    <3>1. r[i] = q[i - 1] /\ r[j] = q[j - 1]
      BY <1>1, <1>2, <1>3, <2>1, <2>6
    <3>2. i - 1 \in 1..Len(q) /\ j - 1 \in 1..Len(q) /\ i - 1 < j - 1
      BY <1>1, <1>3, <2>1, <2>6
    <3> QED
      BY <3>1, <3>2 DEF Sorted
  <2> QED
    BY <1>1, <1>3, <2>1, <2>2, <2>3, <2>4, <2>5, <2>6
<1> QED
  BY <1>3 DEF Sorted, r

\* Taking a waiter out keeps the order.
LEMMA RemoveSorted ==
  ASSUME NEW q \in Seq(Calls), Distinct(q), NEW seqOf, Sorted(q, seqOf), NEW at \in 1..Len(q)
  PROVE  Sorted(RemoveAt(q, at), seqOf)
<1> DEFINE r == RemoveAt(q, at)
           p(k) == IF k < at THEN k ELSE k + 1
<1>1. Len(q) \in Nat
  BY LenProperties
<1>2. Len(r) = Len(q) - 1 /\ \A i \in 1..(Len(q) - 1) : r[i] = q[p(i)]
  BY RemoveDistinct
<1> HIDE DEF r
<1>3. ASSUME NEW i \in 1..Len(r), NEW j \in 1..Len(r), i < j PROVE seqOf[r[i]] < seqOf[r[j]]
  <2>1. p(i) \in 1..Len(q) /\ p(j) \in 1..Len(q) /\ p(i) < p(j)
    BY <1>1, <1>2, <1>3
  <2>2. r[i] = q[p(i)] /\ r[j] = q[p(j)]
    BY <1>2
  <2> HIDE DEF p
  <2> QED
    BY <2>1, <2>2 DEF Sorted
<1> QED
  BY <1>3 DEF Sorted, r

\* The front of a queue in order is older than the rest, which is in order.
LEMMA SplitSorted ==
  ASSUME NEW q \in Seq(Calls), Distinct(q), NEW seqOf, Sorted(q, seqOf), NEW n \in 0..Len(q)
  PROVE  LET rest == SubSeq(q, n + 1, Len(q))
         IN  /\ Sorted(rest, seqOf)
             /\ \A c \in ToSet(SubSeq(q, 1, n)), d \in ToSet(rest) : seqOf[c] < seqOf[d]
<1> DEFINE rest == SubSeq(q, n + 1, Len(q))
<1>1. Len(q) \in Nat /\ n \in Nat /\ n <= Len(q)
  BY LenProperties
<1>2. /\ rest \in Seq(Calls) /\ Len(rest) = Len(q) - n
      /\ \A i \in 1..(Len(q) - n) : rest[i] = q[n + i]
      /\ ToSet(SubSeq(q, 1, n)) = {q[i] : i \in 1..n}
  BY SplitDistinct
<1>3. DOMAIN rest = 1..(Len(q) - n)
  BY <1>2, LenProperties
<1> HIDE DEF rest
<1>4. ASSUME NEW i \in 1..Len(rest), NEW j \in 1..Len(rest), i < j
      PROVE  seqOf[rest[i]] < seqOf[rest[j]]
  <2>1. /\ rest[i] = q[n + i] /\ rest[j] = q[n + j]
        /\ n + i \in 1..Len(q) /\ n + j \in 1..Len(q) /\ n + i < n + j
    BY <1>1, <1>2, <1>4
  <2> QED
    BY <2>1 DEF Sorted
<1>5. ASSUME NEW c \in ToSet(SubSeq(q, 1, n)), NEW d \in ToSet(rest) PROVE seqOf[c] < seqOf[d]
  <2>1. PICK i \in 1..n : c = q[i]
    BY <1>2
  <2>2. PICK j \in 1..(Len(q) - n) : d = rest[j]
    BY <1>3 DEF ToSet
  <2>3. d = q[n + j] /\ n + j \in 1..Len(q) /\ i \in 1..Len(q) /\ i < n + j
    BY <1>1, <1>2, <2>2
  <2> QED
    BY <2>1, <2>3 DEF Sorted
<1> QED
  BY <1>4, <1>5 DEF Sorted, rest

\* A helper that changes neither the queue nor the slots grants nothing.
LEMMA FairSame ==
  ASSUME NEW g, NEW h, NEW seqOf, Sorted(g.queue, seqOf),
         h.queue = g.queue, h.slots \subseteq g.slots
  PROVE  Fair(g, h, seqOf)
BY DEF Fair

\* Granting from the front is fair.
LEMMA FrontFair ==
  ASSUME NEW g, GateOK(g), NEW seqOf, Sorted(g.queue, seqOf), NEW n \in 0..Len(g.queue),
         NEW h, h.queue = SubSeq(g.queue, n + 1, Len(g.queue)),
         h.slots = g.slots \cup ToSet(SubSeq(g.queue, 1, n))
  PROVE  Fair(g, h, seqOf)
<1>1. g.queue \in Seq(Calls) /\ Distinct(g.queue)
  BY GateFields DEF GateOK
<1>2. /\ Sorted(h.queue, seqOf)
      /\ \A c \in ToSet(SubSeq(g.queue, 1, n)), d \in ToSet(h.queue) : seqOf[c] < seqOf[d]
  BY <1>1, SplitSorted
<1> QED
  BY <1>2 DEF Fair, Queued

\* pumpDecideQueue is fair.
LEMMA PumpFair ==
  ASSUME NEW g, GateOK(g), NEW seqOf, Sorted(g.queue, seqOf)
  PROVE  Fair(g, Pump(g), seqOf)
<1>g. /\ g \in Gate /\ g.queue \in Seq(Calls) /\ Distinct(g.queue)
      /\ g.pauseLeft \in Nat /\ g.inFlight \in Nat /\ g.effective \in Nat
      /\ Len(g.queue) \in Nat /\ g.pauseOpen \in BOOLEAN
  BY GateFields DEF GateOK
<1>1. \A t : LET h == [g EXCEPT !.pumpTimer = t] IN Fair(g, h, seqOf)
  <2> TAKE t
  <2> DEFINE h == [g EXCEPT !.pumpTimer = t]
  <2>1. h.queue = g.queue /\ h.slots = g.slots
    BY <1>g DEF Gate
  <2> HIDE DEF h
  <2>2. Fair(g, h, seqOf)
    BY <2>1, FairSame
  <2> QED
    BY <2>2 DEF h
<1>2. CASE g.queue = <<>>
  BY <1>1, <1>2 DEF Pump
<1>3. CASE g.queue # <<>> /\ g.pauseLeft > 0
  <2>1. ~(g.pauseLeft = 0)
    BY <1>3
  <2>2. \E t : Pump(g) = [g EXCEPT !.pumpTimer = t]
    BY <1>3, <2>1 DEF Pump
  <2> QED
    BY <1>1, <2>2
<1>4. CASE g.queue # <<>> /\ g.pauseLeft = 0 /\ g.pauseOpen
  <2>1. CASE g.probeOutstanding \/ g.inFlight > 0
    <3>1. Pump(g) = g
      BY <1>4, <2>1 DEF Pump
    <3> QED
      BY <3>1, FairSame
  <2>2. CASE ~(g.probeOutstanding \/ g.inFlight > 0)
    <3> DEFINE h == GrantProbe(g)
    <3>1. Pump(g) = h
      BY <1>4, <2>2 DEF Pump
    <3>2. Len(g.queue) >= 1 /\ 1 \in 0..Len(g.queue)
      BY <1>4, <1>g, EmptySeq
    <3>3. Tail(g.queue) = SubSeq(g.queue, 1 + 1, Len(g.queue))
      BY <1>4, <1>g, TailIsSubSeq
    <3>4. {Head(g.queue)} = ToSet(SubSeq(g.queue, 1, 1))
      <4>1. ToSet(SubSeq(g.queue, 1, 1)) = {g.queue[i] : i \in 1..1}
        BY <1>g, <3>2, SplitDistinct
      <4>2. Head(g.queue) = g.queue[1]
        BY <1>g, <3>2
      <4> QED
        BY <4>1, <4>2
    <3>5. h.queue = Tail(g.queue) /\ h.slots = g.slots \cup {Head(g.queue)}
      BY <1>g DEF GrantProbe, Gate
    <3> HIDE DEF h
    <3> QED
      BY <3>1, <3>2, <3>3, <3>4, <3>5, FrontFair
  <2> QED
    BY <2>1, <2>2
<1>5. CASE g.queue # <<>> /\ g.pauseLeft = 0 /\ ~g.pauseOpen
  <2> DEFINE h == GrantFirst(g, Room(g))
  <2>1. Pump(g) = h
    BY <1>5 DEF Pump
  <2>2. Room(g) \in 0..Len(g.queue)
    BY <1>g DEF Room, Lesser, Greater
  <2>3. /\ h.queue = SubSeq(g.queue, Room(g) + 1, Len(g.queue))
        /\ h.slots = g.slots \cup ToSet(SubSeq(g.queue, 1, Room(g)))
    BY <1>g DEF GrantFirst, Gate
  <2> HIDE DEF h
  <2> QED
    BY <2>1, <2>2, <2>3, FrontFair
<1> QED
  BY <1>2, <1>3, <1>4, <1>5, <1>g

\* A pause that lasts grants nobody.
LEMMA PausedPump ==
  ASSUME NEW g, GateOK(g), g.pauseLeft > 0
  PROVE  /\ Pump(g).slots = g.slots /\ Pump(g).queue = g.queue
         /\ Pump(g).pauseLeft = g.pauseLeft
<1>1. g \in Gate /\ ~(g.pauseLeft = 0)
  BY GateFields DEF GateOK
<1>2. \A t : LET h == [g EXCEPT !.pumpTimer = t]
             IN  h.slots = g.slots /\ h.queue = g.queue /\ h.pauseLeft = g.pauseLeft
  BY <1>1 DEF Gate
<1>3. \E t : Pump(g) = [g EXCEPT !.pumpTimer = t]
  <2>1. CASE g.queue = <<>>
    BY <2>1 DEF Pump
  <2>2. CASE g.queue # <<>>
    BY <2>2, <1>1 DEF Pump
  <2> QED
    BY <2>1, <2>2
<1> QED
  BY <1>2, <1>3

\* Handing a slot back and pumping is fair.
LEMMA ReleaseFair ==
  ASSUME NEW g, GateOK(g), NEW c \in g.slots, NEW seqOf, Sorted(g.queue, seqOf)
  PROVE  Fair(g, Release(g, c), seqOf)
<1> DEFINE r == ReleaseSlot(g, c)
<1>1. GateOK(r)
  BY ReleaseSlotOK
<1>2. r.queue = g.queue /\ r.slots \subseteq g.slots
  BY DEF ReleaseSlot, GateOK, Gate
<1> HIDE DEF r
<1>3. Fair(r, Pump(r), seqOf)
  BY <1>1, <1>2, PumpFair
<1> QED
  BY <1>2, <1>3 DEF Fair, Release, r

\* The queue that acquireDecideSlot leaves a call in is in order.
LEMMA EnqueueSorted ==
  ASSUME NEW g, GateOK(g), NEW seqOf \in [Calls -> Nat], Sorted(g.queue, seqOf),
         NEW c \in Calls, c \notin Held(g), \A d \in Queued(g) : seqOf[d] # seqOf[c]
  PROVE  /\ Sorted(Enqueue(g, seqOf, c).queue, seqOf)
         /\ Enqueue(g, seqOf, c).slots = g.slots
         /\ Enqueue(g, seqOf, c).pauseLeft = g.pauseLeft
<1> DEFINE k == Cardinality({i \in 1..Len(g.queue) : seqOf[g.queue[i]] <= seqOf[c]})
           h == Enqueue(g, seqOf, c)
<1>g. g \in Gate /\ g.queue \in Seq(Calls) /\ Distinct(g.queue) /\ c \notin ToSet(g.queue)
  BY GateFields DEF GateOK, Held, Queued
<1>1. k \in 0..Len(g.queue) /\ \A i \in 1..Len(g.queue) : seqOf[g.queue[i]] <= seqOf[c] <=> i <= k
  BY <1>g, EarlierIsPrefix
<1>2. h.queue = InsertAt(g.queue, k + 1, c) /\ h.slots = g.slots /\ h.pauseLeft = g.pauseLeft
  BY <1>g DEF Enqueue, Gate
<1> HIDE DEF k, h
<1>3. \A i \in 1..Len(g.queue) : seqOf[g.queue[i]] # seqOf[c]
  <2>1. DOMAIN g.queue = 1..Len(g.queue)
    BY <1>g, LenProperties
  <2> QED
    BY <2>1 DEF Queued, ToSet
<1>4. Sorted(InsertAt(g.queue, k + 1, c), seqOf)
  BY <1>g, <1>1, <1>3, InsertSorted
<1> QED
  BY <1>2, <1>4 DEF h

\* Asking for a slot is fair: the fast path is taken past an empty queue only.
LEMMA AcquireFair ==
  ASSUME NEW g, GateOK(g), NEW seqOf \in [Calls -> Nat], Sorted(g.queue, seqOf),
         NEW c \in Calls, c \notin Held(g), \A d \in Queued(g) : seqOf[d] # seqOf[c]
  PROVE  Fair(g, Acquire(g, seqOf, c), seqOf)
<1>1. CASE FastPath(g)
  <2> DEFINE h == TakeSlot(g, c)
  <2>1. h.queue = <<>> /\ g.queue = <<>>
    BY <1>1 DEF FastPath, TakeSlot, GateOK, Gate
  <2> HIDE DEF h
  <2>2. Queued(h) = {}
    BY <2>1 DEF Queued, ToSet
  <2>3. Fair(g, h, seqOf)
    BY <2>1, <2>2 DEF Fair
  <2> QED
    BY <1>1, <2>3 DEF Acquire, h
<1>2. CASE ~FastPath(g)
  <2> DEFINE e == Enqueue(g, seqOf, c)
  <2>1. GateOK(e) /\ Sorted(e.queue, seqOf) /\ e.slots = g.slots
    BY EnqueueOK, EnqueueSorted
  <2> HIDE DEF e
  <2>2. Fair(e, Pump(e), seqOf)
    BY <2>1, PumpFair
  <2>3. Fair(g, Pump(e), seqOf)
    BY <2>1, <2>2 DEF Fair
  <2> QED
    BY <1>2, <2>3 DEF Acquire, e
<1> QED
  BY <1>1, <1>2

\* A backoff window is never empty.
LEMMA BackoffPositive == \A n \in 0..(MaxWindow + MaxAttempts) : Backoff(n) > 0
<1> SUFFICES ASSUME NEW n \in 0..(MaxWindow + MaxAttempts) PROVE Backoff(n) > 0
  OBVIOUS
<1> DEFINE p == 2^n
           m == BackoffBase * p
<1>1. p \in Nat /\ p >= 1
  BY DoublingAssumption
<1> HIDE DEF p
<1>2. m \in Nat /\ m >= 1
  BY <1>1, GateAssumption
<1> HIDE DEF m
<1>3. Lesser(m, BackoffMax) > 0
  BY <1>2, GateAssumption DEF Lesser
<1> QED
  BY <1>3 DEF Backoff, m, p

\* After a 503 the gate is paused, by this window or by the one it fell into.
LEMMA Paused503 ==
  ASSUME NEW g, GateOK(g), NEW jitter \in Nat
  PROVE  /\ NoteDecide503(g, jitter).pauseLeft > 0
         /\ NoteDecide503(g, jitter).queue = g.queue
<1>g. g \in Gate /\ g.pauseLeft \in Nat /\ g.pauseWindow \in 0..MaxWindow
  BY GateFields DEF GateOK
<1>1. CASE ~g.pauseOpen \/ g.pauseLeft = 0
  <2>1. g.pauseWindow \in 0..(MaxWindow + MaxAttempts)
    BY <1>g, GateAssumption
  <2>2. Backoff(g.pauseWindow) > 0 /\ Backoff(g.pauseWindow) \in Nat
    BY <2>1, BackoffPositive, BackoffType
  <2> DEFINE h == OpenPauseWindow(g, jitter)
  <2>3. h.pauseLeft = Backoff(g.pauseWindow) + jitter /\ h.queue = g.queue
    BY <1>g DEF OpenPauseWindow, Gate
  <2> HIDE DEF h
  <2>4. h.pauseLeft > 0
    BY <2>2, <2>3
  <2> QED
    BY <1>1, <2>3, <2>4 DEF NoteDecide503, h
<1>2. CASE ~(~g.pauseOpen \/ g.pauseLeft = 0)
  BY <1>2, <1>g DEF NoteDecide503, Gate
<1> QED
  BY <1>1, <1>2

\* So a retry after a 503 grants nobody, and takes its own place in the order.
LEMMA RetryFair ==
  ASSUME NEW g, GateOK(g), NEW c \in g.slots, NEW jitter \in Nat,
         NEW seqOf \in [Calls -> Nat], Sorted(g.queue, seqOf),
         \A d \in Queued(g) : seqOf[d] # seqOf[c]
  PROVE  Fair(g, Acquire(Release(NoteDecide503(g, jitter), c), seqOf, c), seqOf)
<1> DEFINE n == NoteDecide503(g, jitter)
           r == ReleaseSlot(n, c)
           p == Pump(r)
           e == Enqueue(p, seqOf, c)
           h == Acquire(p, seqOf, c)
<1>1. /\ GateOK(n) /\ n.slots = g.slots
      /\ n.pauseLeft > 0 /\ n.queue = g.queue
  BY NoteDecide503OK, Paused503
<1> HIDE DEF n
<1>2. GateOK(r) /\ Held(r) = Held(n) \ {c}
  BY <1>1, ReleaseSlotOK
<1>3. r.queue = n.queue /\ r.slots \subseteq n.slots /\ r.pauseLeft = n.pauseLeft
  BY <1>1 DEF ReleaseSlot, GateOK, Gate
<1> HIDE DEF r
<1>4. /\ GateOK(p) /\ Held(p) = Held(r)
      /\ p.queue = g.queue /\ p.slots \subseteq g.slots /\ p.pauseLeft > 0
  BY <1>1, <1>2, <1>3, PumpOK, PausedPump
<1> HIDE DEF p
<1>5. c \in Calls /\ c \notin Held(p) /\ \A d \in Queued(p) : seqOf[d] # seqOf[c]
  <2>1. g.slots \in SUBSET Calls
    BY GateFields DEF GateOK
  <2>2. Queued(p) = Queued(g)
    BY <1>4 DEF Queued
  <2> QED
    BY <1>2, <1>4, <2>1, <2>2
<1>6. /\ GateOK(e) /\ Sorted(e.queue, seqOf) /\ e.slots = p.slots /\ e.pauseLeft = p.pauseLeft
  BY <1>4, <1>5, EnqueueOK, EnqueueSorted
<1>7. h = Pump(e)
  <2>1. p.pauseLeft # 0
    BY <1>4
  <2> QED
    BY <2>1 DEF Acquire, FastPath
<1> HIDE DEF e, h
<1>8. h.slots = e.slots /\ h.queue = e.queue
  BY <1>4, <1>6, <1>7, PausedPump
<1>9. Fair(g, h, seqOf)
  BY <1>4, <1>6, <1>8 DEF Fair
<1> QED
  BY <1>9 DEF h, p, r, n, Release

\* An expired waiter leaves the queue in order, and pumping it is fair.
LEMMA WithdrawFair ==
  ASSUME NEW g, GateOK(g), NEW c \in Queued(g), NEW seqOf, Sorted(g.queue, seqOf)
  PROVE  Fair(g, Pump(Withdraw(g, c)), seqOf)
<1> DEFINE at == CHOOSE i \in 1..Len(g.queue) : g.queue[i] = c
           h == Withdraw(g, c)
<1>g. g \in Gate /\ g.queue \in Seq(Calls) /\ DOMAIN g.queue = 1..Len(g.queue)
  BY GateFields, LenProperties DEF GateOK
<1>1. at \in 1..Len(g.queue)
  BY <1>g DEF Queued, ToSet
<1>2. h.queue = RemoveAt(g.queue, at) /\ h.slots = g.slots
  BY <1>g DEF Withdraw, Gate
<1> HIDE DEF at
<1>3. GateOK(h)
  BY WithdrawOK
<1> HIDE DEF h
<1>4. Sorted(h.queue, seqOf)
  BY <1>g, <1>1, <1>2, RemoveSorted DEF GateOK
<1>5. Fair(h, Pump(h), seqOf)
  BY <1>3, <1>4, PumpFair
<1> QED
  BY <1>2, <1>5 DEF Fair, h

\* A new ceiling is fair, whoever it lets in.
LEMMA RecomputeFair ==
  ASSUME NEW g, GateOK(g), NEW ceiling \in 1..Funded, Recompute(g, ceiling),
         NEW seqOf, Sorted(g.queue, seqOf)
  PROVE  Fair(g, gate', seqOf)
<1> DEFINE h == [g EXCEPT !.effective = ceiling]
<1>1. GateOK(h)
  BY CeilingOK
<1>2. h.queue = g.queue /\ h.slots = g.slots
  BY DEF GateOK, Gate
<1>3. gate' = h \/ gate' = Pump(h)
  BY DEF Recompute
<1> HIDE DEF h
<1>4. Fair(h, Pump(h), seqOf)
  BY <1>1, <1>2, PumpFair
<1>5. Fair(h, h, seqOf)
  BY <1>2, FairSame
<1> QED
  BY <1>2, <1>3, <1>4, <1>5 DEF Fair

\* The calls that were made bear different numbers of the sequence.
SeqOK ==
  \A c, d \in Calls : call[c].status # "idle" =>
    /\ call[c].seq < nextSeq
    /\ c # d /\ call[d].status # "idle" => call[c].seq # call[d].seq

OrderInv == IInv /\ SeqOK /\ Sorted(gate.queue, CallSeq)

\* The step grants a slot to no call while an older one is left waiting.
Serves == \A c \in Granted, d \in Queued(gate') : call'[c].seq < call'[d].seq

\* What a step must show, if the order of its calls is that of seqOf.
LEMMA FairStep ==
  ASSUME IInv', NEW seqOf, \A c \in Calls : call'[c].seq = seqOf[c], seqOf \in [Calls -> Nat],
         Fair(gate, gate', seqOf)
  PROVE  Sorted(gate.queue, CallSeq)' /\ Serves
<1>1. GateOK(gate') /\ gate' \in Gate
  BY DEF IInv, GateOK
<1>2. gate'.slots \subseteq Calls /\ Queued(gate') \subseteq Calls
  BY <1>1, GateFields
<1>3. CallSeq' = seqOf
  BY DEF CallSeq
<1>4. Sorted(gate'.queue, seqOf)
  BY DEF Fair
<1>5. Serves
  BY <1>2 DEF Serves, Granted, Fair
<1> QED
  BY <1>3, <1>4, <1>5 DEF Sorted

\* A step that makes no call.
SameMade ==
  /\ nextSeq' = nextSeq
  /\ \A c \in Calls : call'[c].seq = call[c].seq /\ (call'[c].status = "idle" <=> call[c].status = "idle")

LEMMA SameOrder ==
  ASSUME OrderInv, IInv', SameMade, Fair(gate, gate', CallSeq)
  PROVE  OrderInv' /\ Serves
<1>1. CallSeq \in [Calls -> Nat] /\ \A c \in Calls : call'[c].seq = CallSeq[c]
  BY LocalFields DEF OrderInv, IInv, SameMade, CallSeq
<1>2. Sorted(gate.queue, CallSeq)' /\ Serves
  BY <1>1, FairStep
<1>3. SeqOK'
  BY DEF SeqOK, SameMade, OrderInv
<1> QED
  BY <1>2, <1>3 DEF OrderInv

\* Only the call that enters is numbered.
LEMMA OneMade ==
  ASSUME IInv, NEW c \in Calls, NEW rec \in Call, OnlyCall(c, rec), nextSeq' = nextSeq,
         call[c].status # "idle", rec.status # "idle", rec.seq = call[c].seq
  PROVE  SameMade
BY DEF SameMade, OnlyCall, IInv, TypeOK

\* A call that is made is the youngest.
LEMMA StartOrder ==
  ASSUME OrderInv, IInv', NEW c \in Calls, Start(c)
  PROVE  OrderInv' /\ Serves
<1> DEFINE s == [CallSeq EXCEPT ![c] = nextSeq]
<1>t. TypeOK /\ GateOK(gate) /\ SeqOK /\ nextSeq \in Nat /\ Queued(gate) \subseteq Calls /\ gate \in Gate
  BY GateFields DEF OrderInv, IInv, TypeOK
<1>1. CallSeq \in [Calls -> Nat]
  BY <1>t, LocalFields DEF CallSeq
<1>2. s \in [Calls -> Nat] /\ s[c] = nextSeq /\ \A d \in Calls : d # c => s[d] = call[d].seq
  BY <1>t, <1>1 DEF CallSeq
<1> HIDE DEF s
<1>3. c \notin Held(gate)
  BY DEF OrderInv, IInv, Start
<1>4. \A d \in Queued(gate) : d \in Calls /\ d # c /\ s[d] = CallSeq[d] /\ s[d] # s[c]
  <2> SUFFICES ASSUME NEW d \in Queued(gate)
               PROVE  d \in Calls /\ d # c /\ s[d] = CallSeq[d] /\ s[d] # s[c]
    OBVIOUS
  <2>1. d \in Calls /\ d # c /\ call[d].status = "admitting"
    BY <1>t, <1>3 DEF Held, OrderInv, IInv
  <2>2. call[d].seq < nextSeq /\ call[d].seq \in Nat
    BY <1>t, <2>1, LocalFields DEF SeqOK
  <2> QED
    BY <1>2, <1>t, <2>1, <2>2 DEF CallSeq
<1>5. Sorted(gate.queue, s)
  <2>1. DOMAIN gate.queue = 1..Len(gate.queue)
    BY <1>t, GateFields, LenProperties
  <2>2. \A i \in 1..Len(gate.queue) : s[gate.queue[i]] = CallSeq[gate.queue[i]]
    BY <1>4, <2>1 DEF Queued, ToSet
  <2> QED
    BY <2>2 DEF Sorted, OrderInv
<1>6. gate' = Acquire(gate, s, c)
  BY DEF Start, s
<1>7. Fair(gate, gate', s)
  BY <1>t, <1>2, <1>3, <1>4, <1>5, <1>6, AcquireFair
<1>8. call'[c].seq = nextSeq /\ call'[c].status = "admitting" /\ \A d \in Calls : d # c => call'[d] = call[d]
  BY <1>t DEF Start, TypeOK, Call
<1>9. \A d \in Calls : call'[d].seq = s[d]
  BY <1>2, <1>8
<1>10. Sorted(gate.queue, CallSeq)' /\ Serves
  BY <1>2, <1>7, <1>9, FairStep
<1>11. SeqOK'
  <2> SUFFICES ASSUME NEW a \in Calls, NEW b \in Calls, call'[a].status # "idle"
               PROVE  /\ call'[a].seq < nextSeq'
                      /\ a # b /\ call'[b].status # "idle" => call'[a].seq # call'[b].seq
    BY DEF SeqOK
  <2>1. nextSeq' = nextSeq + 1 /\ call[a].seq \in Nat /\ call[b].seq \in Nat
    BY <1>t, LocalFields DEF Start
  <2>2. a # c => call[a].seq < nextSeq
    BY <1>t, <1>8 DEF SeqOK
  <2>3. b # c /\ call'[b].status # "idle" => call[b].seq < nextSeq
    BY <1>t, <1>8 DEF SeqOK
  <2>4. a # c /\ b # c /\ a # b /\ call'[b].status # "idle" => call[a].seq # call[b].seq
    BY <1>t, <1>8 DEF SeqOK
  <2>5. call'[a].seq < nextSeq'
    BY <1>t, <1>8, <2>1, <2>2
  <2>6. a # b /\ call'[b].status # "idle" => call'[a].seq # call'[b].seq
    BY <1>t, <1>8, <2>1, <2>2, <2>3, <2>4
  <2> QED
    BY <2>5, <2>6
<1> QED
  BY <1>10, <1>11 DEF OrderInv

\* Each step keeps the order, and serves by it.
LEMMA OrderStep == ASSUME OrderInv, IInv', [Next]_vars PROVE OrderInv' /\ Serves
<1>t. /\ IInv /\ TypeOK /\ GateOK(gate) /\ gate \in Gate /\ gate.effective \in 1..Funded
      /\ Sorted(gate.queue, CallSeq) /\ SeqOK
      /\ gate.slots \subseteq Calls /\ Queued(gate) \subseteq Calls
  BY GateFields DEF OrderInv, IInv, GateOK, Gate
<1>s. CallSeq \in [Calls -> Nat] /\ \A d \in Calls : CallSeq[d] = call[d].seq
  BY <1>t, LocalFields DEF CallSeq
<1>a. \A d \in Held(gate) : d \in Calls /\ call[d].status = "admitting"
  BY <1>t DEF Held, IInv
<1>1. ASSUME NEW c \in Calls, Served(c) \/ Thrown(c) \/ NoCapacityGiveUp(c) \/ NotFound(c)
             \/ QueueTimeout(c) \/ NoCapacityRetry(c) \/ RetryNotFound(c)
      PROVE  SameMade
  <2>1. nextSeq' = nextSeq
    BY <1>1 DEF Served, Thrown, NoCapacityGiveUp, NotFound, QueueTimeout, NoCapacityRetry,
                RetryNotFound
  <2>2. call[c].status # "idle"
    <3>1. CASE RetryNotFound(c)
      BY <3>1 DEF RetryNotFound
    <3>2. CASE c \in Held(gate)
      BY <1>a, <3>2
    <3> QED
      BY <1>1, <3>1, <3>2 DEF Held, Served, Thrown, NoCapacityGiveUp, NotFound, QueueTimeout,
                              NoCapacityRetry
  <2>3. call[c] \in Call /\ call \in [Calls -> Call]
    BY <1>t, LocalFields DEF TypeOK
  <2>4. \E rec : /\ call' = [call EXCEPT ![c] = rec]
                 /\ rec.seq = call[c].seq /\ rec.status # "idle"
    <3>1. ASSUME NEW status \in Ended, End(c, status)
          PROVE  \E rec : /\ call' = [call EXCEPT ![c] = rec]
                          /\ rec.seq = call[c].seq /\ rec.status # "idle"
      <4> DEFINE rec == [call[c] EXCEPT !.status = status, !.deadline = 0, !.backoff = 0]
      <4>1. call' = [call EXCEPT ![c] = rec]
        BY <2>3, <3>1 DEF End
      <4>2. rec.seq = call[c].seq /\ rec.status = status /\ status # "idle"
        BY <2>3 DEF Call, Ended
      <4> HIDE DEF rec
      <4> QED
        BY <4>1, <4>2
    <3>2. CASE Served(c) \/ Thrown(c) \/ NoCapacityGiveUp(c) \/ QueueTimeout(c)
      BY <3>1, <3>2 DEF Served, Thrown, NoCapacityGiveUp, QueueTimeout, Ended
    <3>3. CASE NotFound(c)
      <4>1. CASE LastAttempt(c)
        BY <3>1, <3>3, <4>1 DEF NotFound, Ended
      <4>2. CASE ~LastAttempt(c)
        <5> DEFINE rec == [call[c] EXCEPT !.status = "backoff",
                                          !.attempt = call[c].attempt + 1,
                                          !.backoff = Backoff(call[c].attempt)]
        <5>1. call' = [call EXCEPT ![c] = rec]
          BY <2>3, <3>3, <4>2 DEF NotFound
        <5>2. rec.seq = call[c].seq /\ rec.status = "backoff"
          BY <2>3 DEF Call
        <5> HIDE DEF rec
        <5> QED
          BY <5>1, <5>2
      <4> QED
        BY <4>1, <4>2
    <3>4. CASE NoCapacityRetry(c)
      <4> DEFINE rec == [call[c] EXCEPT !.attempt = call[c].attempt + 1]
      <4>1. call' = [call EXCEPT ![c] = rec]
        BY <2>3, <3>4 DEF NoCapacityRetry
      <4>2. rec.seq = call[c].seq /\ rec.status = call[c].status
        BY <2>3 DEF Call
      <4> HIDE DEF rec
      <4> QED
        BY <2>2, <4>1, <4>2
    <3>5. CASE RetryNotFound(c)
      <4> DEFINE rec == [call[c] EXCEPT !.status = "admitting"]
      <4>1. call' = [call EXCEPT ![c] = rec]
        BY <2>3, <3>5 DEF RetryNotFound
      <4>2. rec.seq = call[c].seq /\ rec.status = "admitting"
        BY <2>3 DEF Call
      <4> HIDE DEF rec
      <4> QED
        BY <4>1, <4>2
    <3> QED
      BY <1>1, <3>2, <3>3, <3>4, <3>5
  <2>5. PICK rec : /\ call' = [call EXCEPT ![c] = rec]
                   /\ rec.seq = call[c].seq /\ rec.status # "idle"
    BY <2>4
  <2>6. \A d \in Calls : call'[d] = IF d = c THEN rec ELSE call[d]
    BY <2>3, <2>5
  <2> QED
    BY <2>1, <2>2, <2>5, <2>6 DEF SameMade
<1>2. ASSUME NEW c \in Calls, Served(c) PROVE Fair(gate, gate', CallSeq)
  <2> DEFINE r == ReleaseSlot(NoteDecideSucceeded(gate), c)
  <2>1. GateOK(r)
    BY <1>t, <1>2, ReleaseServedOK DEF Served
  <2>2. r.queue = gate.queue /\ r.slots \subseteq gate.slots
    BY <1>t DEF ReleaseSlot, NoteDecideSucceeded, Gate
  <2>3. gate' = Pump(r)
    BY <1>2 DEF Served, Release
  <2> HIDE DEF r
  <2>4. Fair(r, Pump(r), CallSeq)
    BY <1>t, <2>1, <2>2, PumpFair
  <2> QED
    BY <2>2, <2>3, <2>4 DEF Fair
<1>3. ASSUME NEW c \in Calls, Thrown(c) \/ NotFound(c) PROVE Fair(gate, gate', CallSeq)
  BY <1>t, <1>3, ReleaseFair DEF Thrown, NotFound
<1>4. ASSUME NEW c \in Calls, NoCapacityGiveUp(c) PROVE Fair(gate, gate', CallSeq)
  <2>1. PICK jitter \in Jitter(gate) : gate' = Release(NoteDecide503(gate, jitter), c)
    BY <1>4 DEF NoCapacityGiveUp
  <2> DEFINE n == NoteDecide503(gate, jitter)
  <2>2. jitter \in Nat /\ c \in gate.slots
    BY <1>t, <1>4, JitterType DEF NoCapacityGiveUp
  <2>3. GateOK(n) /\ n.slots = gate.slots /\ n.queue = gate.queue /\ gate' = Release(n, c)
    BY <1>t, <2>1, <2>2, NoteDecide503OK, Paused503
  <2> HIDE DEF n
  <2>4. Fair(n, Release(n, c), CallSeq)
    BY <1>t, <2>2, <2>3, ReleaseFair
  <2> QED
    BY <2>3, <2>4 DEF Fair
<1>5. ASSUME NEW c \in Calls, c \in gate.slots PROVE \A d \in Queued(gate) : CallSeq[d] # CallSeq[c]
  <2> SUFFICES ASSUME NEW d \in Queued(gate) PROVE CallSeq[d] # CallSeq[c]
    OBVIOUS
  <2>1. d # c /\ d \in Calls /\ c \in Held(gate) /\ d \in Held(gate)
    BY <1>t, <1>5 DEF GateOK, Held
  <2>2. call[d].status # "idle" /\ call[c].status # "idle"
    BY <1>a, <2>1
  <2> QED
    BY <1>s, <1>t, <2>1, <2>2 DEF SeqOK
<1>6. ASSUME NEW c \in Calls, NoCapacityRetry(c) PROVE Fair(gate, gate', CallSeq)
  <2>1. PICK jitter \in Jitter(gate) :
          gate' = Acquire(Release(NoteDecide503(gate, jitter), c), CallSeq, c)
    BY <1>6 DEF NoCapacityRetry
  <2>2. jitter \in Nat /\ c \in gate.slots
    BY <1>t, <1>6, JitterType DEF NoCapacityRetry
  <2> QED
    BY <1>s, <1>t, <1>5, <2>1, <2>2, RetryFair
<1>7. ASSUME NEW c \in Calls, RetryNotFound(c) PROVE Fair(gate, gate', CallSeq)
  <2>1. c \notin Held(gate) /\ call[c].status # "idle"
    BY <1>a, <1>7 DEF RetryNotFound
  <2>2. \A d \in Queued(gate) : CallSeq[d] # CallSeq[c]
    <3> SUFFICES ASSUME NEW d \in Queued(gate) PROVE CallSeq[d] # CallSeq[c]
      OBVIOUS
    <3>1. d # c /\ d \in Calls /\ call[d].status # "idle"
      BY <1>a, <2>1 DEF Held
    <3> QED
      BY <1>s, <1>t, <2>1, <3>1 DEF SeqOK
  <2> QED
    BY <1>s, <1>t, <1>7, <2>1, <2>2, AcquireFair DEF RetryNotFound
<1>8. ASSUME NEW c \in Calls, QueueTimeout(c) PROVE Fair(gate, gate', CallSeq)
  BY <1>t, <1>8, WithdrawFair DEF QueueTimeout
<1>9. ASSUME NEW j \in Jobs, BeginDecideJob(j) PROVE SameMade /\ Fair(gate, gate', CallSeq)
  BY <1>t, <1>9, FairSame DEF BeginDecideJob, SameMade
<1>10. ASSUME PumpTimerFires PROVE SameMade /\ Fair(gate, gate', CallSeq)
  <2> DEFINE g == [gate EXCEPT !.pumpTimer = NoTimer]
  <2>1. g \in Gate /\ SameCalls(gate, g) /\ g.pauseOpen = gate.pauseOpen
    BY <1>t DEF Gate, SameCalls
  <2>2. gate' = Pump(g)
    BY <1>10 DEF PumpTimerFires
  <2> HIDE DEF g
  <2>3. GateOK(g)
    BY <1>t, <2>1, SameCallsOK DEF GateOK
  <2>4. Fair(g, Pump(g), CallSeq)
    BY <1>t, <2>1, <2>3, PumpFair DEF SameCalls
  <2>5. SameMade
    BY <1>10 DEF PumpTimerFires, SameMade
  <2> QED
    BY <2>1, <2>2, <2>4, <2>5 DEF Fair, SameCalls
<1>11. ASSUME RefreshEnds PROVE SameMade /\ Fair(gate, gate', CallSeq)
  <2>1. SameMade
    BY <1>11 DEF RefreshEnds, CapacityAnswered, CapacityStalled, CapacityFailed, SameMade
  <2>2. (\E ceiling \in 1..Funded : Recompute(gate, ceiling))
        \/ \E jitter \in Jitter(gate), ceiling \in 1..Funded :
             Recompute(OpenPauseWindow(gate, jitter), ceiling)
    <3>1. CASE CapacityAnswered
      BY <1>t, <3>1, CeilingType DEF CapacityAnswered
    <3>2. CASE CapacityStalled
      <4>1. CASE capacity.stallStreak >= 1
        BY <1>t, <3>2, <4>1, CeilingType DEF CapacityStalled
      <4>2. CASE ~(capacity.stallStreak >= 1)
        BY <1>t, <3>2, <4>2, CeilingType DEF CapacityStalled
      <4> QED
        BY <4>1, <4>2
    <3>3. CASE CapacityFailed
      BY <1>t, <3>3 DEF CapacityFailed
    <3> QED
      BY <1>11, <3>1, <3>2, <3>3 DEF RefreshEnds
  <2>3. CASE \E ceiling \in 1..Funded : Recompute(gate, ceiling)
    BY <1>t, <2>1, <2>3, RecomputeFair
  <2>4. CASE \E jitter \in Jitter(gate), ceiling \in 1..Funded :
               Recompute(OpenPauseWindow(gate, jitter), ceiling)
    <3>1. PICK jitter \in Jitter(gate), ceiling \in 1..Funded :
            Recompute(OpenPauseWindow(gate, jitter), ceiling)
      BY <2>4
    <3> DEFINE g == OpenPauseWindow(gate, jitter)
    <3>2. GateOK(g) /\ SameCalls(gate, g) /\ Recompute(g, ceiling)
      BY <1>t, <3>1, JitterType, OpenPauseWindowOK
    <3> HIDE DEF g
    <3>3. Fair(g, gate', CallSeq)
      BY <1>t, <3>2, RecomputeFair DEF SameCalls
    <3> QED
      BY <2>1, <3>2, <3>3 DEF Fair, SameCalls
  <2> QED
    BY <2>2, <2>3, <2>4
<1>12. ASSUME Tick PROVE SameMade /\ Fair(gate, gate', CallSeq)
  <2>1. gate'.queue = gate.queue /\ gate'.slots = gate.slots
    BY <1>t, <1>12 DEF Tick, Gate
  <2>2. SameMade
    <3>1. \A c \in Calls : call[c] \in Call
      BY <1>t, LocalFields
    <3> QED
      BY <1>12, <3>1 DEF Tick, SameMade, Call
  <2> QED
    BY <1>t, <2>1, <2>2, FairSame
<1>13. ASSUME UNCHANGED vars PROVE SameMade /\ Fair(gate, gate', CallSeq)
  BY <1>t, <1>13, FairSame DEF vars, SameMade
<1>14. CASE \E c \in Calls : Start(c)
  BY <1>14, StartOrder
<1>15. CASE ~\E c \in Calls : Start(c)
  <2>1. SameMade /\ Fair(gate, gate', CallSeq)
    BY <1>1, <1>2, <1>3, <1>4, <1>6, <1>7, <1>8, <1>9, <1>10, <1>11, <1>12, <1>13, <1>15
       DEF Next, Respond, Quiescent
  <2> QED
    BY <2>1, SameOrder
<1> QED
  BY <1>14, <1>15

\* First called, first served: on the fast path, from the queue, after retries and
\* through every pause and change of the ceiling, a slot is granted to no call
\* while an older one waits.
THEOREM NoOvertakingHolds == Spec => NoOvertaking
<1>1. Init => OrderInv
  <2> SUFFICES ASSUME Init PROVE OrderInv
    OBVIOUS
  <2>1. gate.queue = <<>> /\ \A c \in Calls : call[c].status = "idle"
    BY DEF Init
  <2> QED
    BY <2>1, InitIInv DEF OrderInv, SeqOK, Sorted
<1>2. OrderInv /\ IInv' /\ [Next]_vars => OrderInv'
  BY OrderStep
<1>3. OrderInv /\ IInv' /\ [Next]_vars
        => [\A c \in Granted, d \in Queued(gate') : call'[c].seq < call'[d].seq]_vars
  BY OrderStep DEF Serves
<1> QED
  BY <1>1, <1>2, <1>3, Inductive, PTL DEF Spec, NoOvertaking

-----------------------------------------------------------------------------
(***************************************************************************)
(* No waiter is left behind.  After every pump the queue is empty, the     *)
(* gate is full, a probe or an earlier request is out, or the timer of the *)
(* pump is set; the handlers that do not pump either leave no queue or     *)
(* change nothing a waiter depends on.                                     *)
(***************************************************************************)

\* What wakes a waiter of g.
Awake(g) ==
  g.queue # <<>> =>
    IF g.pauseOpen THEN g.inFlight > 0 \/ g.pumpTimer # NoTimer
                   ELSE g.inFlight >= g.effective

\* The marks of the pause agree: no window is counted down once the pause is
\* closed, and a probe marked outstanding is in flight.
Steady(g) ==
  /\ ~g.pauseOpen => g.pauseLeft = 0
  /\ g.probeOutstanding => g.probes # {}

WakeOK(g) == Steady(g) /\ Awake(g)

\* The pump leaves nobody behind, wherever the gate stands.
LEMMA PumpWakes ==
  ASSUME NEW g, GateOK(g), Steady(g)
  PROVE  WakeOK(Pump(g))
<1>g. /\ g \in Gate /\ g.queue \in Seq(Calls) /\ Distinct(g.queue)
      /\ g.pauseLeft \in Nat /\ g.inFlight \in Nat /\ g.effective \in Nat
      /\ Len(g.queue) \in Nat /\ g.pauseOpen \in BOOLEAN
      /\ g.probeOutstanding \in BOOLEAN /\ g.pumpTimer \in Nat \cup {NoTimer}
  BY GateFields DEF GateOK
<1>1. \A t : LET h == [g EXCEPT !.pumpTimer = t]
             IN  Steady(h) /\ h.queue = g.queue /\ h.pauseOpen = g.pauseOpen /\ h.pumpTimer = t
  BY <1>g DEF Gate, Steady
<1>2. CASE g.queue = <<>>
  <2>1. Pump(g) = [g EXCEPT !.pumpTimer = NoTimer]
    BY <1>2 DEF Pump
  <2> QED
    BY <1>1, <1>2, <2>1 DEF WakeOK, Awake
<1>3. CASE g.queue # <<>> /\ g.pauseLeft > 0
  <2>1. ~(g.pauseLeft = 0) /\ g.pauseOpen
    BY <1>3 DEF Steady
  <2>2. \E t : t # NoTimer /\ Pump(g) = [g EXCEPT !.pumpTimer = t]
    <3>1. Pump(g) = [g EXCEPT !.pumpTimer = IF g.pumpTimer = NoTimer THEN g.pauseLeft ELSE g.pumpTimer]
      BY <1>3, <2>1 DEF Pump
    <3>2. (IF g.pumpTimer = NoTimer THEN g.pauseLeft ELSE g.pumpTimer) # NoTimer
      BY <1>g DEF NoTimer
    <3> QED
      BY <3>1, <3>2
  <2> QED
    BY <1>1, <2>1, <2>2 DEF WakeOK, Awake
<1>4. CASE g.queue # <<>> /\ g.pauseLeft = 0 /\ g.pauseOpen
  <2>1. CASE g.probeOutstanding \/ g.inFlight > 0
    <3>1. Pump(g) = g
      BY <1>4, <2>1 DEF Pump
    <3>2. g.inFlight > 0
      BY <2>1, <1>g DEF Steady, GateOK
    <3> QED
      BY <1>4, <3>1, <3>2 DEF WakeOK, Awake
  <2>2. CASE ~(g.probeOutstanding \/ g.inFlight > 0)
    <3> DEFINE h == GrantProbe(g)
    <3>1. Pump(g) = h
      BY <1>4, <2>2 DEF Pump
    <3>2. h.pauseOpen = g.pauseOpen /\ h.inFlight = g.inFlight + 1 /\ h.probes = g.probes \cup {Head(g.queue)}
      BY <1>g DEF GrantProbe, Gate
    <3> HIDE DEF h
    <3>3. h.inFlight > 0 /\ h.pauseOpen
      BY <1>4, <1>g, <3>2
    <3> QED
      BY <3>1, <3>2, <3>3 DEF WakeOK, Awake, Steady
  <2> QED
    BY <2>1, <2>2
<1>5. CASE g.queue # <<>> /\ g.pauseLeft = 0 /\ ~g.pauseOpen
  <2> DEFINE h == GrantFirst(g, Room(g))
             n == Room(g)
  <2>1. Pump(g) = h
    BY <1>5 DEF Pump
  <2>2. n \in 0..Len(g.queue)
    BY <1>g DEF Room, Lesser, Greater
  <2>3. n = Len(g.queue) \/ g.inFlight + n >= g.effective
    BY <1>g DEF Room, Lesser, Greater
  <2>4. /\ h.queue = SubSeq(g.queue, n + 1, Len(g.queue))
        /\ h.inFlight = g.inFlight + n /\ h.effective = g.effective
        /\ h.pauseOpen = g.pauseOpen /\ h.pauseLeft = g.pauseLeft
        /\ h.probeOutstanding = g.probeOutstanding /\ h.probes = g.probes
    BY <1>g DEF GrantFirst, Gate
  <2> HIDE DEF h, n
  <2>5. Len(h.queue) = Len(g.queue) - n /\ h.queue \in Seq(Calls)
    BY <1>g, <2>2, <2>4, SplitDistinct
  <2>6. CASE n = Len(g.queue)
    <3>1. Len(h.queue) = 0
      BY <1>g, <2>5, <2>6
    <3>2. h.queue = <<>>
      BY <2>5, <3>1, EmptySeq
    <3> QED
      BY <1>5, <2>1, <2>4, <3>2 DEF WakeOK, Awake, Steady
  <2>7. CASE g.inFlight + n >= g.effective
    BY <1>5, <2>1, <2>4, <2>7 DEF WakeOK, Awake, Steady
  <2> QED
    BY <2>3, <2>6, <2>7
<1> QED
  BY <1>2, <1>3, <1>4, <1>5, <1>g

\* The marks are kept by every helper that does not touch the pause ...
LEMMA SteadySame ==
  ASSUME NEW g, Steady(g), NEW h, h.pauseOpen = g.pauseOpen, h.pauseLeft = g.pauseLeft,
         h.probeOutstanding = g.probeOutstanding, h.probes = g.probes
  PROVE  Steady(h)
BY DEF Steady

\* ... by a release, which takes the mark with the probe, ...
LEMMA ReleaseSteady ==
  ASSUME NEW g, GateOK(g), Steady(g), NEW c
  PROVE  Steady(ReleaseSlot(g, c))
<1> DEFINE h == ReleaseSlot(g, c)
<1>1. g \in Gate
  BY DEF GateOK
<1>2. /\ h.pauseOpen = g.pauseOpen /\ h.pauseLeft = g.pauseLeft
      /\ h.probeOutstanding = (IF c \in g.probes THEN FALSE ELSE g.probeOutstanding)
      /\ h.probes = g.probes \ {c}
  BY <1>1 DEF ReleaseSlot, Gate
<1> HIDE DEF h
<1>3. Steady(h)
  BY <1>2 DEF Steady
<1> QED
  BY <1>3 DEF h

\* ... by the answers that end a pause or open one, ...
LEMMA PauseSteady ==
  ASSUME NEW g, GateOK(g), Steady(g), NEW jitter
  PROVE  /\ Steady(NoteDecideSucceeded(g))
         /\ Steady(OpenPauseWindow(g, jitter))
         /\ Steady(NoteDecide503(g, jitter))
<1>1. g \in Gate
  BY DEF GateOK
<1>2. Steady(NoteDecideSucceeded(g))
  BY <1>1 DEF NoteDecideSucceeded, Steady, Gate
<1>3. OpenPauseWindow(g, jitter).pauseOpen = TRUE /\ OpenPauseWindow(g, jitter).probeOutstanding = FALSE
  BY <1>1 DEF OpenPauseWindow, Gate
<1>4. Steady(OpenPauseWindow(g, jitter))
  BY <1>3 DEF Steady
<1>5. Steady([g EXCEPT !.probeOutstanding = FALSE])
  BY <1>1 DEF Steady, Gate
<1> QED
  BY <1>2, <1>4, <1>5 DEF NoteDecide503

\* ... and by the queue.
LEMMA QueueSteady ==
  ASSUME NEW g, GateOK(g), Steady(g), NEW seqOf, NEW c
  PROVE  Steady(TakeSlot(g, c)) /\ Steady(Enqueue(g, seqOf, c)) /\ Steady(Withdraw(g, c))
<1>1. g \in Gate
  BY DEF GateOK
<1>2. \A q : Steady([g EXCEPT !.queue = q])
  BY <1>1 DEF Gate, Steady
<1>3. Steady(TakeSlot(g, c))
  BY <1>1 DEF TakeSlot, Gate, Steady
<1>4. (\E q : Enqueue(g, seqOf, c) = [g EXCEPT !.queue = q])
      /\ \E q : Withdraw(g, c) = [g EXCEPT !.queue = q]
  BY DEF Enqueue, Withdraw
<1> QED
  BY <1>2, <1>3, <1>4

\* A release wakes whoever it can.
LEMMA ReleaseWakes ==
  ASSUME NEW g, GateOK(g), Steady(g), NEW c \in g.slots
  PROVE  WakeOK(Release(g, c))
BY ReleaseSlotOK, ReleaseSteady, PumpWakes DEF Release

\* A call that asks finds no queue, or is queued and the gate is pumped.
LEMMA AcquireWakes ==
  ASSUME NEW g, GateOK(g), Steady(g), NEW seqOf, NEW c \in Calls, c \notin Held(g)
  PROVE  WakeOK(Acquire(g, seqOf, c))
<1>1. CASE FastPath(g)
  <2>1. TakeSlot(g, c).queue = g.queue
    BY DEF TakeSlot, GateOK, Gate
  <2> QED
    BY <1>1, <2>1, QueueSteady DEF Acquire, FastPath, WakeOK, Awake
<1>2. CASE ~FastPath(g)
  <2>1. GateOK(Enqueue(g, seqOf, c)) /\ Steady(Enqueue(g, seqOf, c))
    BY EnqueueOK, QueueSteady
  <2> QED
    BY <1>2, <2>1, PumpWakes DEF Acquire
<1> QED
  BY <1>1, <1>2

\* A new ceiling pumps; an unchanged one changes nothing.
LEMMA RecomputeWakes ==
  ASSUME NEW g, GateOK(g), WakeOK(g), NEW ceiling \in 1..Funded, Recompute(g, ceiling)
  PROVE  WakeOK(gate')
<1> DEFINE h == [g EXCEPT !.effective = ceiling]
<1>1. g \in Gate
  BY DEF GateOK
<1>2. GateOK(h)
  BY CeilingOK
<1>3. /\ h.pauseOpen = g.pauseOpen /\ h.pauseLeft = g.pauseLeft
      /\ h.probeOutstanding = g.probeOutstanding /\ h.probes = g.probes
      /\ h.queue = g.queue /\ h.inFlight = g.inFlight /\ h.pumpTimer = g.pumpTimer
      /\ h.effective = ceiling
  BY <1>1 DEF Gate
<1>4. gate' = Pump(h) \/ (gate' = h /\ g.effective = ceiling)
  BY DEF Recompute
<1> HIDE DEF h
<1>5. Steady(h)
  BY <1>3, SteadySame DEF WakeOK
<1>6. CASE gate' = Pump(h)
  BY <1>2, <1>5, <1>6, PumpWakes
<1>7. CASE gate' = h /\ g.effective = ceiling
  BY <1>3, <1>5, <1>7 DEF WakeOK, Awake
<1> QED
  BY <1>4, <1>6, <1>7

\* A pause opened over a full gate leaves its waiters a request to wait for.
LEMMA OpenPauseWakes ==
  ASSUME NEW g, GateOK(g), WakeOK(g), NEW jitter
  PROVE  WakeOK(OpenPauseWindow(g, jitter))
<1> DEFINE h == OpenPauseWindow(g, jitter)
<1>1. g \in Gate /\ g.inFlight \in Nat /\ g.effective \in Nat /\ g.effective >= 1
  BY GateFields DEF GateOK
<1>2. h.queue = g.queue /\ h.pauseOpen = TRUE /\ h.inFlight = g.inFlight /\ h.pumpTimer = g.pumpTimer
  BY <1>1 DEF OpenPauseWindow, Gate
<1>3. Steady(h)
  BY PauseSteady DEF WakeOK
<1> HIDE DEF h
<1>4. Awake(h)
  BY <1>1, <1>2 DEF WakeOK, Awake
<1> QED
  BY <1>3, <1>4 DEF WakeOK, h

WakeInv == IInv /\ WakeOK(gate)

\* Each step leaves whoever waits something to wait for.
LEMMA WakeStep == ASSUME WakeInv, IInv', [Next]_vars PROVE WakeInv'
<1>t. /\ TypeOK /\ GateOK(gate) /\ gate \in Gate /\ gate.effective \in 1..Funded
      /\ gate.slots \subseteq Calls /\ Queued(gate) \subseteq Calls
      /\ Steady(gate) /\ Awake(gate)
      /\ \A c \in Held(gate) : call[c].status = "admitting"
  BY GateFields DEF WakeInv, IInv, GateOK, Gate, WakeOK, Held
<1>1. ASSUME NEW c \in Calls, Start(c) PROVE WakeOK(gate')
  <2>1. c \notin Held(gate)
    BY <1>t, <1>1 DEF Start
  <2> QED
    BY <1>t, <1>1, <2>1, AcquireWakes DEF Start
<1>2. ASSUME NEW c \in Calls, Served(c) PROVE WakeOK(gate')
  <2> DEFINE n == NoteDecideSucceeded(gate)
             r == ReleaseSlot(n, c)
  <2>1. GateOK(r)
    BY <1>t, <1>2, ReleaseServedOK DEF Served
  <2>2. Steady(n)
    BY <1>t, PauseSteady
  <2>3. gate' = Pump(r)
    BY <1>2 DEF Served, Release
  <2>4. n \in Gate
    <3>1. CASE gate.pauseOpen
      <4>1. n = [gate EXCEPT !.pauseOpen = FALSE, !.probeOutstanding = FALSE,
                             !.pauseLeft = 0, !.pauseWindow = 0]
        BY <3>1 DEF NoteDecideSucceeded
      <4>2. 0 \in 0..MaxWindow /\ 0 \in TimeLeft
        BY GateAssumption DEF TimeLeft
      <4> HIDE DEF n
      <4> QED
        BY <1>t, <4>1, <4>2 DEF Gate
    <3>2. CASE ~gate.pauseOpen
      BY <1>t, <3>2 DEF NoteDecideSucceeded
    <3> QED
      BY <3>1, <3>2
  <2> HIDE DEF n
  <2>5. Steady(r)
    <3>1. /\ r.pauseOpen = n.pauseOpen /\ r.pauseLeft = n.pauseLeft
          /\ r.probeOutstanding = (IF c \in n.probes THEN FALSE ELSE n.probeOutstanding)
          /\ r.probes = n.probes \ {c}
      BY <2>4 DEF ReleaseSlot, Gate
    <3> QED
      BY <2>2, <3>1 DEF Steady
  <2> HIDE DEF r
  <2> QED
    BY <2>1, <2>3, <2>5, PumpWakes
<1>3. ASSUME NEW c \in Calls, Thrown(c) \/ NotFound(c) PROVE WakeOK(gate')
  BY <1>t, <1>3, ReleaseWakes DEF Thrown, NotFound
<1>4. ASSUME NEW c \in Calls, c \in gate.slots, NEW jitter \in Jitter(gate)
      PROVE  LET r == Release(NoteDecide503(gate, jitter), c)
             IN  WakeOK(r) /\ GateOK(r) /\ c \notin Held(r)
  <2> DEFINE n == NoteDecide503(gate, jitter)
  <2>1. jitter \in Nat
    BY <1>t, JitterType
  <2>2. GateOK(n) /\ Held(n) = Held(gate) /\ n.slots = gate.slots /\ Steady(n)
    BY <1>t, <2>1, NoteDecide503OK, PauseSteady
  <2> HIDE DEF n
  <2>3. WakeOK(Release(n, c)) /\ GateOK(Release(n, c)) /\ c \notin Held(Release(n, c))
    BY <1>4, <2>2, ReleaseWakes, ReleaseOK
  <2> QED
    BY <2>3 DEF n
<1>5. ASSUME NEW c \in Calls, NoCapacityRetry(c) PROVE WakeOK(gate')
  <2>1. PICK jitter \in Jitter(gate) :
          gate' = Acquire(Release(NoteDecide503(gate, jitter), c), CallSeq, c)
    BY <1>5 DEF NoCapacityRetry
  <2> DEFINE r == Release(NoteDecide503(gate, jitter), c)
  <2>2. WakeOK(r) /\ GateOK(r) /\ c \notin Held(r)
    BY <1>4, <1>5 DEF NoCapacityRetry
  <2>3. gate' = Acquire(r, CallSeq, c)
    BY <2>1
  <2> HIDE DEF r
  <2> QED
    BY <2>2, <2>3, AcquireWakes DEF WakeOK
<1>6. ASSUME NEW c \in Calls, NoCapacityGiveUp(c) PROVE WakeOK(gate')
  BY <1>4, <1>6 DEF NoCapacityGiveUp
<1>7. ASSUME NEW c \in Calls, RetryNotFound(c) PROVE WakeOK(gate')
  <2>1. c \notin Held(gate)
    BY <1>t, <1>7 DEF RetryNotFound
  <2> QED
    BY <1>t, <1>7, <2>1, AcquireWakes DEF RetryNotFound
<1>8. ASSUME NEW c \in Calls, QueueTimeout(c) PROVE WakeOK(gate')
  <2>1. GateOK(Withdraw(gate, c)) /\ Steady(Withdraw(gate, c))
    BY <1>t, <1>8, WithdrawOK, QueueSteady DEF QueueTimeout
  <2> QED
    BY <1>8, <2>1, PumpWakes DEF QueueTimeout
<1>9. ASSUME PumpTimerFires PROVE WakeOK(gate')
  <2> DEFINE g == [gate EXCEPT !.pumpTimer = NoTimer]
  <2>1. /\ g \in Gate /\ SameCalls(gate, g) /\ g.pauseOpen = gate.pauseOpen
        /\ g.pauseLeft = gate.pauseLeft /\ g.probeOutstanding = gate.probeOutstanding
    BY <1>t DEF Gate, SameCalls
  <2>2. gate' = Pump(g)
    BY <1>9 DEF PumpTimerFires
  <2> HIDE DEF g
  <2>3. GateOK(g)
    BY <1>t, <2>1, SameCallsOK DEF GateOK
  <2>4. Steady(g)
    BY <1>t, <2>1, SteadySame DEF SameCalls
  <2> QED
    BY <2>2, <2>3, <2>4, PumpWakes
<1>10. ASSUME RefreshEnds PROVE WakeOK(gate')
  <2>1. \/ \E ceiling \in 1..Funded : Recompute(gate, ceiling)
        \/ \E jitter \in Jitter(gate), ceiling \in 1..Funded :
             Recompute(OpenPauseWindow(gate, jitter), ceiling)
    <3>1. CASE CapacityAnswered
      BY <1>t, <3>1, CeilingType DEF CapacityAnswered
    <3>2. CASE CapacityStalled
      <4>1. CASE capacity.stallStreak >= 1
        BY <1>t, <3>2, <4>1, CeilingType DEF CapacityStalled
      <4>2. CASE ~(capacity.stallStreak >= 1)
        BY <1>t, <3>2, <4>2, CeilingType DEF CapacityStalled
      <4> QED
        BY <4>1, <4>2
    <3>3. CASE CapacityFailed
      BY <1>t, <3>3 DEF CapacityFailed
    <3> QED
      BY <1>10, <3>1, <3>2, <3>3 DEF RefreshEnds
  <2>2. CASE \E ceiling \in 1..Funded : Recompute(gate, ceiling)
    BY <1>t, <2>2, RecomputeWakes DEF WakeOK
  <2>3. CASE \E jitter \in Jitter(gate), ceiling \in 1..Funded :
               Recompute(OpenPauseWindow(gate, jitter), ceiling)
    <3>1. PICK jitter \in Jitter(gate), ceiling \in 1..Funded :
            Recompute(OpenPauseWindow(gate, jitter), ceiling)
      BY <2>3
    <3> DEFINE g == OpenPauseWindow(gate, jitter)
    <3>2. GateOK(g) /\ WakeOK(g) /\ Recompute(g, ceiling)
      BY <1>t, <3>1, JitterType, OpenPauseWindowOK, OpenPauseWakes DEF WakeOK
    <3> HIDE DEF g
    <3> QED
      BY <3>2, RecomputeWakes
  <2> QED
    BY <2>1, <2>2, <2>3
<1>11. ASSUME Tick PROVE WakeOK(gate')
  <2>1. gate' = [gate EXCEPT !.pauseLeft = Less1(gate.pauseLeft), !.pumpTimer = Less1(gate.pumpTimer)]
    BY <1>11 DEF Tick
  <2>2. /\ gate'.queue = gate.queue /\ gate'.pauseOpen = gate.pauseOpen
        /\ gate'.inFlight = gate.inFlight /\ gate'.effective = gate.effective
        /\ gate'.probeOutstanding = gate.probeOutstanding /\ gate'.probes = gate.probes
        /\ gate'.pauseLeft = Less1(gate.pauseLeft) /\ gate'.pumpTimer = Less1(gate.pumpTimer)
    BY <1>t, <2>1 DEF Gate
  <2>3. gate.pumpTimer \in Nat \cup {NoTimer}
    BY <1>t, GateFields
  <2>4. gate.pumpTimer # NoTimer => gate'.pumpTimer # NoTimer
    BY <2>2, <2>3 DEF Less1, NoTimer
  <2>5. gate.pauseLeft = 0 => gate'.pauseLeft = 0
    BY <2>2 DEF Less1
  <2> QED
    BY <1>t, <2>2, <2>4, <2>5 DEF WakeOK, Steady, Awake
<1>12. ASSUME gate' = gate PROVE WakeOK(gate')
  BY <1>t, <1>12 DEF WakeOK
<1>13. WakeOK(gate')
  BY <1>1, <1>2, <1>3, <1>5, <1>6, <1>7, <1>8, <1>9, <1>10, <1>11, <1>12
     DEF Next, Respond, BeginDecideJob, Quiescent, vars
<1> QED
  BY <1>13 DEF WakeInv, WakeOK, Steady, Awake

\* No lost wake-up: a call waits only behind a full gate or, while the gate is
\* paused, for an answer still out or the timer of the pump (pumpDecideQueue).
THEOREM NoLostWakeupHolds == Spec => []NoLostWakeup
<1>1. Init => WakeInv
  <2> SUFFICES ASSUME Init PROVE WakeInv
    OBVIOUS
  <2>1. gate.queue = <<>> /\ gate.pauseLeft = 0 /\ gate.probeOutstanding = FALSE
    BY DEF Init
  <2> QED
    BY <2>1, InitIInv DEF WakeInv, WakeOK, Steady, Awake
<1>2. WakeInv /\ IInv' /\ [Next]_vars => WakeInv'
  BY WakeStep
<1>3. WakeInv => NoLostWakeup
  BY DEF WakeInv, WakeOK, Awake, NoLostWakeup
<1> QED
  BY <1>1, <1>2, <1>3, Inductive, PTL DEF Spec
=============================================================================
