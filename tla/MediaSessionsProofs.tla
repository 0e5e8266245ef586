--------------------------- MODULE MediaSessionsProofs ---------------------------
(***************************************************************************)
(* Proofs about MediaSessions, for every number of shares, sessions,       *)
(* requests, sockets, crashes and restarts.                                *)
(***************************************************************************)
EXTENDS MediaSessions, TLAPS

SessionType == [st: {"free", "open", "closing", "over", "lost"},
                job: Shares \cup {NoShare}, sockets: 0..MaxSockets, peer: BOOLEAN,
                rtc: BOOLEAN, paid: BOOLEAN, noClient: BOOLEAN, grace: BOOLEAN,
                reason: Timeouts \cup {"none", "payment-failure", "control-close"}]

PostType == [st: {"idle", "checking", "asking", "reserving", "answered", "over"},
             own: BOOLEAN, job: Shares \cup {NoShare}, sid: Sids \cup {NoSid}]
RowType == [sid: Sids \cup {NoSid}, active: BOOLEAN]
NoticeType == {"none", "last", "superseded", "lost"}

\* TypeOK in parts.
PlaneTyped ==
  /\ status \in [Shares -> {"active", "done", "failed"}]
  /\ verdict \in [Shares -> {"none", "done", "failed"}]
  /\ asked \subseteq Shares
  /\ row \in [Shares -> RowType]
  /\ pointer \in [Shares -> Sids \cup {NoSid}]
PostTyped == post \in [Posts -> PostType]
NodeTyped == up \in BOOLEAN /\ sess \in [Sids -> SessionType] /\ ledger \subseteq Sids
NoticeTyped == notice \in [Sids -> NoticeType]
FaultTyped == crashes \in 0..MaxCrashes /\ restarts \in 0..MaxRestarts

\* An armed timer means that no socket is attached.
TimersOK(S) == \A s \in Sids : S[s].sockets > 0 => ~S[s].noClient /\ ~S[s].grace

\* The file names what is in the map, or what a crash took from it; what is
\* reported lost was lost.
LedgerOK ==
  /\ \A s \in ledger : sess[s].st \in {"open", "closing", "lost"}
  /\ ~up => \A s \in Sids : sess[s].st \notin {"open", "closing"}
  /\ \A s \in Sids : notice[s] = "lost" => sess[s].st = "lost"

\* A share is failed by a restart, or by the loss of one of its sessions.
Lost(j) == restarts > 0 \/ \E s \in Sids : sess[s].job = j /\ sess[s].st = "lost"
FailedOK == \A j \in Shares : "failed" \in {status[j], verdict[j]} => Lost(j)

\* The node is asked to close once the outcome is decided.
AskedOK == \A j \in asked : status[j] = "active" => verdict[j] # "none"

IInv == TypeOK /\ TimersOK(sess) /\ LedgerOK /\ FailedOK /\ AskedOK
-----------------------------------------------------------------------------
\* The parts make up TypeOK.
LEMMA TypeParts ==
  TypeOK <=> PlaneTyped /\ PostTyped /\ NodeTyped /\ NoticeTyped /\ FaultTyped
BY DEF TypeOK, PlaneTyped, PostTyped, NodeTyped, NoticeTyped, FaultTyped, RowType, PostType,
       SessionType, NoticeType

\* The same of the next state.
LEMMA NextParts ==
  ASSUME PlaneTyped', PostTyped', NodeTyped', NoticeTyped', FaultTyped' PROVE TypeOK'
BY DEF TypeOK, PlaneTyped, PostTyped, NodeTyped, NoticeTyped, FaultTyped, RowType, PostType,
       SessionType, NoticeType

\* A session that was never opened is a session.
LEMMA NoSessionTyped == NoSession \in SessionType
BY SessionAssumption DEF NoSession, SessionType

\* The invariant holds when both processes start.
LEMMA InitInv == Init => IInv
<1> SUFFICES ASSUME Init PROVE IInv
  OBVIOUS
<1>1. TypeOK
  BY NoSessionTyped, SessionAssumption DEF Init, TypeOK, SessionType
<1>2. TimersOK(sess)
  BY DEF Init, TimersOK, NoSession
<1>3. LedgerOK /\ FailedOK /\ AskedOK
  BY DEF Init, LedgerOK, FailedOK, AskedOK
<1> QED
  BY <1>1, <1>2, <1>3 DEF IInv

\* A step of a request that leaves the sessions and the shares' ends alone.
LEMMA PostInv ==
  ASSUME IInv, PlaneTyped', PostTyped',
         UNCHANGED <<status, verdict, asked, nodeVars, notice, faultVars>>
  PROVE  IInv'
<1>1. TimersOK(sess)' /\ LedgerOK' /\ FailedOK' /\ AskedOK'
  BY DEF IInv, TimersOK, LedgerOK, FailedOK, Lost, AskedOK, nodeVars, faultVars
<1>2. NodeTyped' /\ NoticeTyped' /\ FaultTyped'
  BY TypeParts DEF IInv, NodeTyped, NoticeTyped, FaultTyped, nodeVars, faultVars
<1>3. TypeOK'
  BY <1>2, NextParts
<1> QED
  BY <1>1, <1>3 DEF IInv

\* A step of one session s, which was not lost and stays off or on the ledger as
\* its new state allows.
LEMMA SessionInv ==
  ASSUME IInv, NEW s \in Sids, PlaneTyped', PostTyped', NoticeTyped',
         UNCHANGED <<status, verdict, up, faultVars>>,
         \A j \in asked' : status[j] = "active" => verdict[j] # "none",
         NEW R \in SessionType, sess' = [sess EXCEPT ![s] = R],
         sess[s].st # "lost", R.st # "lost",
         R.sockets > 0 => ~R.noClient /\ ~R.grace,
         ledger' \subseteq ledger \cup {s},
         s \in ledger' => R.st \in {"open", "closing"},
         R.st \in {"open", "closing"} => up,
         \A t \in Sids : notice'[t] = "lost" => notice[t] = "lost"
  PROVE  IInv'
<1> USE DEF IInv
<1>0. NodeTyped /\ FaultTyped
  BY TypeParts
<1>1. \A t \in Sids : sess'[t] = IF t = s THEN R ELSE sess[t]
  BY <1>0 DEF NodeTyped
<1>2. TimersOK(sess)'
  BY <1>1 DEF TimersOK
<1>3. LedgerOK'
  <2>1. \A t \in ledger' : sess'[t].st \in {"open", "closing", "lost"}
    BY <1>0, <1>1 DEF LedgerOK, NodeTyped
  <2>2. ~up' => \A t \in Sids : sess'[t].st \notin {"open", "closing"}
    BY <1>1 DEF LedgerOK
  <2>3. \A t \in Sids : notice'[t] = "lost" => sess'[t].st = "lost"
    BY <1>1 DEF LedgerOK
  <2> QED
    BY <2>1, <2>2, <2>3 DEF LedgerOK
<1>4. FailedOK'
  BY <1>1 DEF FailedOK, Lost, faultVars
<1>5. AskedOK'
  BY DEF AskedOK
<1>6. NodeTyped' /\ FaultTyped'
  BY <1>0 DEF NodeTyped, FaultTyped, faultVars
<1>7. TypeOK'
  BY <1>6, NextParts
<1> QED
  BY <1>2, <1>3, <1>4, <1>5, <1>7
-----------------------------------------------------------------------------
(***************************************************************************)
(* One lemma per handler.                                                  *)
(***************************************************************************)

\* A request for a session, until it is reserved or over.
LEMMA RequestInv ==
  ASSUME IInv, NEW p \in Posts,
         \/ Healthy(p) \/ Unhealthy(p) \/ Asked(p) \/ AskFails(p) \/ Answered(p)
         \/ \E j \in Shares : Media(p, j) \/ Direct(p, j)
  PROVE  IInv'
<1>1. PlaneTyped /\ PostTyped
  BY TypeParts DEF IInv
<1>2. post[p] \in PostType /\ NoSid \in Sids \cup {NoSid}
  BY <1>1 DEF PostTyped
<1>3. CASE Healthy(p)
  <2>1. PlaneTyped'
    BY <1>1, <1>2, <1>3 DEF PlaneTyped, Healthy, PostType
  <2>2. PostTyped'
    BY <1>1, <1>2, <1>3 DEF PostTyped, Healthy, PostType
  <2> QED
    BY <1>3, <2>1, <2>2, PostInv DEF Healthy
<1>4. CASE Unhealthy(p)
  <2>1. PostTyped'
    BY <1>1, <1>2, <1>4 DEF PostTyped, Unhealthy, PostType
  <2> QED
    BY <1>1, <1>4, <2>1, PostInv DEF Unhealthy, planeVars, PlaneTyped
<1>5. CASE Asked(p)
  <2>1. PICK r \in PostType : post' = [post EXCEPT ![p] = r]
    <3>1. CASE OpenOf(post[p].job) = {}
      BY <1>2, <1>5, <3>1 DEF Asked, PostType
    <3>2. CASE OpenOf(post[p].job) # {}
      <4>1. PICK s \in Sids : post' = [post EXCEPT ![p].st = "answered", ![p].sid = s]
        BY <1>5, <3>2 DEF Asked, OpenOf
      <4> DEFINE r == [post[p] EXCEPT !.st = "answered", !.sid = s]
      <4>2. r \in PostType
        BY <1>2 DEF PostType
      <4>3. post' = [post EXCEPT ![p] = r]
        BY <4>1
      <4> QED
        BY <4>2, <4>3
    <3> QED
      BY <3>1, <3>2
  <2>2. PostTyped'
    BY <1>1, <2>1 DEF PostTyped
  <2> QED
    BY <1>1, <1>5, <2>2, PostInv DEF Asked, planeVars, PlaneTyped
<1>6. CASE AskFails(p)
  <2>1. PostTyped'
    BY <1>1, <1>2, <1>6 DEF PostTyped, AskFails, PostType
  <2> QED
    BY <1>1, <1>6, <2>1, PostInv DEF AskFails, planeVars, PlaneTyped
<1>7. CASE Answered(p)
  <2>1. PostTyped'
    BY <1>1, <1>2, <1>7 DEF PostTyped, Answered, PostType
  <2>2. [sid |-> post[p].sid, active |-> TRUE] \in RowType
    BY <1>2 DEF PostType, RowType
  <2>3. row' \in [Shares -> RowType] /\ pointer' \in [Shares -> Sids \cup {NoSid}]
    BY <1>1, <1>2, <1>7, <2>2 DEF PlaneTyped, Answered, PostType
  <2> QED
    BY <1>1, <1>7, <2>1, <2>3, PostInv DEF Answered, PlaneTyped
<1>8. ASSUME NEW j \in Shares, Media(p, j) PROVE IInv'
  <2>1. row[j] \in RowType
    BY <1>1 DEF PlaneTyped
  <2>2. PostTyped'
    BY <1>1, <1>8, <2>1 DEF PostTyped, Media, PostType, RowType
  <2> QED
    BY <1>1, <1>8, <2>2, PostInv DEF Media, planeVars, PlaneTyped
<1>9. ASSUME NEW j \in Shares, Direct(p, j) PROVE IInv'
  <2>1. PostTyped'
    BY <1>1, <1>9 DEF PostTyped, Direct, PostType
  <2> QED
    BY <1>1, <1>9, <2>1, PostInv DEF Direct, planeVars, PlaneTyped
<1> QED
  BY <1>3, <1>4, <1>5, <1>6, <1>7, <1>8, <1>9

\* A reservation puts a session in the map, on the ledger when it is paid.
LEMMA ReservedInv ==
  ASSUME IInv, NEW p \in Posts, NEW s \in Sids, Reserved(p, s) \/ PaymentThrows(p, s) PROVE IInv'
<1>1. PlaneTyped /\ PostTyped /\ NoticeTyped
  BY TypeParts DEF IInv
<1>2. post[p] \in PostType
  BY <1>1 DEF PostTyped
<1>3. PostTyped'
  BY <1>1, <1>2 DEF Reserved, PaymentThrows, PostTyped, PostType
<1>4. PICK R \in SessionType : sess' = [sess EXCEPT ![s] = R] /\ R.st = "open" /\ R.sockets = 0
  <2>1. CASE Reserved(p, s)
    <3> DEFINE R == [NoSession EXCEPT !.st = "open", !.job = post[p].job,
                                      !.paid = TRUE, !.noClient = TRUE]
    <3>1. R \in SessionType /\ R.st = "open" /\ R.sockets = 0
      BY <1>2, NoSessionTyped DEF PostType, NoSession, SessionType
    <3> QED
      BY <2>1, <3>1 DEF Reserved
  <2>2. CASE PaymentThrows(p, s)
    <3> DEFINE R == [NoSession EXCEPT !.st = "open", !.job = post[p].job]
    <3>1. R \in SessionType /\ R.st = "open" /\ R.sockets = 0
      BY <1>2, NoSessionTyped DEF PostType, NoSession, SessionType
    <3> QED
      BY <2>2, <3>1 DEF PaymentThrows
  <2> QED
    BY <2>1, <2>2
<1>5. /\ UNCHANGED <<planeVars, up, notice, faultVars>>
      /\ up /\ sess[s].st = "free" /\ ledger' \subseteq ledger \cup {s}
  BY DEF Reserved, PaymentThrows
<1>6. PlaneTyped' /\ NoticeTyped' /\ \A j \in asked' : status[j] = "active" => verdict[j] # "none"
  BY <1>1, <1>5 DEF PlaneTyped, NoticeTyped, planeVars, IInv, AskedOK
<1>7. \A t \in Sids : notice'[t] = "lost" => notice[t] = "lost"
  BY <1>5
<1>8. UNCHANGED <<status, verdict, up, faultVars>>
  BY <1>5 DEF planeVars
<1>9. sess[s].st # "lost" /\ R.st # "lost" /\ (R.sockets > 0 => ~R.noClient /\ ~R.grace)
  BY <1>4, <1>5
<1> QED
  BY <1>3, <1>4, <1>5, <1>6, <1>7, <1>8, <1>9, SessionInv

\* What a client does to its session leaves it open, with no timer under a socket.
LEMMA ClientInv ==
  ASSUME IInv, NEW s \in Sids, WsAttach(s) \/ WsDrop(s) \/ RtcOffer(s) \/ RtcDrop(s) PROVE IInv'
<1>0. sess[s] \in SessionType
  BY DEF IInv, TypeOK, SessionType
<1>1. PICK R \in SessionType : /\ sess' = [sess EXCEPT ![s] = R]
                               /\ R.st = "open" /\ (R.sockets > 0 => ~R.noClient /\ ~R.grace)
  <2>1. CASE WsAttach(s)
    <3> DEFINE R == [sess[s] EXCEPT !.sockets = @ + 1, !.noClient = FALSE, !.grace = FALSE]
    <3>0. sess[s].sockets + 1 \in 0..MaxSockets
      BY <1>0, <2>1, SessionAssumption DEF WsAttach, SessionType
    <3>1. R \in SessionType /\ sess' = [sess EXCEPT ![s] = R] /\ R.st = "open"
      BY <1>0, <2>1, <3>0 DEF WsAttach, Open, SessionType
    <3> QED
      BY <3>1, <1>0 DEF SessionType
  <2>2. CASE WsDrop(s)
    <3> DEFINE R == [sess[s] EXCEPT !.sockets = @ - 1, !.grace = @ \/ sess[s].sockets = 1]
    <3>0. sess[s].sockets - 1 \in 0..MaxSockets /\ sess[s].grace \in BOOLEAN
      BY <1>0, <2>2, SessionAssumption DEF WsDrop, SessionType
    <3>1. R \in SessionType /\ sess' = [sess EXCEPT ![s] = R] /\ R.st = "open"
      BY <1>0, <2>2, <3>0 DEF WsDrop, Open, SessionType
    <3>2. R.sockets > 0 => ~R.noClient /\ ~R.grace
      BY <1>0, <2>2, SessionAssumption DEF WsDrop, SessionType, IInv, TimersOK
    <3> QED
      BY <3>1, <3>2
  <2>3. CASE RtcOffer(s)
    <3>1. CASE ~sess[s].rtc
      <4> DEFINE R == [sess[s] EXCEPT !.rtc = TRUE, !.peer = TRUE, !.noClient = FALSE]
      <4>1. R \in SessionType /\ sess' = [sess EXCEPT ![s] = R] /\ R.st = "open"
        BY <1>0, <2>3, <3>1 DEF RtcOffer, Open, SessionType
      <4>2. R.sockets > 0 => ~R.noClient /\ ~R.grace
        BY <1>0 DEF SessionType, IInv, TimersOK
      <4> QED
        BY <4>1, <4>2
    <3>2. CASE sess[s].rtc
      <4>1. PICK seen \in BOOLEAN :
              sess' = [sess EXCEPT ![s].peer = TRUE,
                                   ![s].grace = @ \/ (seen /\ sess[s].sockets = 0)]
        BY <2>3, <3>2 DEF RtcOffer
      <4> DEFINE R == [sess[s] EXCEPT !.peer = TRUE, !.grace = @ \/ (seen /\ sess[s].sockets = 0)]
      <4>2. R \in SessionType /\ sess' = [sess EXCEPT ![s] = R] /\ R.st = "open"
        BY <1>0, <2>3, <4>1 DEF RtcOffer, Open, SessionType
      <4>3. R.sockets > 0 => ~R.noClient /\ ~R.grace
        BY <1>0 DEF SessionType, IInv, TimersOK
      <4> QED
        BY <4>2, <4>3
    <3> QED
      BY <3>1, <3>2
  <2>4. CASE RtcDrop(s)
    <3>1. PICK seen \in BOOLEAN :
            sess' = [sess EXCEPT ![s].peer = FALSE,
                                 ![s].grace = @ \/ (seen /\ sess[s].sockets = 0)]
      BY <2>4 DEF RtcDrop
    <3> DEFINE R == [sess[s] EXCEPT !.peer = FALSE, !.grace = @ \/ (seen /\ sess[s].sockets = 0)]
    <3>2. R \in SessionType /\ sess' = [sess EXCEPT ![s] = R] /\ R.st = "open"
      BY <1>0, <2>4, <3>1 DEF RtcDrop, Open, SessionType
    <3>3. R.sockets > 0 => ~R.noClient /\ ~R.grace
      BY <1>0 DEF SessionType, IInv, TimersOK
    <3> QED
      BY <3>2, <3>3
  <2> QED
    BY <2>1, <2>2, <2>3, <2>4
<1>2. /\ up /\ sess[s].st = "open" /\ ledger' \subseteq ledger \cup {s}
      /\ UNCHANGED <<planeVars, post, up, notice, faultVars>>
  BY DEF WsAttach, WsDrop, RtcOffer, RtcDrop, Open
<1>3. PlaneTyped' /\ PostTyped' /\ NoticeTyped'
  BY <1>2, TypeParts DEF IInv, PlaneTyped, PostTyped, NoticeTyped, planeVars
<1>4. \A j \in asked' : status[j] = "active" => verdict[j] # "none"
  BY <1>2 DEF IInv, AskedOK, planeVars
<1>5. UNCHANGED <<status, verdict, up, faultVars>> /\ \A t \in Sids : notice'[t] = notice[t]
  BY <1>2 DEF planeVars
<1> QED
  BY <1>1, <1>2, <1>3, <1>4, <1>5, SessionInv

\* What teardown leaves of a session.
LEMMA TornDown ==
  ASSUME NodeTyped, NEW s \in Sids,
         NEW reason \in Timeouts \cup {"none", "payment-failure", "control-close"},
         Teardown(s, reason)
  PROVE  \E R \in SessionType :
           /\ sess' = [sess EXCEPT ![s] = R]
           /\ R.st = "closing" /\ R.sockets = 0 /\ R.job = sess[s].job
<1> DEFINE R == [NoSession EXCEPT !.st = "closing", !.job = sess[s].job, !.reason = reason]
<1>1. sess[s].job \in Shares \cup {NoShare}
  BY DEF NodeTyped, SessionType
<1>2. R \in SessionType /\ R.st = "closing" /\ R.sockets = 0 /\ R.job = sess[s].job
  BY <1>1, NoSessionTyped DEF NoSession, SessionType
<1> QED
  BY <1>2 DEF Teardown

\* A timer or a failed payment tears an open session down.
LEMMA ExpireInv ==
  ASSUME IInv, NEW s \in Sids, NoClientFires(s) \/ GraceFires(s) \/ PaymentFails(s) PROVE IInv'
<1>1. NodeTyped
  BY TypeParts DEF IInv
<1>2. PICK R \in SessionType :
        sess' = [sess EXCEPT ![s] = R] /\ R.st = "closing" /\ R.sockets = 0
  BY <1>1, TornDown DEF NoClientFires, GraceFires, PaymentFails, Timeouts
<1>3. /\ up /\ sess[s].st = "open"
      /\ UNCHANGED <<planeVars, post, up, ledger, notice, faultVars>>
  BY DEF NoClientFires, GraceFires, PaymentFails, Open
<1>4. PlaneTyped' /\ PostTyped' /\ NoticeTyped'
  BY <1>3, TypeParts DEF IInv, PlaneTyped, PostTyped, NoticeTyped, planeVars
<1>5. \A j \in asked' : status[j] = "active" => verdict[j] # "none"
  BY <1>3 DEF IInv, AskedOK, planeVars
<1>6. UNCHANGED <<status, verdict, up, faultVars>> /\ \A t \in Sids : notice'[t] = notice[t]
  BY <1>3 DEF planeVars
<1>7. /\ ledger' \subseteq ledger \cup {s}
      /\ \A t \in Sids : notice'[t] = "lost" => notice[t] = "lost"
      /\ sess[s].st # "lost" /\ R.st # "lost" /\ (R.sockets > 0 => ~R.noClient /\ ~R.grace)
      /\ R.st \in {"open", "closing"} /\ up
  BY <1>2, <1>3, <1>6
<1> QED
  BY <1>2, <1>4, <1>5, <1>6, <1>7, SessionInv

\* The release is answered: the notice of the end goes out.
LEMMA ReleasedInv ==
  ASSUME IInv, NEW s \in Sids, Released(s) PROVE IInv'
<1>1. NodeTyped /\ NoticeTyped /\ sess[s] \in SessionType
  BY TypeParts DEF IInv, NodeTyped
<1> DEFINE R == [sess[s] EXCEPT !.st = "over"]
<1>2. /\ R \in SessionType /\ sess' = [sess EXCEPT ![s] = R] /\ R.st = "over"
      /\ R.sockets = sess[s].sockets /\ R.noClient = sess[s].noClient /\ R.grace = sess[s].grace
  BY <1>1 DEF Released, SessionType
<1>3. R.sockets > 0 => ~R.noClient /\ ~R.grace
  BY <1>2 DEF IInv, TimersOK
<1>4. PlaneTyped' /\ PostTyped' /\ UNCHANGED <<status, verdict, up, faultVars>> /\ asked' = asked
  BY TypeParts DEF Released, IInv, PlaneTyped, PostTyped, planeVars
<1>5. NoticeTyped' /\ \A t \in Sids : notice'[t] = "lost" => notice[t] = "lost"
  BY <1>1 DEF Released, NoticeTyped, NoticeType
<1>6. sess[s].st = "closing" /\ ledger' = ledger \ {s}
  BY DEF Released
<1>7. ledger' \subseteq ledger \cup {s} /\ s \notin ledger'
  BY <1>6
<1>8. \A j \in asked' : status[j] = "active" => verdict[j] # "none"
  BY <1>4 DEF IInv, AskedOK
<1> HIDE DEF R
<1> QED
  BY <1>2, <1>3, <1>4, <1>5, <1>6, <1>7, <1>8, SessionInv

\* The end of a share is decided: nothing but its verdict moves.
LEMMA StopInv ==
  ASSUME IInv, NEW j \in Shares, Stop(j) PROVE IInv'
<1>1. PlaneTyped /\ PostTyped /\ NodeTyped /\ NoticeTyped /\ FaultTyped
  BY TypeParts DEF IInv
<1>2. PlaneTyped' /\ PostTyped' /\ NodeTyped' /\ NoticeTyped' /\ FaultTyped'
  BY <1>1 DEF Stop, PlaneTyped, PostTyped, NodeTyped, NoticeTyped, FaultTyped, nodeVars, faultVars
<1>3. TimersOK(sess)' /\ LedgerOK'
  BY DEF Stop, IInv, TimersOK, LedgerOK, nodeVars
<1>4. FailedOK'
  BY <1>1 DEF Stop, IInv, FailedOK, Lost, PlaneTyped, nodeVars, faultVars
<1>5. AskedOK'
  BY <1>1 DEF Stop, IInv, AskedOK, PlaneTyped
<1>6. TypeOK'
  BY <1>2, NextParts
<1> QED
  BY <1>3, <1>4, <1>5, <1>6 DEF IInv

\* A report can fail a share only for a session that was lost.
LEMMA NoticeInv ==
  ASSUME IInv, NEW s \in Sids, NoticeArrives(s) \/ NoticeLost(s) PROVE IInv'
<1>1. PlaneTyped /\ PostTyped /\ NodeTyped /\ NoticeTyped /\ FaultTyped
  BY TypeParts DEF IInv
<1> DEFINE j == sess[s].job
<1>2. PICK o \in {"done", "failed"} :
        /\ verdict' = verdict \/ verdict' = [verdict EXCEPT ![j] = o]
        /\ o = "failed" => notice[s] = "lost"
  <2>1. CASE NoticeArrives(s)
    <3>1. CASE notice[s] = "lost"
      BY <2>1, <3>1 DEF NoticeArrives
    <3>2. CASE notice[s] # "lost"
      BY <2>1, <3>2 DEF NoticeArrives
    <3> QED
      BY <3>1, <3>2
  <2>2. CASE NoticeLost(s)
    BY <2>2 DEF NoticeLost, planeVars
  <2> QED
    BY <2>1, <2>2
<1>3. /\ UNCHANGED <<status, asked, row, pointer, post, nodeVars, faultVars>>
      /\ notice' = [notice EXCEPT ![s] = "none"] \/ notice' = notice
  BY DEF NoticeArrives, NoticeLost, planeVars
<1>4. PlaneTyped' /\ PostTyped' /\ NodeTyped' /\ NoticeTyped' /\ FaultTyped'
  <2>1. PlaneTyped'
    BY <1>1, <1>2, <1>3 DEF PlaneTyped
  <2>2. NoticeTyped'
    BY <1>1, <1>3 DEF NoticeTyped, NoticeType
  <2>3. PostTyped' /\ NodeTyped' /\ FaultTyped'
    BY <1>1, <1>3 DEF PostTyped, NodeTyped, FaultTyped, nodeVars, faultVars
  <2> QED
    BY <2>1, <2>2, <2>3
<1>5. TimersOK(sess)'
  BY <1>3 DEF IInv, TimersOK, nodeVars
<1>6. LedgerOK'
  <2>1. \A t \in Sids : notice'[t] = "lost" => notice[t] = "lost"
    BY <1>1, <1>3 DEF NoticeTyped
  <2> QED
    BY <1>3, <2>1 DEF IInv, LedgerOK, nodeVars
<1>7. FailedOK'
  <2> SUFFICES ASSUME NEW k \in Shares, "failed" \in {status[k], verdict'[k]} PROVE Lost(k)
    BY <1>3 DEF FailedOK, Lost, nodeVars, faultVars
  <2>1. CASE "failed" \in {status[k], verdict[k]}
    BY <2>1 DEF IInv, FailedOK
  <2>2. CASE "failed" \notin {status[k], verdict[k]}
    <3>1. k = j /\ o = "failed"
      BY <1>1, <1>2, <2>2 DEF PlaneTyped
    <3>2. sess[s].st = "lost"
      BY <1>2, <3>1 DEF IInv, LedgerOK
    <3> QED
      BY <3>1, <3>2 DEF Lost
  <2> QED
    BY <2>1, <2>2
<1>8. AskedOK'
  BY <1>1, <1>2, <1>3 DEF IInv, AskedOK, PlaneTyped
<1>9. TypeOK'
  BY <1>4, NextParts
<1> QED
  BY <1>5, <1>6, <1>7, <1>8, <1>9 DEF IInv

\* The node is asked to close, or is not reached: the share has its verdict.
LEMMA CloseInv ==
  ASSUME IInv, NEW j \in Shares, CloseAsked(j) \/ CloseLost(j) PROVE IInv'
<1>1. PlaneTyped /\ PostTyped /\ NodeTyped /\ NoticeTyped /\ FaultTyped
  BY TypeParts DEF IInv
<1>2. /\ asked' = asked \cup {j} /\ verdict[j] # "none"
      /\ UNCHANGED <<status, verdict, pointer, post, up, ledger, notice, faultVars>>
  BY DEF CloseAsked, CloseLost, nodeVars
<1>3. row' = row \/ row' = [row EXCEPT ![j].active = FALSE]
  BY DEF CloseAsked, CloseLost
<1>4. row' \in [Shares -> RowType]
  BY <1>1, <1>3 DEF PlaneTyped, RowType
<1>5. PlaneTyped' /\ PostTyped' /\ NoticeTyped' /\ FaultTyped'
  BY <1>1, <1>2, <1>4 DEF PlaneTyped, PostTyped, NoticeTyped, FaultTyped, faultVars
<1>6. \A k \in asked' : status[k] = "active" => verdict[k] # "none"
  BY <1>2 DEF IInv, AskedOK
<1>7. CASE UNCHANGED sess
  <2>1. NodeTyped'
    BY <1>1, <1>2, <1>7 DEF NodeTyped
  <2>2. TypeOK'
    BY <1>5, <2>1, NextParts
  <2>3. TimersOK(sess)' /\ LedgerOK' /\ FailedOK'
    BY <1>2, <1>7 DEF IInv, TimersOK, LedgerOK, FailedOK, Lost, faultVars
  <2>4. AskedOK'
    BY <1>2, <1>6 DEF AskedOK
  <2> QED
    BY <2>2, <2>3, <2>4 DEF IInv
<1>8. CASE ~UNCHANGED sess
  <2>1. PICK s \in Sids : Open(s) /\ Teardown(s, "control-close")
    BY <1>8 DEF CloseAsked, CloseLost, OpenOf, nodeVars
  <2>2. PICK R \in SessionType :
          sess' = [sess EXCEPT ![s] = R] /\ R.st = "closing" /\ R.sockets = 0
    BY <1>1, <2>1, TornDown
  <2>3. /\ \A t \in Sids : notice'[t] = "lost" => notice[t] = "lost"
        /\ sess[s].st # "lost" /\ R.st # "lost" /\ (R.sockets > 0 => ~R.noClient /\ ~R.grace)
        /\ R.st \in {"open", "closing"} /\ up /\ ledger' \subseteq ledger \cup {s}
    BY <1>2, <2>1, <2>2 DEF Open
  <2>4. UNCHANGED <<status, verdict, up, faultVars>>
    BY <1>2
  <2> QED
    BY <1>5, <1>6, <2>2, <2>3, <2>4, SessionInv
<1> QED
  BY <1>7, <1>8

\* The share ends as it was decided.
LEMMA ConcludeInv ==
  ASSUME IInv, NEW j \in Shares, Conclude(j) PROVE IInv'
<1>1. PlaneTyped /\ PostTyped /\ NodeTyped /\ NoticeTyped /\ FaultTyped
  BY TypeParts DEF IInv
<1>2. verdict[j] \in {"done", "failed"}
  BY <1>1 DEF Conclude, IInv, AskedOK, PlaneTyped
<1>3. PlaneTyped'
  BY <1>1, <1>2 DEF Conclude, PlaneTyped, RowType
<1>4. PostTyped' /\ NodeTyped' /\ NoticeTyped' /\ FaultTyped'
  BY <1>1 DEF Conclude, PostTyped, NodeTyped, NoticeTyped, FaultTyped, nodeVars, faultVars
<1>5. TimersOK(sess)' /\ LedgerOK'
  BY DEF Conclude, IInv, TimersOK, LedgerOK, nodeVars
<1>6. FailedOK'
  BY <1>1 DEF Conclude, IInv, FailedOK, Lost, PlaneTyped, nodeVars, faultVars
<1>7. AskedOK'
  BY <1>1, <1>2 DEF Conclude, IInv, AskedOK, PlaneTyped
<1>8. TypeOK'
  BY <1>3, <1>4, NextParts
<1> QED
  BY <1>5, <1>6, <1>7, <1>8 DEF IInv

\* After a restart no share is active.
LEMMA RestartInv ==
  ASSUME IInv, ServerRestart PROVE IInv'
<1>1. PlaneTyped /\ PostTyped /\ NodeTyped /\ NoticeTyped /\ FaultTyped
  BY TypeParts DEF IInv
<1>2. PlaneTyped'
  <2>1. status' \in [Shares -> {"done", "failed"}] /\ verdict' = status'
    BY <1>1 DEF ServerRestart, PlaneTyped
  <2>2. row' \in [Shares -> RowType]
    BY <1>1 DEF ServerRestart, PlaneTyped, RowType
  <2> QED
    BY <1>1, <2>1, <2>2 DEF ServerRestart, PlaneTyped
<1>3. PostTyped'
  BY <1>1 DEF ServerRestart, PostTyped, PostType
<1>4. NodeTyped' /\ NoticeTyped'
  BY <1>1 DEF ServerRestart, NodeTyped, NoticeTyped, nodeVars
<1>5. FaultTyped' /\ restarts' > 0
  BY <1>1, SessionAssumption DEF ServerRestart, FaultTyped
<1>6. TimersOK(sess)' /\ LedgerOK'
  BY DEF ServerRestart, IInv, TimersOK, LedgerOK, nodeVars
<1>7. FailedOK'
  BY <1>5 DEF FailedOK, Lost
<1>8. AskedOK'
  <2>1. \A j \in Shares : status'[j] # "active"
    BY DEF ServerRestart
  <2> QED
    BY <1>1, <2>1 DEF ServerRestart, AskedOK, PlaneTyped
<1>9. TypeOK'
  BY <1>2, <1>3, <1>4, <1>5, NextParts
<1> QED
  BY <1>6, <1>7, <1>8, <1>9 DEF IInv

\* A crash loses what is open, and keeps what was lost.
LEMMA CrashInv ==
  ASSUME IInv, NodeCrash PROVE IInv'
<1>1. PlaneTyped /\ PostTyped /\ NodeTyped /\ NoticeTyped /\ FaultTyped
  BY TypeParts DEF IInv
<1>2. PlaneTyped' /\ NoticeTyped' /\ FaultTyped'
  <2>1. PlaneTyped'
    BY <1>1 DEF NodeCrash, PlaneTyped, planeVars
  <2>2. NoticeTyped'
    <3>1. notice' = [s \in Sids |-> IF notice[s] = "lost" THEN "none" ELSE notice[s]]
      BY DEF NodeCrash
    <3>2. \A s \in Sids : notice[s] \in NoticeType /\ "none" \in NoticeType
      BY <1>1 DEF NoticeTyped, NoticeType
    <3>3. \A s \in Sids : (IF notice[s] = "lost" THEN "none" ELSE notice[s]) \in NoticeType
      BY <3>2
    <3> HIDE DEF NoticeType
    <3>4. notice' \in [Sids -> NoticeType]
      BY <3>1, <3>3
    <3> QED
      BY <3>4 DEF NoticeTyped
  <2>3. FaultTyped'
    <3>1. crashes < MaxCrashes /\ crashes' = crashes + 1 /\ restarts' = restarts
      BY DEF NodeCrash
    <3>2. MaxCrashes \in Nat /\ crashes \in 0..MaxCrashes /\ restarts \in 0..MaxRestarts
      BY <1>1, SessionAssumption DEF FaultTyped
    <3> QED
      BY <3>1, <3>2 DEF FaultTyped
  <2> QED
    BY <2>1, <2>2, <2>3
<1>3. PostTyped'
  BY <1>1 DEF NodeCrash, PostTyped, PostType
<1>4. \A s \in Sids : sess'[s] = IF sess[s].st \in {"open", "closing"}
                                 THEN [NoSession EXCEPT !.st = "lost", !.job = sess[s].job]
                                 ELSE sess[s]
  BY DEF NodeCrash
<1>5. \A s \in Sids : sess'[s] \in SessionType
  <2> SUFFICES ASSUME NEW s \in Sids PROVE sess'[s] \in SessionType
    OBVIOUS
  <2>1. sess[s] \in SessionType /\ sess[s].job \in Shares \cup {NoShare}
    BY <1>1 DEF NodeTyped, SessionType
  <2>2. [NoSession EXCEPT !.st = "lost", !.job = sess[s].job] \in SessionType
    BY <2>1, NoSessionTyped DEF NoSession, SessionType
  <2> QED
    BY <1>4, <2>1, <2>2
<1>6. NodeTyped'
  BY <1>1, <1>5 DEF NodeCrash, NodeTyped
<1>7. TimersOK(sess)'
  BY <1>4 DEF IInv, TimersOK, NoSession
<1>8. \A s \in Sids : /\ sess'[s].job = sess[s].job
                      /\ sess[s].st \in {"open", "closing", "lost"} <=> sess'[s].st = "lost"
                      /\ sess'[s].st \notin {"open", "closing"}
  BY <1>4 DEF NoSession
<1>9. LedgerOK'
  <2>1. \A s \in Sids : notice'[s] # "lost"
    BY DEF NodeCrash
  <2>2. ledger' = ledger /\ ledger \subseteq Sids
    BY <1>1 DEF NodeCrash, NodeTyped
  <2> QED
    BY <1>8, <2>1, <2>2 DEF IInv, LedgerOK
<1>10. FailedOK'
  <2>1. \A j \in Shares : Lost(j) => Lost(j)'
    BY <1>8 DEF Lost, NodeCrash
  <2> QED
    BY <2>1 DEF IInv, FailedOK, NodeCrash, planeVars
<1>11. AskedOK'
  BY DEF IInv, AskedOK, NodeCrash, planeVars
<1>12. TypeOK'
  BY <1>2, <1>3, <1>6, NextParts
<1> QED
  BY <1>7, <1>9, <1>10, <1>11, <1>12 DEF IInv

\* What a boot reports was on the file, and so was lost.
LEMMA BootInv ==
  ASSUME IInv, NodeBoot PROVE IInv'
<1>1. PlaneTyped /\ PostTyped /\ NodeTyped /\ NoticeTyped /\ FaultTyped
  BY TypeParts DEF IInv
<1>2. PlaneTyped' /\ PostTyped' /\ NodeTyped' /\ NoticeTyped' /\ FaultTyped'
  BY <1>1 DEF NodeBoot, PlaneTyped, PostTyped, NodeTyped, NoticeTyped, NoticeType, FaultTyped,
              planeVars, faultVars
<1>3. LedgerOK'
  <2>1. \A s \in ledger : sess[s].st = "lost"
    BY <1>1 DEF IInv, LedgerOK, NodeBoot, NodeTyped
  <2>2. \A s \in Sids : notice'[s] = "lost" => sess[s].st = "lost"
    BY <2>1 DEF IInv, LedgerOK, NodeBoot
  <2> QED
    BY <2>2 DEF LedgerOK, NodeBoot
<1>4. TimersOK(sess)' /\ FailedOK' /\ AskedOK'
  BY DEF IInv, NodeBoot, TimersOK, FailedOK, Lost, AskedOK, planeVars, faultVars
<1>5. TypeOK'
  BY <1>2, NextParts
<1> QED
  BY <1>3, <1>4, <1>5 DEF IInv

\* Nothing happens.
LEMMA StutterInv ==
  ASSUME IInv, UNCHANGED vars PROVE IInv'
<1>1. PlaneTyped /\ PostTyped
  BY TypeParts DEF IInv
<1>2. UNCHANGED <<status, verdict, asked, nodeVars, notice, faultVars>> /\ PlaneTyped' /\ PostTyped'
  BY <1>1 DEF vars, planeVars, PlaneTyped, PostTyped
<1> QED
  BY <1>2, PostInv

\* Every step keeps the invariant.
LEMMA StepInv ==
  ASSUME IInv, [Next]_vars PROVE IInv'
<1>1. ASSUME NEW p \in Posts, PostStep(p) PROVE IInv'
  BY <1>1, RequestInv, ReservedInv DEF PostStep
<1>2. ASSUME NEW s \in Sids, SessionStep(s) PROVE IInv'
  BY <1>2, ClientInv, ExpireInv, ReleasedInv, NoticeInv DEF SessionStep
<1>3. ASSUME NEW j \in Shares, ShareStep(j) PROVE IInv'
  BY <1>3, StopInv, CloseInv, ConcludeInv DEF ShareStep
<1> QED
  BY <1>1, <1>2, <1>3, RestartInv, CrashInv, BootInv, StutterInv DEF Next
-----------------------------------------------------------------------------
\* The invariant holds in every reachable state.
LEMMA InvHolds == Spec => []IInv
BY InitInv, StepInv, PTL DEF Spec

\* The records of the shares, requests and sessions keep their types.
THEOREM TypeCorrect == Spec => []TypeOK
<1>1. IInv => TypeOK
  BY DEF IInv
<1> QED
  BY <1>1, InvHolds, PTL

\* A share fails only when a crash took one of its sessions, or the control
\* plane restarted: no late, lost or repeated report of the node fails another.
THEOREM FailedOnlyIfLostHolds == Spec => []FailedOnlyIfLost
<1>1. IInv => FailedOnlyIfLost
  BY DEF IInv, FailedOK, Lost, FailedOnlyIfLost
<1> QED
  BY <1>1, InvHolds, PTL

\* A timer of the node never ends a session that carries a socket.
THEOREM SocketSurvivesHolds == Spec => SocketSurvives
<1> DEFINE Kept == \A s \in Sids : sess'[s].reason \in Timeouts /\ sess[s].reason = "none"
                                   => sess[s].sockets = 0
<1>1. ASSUME IInv, [Next]_vars PROVE Kept
  <2> SUFFICES ASSUME NEW t \in Sids, sess'[t].reason \in Timeouts, sess[t].reason = "none"
               PROVE  sess[t].sockets = 0
    OBVIOUS
  <2>0. /\ sess \in [Sids -> SessionType] /\ sess[t] \in SessionType
        /\ sess[t].reason \notin Timeouts /\ sess'[t] # sess[t]
    BY <1>1 DEF IInv, TypeOK, SessionType, Timeouts
  <2>1. CASE sess[t].noClient \/ sess[t].grace
    BY <1>1, <2>0, <2>1, SessionAssumption DEF IInv, TimersOK, SessionType
  <2>2. CASE ~sess[t].noClient /\ ~sess[t].grace
    <3>1. ASSUME NEW p \in Posts, PostStep(p) PROVE FALSE
      <4>1. sess'[t].reason = sess[t].reason \/ sess'[t].reason = "none"
        <5>1. ASSUME NEW s \in Sids, Reserved(p, s)
              PROVE  sess'[t].reason = sess[t].reason \/ sess'[t].reason = "none"
          BY <2>0, <5>1 DEF Reserved, NoSession
        <5>2. ASSUME NEW s \in Sids, PaymentThrows(p, s)
              PROVE  sess'[t].reason = sess[t].reason \/ sess'[t].reason = "none"
          BY <2>0, <5>2 DEF PaymentThrows, NoSession
        <5>3. CASE \/ Healthy(p) \/ Unhealthy(p) \/ Asked(p) \/ AskFails(p) \/ Answered(p)
                   \/ \E j \in Shares : Media(p, j) \/ Direct(p, j)
          BY <5>3 DEF Healthy, Unhealthy, Asked, AskFails, Answered, Media, Direct, nodeVars
        <5> QED
          BY <3>1, <5>1, <5>2, <5>3 DEF PostStep
      <4> QED
        BY <2>0, <4>1 DEF Timeouts
    <3>2. ASSUME NEW s \in Sids, SessionStep(s) PROVE FALSE
      <4>1. CASE NoClientFires(s) \/ GraceFires(s)
        BY <2>0, <2>2, <4>1 DEF NoClientFires, GraceFires, Teardown
      <4>2. CASE PaymentFails(s)
        BY <2>0, <4>2 DEF PaymentFails, Teardown, NoSession, Timeouts, SessionType
      <4>3. CASE WsAttach(s) \/ WsDrop(s) \/ Released(s) \/ NoticeArrives(s) \/ NoticeLost(s)
        BY <2>0, <4>3 DEF WsAttach, WsDrop, Released, NoticeArrives, NoticeLost, nodeVars, SessionType
      <4>4. CASE RtcOffer(s) \/ RtcDrop(s)
        BY <2>0, <4>4 DEF RtcOffer, RtcDrop, SessionType
      <4> QED
        BY <3>2, <4>1, <4>2, <4>3, <4>4 DEF SessionStep
    <3>3. ASSUME NEW j \in Shares, ShareStep(j) PROVE FALSE
      <4>1. CASE CloseAsked(j)
        <5>1. CASE UNCHANGED sess
          BY <2>0, <5>1
        <5>2. CASE ~UNCHANGED sess
          <6>1. PICK s \in Sids : Teardown(s, "control-close")
            BY <4>1, <5>2 DEF CloseAsked, OpenOf
          <6>2. sess'[t].reason = sess[t].reason \/ sess'[t].reason = "control-close"
            BY <2>0, <6>1 DEF Teardown, NoSession
          <6> QED
            BY <2>0, <6>2 DEF Timeouts
        <5> QED
          BY <5>1, <5>2
      <4>2. CASE Stop(j) \/ CloseLost(j) \/ Conclude(j)
        BY <2>0, <4>2 DEF Stop, CloseLost, Conclude, nodeVars
      <4> QED
        BY <3>3, <4>1, <4>2 DEF ShareStep
    <3>4. CASE ServerRestart \/ NodeBoot \/ UNCHANGED vars
      BY <2>0, <3>4 DEF ServerRestart, NodeBoot, vars, nodeVars
    <3>5. CASE NodeCrash
      BY <2>0, <3>5 DEF NodeCrash, NoSession, Timeouts
    <3> QED
      BY <1>1, <3>1, <3>2, <3>3, <3>4, <3>5 DEF Next
  <2> QED
    BY <2>1, <2>2
<1> QED
  BY <1>1, InvHolds, PTL DEF Spec, SocketSurvives

\* A share ends once, the way its first stop or callback asked, or swept to
\* failed: every step is a step of ShareEnd or a stutter.
THEOREM ImplementsShareEndHolds == Spec => ImplementsShareEnd
<1>1. Init => End!Init
  BY DEF Init, End!Init
<1>2. ASSUME IInv, [Next]_vars PROVE [End!Next]_<<status, verdict>>
  <2>0. PlaneTyped /\ NodeTyped
    BY <1>2, TypeParts DEF IInv
  <2> DEFINE Stutter == UNCHANGED <<status, verdict>>
  <2>1. ASSUME NEW p \in Posts, PostStep(p) PROVE Stutter
    BY <2>1 DEF PostStep, Healthy, Unhealthy, Asked, AskFails, Answered, Reserved, PaymentThrows,
                Media, Direct, planeVars
  <2>2. ASSUME NEW s \in Sids, SessionStep(s) PROVE End!Next \/ Stutter
    <3>1. CASE NoticeArrives(s)
      <4> DEFINE j == sess[s].job
                 o == IF notice[s] = "lost" THEN "failed" ELSE "done"
      <4>1. CASE j \in Shares /\ status[j] = "active" /\ verdict[j] = "none"
                 /\ notice[s] # "superseded"
        <5>1. End!Decide(j, o) /\ o \in End!Ended
          BY <3>1, <4>1 DEF NoticeArrives, End!Decide, End!Ended
        <5> QED
          BY <4>1, <5>1 DEF End!Next
      <4>2. CASE j \notin Shares
        BY <2>0, <3>1, <4>2 DEF NoticeArrives, PlaneTyped
      <4>3. CASE ~(status[j] = "active" /\ verdict[j] = "none" /\ notice[s] # "superseded")
        BY <3>1, <4>3 DEF NoticeArrives
      <4> QED
        BY <4>1, <4>2, <4>3
    <3>2. CASE ~NoticeArrives(s)
      BY <2>2, <3>2 DEF SessionStep, WsAttach, WsDrop, RtcOffer, RtcDrop, NoClientFires, GraceFires,
                        PaymentFails, Released, NoticeLost, planeVars
    <3> QED
      BY <3>1, <3>2
  <2>3. ASSUME NEW j \in Shares, ShareStep(j) PROVE End!Next \/ Stutter
    <3>1. CASE Stop(j)
      <4>1. End!Decide(j, "done") /\ "done" \in End!Ended
        BY <3>1 DEF Stop, End!Decide, End!Ended
      <4> QED
        BY <4>1 DEF End!Next
    <3>2. CASE Conclude(j)
      <4>1. verdict[j] \in End!Ended
        BY <1>2, <2>0, <3>2 DEF Conclude, IInv, AskedOK, PlaneTyped, End!Ended
      <4>2. End!Conclude(j)
        BY <3>2, <4>1 DEF Conclude, End!Conclude
      <4> QED
        BY <4>2 DEF End!Next
    <3>3. CASE CloseAsked(j) \/ CloseLost(j)
      BY <3>3 DEF CloseAsked, CloseLost
    <3> QED
      BY <2>3, <3>1, <3>2, <3>3 DEF ShareStep
  <2>4. ASSUME ServerRestart PROVE End!Next
    BY <2>4 DEF ServerRestart, End!Sweep, End!Next
  <2>5. ASSUME NodeCrash \/ NodeBoot \/ UNCHANGED vars PROVE Stutter
    BY <2>5 DEF NodeCrash, NodeBoot, vars, planeVars
  <2> HIDE DEF Stutter
  <2>6. End!Next \/ Stutter
    BY <1>2, <2>1, <2>2, <2>3, <2>4, <2>5 DEF Next
  <2> QED
    BY <2>6 DEF Stutter
<1> QED
  BY <1>1, <1>2, InvHolds, PTL DEF Spec, ImplementsShareEnd, End!Spec
=============================================================================
