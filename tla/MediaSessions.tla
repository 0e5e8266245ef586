------------------------------ MODULE MediaSessions ------------------------------
(***************************************************************************)
(* The media sessions of browser shares, across the two processes that     *)
(* keep them: the control plane (services/server/src/api.ts, store.ts,     *)
(* index.ts), which asks for a session and ends the share, and the media   *)
(* node (services/media/src/server.ts, sessions-ledger.ts), which reserves *)
(* the paid perceive session, carries the client, and reports the close.   *)
(* Either process can crash; requests and reports can be lost or late.     *)
(*                                                                         *)
(* Inside one process the code between two awaits is one step.  Timers     *)
(* have no duration: an armed timer fires at any time until it is cleared. *)
(* What the end of a share does to its highlights is module MediaShare.    *)
(***************************************************************************)
EXTENDS Naturals

CONSTANTS
  Shares,      \* browser jobs
  Sids,        \* bound: sessions the orchestrator can hand out
  Posts,       \* bound: requests for a session
  MaxSockets,  \* bound: sockets open at once on a session
  MaxCrashes,  \* bound: crashes of the media node
  MaxRestarts, \* bound: restarts of the control plane
  NoShare, NoSid

ASSUME SessionAssumption ==
  /\ {MaxSockets, MaxCrashes, MaxRestarts} \subseteq Nat
  /\ NoShare \notin Shares /\ NoSid \notin Sids

VARIABLES
  status,   \* the status of the job record; browserJobs holds the active ones
  verdict,  \* the outcome the first caller of finishBrowserJob gave
  asked,    \* the shares whose end has asked the node to close
  row,      \* the media_sessions table
  pointer,  \* bj.mediaSessionId
  post,     \* requests for a session, of the control plane or of a client
  up,       \* the media node runs
  sess,     \* its active map, and what became of each session
  ledger,   \* the open-session file
  notice,   \* session-closed callbacks under way
  crashes, restarts

planeVars == <<status, verdict, asked, row, pointer>>
nodeVars == <<up, sess, ledger>>
faultVars == <<crashes, restarts>>
vars == <<planeVars, post, nodeVars, notice, faultVars>>

Timeouts == {"client-closed", "no-client-timeout"}
NoSession == [st |-> "free", job |-> NoShare, sockets |-> 0, peer |-> FALSE, rtc |-> FALSE,
              paid |-> FALSE, noClient |-> FALSE, grace |-> FALSE, reason |-> "none"]

TypeOK ==
  /\ status \in [Shares -> {"active", "done", "failed"}]
  /\ verdict \in [Shares -> {"none", "done", "failed"}]
  /\ asked \subseteq Shares
  /\ row \in [Shares -> [sid: Sids \cup {NoSid}, active: BOOLEAN]]
  /\ pointer \in [Shares -> Sids \cup {NoSid}]
  /\ post \in [Posts -> [st: {"idle", "checking", "asking", "reserving", "answered", "over"},
                         own: BOOLEAN, job: Shares \cup {NoShare}, sid: Sids \cup {NoSid}]]
  /\ up \in BOOLEAN
  /\ sess \in [Sids -> [st: {"free", "open", "closing", "over", "lost"},
                        job: Shares \cup {NoShare}, sockets: 0..MaxSockets, peer: BOOLEAN,
                        rtc: BOOLEAN, paid: BOOLEAN, noClient: BOOLEAN, grace: BOOLEAN,
                        reason: Timeouts \cup {"none", "payment-failure", "control-close"}]]
  /\ ledger \subseteq Sids
  /\ notice \in [Sids -> {"none", "last", "superseded", "lost"}]
  /\ crashes \in 0..MaxCrashes /\ restarts \in 0..MaxRestarts

Init ==
  /\ status = [j \in Shares |-> "active"] /\ verdict = [j \in Shares |-> "none"]
  /\ asked = {}
  /\ row = [j \in Shares |-> [sid |-> NoSid, active |-> FALSE]]
  /\ pointer = [j \in Shares |-> NoSid]
  /\ post = [p \in Posts |-> [st |-> "idle", own |-> FALSE, job |-> NoShare, sid |-> NoSid]]
  /\ up = TRUE
  /\ sess = [s \in Sids |-> NoSession]
  /\ ledger = {} /\ notice = [s \in Sids |-> "none"]
  /\ crashes = 0 /\ restarts = 0

Open(s) == up /\ sess[s].st = "open"
OpenOf(j) == {s \in Sids : Open(s) /\ sess[s].job = j}
-----------------------------------------------------------------------------
(***************************************************************************)
(* A session is asked for.                                                 *)
(***************************************************************************)

\* POST /jobs/:id/media: an active row is reused once its node is known to run.
Media(p, j) ==
  /\ post[p].st = "idle" /\ status[j] = "active"
  /\ post' = [post EXCEPT ![p] =
       [st |-> IF row[j].active THEN "checking" ELSE "asking", own |-> TRUE, job |-> j,
        sid |-> IF row[j].active THEN row[j].sid ELSE NoSid]]
  /\ UNCHANGED <<planeVars, nodeVars, notice, faultVars>>

\* The node runs: whether it still has the session is not asked.
Healthy(p) ==
  /\ post[p].st = "checking" /\ up
  /\ post' = [post EXCEPT ![p].st = "over"]
  /\ pointer' = [pointer EXCEPT ![post[p].job] = post[p].sid]
  /\ UNCHANGED <<status, verdict, asked, row, nodeVars, notice, faultVars>>

Unhealthy(p) ==
  /\ post[p].st = "checking"
  /\ post' = [post EXCEPT ![p].st = "asking", ![p].sid = NoSid]
  /\ UNCHANGED <<planeVars, nodeVars, notice, faultVars>>

\* A client that asks the node itself, without the control plane.
Direct(p, j) ==
  /\ post[p].st = "idle"
  /\ post' = [post EXCEPT ![p] = [st |-> "asking", own |-> FALSE, job |-> j, sid |-> NoSid]]
  /\ UNCHANGED <<planeVars, nodeVars, notice, faultVars>>

\* POST /sessions: the open session of the job is adopted, or one is reserved.
Asked(p) ==
  LET mine == OpenOf(post[p].job)
  IN /\ post[p].st = "asking" /\ up
     /\ IF mine = {} THEN post' = [post EXCEPT ![p].st = "reserving"]
        ELSE \E s \in mine : post' = [post EXCEPT ![p].st = "answered", ![p].sid = s]
     /\ UNCHANGED <<planeVars, nodeVars, notice, faultVars>>

\* The request is lost, the orchestrator has no capacity, or the answer is lost.
AskFails(p) ==
  /\ post[p].st \in {"asking", "reserving", "answered"}
  /\ post' = [post EXCEPT ![p].st = "over"]
  /\ UNCHANGED <<planeVars, nodeVars, notice, faultVars>>

\* Mutant of Reserved: the client is awaited without a timer.
Reserved_NoTimer(p, s) ==
  /\ post[p].st = "reserving" /\ up /\ sess[s].st = "free"
  /\ sess' = [sess EXCEPT ![s] = [NoSession EXCEPT !.st = "open", !.job = post[p].job,
                                                   !.paid = TRUE]]
  /\ ledger' = ledger \cup {s}
  /\ post' = [post EXCEPT ![p].st = "answered", ![p].sid = s]
  /\ UNCHANGED <<planeVars, up, notice, faultVars>>

\* The reservation is answered: paid from now on, with a timer for the client.
Reserved(p, s) ==
  /\ post[p].st = "reserving" /\ up /\ sess[s].st = "free"
  /\ sess' = [sess EXCEPT ![s] = [NoSession EXCEPT !.st = "open", !.job = post[p].job,
                                                   !.paid = TRUE, !.noClient = TRUE]]
  /\ ledger' = ledger \cup {s}
  /\ post' = [post EXCEPT ![p].st = "answered", ![p].sid = s]
  /\ UNCHANGED <<planeVars, up, notice, faultVars>>

\* startPayment throws for want of orchestrator info: the session is in the map,
\* and has neither payment nor timer nor a line in the ledger.
PaymentThrows(p, s) ==
  /\ post[p].st = "reserving" /\ up /\ sess[s].st = "free"
  /\ sess' = [sess EXCEPT ![s] = [NoSession EXCEPT !.st = "open", !.job = post[p].job]]
  /\ post' = [post EXCEPT ![p].st = "over"]
  /\ UNCHANGED <<planeVars, up, ledger, notice, faultVars>>

\* The control plane records the session, whatever became of the share.
Answered(p) ==
  LET j == post[p].job
  IN /\ post[p].st = "answered"
     /\ post' = [post EXCEPT ![p].st = "over"]
     /\ row' = IF post[p].own THEN [row EXCEPT ![j] = [sid |-> post[p].sid, active |-> TRUE]]
               ELSE row
     /\ pointer' = IF post[p].own /\ status[j] = "active"
                   THEN [pointer EXCEPT ![j] = post[p].sid] ELSE pointer
     /\ UNCHANGED <<status, verdict, asked, nodeVars, notice, faultVars>>
-----------------------------------------------------------------------------
(***************************************************************************)
(* The session carries a client.                                           *)
(***************************************************************************)

\* Mutant of WsAttach: a pending grace countdown is left running.
WsAttach_KeepsGrace(s) ==
  /\ Open(s) /\ sess[s].sockets < MaxSockets
  /\ sess' = [sess EXCEPT ![s].sockets = @ + 1, ![s].noClient = FALSE]
  /\ ledger' = ledger \cup {s}
  /\ UNCHANGED <<planeVars, post, up, notice, faultVars>>

WsAttach(s) ==
  /\ Open(s) /\ sess[s].sockets < MaxSockets
  /\ sess' = [sess EXCEPT ![s].sockets = @ + 1, ![s].noClient = FALSE, ![s].grace = FALSE]
  /\ ledger' = ledger \cup {s}
  /\ UNCHANGED <<planeVars, post, up, notice, faultVars>>

WsDrop(s) ==
  /\ Open(s) /\ sess[s].sockets > 0
  /\ sess' = [sess EXCEPT ![s].sockets = @ - 1, ![s].grace = @ \/ sess[s].sockets = 1]
  /\ UNCHANGED <<planeVars, post, up, ledger, notice, faultVars>>

\* A first offer is an attach.  A later one closes the old peer, whose end may be
\* reported as a drop; it clears no countdown.
RtcOffer(s) ==
  /\ Open(s)
  /\ IF ~sess[s].rtc
     THEN /\ sess' = [sess EXCEPT ![s].rtc = TRUE, ![s].peer = TRUE, ![s].noClient = FALSE]
          /\ ledger' = ledger \cup {s}
     ELSE /\ \E seen \in BOOLEAN :
               sess' = [sess EXCEPT ![s].peer = TRUE,
                                    ![s].grace = @ \/ (seen /\ sess[s].sockets = 0)]
          /\ UNCHANGED ledger
  /\ UNCHANGED <<planeVars, post, up, notice, faultVars>>

\* The peer goes; whether that is noticed is the library's affair.
RtcDrop(s) ==
  /\ Open(s) /\ sess[s].peer
  /\ \E seen \in BOOLEAN :
       sess' = [sess EXCEPT ![s].peer = FALSE, ![s].grace = @ \/ (seen /\ sess[s].sockets = 0)]
  /\ UNCHANGED <<planeVars, post, up, ledger, notice, faultVars>>
-----------------------------------------------------------------------------
(***************************************************************************)
(* The session ends.                                                       *)
(***************************************************************************)

\* teardown: closed, unpaid and without a client before the release is awaited.
Teardown(s, reason) ==
  sess' = [sess EXCEPT ![s] = [NoSession EXCEPT !.st = "closing", !.job = sess[s].job,
                                                !.reason = reason]]

NoClientFires(s) ==
  /\ Open(s) /\ sess[s].noClient
  /\ Teardown(s, "no-client-timeout")
  /\ UNCHANGED <<planeVars, post, up, ledger, notice, faultVars>>

GraceFires(s) ==
  /\ Open(s) /\ sess[s].grace
  /\ Teardown(s, "client-closed")
  /\ UNCHANGED <<planeVars, post, up, ledger, notice, faultVars>>

PaymentFails(s) ==
  /\ Open(s) /\ sess[s].paid
  /\ Teardown(s, "payment-failure")
  /\ UNCHANGED <<planeVars, post, up, ledger, notice, faultVars>>

\* Mutant of Released: the session stays on the ledger.
Released_Remembered(s) ==
  /\ up /\ sess[s].st = "closing"
  /\ sess' = [sess EXCEPT ![s].st = "over"]
  /\ notice' = [notice EXCEPT ![s] = IF OpenOf(sess[s].job) = {} THEN "last" ELSE "superseded"]
  /\ UNCHANGED <<planeVars, post, up, ledger, faultVars>>

\* The slot is released: the session leaves the map and the ledger, and the
\* control plane is told whether another session carries the job.
Released(s) ==
  /\ up /\ sess[s].st = "closing"
  /\ sess' = [sess EXCEPT ![s].st = "over"]
  /\ ledger' = ledger \ {s}
  /\ notice' = [notice EXCEPT ![s] = IF OpenOf(sess[s].job) = {} THEN "last" ELSE "superseded"]
  /\ UNCHANGED <<planeVars, post, up, faultVars>>
-----------------------------------------------------------------------------
(***************************************************************************)
(* The share ends.                                                         *)
(***************************************************************************)

Stop(j) ==
  /\ status[j] = "active" /\ verdict[j] = "none"
  /\ verdict' = [verdict EXCEPT ![j] = "done"]
  /\ UNCHANGED <<status, asked, row, pointer, post, nodeVars, notice, faultVars>>

\* Mutant of NoticeArrives: the callback of a lost session changes an outcome
\* that was decided.
NoticeArrives_Overrides(s) ==
  LET j == sess[s].job
  IN /\ notice[s] # "none"
     /\ notice' = [notice EXCEPT ![s] = "none"]
     /\ verdict' = IF status[j] = "active" /\ notice[s] # "superseded"
                   THEN [verdict EXCEPT ![j] = IF notice[s] = "lost" THEN "failed" ELSE "done"]
                   ELSE verdict
     /\ UNCHANGED <<status, asked, row, pointer, post, nodeVars, faultVars>>

\* session-closed: ignored for a share that is over, and while another session
\* is live; joined when the share is ending.  A report that is not answered in
\* time is sent again.
NoticeArrives(s) ==
  LET j == sess[s].job
  IN /\ notice[s] # "none"
     /\ \/ notice' = [notice EXCEPT ![s] = "none"]
        \/ notice[s] = "lost" /\ UNCHANGED notice
     /\ verdict' = IF /\ status[j] = "active" /\ verdict[j] = "none"
                      /\ notice[s] # "superseded"
                   THEN [verdict EXCEPT ![j] = IF notice[s] = "lost" THEN "failed" ELSE "done"]
                   ELSE verdict
     /\ UNCHANGED <<status, asked, row, pointer, post, nodeVars, faultVars>>

NoticeLost(s) ==
  /\ notice[s] # "none"
  /\ notice' = [notice EXCEPT ![s] = "none"]
  /\ UNCHANGED <<planeVars, post, nodeVars, faultVars>>

\* finishBrowserJob asks the node to close the session it knows of.
CloseAsked(j) ==
  LET s == pointer[j]
  IN /\ status[j] = "active" /\ verdict[j] # "none" /\ j \notin asked
     /\ asked' = asked \cup {j}
     /\ row' = IF s = NoSid THEN row ELSE [row EXCEPT ![j].active = FALSE]
     /\ IF s # NoSid /\ s \in OpenOf(j) THEN Teardown(s, "control-close") ELSE UNCHANGED sess
     /\ UNCHANGED <<status, verdict, pointer, post, up, ledger, notice, faultVars>>

\* The node is not reached: the close is not repeated.
CloseLost(j) ==
  /\ status[j] = "active" /\ verdict[j] # "none" /\ j \notin asked
  /\ asked' = asked \cup {j}
  /\ row' = IF pointer[j] = NoSid THEN row ELSE [row EXCEPT ![j].active = FALSE]
  /\ UNCHANGED <<status, verdict, pointer, post, nodeVars, notice, faultVars>>

\* The terminal row settles the media session row with it.
Conclude(j) ==
  /\ status[j] = "active" /\ j \in asked
  /\ status' = [status EXCEPT ![j] = verdict[j]]
  /\ row' = [row EXCEPT ![j].active = FALSE]
  /\ UNCHANGED <<verdict, asked, pointer, post, nodeVars, notice, faultVars>>
-----------------------------------------------------------------------------
(***************************************************************************)
(* Crashes.                                                                *)
(***************************************************************************)

\* The boot of the control plane: active jobs failed, rows of ended jobs closed,
\* requests of its own forgotten.  The node goes on with those it has.
ServerRestart ==
  /\ restarts < MaxRestarts /\ restarts' = restarts + 1
  /\ status' = [j \in Shares |-> IF status[j] = "active" THEN "failed" ELSE status[j]]
  /\ verdict' = status'
  /\ row' = [j \in Shares |-> [row[j] EXCEPT !.active = FALSE]]
  /\ pointer' = [j \in Shares |-> NoSid]
  /\ post' = [p \in Posts |->
       IF ~post[p].own THEN post[p]
       ELSE IF post[p].st = "reserving" THEN [post[p] EXCEPT !.own = FALSE]
       ELSE [post[p] EXCEPT !.st = IF @ = "idle" THEN "idle" ELSE "over"]]
  /\ UNCHANGED <<asked, nodeVars, notice, crashes>>

\* Every session goes down with the node, the file stays; reports of an earlier
\* boot that were still being sent go with it.
NodeCrash ==
  /\ up /\ crashes < MaxCrashes /\ crashes' = crashes + 1
  /\ up' = FALSE
  /\ sess' = [s \in Sids |-> IF sess[s].st \in {"open", "closing"}
                             THEN [NoSession EXCEPT !.st = "lost", !.job = sess[s].job]
                             ELSE sess[s]]
  /\ post' = [p \in Posts |-> IF post[p].st = "reserving" THEN [post[p] EXCEPT !.st = "over"]
                              ELSE post[p]]
  /\ notice' = [s \in Sids |-> IF notice[s] = "lost" THEN "none" ELSE notice[s]]
  /\ UNCHANGED <<planeVars, ledger, restarts>>

\* drainOpenSessions, then reconcileLostSessions: what was open is reported lost.
NodeBoot ==
  /\ ~up
  /\ up' = TRUE
  /\ ledger' = {}
  /\ notice' = [s \in Sids |-> IF s \in ledger THEN "lost" ELSE notice[s]]
  /\ UNCHANGED <<planeVars, post, sess, faultVars>>
-----------------------------------------------------------------------------
PostStep(p) ==
  \/ Healthy(p) \/ Unhealthy(p) \/ Asked(p) \/ AskFails(p) \/ Answered(p)
  \/ \E s \in Sids : Reserved(p, s) \/ PaymentThrows(p, s)
  \/ \E j \in Shares : Media(p, j) \/ Direct(p, j)

SessionStep(s) ==
  \/ WsAttach(s) \/ WsDrop(s) \/ RtcOffer(s) \/ RtcDrop(s)
  \/ NoClientFires(s) \/ GraceFires(s) \/ PaymentFails(s) \/ Released(s)
  \/ NoticeArrives(s) \/ NoticeLost(s)

ShareStep(j) == Stop(j) \/ CloseAsked(j) \/ CloseLost(j) \/ Conclude(j)

Next ==
  \/ \E p \in Posts : PostStep(p)
  \/ \E s \in Sids : SessionStep(s)
  \/ \E j \in Shares : ShareStep(j)
  \/ ServerRestart \/ NodeCrash \/ NodeBoot

Spec == Init /\ [][Next]_vars

\* The event loop of the node fires a timer that stays armed.
FairSpec == Spec /\ \A s \in Sids : WF_vars(NoClientFires(s)) /\ WF_vars(GraceFires(s))
-----------------------------------------------------------------------------
\* A share ends once, the way the first stop or callback asked, or swept to
\* failed by a restart: late, lost and repeated callbacks change nothing.
End == INSTANCE ShareEnd
ImplementsShareEnd == End!Spec

\* A share fails as media-session-lost only when a crash took one of its sessions
\* down, or the control plane restarted: a session that ended well is never
\* reported lost by a later boot of the node (forgetOpenSession).
FailedOnlyIfLost ==
  \A j \in Shares : status[j] = "failed" =>
    restarts > 0 \/ \E s \in Sids : sess[s].job = j /\ sess[s].st = "lost"

\* No timer of the node ends a session that carries a socket, however its
\* sockets came and went before (armGrace, clearGrace, clearNoClient).
SocketSurvives ==
  [][\A s \in Sids : sess'[s].reason \in Timeouts /\ sess[s].reason = "none"
                     => sess[s].sockets = 0]_vars

\* A session does not stay paid without a client: when no browser came, or its
\* sockets went, it gets one again or is torn down (POST /sessions: "otherwise a
\* reserved slot leaks forever").  A session that took a WebRTC offer is left
\* out: the node may not hear that its peer has gone.
PaidEnds ==
  \A s \in Sids : (sess[s].paid /\ sess[s].sockets = 0 /\ ~sess[s].rtc)
                  ~> (~sess[s].paid \/ sess[s].sockets > 0 \/ sess[s].rtc)

-----------------------------------------------------------------------------
(***************************************************************************)
(* What its comments say and the code does not do: two requests that both  *)
(* await a reservation both open a session.                                *)
(***************************************************************************)

\* A job owns one live session (services/media/src/server.ts, POST /sessions:
\* "a job owns ONE live session").
OneSessionPerJob == \A s, t \in Sids : Open(s) /\ Open(t) /\ sess[s].job = sess[t].job => s = t
=============================================================================
