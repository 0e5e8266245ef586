-------------------------------- MODULE ShareEnd --------------------------------
(***************************************************************************)
(* What the end of a browser share promises, whoever asks for it: a share  *)
(* is active until one request decides how it ends; the first request      *)
(* wins, later ones join it, and the share ends once, in that way.  A      *)
(* restart of the control plane forgets an end under way and sweeps the    *)
(* share to failed.                                                        *)
(***************************************************************************)
CONSTANT Shares

VARIABLES status, verdict

Ended == {"done", "failed"}

Init ==
  /\ status = [j \in Shares |-> "active"]
  /\ verdict = [j \in Shares |-> "none"]

Decide(j, outcome) ==
  /\ status[j] = "active" /\ verdict[j] = "none"
  /\ verdict' = [verdict EXCEPT ![j] = outcome]
  /\ UNCHANGED status

Conclude(j) ==
  /\ status[j] = "active" /\ verdict[j] \in Ended
  /\ status' = [status EXCEPT ![j] = verdict[j]]
  /\ UNCHANGED verdict

Sweep ==
  /\ status' = [j \in Shares |-> IF status[j] = "active" THEN "failed" ELSE status[j]]
  /\ verdict' = status'

Next ==
  \/ \E j \in Shares : Conclude(j) \/ \E outcome \in Ended : Decide(j, outcome)
  \/ Sweep

Spec == Init /\ [][Next]_<<status, verdict>>
=============================================================================
