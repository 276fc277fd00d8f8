-------------------------- MODULE MCOperatorAlerts --------------------------
(* An instance of OperatorAlerts for TLC. *)
EXTENDS OperatorAlerts, TLC

AllKeys == AlertKeys \cup Candidates

(* One kind of notification with a publisher; the command beside the       *)
(* watchdog without one, whose marks neither of them reads.                *)
InPairs == {{"monitor", "publisher"}, {"monitor", "command"}, {"proposals", "publisher"}}
=============================================================================
