------------------------- MODULE MCPositionTracking -------------------------
(* Instances of PositionTracking for TLC. *)
EXTENDS PositionTracking, TLC

(* A stop below a level that may be armed again. *)
TwoPrices == "stop" :> 0 @@ "trim" :> 1
=============================================================================
