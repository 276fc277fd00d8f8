-------------------------- MODULE MCPredictionBook --------------------------
(* An instance of PredictionBook for TLC. *)
EXTENDS PredictionBook, TLC
CONSTANTS d1, d2, m1, m2

(* Two bets on outcomes that are settled apart. *)
TwoMarkets == d1 :> m1 @@ d2 :> m2
=============================================================================
