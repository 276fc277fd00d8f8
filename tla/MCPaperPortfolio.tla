-------------------------- MODULE MCPaperPortfolio --------------------------
(* Instances of PaperPortfolio for TLC. *)
EXTENDS PaperPortfolio, TLC

(* Orders of the same side are interchangeable. *)
SameSide == Permutations(Longs) \cup Permutations(Orders \ Longs)
=============================================================================
