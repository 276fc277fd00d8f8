---------------------------- MODULE MCStoryFeed ----------------------------
(* Bounded instances of StoryFeed for TLC.                                 *)
EXTENDS StoryFeed, TLC

(* Ingest workers are interchangeable.                                     *)
IngesterSymmetry == Permutations(Ingesters)
=============================================================================
