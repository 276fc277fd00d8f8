---------------------------- MODULE MCNewsOutbox ----------------------------
(* Bounded instances of NewsOutbox for TLC.                                *)
EXTENDS NewsOutbox, TLC

(* Two stories, the first of which is retracted by the last revision.      *)
TwoStories == <<1, 2, 1>>
One == <<1>>
OneStory == <<1, 1>>

(* Publishers are interchangeable.                                         *)
PublisherSymmetry == Permutations(Publishers)
=============================================================================
