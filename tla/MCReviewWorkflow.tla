--------------------------- MODULE MCReviewWorkflow ---------------------------
(***************************************************************************)
(* Values for ReviewWorkflow: two requests about one video, so that a       *)
(* second approval meets the row of the first; one token auto-approves.     *)
(***************************************************************************)
EXTENDS ReviewWorkflow, TLC

CONSTANTS r1, r2, v1, p1

MCReviews == {r1, r2}
MCVideos == {v1}
MCVideoOf == [r \in MCReviews |-> v1]
MCAutoReviews == {r2}
MCPlatforms == {p1}
MCSymmetry == Permutations(Handlers) \cup Permutations(Consumers)
=============================================================================
