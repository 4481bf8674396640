----------------------------- MODULE MCPublisher -----------------------------
(***************************************************************************)
(* Publisher for TLC: two queue rows of a video, one for a platform that    *)
(* is known and one for a platform that is not, and two runs that may       *)
(* overlap.                                                                 *)
(***************************************************************************)
EXTENDS Publisher, TLC

CONSTANTS good, other, v1

Platforms == good :> "tiktok" @@ other :> "x"
Videos == [q \in {good, other} |-> v1]
=============================================================================
