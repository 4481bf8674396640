------------------------ MODULE MCResourceScheduler ------------------------
(***************************************************************************)
(* Waiting for resources, for TLC: two threads and two polls each.  The     *)
(* safety of ResourceScheduler is checked in MCGuards.                      *)
(***************************************************************************)
EXTENDS ResourceScheduler

\* One exclusive type, one that conflicts with it, one that THRESHOLDS omits.
MCJobTypes == {"video_assembly", "tts_generation", "caption"}
=============================================================================
