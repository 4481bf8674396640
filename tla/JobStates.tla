------------------------------ MODULE JobStates ------------------------------
(***************************************************************************)
(* The states of a content job and the transition map, as                   *)
(* modules/infrastructure/job_state_machine.py declares them.               *)
(***************************************************************************)

\* The states every job passes through on the way to publication.
Pipeline ==
    {"trend_found", "script_draft", "script_safety_check", "tts_queued",
     "tts_done", "video_assembly", "video_assembled", "quality_check",
     "quality_passed", "review_pending", "review_approved", "scheduled",
     "publishing", "published"}

JobState == Pipeline \cup {"review_rejected", "failed"}

\* FAILED may be left for any of these, wherever the job failed.
RetryTargets ==
    {"trend_found", "script_draft", "tts_queued", "video_assembly",
     "quality_check", "review_pending", "scheduled", "publishing"}

From(s, targets) == {s} \X targets

\* PUBLISHED has no entry, REVIEW_REJECTED has one.
VALID_TRANSITIONS == UNION
    {From("trend_found",         {"script_draft", "failed"}),
     From("script_draft",        {"script_safety_check", "failed"}),
     From("script_safety_check", {"tts_queued", "script_draft", "failed"}),
     From("tts_queued",          {"tts_done", "failed"}),
     From("tts_done",            {"video_assembly", "failed"}),
     From("video_assembly",      {"video_assembled", "failed"}),
     From("video_assembled",     {"quality_check", "failed"}),
     From("quality_check",       {"quality_passed", "script_draft", "failed"}),
     From("quality_passed",      {"review_pending"}),
     From("review_pending",      {"review_approved", "review_rejected"}),
     From("review_approved",     {"scheduled"}),
     From("review_rejected",     {"script_draft", "failed"}),
     From("scheduled",           {"publishing", "failed"}),
     From("publishing",          {"published", "failed"}),
     From("failed",              RetryTargets)}

Allowed(s) == {t \in JobState : <<s, t>> \in VALID_TRANSITIONS}

TERMINAL_STATES == {"published", "review_rejected"}

\* What the daily clean-up may flag: neither terminal nor already failed.
Orphanable == JobState \ (TERMINAL_STATES \cup {"failed"})

\* What only a reviewed job should reach.
ReleaseStates == {"scheduled", "publishing", "published"}
=============================================================================
