------------------------------ MODULE RateLimits ------------------------------
(***************************************************************************)
(* RateLimitManager of modules/compliance/rate_limit_manager.py over the    *)
(* rate_limits table, which all processes share (database/db.py).           *)
(*                                                                          *)
(* check_and_increment reads the hourly counter, reads the daily one, reads *)
(* the time of the last post and then raises both counters: every one of    *)
(* these is a statement of its own, and nothing is held from the first to   *)
(* the last.  The rows of two different calls are never looked at together, *)
(* so a behaviour is about one brand and one call, chosen at the start.     *)
(***************************************************************************)
EXTENDS Integers, FiniteSets

CONSTANTS
    Procs,      \* processes that call the platform
    Calls,      \* the calls: records of a platform and an endpoint
    LIMIT,      \* the entry of PLATFORM_LIMITS that limits the call
    UNITS,      \* the quota units the caller passes
    MaxCount,   \* bound on a counter that starts another call (TLC only)
    MaxLost     \* bound on the posts that stay unrecorded (TLC only)

ASSUME ProcsAssumption == IsFiniteSet(Procs) /\ Procs # {}
ASSUME LimitAssumption == LIMIT \in [Calls -> Nat \ {0}] /\ UNITS \in [Calls -> Nat \ {0}]
ASSUME BoundAssumption == MaxCount \in Nat /\ MaxLost \in Nat

VARIABLES
    call,      \* the call this behaviour is about
    hourly,    \* count of its row for the hour
    daily,     \* count of its row for the day
    quota,     \* units of the day's row for 'quota_units'
    recent,    \* the last post on record lies less than the minimum gap back
    pc,        \* where each process is
    through,   \* history: calls let through since the limiting counter was reset
    burst,     \* history: posts made since a gap on record was last over
    unrecorded \* history: those of them whose record was never written

counters == <<hourly, daily, quota>>
history == <<through, burst, unrecorded>>
vars == <<call, counters, recent, pc, history>>

\* _check_hourly_limit looks at two platforms, _check_daily_limit at three;
\* a call has one limit at most.
HourlyLimited == {c \in Calls : c.platform \in {"instagram", "facebook"}}

DailyLimited == {c \in Calls : c.platform \in {"tiktok", "snapchat"}
                                  /\ c.endpoint \in {"upload", "publish"}}

Charged == {c \in Calls : c.platform = "youtube" /\ c.endpoint = "upload"}

Gapped == {c \in Calls : c.endpoint \in {"upload", "publish", "post"}}

Init ==
    /\ call \in Calls
    /\ hourly = 0
    /\ daily = 0
    /\ quota = 0
    /\ recent \in BOOLEAN
    /\ pc = [p \in Procs |-> "idle"]
    /\ through = 0
    /\ burst = IF recent THEN 1 ELSE 0
    /\ unrecorded = 0

-----------------------------------------------------------------------------
Goto(p, label) == pc' = [pc EXCEPT ![p] = label]

\* RateLimitExceeded.
Exceeds(count, n) == count + n > LIMIT[call]

\* Faulty variant: the limit itself is let pass.
CheckHourlyLate(p) ==
    /\ pc[p] = "idle"
    /\ hourly < MaxCount /\ daily < MaxCount
    /\ Goto(p, IF call \in HourlyLimited /\ hourly > LIMIT[call] THEN "idle" ELSE "daily")
    /\ UNCHANGED <<call, counters, recent, history>>

\* check_and_increment begins with the hour.
CheckHourly(p) ==
    /\ pc[p] = "idle"
    /\ hourly < MaxCount /\ daily < MaxCount
    /\ Goto(p, IF call \in HourlyLimited /\ Exceeds(hourly, 1) THEN "idle" ELSE "daily")
    /\ UNCHANGED <<call, counters, recent, history>>

\* The day: posts are counted, the uploads of YouTube charged by units.
CheckDaily(p) ==
    /\ pc[p] = "daily"
    /\ \/ /\ call \in DailyLimited
          /\ Goto(p, IF Exceeds(daily, 1) THEN "idle" ELSE "gap")
       \/ /\ call \in Charged
          /\ Goto(p, IF Exceeds(quota, UNITS[call]) THEN "idle" ELSE "charge")
       \/ /\ call \notin DailyLimited \cup Charged
          /\ Goto(p, "gap")
    /\ UNCHANGED <<call, counters, recent, history>>

\* _check_daily_limit charges the quota although the gap may still refuse.
Charge(p) ==
    /\ pc[p] = "charge"
    /\ quota' = quota + UNITS[call]
    /\ Goto(p, "gap")
    /\ UNCHANGED <<call, hourly, daily, recent, history>>

\* Faulty variant: the gap is looked at for 'post' only.
CheckPostGapOfPosts(p) ==
    /\ pc[p] = "gap"
    /\ Goto(p, IF call.endpoint = "post" /\ recent THEN "idle" ELSE "count_hour")
    /\ UNCHANGED <<call, counters, recent, history>>

\* _check_post_gap, for what publishes.
CheckPostGap(p) ==
    /\ pc[p] = "gap"
    /\ Goto(p, IF call \in Gapped /\ recent THEN "idle" ELSE "count_hour")
    /\ UNCHANGED <<call, counters, recent, history>>

CountHour(p) ==
    /\ pc[p] = "count_hour"
    /\ hourly' = hourly + 1
    /\ Goto(p, "count_day")
    /\ UNCHANGED <<call, daily, quota, recent, history>>

\* The second increment, and check_and_increment returns True.
CountDay(p) ==
    /\ pc[p] = "count_day"
    /\ daily' = daily + 1
    /\ through' = through + 1
    /\ Goto(p, "granted")
    /\ UNCHANGED <<call, hourly, quota, recent, burst, unrecorded>>

\* The caller uses its permission: a call that publishes makes a post.
Post(p) ==
    /\ pc[p] = "granted"
    /\ call \in Gapped
    /\ burst' = burst + 1
    /\ Goto(p, "posted")
    /\ UNCHANGED <<call, counters, recent, through, unrecorded>>

\* mark_published writes the time into publish_jobs, where the gap is looked for.
Record(p) ==
    /\ pc[p] = "posted"
    /\ recent' = TRUE
    /\ Goto(p, "idle")
    /\ UNCHANGED <<call, counters, history>>

\* The caller is done without a post, dies or gets an error, anywhere.
Abort(p) ==
    /\ pc[p] \notin {"idle", "posted"}
    /\ Goto(p, "idle")
    /\ UNCHANGED <<call, counters, recent, history>>

\* The post is made and its record is not: the caller dies, or writes none, as
\* Publisher, which keeps its posts in content_queue and published_videos.
LeaveUnrecorded(p) ==
    /\ pc[p] = "posted"
    /\ unrecorded < MaxLost
    /\ unrecorded' = unrecorded + 1
    /\ Goto(p, "idle")
    /\ UNCHANGED <<call, counters, recent, through, burst>>

-----------------------------------------------------------------------------
\* Faulty variant: the statement deletes without a WHERE.
ResetHourlyAll ==
    /\ hourly' = 0
    /\ daily' = 0
    /\ quota' = 0
    /\ through' = IF call \in HourlyLimited THEN 0 ELSE through
    /\ UNCHANGED <<call, recent, pc, burst, unrecorded>>

\* The resets delete the rows of a window, whoever is in the middle of a call.
ResetHourly ==
    /\ hourly' = 0
    /\ through' = IF call \in HourlyLimited THEN 0 ELSE through
    /\ UNCHANGED <<call, daily, quota, recent, pc, burst, unrecorded>>

ResetDaily ==
    /\ daily' = 0
    /\ quota' = 0
    /\ through' = IF call \in HourlyLimited THEN through ELSE 0
    /\ UNCHANGED <<call, hourly, recent, pc, burst, unrecorded>>

\* The minimum gap is over.
GapPasses ==
    /\ recent
    /\ recent' = FALSE
    /\ burst' = 0
    /\ unrecorded' = 0
    /\ UNCHANGED <<call, counters, pc, through>>

CheckStep(p) == CheckHourly(p) \/ CheckDaily(p) \/ Charge(p) \/ CheckPostGap(p)

CountStep(p) == CountHour(p) \/ CountDay(p)

UseStep(p) == Post(p) \/ Record(p) \/ LeaveUnrecorded(p)

Next ==
    \/ \E p \in Procs : CheckStep(p) \/ CountStep(p) \/ UseStep(p) \/ Abort(p)
    \/ ResetHourly
    \/ ResetDaily
    \/ GapPasses

Spec == Init /\ [][Next]_vars

-----------------------------------------------------------------------------
\* The variables keep their types.
TypeOK ==
    /\ call \in Calls
    /\ hourly \in Nat
    /\ daily \in Nat
    /\ quota \in Nat
    /\ recent \in BOOLEAN
    /\ pc \in [Procs -> {"idle", "daily", "charge", "gap", "count_hour", "count_day", "granted",
                      "posted"}]
    /\ through \in Nat
    /\ burst \in Nat
    /\ unrecorded \in Nat

Others == Cardinality(Procs) - 1

\* A counter passes its limit by at most one call of every other process
\* that read it before: the manager promises to raise before a call that would
\* breach a limit (line 6), but reads and increments in separate statements.
OverrunBounded ==
    /\ call \in HourlyLimited => hourly <= LIMIT[call] + Others
    /\ call \in DailyLimited => daily <= LIMIT[call] + Others
    /\ call \in Charged => quota <= LIMIT[call] + Others * UNITS[call]

\* What the platform is sent between two resets is bounded too.  A reset wipes
\* out increments of calls that are under way, one of each process; only the
\* daily counter is raised with the call, and loses none.
ThroughBounded ==
    /\ call \in HourlyLimited => through <= LIMIT[call] + Others + Cardinality(Procs)
    /\ call \in DailyLimited => through <= LIMIT[call] + Others
    /\ call \in Charged =>
          through * UNITS[call] <= LIMIT[call] + (Others + Cardinality(Procs)) * UNITS[call]

\* The minimum gap keeps back posts only as far as posts are recorded.  Processes that
\* saw the same free gap may all post, but each of them once: then a post on record keeps
\* them back until the gap is over.  Beyond that, there are as many as records are
\* missing.
BurstBounded == call \in Gapped => burst <= Cardinality(Procs) + unrecorded
=============================================================================
