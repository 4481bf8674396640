------------------------------- MODULE Publisher -------------------------------
(***************************************************************************)
(* Publisher (modules/publish_engine/publisher.py) and the five platform    *)
(* publishers it calls (tiktok.py, youtube.py, instagram.py, facebook.py,   *)
(* snapchat.py, base.py), over the rows of content_queue.                   *)
(*                                                                          *)
(* A run reads the due rows once and then publishes them one by one; runs   *)
(* start every five minutes whether or not an earlier one is still busy,    *)
(* and nothing claims a row.  Every SQL statement is one step and so is the *)
(* call of the platform, up to the request that decides whether the post    *)
(* exists.  A statement may be refused and a run may be killed anywhere.    *)
(***************************************************************************)
EXTENDS Naturals, FiniteSets

CONSTANTS
    Rows,          \* the rows of content_queue
    PlatformOf,    \* content_queue.platform
    VideoOf,       \* content_queue.video_id
    Runs,          \* publish runs that may overlap
    MAX_RETRIES,
    MaxFaults,     \* bound on refused statements and killed runs
    None           \* nothing

VARIABLES
    status,     \* content_queue.status
    due,        \* rows with scheduled_for <= now
    succeeded,  \* rows with a 'success' entry in publish_log
    failures,   \* number of 'failed' entries in publish_log, by row
    recorded,   \* rows with an entry in published_videos
    videos,     \* the ids in table videos; nothing deletes one
    files,      \* rows whose file is there and within the platform's limit
    posts,      \* how often the platform really got the row's video
    pc, todo, current,   \* the runs and their locals
    caught,     \* runs that handle an exception of _publish_single
    faults

queue == <<status, due>>
log == <<succeeded, failures>>
data == <<videos, files>>
control == <<pc, todo, current, caught>>
vars == <<queue, log, recorded, data, posts, control, faults>>

-----------------------------------------------------------------------------
\* What publish of each platform can come to once its request is out: the post
\* exists or not, and the method goes on to log success or raises.

\* Faulty variant: the poll's time-out is taken for success.
TikTokUnchecked == {[posted |-> TRUE, ok |-> TRUE], [posted |-> FALSE, ok |-> TRUE],
                    [posted |-> TRUE, ok |-> FALSE], [posted |-> FALSE, ok |-> FALSE]}

\* The post is there when the poll says PUBLISH_COMPLETE; it may also be there
\* when the poll runs out of time.
TikTok == {[posted |-> TRUE, ok |-> TRUE],
           [posted |-> TRUE, ok |-> FALSE], [posted |-> FALSE, ok |-> FALSE]}

\* The upload ends with 200 or 201 and the video's resource; the rate limit of
\* the thumbnail is looked at afterwards and may still raise.
YouTube == {[posted |-> TRUE, ok |-> TRUE],
            [posted |-> TRUE, ok |-> FALSE], [posted |-> FALSE, ok |-> FALSE]}

\* These three take the id out of whatever the platform answers, an error
\* included, and "" if there is none.
AnyAnswer == [posted : BOOLEAN, ok : BOOLEAN]
Instagram == AnyAnswer
Facebook == AnyAnswer
Snapchat == AnyAnswer

\* _get_publisher.
Publishers == {"tiktok", "instagram", "facebook", "youtube", "snapchat"}

Outcomes ==
    [k \in Publishers |->
        IF k = "tiktok" THEN TikTok
        ELSE IF k = "youtube" THEN YouTube
        ELSE IF k = "instagram" THEN Instagram
        ELSE IF k = "facebook" THEN Facebook ELSE Snapchat]

\* The two that look at the file before they try anything.
Validating == {"tiktok", "snapchat"}

\* The platforms that confirm a post before it is called a success.
Confirming == {"tiktok", "youtube"}

ASSUME RowsAssumption == IsFiniteSet(Rows) /\ IsFiniteSet(Runs)
ASSUME RetriesAssumption == MAX_RETRIES \in Nat \ {0} /\ MaxFaults \in Nat
ASSUME NoneAssumption == None \notin Rows

Statuses == {"waiting", "published", "failed", "cancelled"}
Labels == {"idle", "next", "drop", "call", "log_success", "log_failure",
           "mark", "insert", "count", "reschedule", "give_up"}

Init ==
    /\ status = [q \in Rows |-> "waiting"]
    /\ due = {}
    /\ succeeded = {}
    /\ failures = [q \in Rows |-> 0]
    /\ recorded = {}
    /\ videos \in SUBSET {VideoOf[q] : q \in Rows}
    /\ files \in SUBSET Rows
    /\ posts = [q \in Rows |-> 0]
    /\ pc = [r \in Runs |-> "idle"]
    /\ todo = [r \in Runs |-> {}]
    /\ current = [r \in Runs |-> None]
    /\ caught = {}
    /\ faults = 0

-----------------------------------------------------------------------------
Goto(r, label) == pc' = [pc EXCEPT ![r] = label]

\* The run turns to the next row of its list.
Continue(r) ==
    /\ Goto(r, "next")
    /\ current' = [current EXCEPT ![r] = None]
    /\ caught' = caught \ {r}
    /\ UNCHANGED todo

\* The run ends, and with it the rest of its list.
Stop(r) ==
    /\ Goto(r, "idle")
    /\ todo' = [todo EXCEPT ![r] = {}]
    /\ current' = [current EXCEPT ![r] = None]
    /\ caught' = caught \ {r}

\* An exception: the first one under the try is handed to _handle_failure, one
\* raised while that is done leaves publish_due_now.
Raise(r) ==
    /\ faults < MaxFaults
    /\ faults' = faults + 1
    /\ IF r \in caught
       THEN Stop(r)
       ELSE /\ caught' = caught \cup {r}
            /\ Goto(r, "count")
            /\ UNCHANGED <<todo, current>>

\* Faulty variant: the status is not asked for.
GetDueOfAnyStatus(r) ==
    /\ pc[r] = "idle"
    /\ due # {}
    /\ todo' = [todo EXCEPT ![r] = due]
    /\ Goto(r, "next")
    /\ UNCHANGED <<queue, log, recorded, data, posts, current, caught, faults>>

\* _get_due_videos: the waiting rows whose time has come.
GetDue(r) ==
    /\ pc[r] = "idle"
    /\ \E q \in due : status[q] = "waiting"
    /\ todo' = [todo EXCEPT ![r] = {q \in due : status[q] = "waiting"}]
    /\ Goto(r, "next")
    /\ UNCHANGED <<queue, log, recorded, data, posts, current, caught, faults>>

Finish(r) ==
    /\ pc[r] = "next"
    /\ todo[r] = {}
    /\ Stop(r)
    /\ UNCHANGED <<queue, log, recorded, data, posts, faults>>

\* _publish_single: the video is read, the publisher looked up.  The status of
\* the row is not read again.
Take(r) ==
    /\ pc[r] = "next"
    /\ \E q \in todo[r] :
          /\ todo' = [todo EXCEPT ![r] = @ \ {q}]
          /\ \/ /\ VideoOf[q] \notin videos
                /\ current' = [current EXCEPT ![r] = q]
                /\ Goto(r, "drop")
             \/ /\ VideoOf[q] \in videos
                /\ PlatformOf[q] \in Publishers
                /\ current' = [current EXCEPT ![r] = q]
                /\ Goto(r, "call")
             \/ /\ VideoOf[q] \in videos
                /\ PlatformOf[q] \notin Publishers
                /\ UNCHANGED <<current, pc>>
    /\ UNCHANGED <<queue, log, recorded, data, posts, caught, faults>>

\* The video is not there.
Drop(r) ==
    /\ pc[r] = "drop"
    /\ status' = [status EXCEPT ![current[r]] = "failed"]
    /\ Continue(r)
    /\ UNCHANGED <<due, log, recorded, data, posts, faults>>

-----------------------------------------------------------------------------
\* A file that does not pass is reported as a failure that is not logged.
Refuse(r) ==
    /\ pc[r] = "call"
    /\ PlatformOf[current[r]] \in Validating
    /\ current[r] \notin files
    /\ Goto(r, "count")
    /\ UNCHANGED <<queue, log, recorded, data, posts, todo, current, caught, faults>>

\* The platform's publish up to its log entry.
Call(r) ==
    /\ pc[r] = "call"
    /\ PlatformOf[current[r]] \in Validating => current[r] \in files
    /\ \E o \in Outcomes[PlatformOf[current[r]]] :
          /\ posts' = IF o.posted THEN [posts EXCEPT ![current[r]] = @ + 1] ELSE posts
          /\ Goto(r, IF o.ok THEN "log_success" ELSE "log_failure")
    /\ UNCHANGED <<queue, log, recorded, data, todo, current, caught, faults>>

\* log_publish_attempt; if the entry of a success is refused, the attempt is
\* logged as a failure.
LogSuccess(r) ==
    /\ pc[r] = "log_success"
    /\ \/ /\ succeeded' = succeeded \cup {current[r]}
          /\ Goto(r, "mark")
          /\ UNCHANGED <<failures, faults>>
       \/ /\ faults < MaxFaults
          /\ faults' = faults + 1
          /\ Goto(r, "log_failure")
          /\ UNCHANGED log
    /\ UNCHANGED <<queue, recorded, data, posts, todo, current, caught>>

\* Faulty variant: the attempt is logged with the status 'retry'.
LogFailureAsRetry(r) ==
    /\ pc[r] = "log_failure"
    /\ \/ Goto(r, "count") /\ UNCHANGED <<todo, current, caught, faults>>
       \/ Raise(r)
    /\ UNCHANGED <<queue, log, recorded, data, posts>>

LogFailure(r) ==
    /\ pc[r] = "log_failure"
    /\ \/ /\ failures' = [failures EXCEPT ![current[r]] = @ + 1]
          /\ Goto(r, "count")
          /\ UNCHANGED <<todo, current, caught, faults>>
       \/ Raise(r) /\ UNCHANGED failures
    /\ UNCHANGED <<queue, succeeded, recorded, data, posts>>

\* _mark_published: the queue ...
Mark(r) ==
    /\ pc[r] = "mark"
    /\ \/ /\ status' = [status EXCEPT ![current[r]] = "published"]
          /\ Goto(r, "insert")
          /\ UNCHANGED <<todo, current, caught, faults>>
       \/ Raise(r) /\ UNCHANGED status
    /\ UNCHANGED <<due, log, recorded, data, posts>>

\* ... then published_videos.
Insert(r) ==
    /\ pc[r] = "insert"
    /\ \/ /\ recorded' = recorded \cup {current[r]}
          /\ Continue(r)
          /\ UNCHANGED faults
       \/ Raise(r) /\ UNCHANGED recorded
    /\ UNCHANGED <<queue, log, data, posts>>

-----------------------------------------------------------------------------
\* Faulty variant: the comparison is off by one.
ExhaustedLate(q) == failures[q] + 1 > MAX_RETRIES

\* retries counts this attempt once more than publish_log, which has it already.
Exhausted(q) == failures[q] + 1 >= MAX_RETRIES

\* _handle_failure.
Count(r) ==
    /\ pc[r] = "count"
    /\ \/ /\ Goto(r, IF Exhausted(current[r]) THEN "give_up" ELSE "reschedule")
          /\ UNCHANGED <<todo, current, caught, faults>>
       \/ Raise(r)
    /\ UNCHANGED <<queue, log, recorded, data, posts>>

\* calculate_publish_time always answers with a time to come.
Reschedule(r) ==
    /\ pc[r] = "reschedule"
    /\ \/ /\ due' = due \ {current[r]}
          /\ Continue(r)
          /\ UNCHANGED faults
       \/ Raise(r) /\ UNCHANGED due
    /\ UNCHANGED <<status, log, recorded, data, posts>>

GiveUp(r) ==
    /\ pc[r] = "give_up"
    /\ \/ /\ status' = [status EXCEPT ![current[r]] = "failed"]
          /\ Continue(r)
          /\ UNCHANGED faults
       \/ Raise(r) /\ UNCHANGED status
    /\ UNCHANGED <<due, log, recorded, data, posts>>

\* The run is killed, or a statement outside the try is refused.
Die(r) ==
    /\ pc[r] # "idle"
    /\ faults < MaxFaults
    /\ faults' = faults + 1
    /\ Stop(r)
    /\ UNCHANGED <<queue, log, recorded, data, posts>>

-----------------------------------------------------------------------------
\* cancel_scheduled: the rows of a video, or one of them, in any status.
Cancel ==
    /\ \E q \in Rows : \E S \in {{q}, {x \in Rows : VideoOf[x] = VideoOf[q]}} :
          status' = [x \in Rows |-> IF x \in S THEN "cancelled" ELSE status[x]]
    /\ UNCHANGED <<due, log, recorded, data, posts, control, faults>>

\* A job that removes old temporary files takes the row's file along.
LoseFile(q) ==
    /\ q \in files
    /\ files' = files \ {q}
    /\ UNCHANGED <<queue, log, recorded, videos, posts, control, faults>>

TimeComes(q) ==
    /\ q \notin due
    /\ due' = due \cup {q}
    /\ UNCHANGED <<status, log, recorded, data, posts, control, faults>>

Step(r) ==
    \/ GetDue(r) \/ Finish(r) \/ Take(r) \/ Drop(r)
    \/ Refuse(r) \/ Call(r) \/ LogSuccess(r) \/ LogFailure(r)
    \/ Mark(r) \/ Insert(r)
    \/ Count(r) \/ Reschedule(r) \/ GiveUp(r)

Next ==
    \/ \E r \in Runs : Step(r) \/ Die(r)
    \/ \E q \in Rows : TimeComes(q) \/ LoseFile(q)
    \/ Cancel

Spec == Init /\ [][Next]_vars

\* Time passes, cron starts the runs and a run goes on until it ends or dies.
FairSpec ==
    /\ Spec
    /\ \A q \in Rows : WF_vars(TimeComes(q))
    /\ \A r \in Runs : WF_vars(Step(r))

-----------------------------------------------------------------------------
\* The variables keep their types.
TypeOK ==
    /\ status \in [Rows -> Statuses]
    /\ due \subseteq Rows
    /\ succeeded \subseteq Rows
    /\ failures \in [Rows -> Nat]
    /\ recorded \subseteq Rows
    /\ videos \subseteq {VideoOf[q] : q \in Rows}
    /\ files \subseteq Rows
    /\ posts \in [Rows -> Nat]
    /\ pc \in [Runs -> Labels]
    /\ todo \in [Runs -> SUBSET Rows]
    /\ current \in [Runs -> Rows \cup {None}]
    /\ caught \subseteq Runs
    /\ faults \in 0..MaxFaults

\* What the tables call published was logged as a success first, and on the
\* platforms that confirm a post it is really there - whichever runs overlap,
\* die or have statements refused between the post and the marks.
PublishedIsTrue ==
    \A q \in Rows :
        status[q] = "published" \/ q \in recorded =>
            /\ q \in succeeded
            /\ PlatformOf[q] \in Confirming => posts[q] > 0

\* The retries are bounded: but for one attempt of every other run that has the
\* row in its list, and one for every attempt whose handling was cut short, a row
\* is logged as failed fewer than MAX_RETRIES times.
RetriesBounded ==
    \A q \in Rows :
        failures[q] < MAX_RETRIES + (Cardinality(Runs) - 1) + faults

\* Repeated posts are bounded: but for one post of every other run that has the row
\* in its list, and one for every fault, a video is posted at most once more than
\* its attempts were logged as failed.
RepostsBounded ==
    \A q \in Rows : posts[q] <= failures[q] + Cardinality(Runs) + faults

\* Retrying ends: a waiting row of a known platform is published, cancelled or
\* given up in the end, unless its file is gone.
RetryingEnds ==
    \A q \in Rows :
        PlatformOf[q] \in Publishers =>
            (status[q] = "waiting" ~> (status[q] # "waiting" \/ q \notin files))
OutOfReach(q) ==
    /\ status[q] = "cancelled"
    /\ \A r \in Runs : q \notin todo[r] /\ current[r] # q

\* A cancellation holds once the runs that had the row in their lists are done: the
\* row is not taken up, posted or marked again.  A run that has it already posts it
\* and writes its own status over the cancellation.
CancelledStaysOut ==
    [][\A q \in Rows :
          OutOfReach(q) => OutOfReach(q)' /\ posts'[q] = posts[q]]_vars
=============================================================================
