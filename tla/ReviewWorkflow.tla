---------------------------- MODULE ReviewWorkflow ----------------------------
(***************************************************************************)
(* The human review of a finished video: ReviewGate (review_gate/gate.py),  *)
(* ApprovalTracker (approval_tracker.py), the approve and reject routes of  *)
(* ApprovalServer (approval_server.py) and the ContentQueue an approval     *)
(* feeds (queue/content_queue.py).                                          *)
(*                                                                          *)
(* The gate, the threads of the web server, the half-hourly expiry job and  *)
(* the consumers of the queue are separate actors on one database.  Every   *)
(* SQL statement is one step.  A click on a token that is not pending gets  *)
(* an error page and changes nothing.                                       *)
(***************************************************************************)
EXTENDS Naturals, FiniteSets

CONSTANTS
    Reviews,      \* review requests: one call of ReviewGate.process each
    Videos,
    VideoOf,      \* the video a request is about
    AutoReviews,  \* the requests whose token is made with auto_approve
    Platforms,    \* the platforms of every request
    Handlers,     \* threads of the approval server
    Consumers,    \* those who take rows out of the queue and mark them
    MaxRows,      \* bound on the rows ever inserted in content_queue (TLC only)
    None          \* nothing

ASSUME VideoAssumption == VideoOf \in [Reviews -> Videos]
ASSUME AutoAssumption == AutoReviews \subseteq Reviews
ASSUME RowsAssumption == MaxRows \in Nat
ASSUME NoneAssumption == None \notin Reviews \cup {"approve", "reject"} \cup Nat

Decisions == {"approve", "reject"}

VARIABLES
    connected,     \* has the server's gate been given a content_queue?
    stage,         \* how far ReviewGate.process got with a request
    numbered,      \* requests whose token carries the id of their row, not 0
    status,        \* reviews.status
    token,         \* approval_tokens.status of the request's token
    pc, request, decision, todo,   \* the web threads and their locals
    overdue,       \* the rows check_expiry has read and not yet settled
    autoApproved,  \* the tokens check_expiry returned as auto-approved
    queue,         \* the rows of content_queue
    lastId,        \* its AUTOINCREMENT counter
    taken,         \* the ids of the rows the consumers work on
    clicked,       \* history: the decisions taken on a pending token
    struck         \* history: the requests hit by a fault, or by a flushed row

threads == <<pc, request, decision, todo>>
job == <<overdue, autoApproved>>
rows == <<queue, lastId, taken>>
gate == <<connected, stage, numbered>>
vars == <<gate, status, token, threads, job, rows, clicked, struck>>

\* Who builds the server decides about the queue: its own main gives it none.
Init ==
    /\ connected \in BOOLEAN
    /\ stage = [r \in Reviews |-> "new"]
    /\ numbered = {}
    /\ status = [r \in Reviews |-> "none"]
    /\ token = [r \in Reviews |-> "none"]
    /\ pc = [h \in Handlers |-> "idle"]
    /\ request = [h \in Handlers |-> None]
    /\ decision = [h \in Handlers |-> None]
    /\ todo = [h \in Handlers |-> {}]
    /\ overdue = {}
    /\ autoApproved = {}
    /\ queue = {}
    /\ lastId = 0
    /\ taken = [c \in Consumers |-> None]
    /\ clicked = {}
    /\ struck = {}

-----------------------------------------------------------------------------
\* ReviewGate.process: the review row, the token, Telegram, the e-mail.

\* The id of the new row is what execute answers if that is an integer, else 0.
CreateReview(r) ==
    /\ stage[r] = "new"
    /\ stage' = [stage EXCEPT ![r] = "created"]
    /\ status' = [status EXCEPT ![r] = "pending_review"]
    /\ numbered' \in {numbered, numbered \cup {r}}
    /\ UNCHANGED <<connected, token, threads, job, rows, clicked, struck>>

CreateToken(r) ==
    /\ stage[r] = "created"
    /\ stage' = [stage EXCEPT ![r] = "tokened"]
    /\ token' = [token EXCEPT ![r] = "pending"]
    /\ UNCHANGED <<connected, numbered, status, threads, job, rows, clicked, struck>>

\* Telegram, and the mail as its fallback: the request arrives or it does not.  A
\* channel fails by its answer or by an exception.
Send(r) ==
    /\ stage[r] = "tokened"
    /\ \E s \in {"sent", "unsent"} : stage' = [stage EXCEPT ![r] = s]
    /\ UNCHANGED <<connected, numbered, status, token, threads, job, rows, clicked, struck>>

\* The process dies, or the database refuses the token.
ProcessDies(r) ==
    /\ stage[r] = "created"
    /\ stage' = [stage EXCEPT ![r] = "unsent"]
    /\ UNCHANGED <<connected, numbered, status, token, threads, job, rows, clicked, struck>>

\* flush_stale_reviews: a request still open after 14 days.
FlushStaleReview(r) ==
    /\ status[r] = "pending_review"
    /\ stage[r] \in {"sent", "unsent"}
    /\ status' = [status EXCEPT ![r] = "expired"]
    /\ UNCHANGED <<gate, token, threads, job, rows, clicked, struck>>

-----------------------------------------------------------------------------
Goto(h, label) == pc' = [pc EXCEPT ![h] = label]

Respond(h) ==
    /\ Goto(h, "idle")
    /\ request' = [request EXCEPT ![h] = None]
    /\ decision' = [decision EXCEPT ![h] = None]
    /\ todo' = [todo EXCEPT ![h] = {}]

\* Faulty variant: the link is not validated.
ClickUnvalidated(h, r, d) ==
    /\ pc[h] = "idle"
    /\ stage[r] = "sent"
    /\ Goto(h, "mark_read")
    /\ request' = [request EXCEPT ![h] = r]
    /\ decision' = [decision EXCEPT ![h] = d]
    /\ clicked' = IF token[r] = "pending" THEN clicked \cup {<<r, d>>} ELSE clicked
    /\ UNCHANGED <<gate, status, token, todo, job, rows, struck>>

\* The reviewer follows a link he was sent; validate_token lets it pass.
Click(h, r, d) ==
    /\ pc[h] = "idle"
    /\ stage[r] = "sent"
    /\ token[r] = "pending"
    /\ Goto(h, "mark_read")
    /\ request' = [request EXCEPT ![h] = r]
    /\ decision' = [decision EXCEPT ![h] = d]
    /\ clicked' = clicked \cup {<<r, d>>}
    /\ UNCHANGED <<gate, status, token, todo, job, rows, struck>>

\* Faulty variant: the mark is left to the gate, which does not make it.
MarkForgotten(h) ==
    /\ pc[h] = "mark_read"
    /\ Goto(h, "gate")
    /\ UNCHANGED <<gate, status, token, request, decision, todo, job, rows, clicked, struck>>

\* mark_approved and mark_rejected validate once more; the route does not look
\* at their answer and goes on to the gate in both cases.
MarkRead(h) ==
    /\ pc[h] = "mark_read"
    /\ Goto(h, IF token[request[h]] = "pending" THEN "mark_write" ELSE "gate")
    /\ UNCHANGED <<gate, status, token, request, decision, todo, job, rows, clicked, struck>>

\* Faulty variant: the mark on the token is the end of a rejection.
MarkWriteOnly(h) ==
    /\ pc[h] = "mark_write"
    /\ token' = [token EXCEPT ![request[h]] =
                    IF decision[h] = "approve" THEN "approved" ELSE "rejected"]
    /\ IF decision[h] = "approve"
          THEN Goto(h, "gate") /\ UNCHANGED <<request, decision, todo>>
          ELSE Respond(h)
    /\ UNCHANGED <<gate, status, job, rows, clicked, struck>>

MarkWrite(h) ==
    /\ pc[h] = "mark_write"
    /\ token' = [token EXCEPT ![request[h]] =
                    IF decision[h] = "approve" THEN "approved" ELSE "rejected"]
    /\ Goto(h, "gate")
    /\ UNCHANGED <<gate, status, request, decision, todo, job, rows, clicked, struck>>

\* handle_approval: the review is approved whatever its status is, and goes to
\* the queue if there is one ...
Approve(h) ==
    /\ pc[h] = "gate"
    /\ decision[h] = "approve"
    /\ request[h] \in numbered
    /\ status' = [status EXCEPT ![request[h]] = "approved"]
    /\ IF connected /\ Platforms # {}
       THEN /\ Goto(h, "queue")
            /\ todo' = [todo EXCEPT ![h] = Platforms]
            /\ UNCHANGED <<request, decision>>
       ELSE Respond(h)
    /\ UNCHANGED <<gate, token, job, rows, clicked, struck>>

\* handle_rejection: one UPDATE; the queue is not touched.
Reject(h) ==
    /\ pc[h] = "gate"
    /\ decision[h] = "reject"
    /\ request[h] \in numbered
    /\ status' = [status EXCEPT ![request[h]] = "rejected"]
    /\ Respond(h)
    /\ UNCHANGED <<gate, token, job, rows, clicked, struck>>

\* No review has the id 0: the approval returns False, the UPDATE meets no row,
\* and the page says that it is done.
NoSuchReview(h) ==
    /\ pc[h] = "gate"
    /\ request[h] \notin numbered
    /\ Respond(h)
    /\ UNCHANGED <<gate, status, token, job, rows, clicked, struck>>

RowsFor(v, p) == {row \in queue : row.video = v /\ row.platform = p}

\* Faulty variant: INSERT OR REPLACE.
InsertOrReplace(v, p) ==
    /\ queue' = (queue \ RowsFor(v, p))
                    \cup {[id |-> lastId + 1, video |-> v, platform |-> p, status |-> "waiting"]}
    /\ lastId' = lastId + 1

\* INSERT OR IGNORE under UNIQUE(video_id, platform).
InsertOrIgnore(v, p) ==
    IF RowsFor(v, p) = {}
    THEN /\ lastId < MaxRows
         /\ queue' = queue \cup
                {[id |-> lastId + 1, video |-> v, platform |-> p, status |-> "waiting"]}
         /\ lastId' = lastId + 1
    ELSE UNCHANGED <<queue, lastId>>

NextPlatform(h, p) ==
    IF todo[h] = {p}
    THEN Respond(h)
    ELSE /\ todo' = [todo EXCEPT ![h] = @ \ {p}]
         /\ UNCHANGED <<pc, request, decision>>

\* ... where add_to_queue inserts one row per platform.
Enqueue(h) ==
    /\ pc[h] = "queue"
    /\ \E p \in todo[h] : InsertOrIgnore(VideoOf[request[h]], p) /\ NextPlatform(h, p)
    /\ UNCHANGED <<gate, status, token, job, taken, clicked, struck>>

\* The exception of an INSERT is swallowed, and the next platform follows.
EnqueueFails(h) ==
    /\ pc[h] = "queue"
    /\ \E p \in todo[h] : NextPlatform(h, p)
    /\ struck' = struck \cup {request[h]}
    /\ UNCHANGED <<gate, status, token, job, rows, clicked>>

\* The server is killed, or a statement raises, in the middle of a request.
HandlerDies(h) ==
    /\ pc[h] # "idle"
    /\ struck' = IF pc[h] \in {"gate", "queue"} THEN struck \cup {request[h]} ELSE struck
    /\ Respond(h)
    /\ UNCHANGED <<gate, status, token, job, rows, clicked>>

-----------------------------------------------------------------------------
\* check_expiry reads the pending tokens that are past expires_at by now ...
ReadExpired ==
    /\ overdue = {}
    /\ overdue' \in SUBSET {r \in Reviews : token[r] = "pending"} \ {{}}
    /\ UNCHANGED <<gate, status, token, threads, autoApproved, rows, clicked, struck>>

\* ... and settled one by one, whatever happened to them since.  Neither the
\* review nor the queue is told.
SettleNext(r) ==
    /\ r \in overdue
    /\ overdue' = overdue \ {r}
    /\ token' = [token EXCEPT ![r] = IF r \in AutoReviews THEN "approved" ELSE "expired"]
    /\ autoApproved' = IF r \in AutoReviews THEN autoApproved \cup {r} ELSE autoApproved
    /\ UNCHANGED <<gate, status, threads, rows, clicked, struck>>

JobDies ==
    /\ overdue # {}
    /\ overdue' = {}
    /\ UNCHANGED <<gate, status, token, threads, autoApproved, rows, clicked, struck>>

-----------------------------------------------------------------------------
\* get_next_ready answers a waiting row and claims nothing: two consumers may have
\* the same one.
TakeReady(c) ==
    /\ taken[c] = None
    /\ \E row \in queue : row.status = "waiting" /\ taken' = [taken EXCEPT ![c] = row.id]
    /\ UNCHANGED <<gate, status, token, threads, job, queue, lastId, clicked, struck>>

\* An UPDATE gives the rows it meets a status, whichever they had.
SetStatus(met, s) ==
    queue' = (queue \ met) \cup {[row EXCEPT !.status = s] : row \in met}

\* mark_published and mark_failed find the row by its id alone.
MarkRow(c) ==
    /\ taken[c] # None
    /\ \E s \in {"published", "failed"} : SetStatus({row \in queue : row.id = taken[c]}, s)
    /\ taken' = [taken EXCEPT ![c] = None]
    /\ UNCHANGED <<gate, status, token, threads, job, lastId, clicked, struck>>

ConsumerDies(c) ==
    /\ taken[c] # None
    /\ taken' = [taken EXCEPT ![c] = None]
    /\ UNCHANGED <<gate, status, token, threads, job, queue, lastId, clicked, struck>>

\* cancel_scheduled: the rows of a video, or its row for one platform.
Cancel(v, ps) ==
    /\ SetStatus({row \in queue : row.video = v /\ row.platform \in ps}, "cancelled")
    /\ UNCHANGED <<gate, status, token, threads, job, lastId, taken, clicked, struck>>

\* The condition of the DELETE.
Stale(row) == row.status = "waiting"

\* flush_expired deletes waiting rows older than 14 days; rows age one by one.
FlushExpired ==
    /\ \E row \in queue :
          /\ Stale(row)
          /\ queue' = queue \ {row}
          /\ struck' = struck \cup {r \in Reviews : VideoOf[r] = row.video}
    /\ UNCHANGED <<gate, status, token, threads, job, lastId, taken, clicked>>

-----------------------------------------------------------------------------
GateStep(r) ==
    CreateReview(r) \/ CreateToken(r) \/ Send(r) \/ ProcessDies(r) \/ FlushStaleReview(r)

HandlerStep(h) ==
    \/ \E r \in Reviews, d \in Decisions : Click(h, r, d)
    \/ MarkRead(h)
    \/ MarkWrite(h)
    \/ Approve(h)
    \/ Reject(h)
    \/ NoSuchReview(h)
    \/ Enqueue(h)
    \/ EnqueueFails(h)
    \/ HandlerDies(h)

JobStep == ReadExpired \/ (\E r \in Reviews : SettleNext(r)) \/ JobDies

QueueStep ==
    \/ \E c \in Consumers : TakeReady(c) \/ MarkRow(c) \/ ConsumerDies(c)
    \/ \E v \in Videos, ps \in {Platforms} \cup {{p} : p \in Platforms} : Cancel(v, ps)
    \/ FlushExpired

Next ==
    \/ \E r \in Reviews : GateStep(r)
    \/ \E h \in Handlers : HandlerStep(h)
    \/ JobStep
    \/ QueueStep

Spec == Init /\ [][Next]_vars

\* The expiry job runs every half hour and finds tokens that are late: a run may be
\* killed, but not every run.  The server finishes what it is not killed in.
Fairness ==
    /\ WF_vars(ReadExpired)
    /\ \A r \in Reviews : SF_vars(SettleNext(r))
    /\ \A h \in Handlers :
          WF_vars(MarkRead(h) \/ MarkWrite(h) \/ Approve(h) \/ Reject(h) \/ NoSuchReview(h) \/ Enqueue(h))

FairSpec == Spec /\ Fairness

-----------------------------------------------------------------------------
\* The variables keep their types.
TypeOK ==
    /\ connected \in BOOLEAN
    /\ numbered \subseteq Reviews
    /\ stage \in [Reviews -> {"new", "created", "tokened", "sent", "unsent"}]
    /\ status \in [Reviews -> {"none", "pending_review", "approved", "rejected", "expired"}]
    /\ token \in [Reviews -> {"none", "pending", "approved", "rejected", "expired"}]
    /\ pc \in [Handlers -> {"idle", "mark_read", "mark_write", "gate", "queue"}]
    /\ request \in [Handlers -> Reviews \cup {None}]
    /\ decision \in [Handlers -> Decisions \cup {None}]
    /\ todo \in [Handlers -> SUBSET Platforms]
    /\ overdue \subseteq Reviews
    /\ autoApproved \subseteq Reviews
    /\ queue \subseteq [id : Nat, video : Videos, platform : Platforms,
                        status : {"waiting", "published", "failed", "cancelled"}]
    /\ lastId \in Nat
    /\ taken \in [Consumers -> Nat \cup {None}]
    /\ clicked \subseteq Reviews \X Decisions
    /\ struck \subseteq Reviews

\* Nothing is queued for publication, and no review says approved or rejected,
\* without a reviewer's decision that was taken while the token was pending or
\* an auto-approval - although the routes validate, mark and decide in separate
\* statements and ignore a failed mark.
DecidedByReviewer ==
    /\ \A row \in queue : \E r \in Reviews :
          /\ VideoOf[r] = row.video
          /\ <<r, "approve">> \in clicked \/ r \in autoApproved
    /\ \A r \in Reviews :
          /\ status[r] = "approved" => <<r, "approve">> \in clicked
          /\ status[r] = "rejected" => <<r, "reject">> \in clicked

\* A video that left the queue of a platform - published, failed or cancelled - is
\* never waiting in it again: consumers that have the same row and a cancellation
\* may overwrite each other's marks, but neither they, nor a second approval of the
\* video, nor the flush of old rows brings it back to where a consumer takes it.
SettledStaysOut ==
    [][\A row \in queue : row.status # "waiting" =>
          /\ RowsFor(row.video, row.platform)' # {}
          /\ \A x \in RowsFor(row.video, row.platform)' : x.status # "waiting"]_vars

\* A decision closes the link: once a review is approved or rejected, by
\* whichever route and after whatever race, no click on it is let in any more.
DecisionClosesToken ==
    \A r \in Reviews :
        status[r] \in {"approved", "rejected"} => token[r] \notin {"none", "pending"}

AtGate(h, r) == pc[h] = "gate" /\ request[h] = r
AtQueue(h, r) == pc[h] = "queue" /\ request[h] = r

\* Without a fault a decision takes effect, through statements that look at nobody
\* else's: once the link of a review is used up, the review is decided or a thread
\* is about to tell the gate; and an approved one has its rows in the queue or a
\* thread that is inserting them.  The exceptions are the faults of this code: a
\* token that was made with the id 0, a gate without a queue, a thread that died, a
\* refused INSERT, the expiry job, and rows that waited for 14 days.
DecisionTakesEffect ==
    \A r \in numbered \ (struck \cup autoApproved) :
        /\ token[r] \in {"approved", "rejected"} =>
               status[r] # "pending_review" \/ \E h \in Handlers : AtGate(h, r)
        /\ connected /\ status[r] = "approved" =>
               \/ \E h \in Handlers : AtQueue(h, r)
               \/ \A p \in Platforms : RowsFor(VideoOf[r], p) # {}

\* "When a token expires and the brand is configured for auto-approve, the video
\* is automatically moved to the publish queue" (approval_tracker.py, line 7).
AutoApprovedIsQueued ==
    \A r \in Reviews :
        connected /\ r \in autoApproved \cap numbered ~> \E row \in queue : row.video = VideoOf[r]
=============================================================================
