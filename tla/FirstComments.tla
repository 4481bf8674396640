----------------------------- MODULE FirstComments -----------------------------
(***************************************************************************)
(* FirstCommentPoster (modules/marketing/first_comment.py): a comment of    *)
(* the brand's own under each post, by post_first_comment right after the   *)
(* post and by post_pending_comments for the rows of first_comments that    *)
(* were left pending.  Looking for a row, inserting it, asking the platform *)
(* and marking the row are four steps, and nothing claims a row.            *)
(*                                                                          *)
(* The four platforms' handlers ask the rate limiter, the credentials and   *)
(* the session outside of their try and make the request inside of it; they *)
(* differ in nothing that counts here.                                      *)
(***************************************************************************)
EXTENDS Integers, FiniteSetsExt

CONSTANTS
    Procs,
    Posts,        \* publish_jobs that have their platform_post_id
    MaxComments   \* bound on the rows of first_comments (TLC only)

VARIABLES
    rows,     \* rows of first_comments
    lastId,
    pc,       \* where each process is
    cur,      \* the row it is at, with the id 0 before the INSERT
    todo,     \* rows of the list it read that it has not come to
    live,     \* history: the comments that are under a post: none, one or more
    doubt     \* history: an outcome was lost, or two were at work on the post at once

vars == <<rows, lastId, pc, cur, todo, live, doubt>>

Nowhere == [id |-> 0, post |-> 0]

Init ==
    /\ rows = {}
    /\ lastId = 0
    /\ pc = [p \in Procs |-> "idle"]
    /\ cur = [p \in Procs |-> Nowhere]
    /\ todo = [p \in Procs |-> {}]
    /\ live = [q \in Posts |-> 0]
    /\ doubt = [q \in Posts |-> FALSE]

Goto(p, label) == pc' = [pc EXCEPT ![p] = label]

At(p, row) == cur' = [cur EXCEPT ![p] = row]

\* The posts a process is at work on, or will be.
HeldBy(p) == {row.post : row \in {cur[p]} \cup todo[p]}

\* The history of p beginning with some posts.
Meets(p, posts) ==
    doubt' = [q \in Posts |->
        doubt[q] \/ (q \in posts /\ \E r \in Procs \ {p} : q \in HeldBy(r))]

\* Faulty variant: rows that are pending are not looked for.
UnpostedOnly(post) ==
    \A row \in rows : row.post = post => row.status # "posted"

\* The SELECT for a row that is posted or pending finds none.
Unposted(post) ==
    \A row \in rows : row.post = post => row.status \notin {"posted", "pending"}

\* post_first_comment, for a post that has no such row; for another it does nothing.
PostFirstComment(p) ==
    /\ pc[p] = "idle"
    /\ \E post \in Posts :
          /\ Unposted(post)
          /\ At(p, [id |-> 0, post |-> post])
          /\ Meets(p, {post})
    /\ Goto(p, "insert")
    /\ UNCHANGED <<rows, lastId, todo, live>>

\* The INSERT, of a row that is pending.
InsertRow(p) ==
    /\ pc[p] = "insert"
    /\ lastId < MaxComments
    /\ lastId' = lastId + 1
    /\ rows' = rows \cup {[id |-> lastId + 1, post |-> cur[p].post, status |-> "pending"]}
    /\ At(p, [cur[p] EXCEPT !.id = lastId + 1])
    /\ Goto(p, "post")
    /\ UNCHANGED <<todo, live, doubt>>

\* post_pending_comments: the list.
ReadPending(p) ==
    /\ pc[p] = "idle"
    /\ LET pending == {row \in rows : row.status = "pending"}
       IN  /\ pending # {}
           /\ todo' = [todo EXCEPT ![p] = {[id |-> row.id, post |-> row.post] : row \in pending}]
           /\ Meets(p, {row.post : row \in pending})
    /\ Goto(p, "next")
    /\ UNCHANGED <<rows, lastId, cur, live>>

\* The next row of the list, by its id, or the end of it.
NextRow(p) ==
    /\ pc[p] = "next"
    /\ IF todo[p] = {}
          THEN Goto(p, "idle") /\ At(p, Nowhere) /\ UNCHANGED todo
          ELSE \E row \in todo[p] :
                  /\ row.id = Min({r.id : r \in todo[p]})
                  /\ At(p, row)
                  /\ todo' = [todo EXCEPT ![p] = @ \ {row}]
                  /\ Goto(p, "post")
    /\ UNCHANGED <<rows, lastId, live, doubt>>

\* No handler for the platform, no allowance, no credentials, a request that is
\* refused or does not get there.
NoComment(p) ==
    /\ pc[p] = "post"
    /\ Goto(p, "failed")
    /\ UNCHANGED <<rows, lastId, cur, todo, live, doubt>>

Appears(p) == live' = [live EXCEPT ![cur[p].post] = IF @ = 2 THEN 2 ELSE @ + 1]

Lost(p) == doubt' = [doubt EXCEPT ![cur[p].post] = TRUE]

\* The comment is there, and its id comes back.
Commented(p) ==
    /\ pc[p] = "post"
    /\ Appears(p)
    /\ Goto(p, "posted")
    /\ UNCHANGED <<rows, lastId, cur, todo, doubt>>

\* The comment is there, and the answer is late, of another status, or without id.
AnswerLost(p) ==
    /\ pc[p] = "post"
    /\ Appears(p)
    /\ Lost(p)
    /\ Goto(p, "failed")
    /\ UNCHANGED <<rows, lastId, cur, todo>>

\* The UPDATE of the row, whatever its status has become.
MarkRow(p) ==
    /\ pc[p] \in {"posted", "failed"}
    /\ rows' = {IF row.id = cur[p].id THEN [row EXCEPT !.status = pc[p]] ELSE row : row \in rows}
    /\ Goto(p, "next")
    /\ At(p, Nowhere)
    /\ UNCHANGED <<lastId, todo, live, doubt>>

\* An exception outside of a handler's try, a refused statement, or a process that
\* dies: the row stays as it is, and so does the rest of the list.
Abort(p) ==
    /\ pc[p] # "idle"
    /\ IF pc[p] = "posted" THEN Lost(p) ELSE UNCHANGED doubt
    /\ Goto(p, "idle")
    /\ At(p, Nowhere)
    /\ todo' = [todo EXCEPT ![p] = {}]
    /\ UNCHANGED <<rows, lastId, live>>

PostComment(p) == NoComment(p) \/ Commented(p) \/ AnswerLost(p)

Next == \E p \in Procs :
    \/ PostFirstComment(p) \/ InsertRow(p)
    \/ ReadPending(p) \/ NextRow(p)
    \/ PostComment(p) \/ MarkRow(p) \/ Abort(p)

Spec == Init /\ [][Next]_vars

-----------------------------------------------------------------------------
\* The variables keep their types.
TypeOK ==
    /\ rows \subseteq [id : 1..MaxComments, post : Posts, status : {"pending", "posted", "failed"}]
    /\ lastId \in 0..MaxComments
    /\ pc \in [Procs -> {"idle", "insert", "next", "post", "posted", "failed"}]
    /\ cur \in [Procs -> [id : 0..MaxComments, post : Posts \cup {0}]]
    /\ todo \in [Procs -> SUBSET [id : 1..MaxComments, post : Posts]]
    /\ live \in [Posts -> 0..2]
    /\ doubt \in [Posts -> BOOLEAN]

\* A post gets a second comment only when the outcome of an earlier one was lost,
\* on the way back or before its row was marked, or when two processes were at
\* work on it at a time; failures, exceptions and retries alone never double it.
CommentedOnce == \A post \in Posts : live[post] = 2 => doubt[post]
=============================================================================
