----------------------------- MODULE PublishSlots -----------------------------
(***************************************************************************)
(* When a video is to be published: ContentQueue.add_to_queue gives a row   *)
(* of content_queue its first time (modules/queue/content_queue.py), and    *)
(* SmartScheduler.calculate_publish_time a later one when the attempt       *)
(* failed (modules/publish_engine/scheduler.py, publisher.py).  The rows    *)
(* are those of one brand and platform; reading the table and writing to it *)
(* are two statements.  Time has no unit here: what counts is the order of  *)
(* the windows, the interval and the delays.                                *)
(***************************************************************************)
EXTENDS Integers, FiniteSetsExt

CONSTANTS
    Procs,         \* approvals and publish runs
    HALF, HOUR,    \* the delays of a slot that has passed and of a first slot
    INTERVAL,      \* 24 hours divided by posts_per_day
    DAY,
    Windows,       \* the posting windows, with their offset, as times of a day
    BestDays,      \* best_days, as days from the beginning
    LOOKAHEAD,     \* days calculate_publish_time looks at: 8
    DAILY_LIMIT,
    MaxTime, MaxRows   \* bounds on the clock and the rows (TLC only)

VARIABLES
    now,
    rows,     \* rows of content_queue
    lastId,
    pc,       \* where each process is
    chosen,   \* the time it has worked out
    target,   \* the row it defers, or 0
    seen      \* history: the changes of the table since it was read

vars == <<now, rows, lastId, pc, chosen, target, seen>>

Init ==
    /\ now = 0
    /\ rows = {}
    /\ lastId = 0
    /\ pc = [p \in Procs |-> "idle"]
    /\ chosen = [p \in Procs |-> 0]
    /\ target = [p \in Procs |-> 0]
    /\ seen = [p \in Procs |-> 0]

Waiting == {row \in rows : row.status = "waiting"}

\* Faulty variant: a slot that has passed is not looked after.
NextSlotOfToday ==
    IF \E row \in Waiting : row.time > now
       THEN Max({row.time : row \in Waiting}) + INTERVAL
       ELSE now + HOUR

\* _calculate_next_slot.
NextSlot ==
    IF Waiting = {}
       THEN now + HOUR
       ELSE LET next == Max({row.time : row \in Waiting}) + INTERVAL
            IN  IF next <= now THEN now + HALF ELSE next

Day(t) == t \div DAY

\* Faulty variant: one more than the limit.
HasRoomLate(d) ==
    Cardinality({row \in rows : Day(row.time) = d /\ row.status \in {"waiting", "published"}})
        <= DAILY_LIMIT

\* _count_scheduled: what waits that day or was published.
HasRoom(d) ==
    Cardinality({row \in rows : Day(row.time) = d /\ row.status \in {"waiting", "published"}})
        < DAILY_LIMIT

\* calculate_publish_time: the first window to come on one of the best days that
\* has room.
Fitting(ready) ==
    LET days == {d \in (Day(ready)..Day(ready) + LOOKAHEAD - 1) \cap BestDays : HasRoom(d)}
    IN  {t \in {d * DAY + w : d \in days, w \in Windows} : t > ready}

Goto(p, label) == pc' = [pc EXCEPT ![p] = label]

Choose(p, t) == chosen' = [chosen EXCEPT ![p] = t]

Fresh(p) == seen' = [seen EXCEPT ![p] = 0]

\* The table changes under everybody who has read it.
Changed(p) == seen' = [q \in Procs |-> IF q # p /\ pc[q] # "idle" THEN 1 ELSE seen[q]]

\* add_to_queue, for this platform: the latest time is read.
ReadLatest(p) ==
    /\ pc[p] = "idle"
    /\ Choose(p, NextSlot)
    /\ Goto(p, "insert")
    /\ Fresh(p)
    /\ UNCHANGED <<now, rows, lastId, target>>

\* The INSERT; the video is one that has no row.
InsertRow(p) ==
    /\ pc[p] = "insert"
    /\ lastId < MaxRows
    /\ lastId' = lastId + 1
    /\ rows' = rows \cup {[id |-> lastId + 1, time |-> chosen[p], status |-> "waiting",
                           alone |-> seen[p] = 0, moved |-> "no"]}
    /\ Goto(p, "idle")
    /\ Choose(p, 0)
    /\ Changed(p)
    /\ UNCHANGED <<now, target>>

\* An attempt at a row failed: its next time is worked out; a post of another brand
\* close by puts it off by the spacing, within the same day, which is no matter here.
Defer(p) ==
    /\ pc[p] = "idle"
    /\ \E row \in Waiting : row.time <= now /\ target' = [target EXCEPT ![p] = row.id]
    /\ IF Fitting(now) = {}
          THEN Choose(p, now + HOUR) /\ Goto(p, "hour")
          ELSE Choose(p, Min(Fitting(now))) /\ Goto(p, "window")
    /\ Fresh(p)
    /\ UNCHANGED <<now, rows, lastId>>

\* The UPDATE, by the row's id and whatever its status.
WriteDeferred(p) ==
    /\ pc[p] \in {"hour", "window"}
    /\ rows' = {IF row.id = target[p] THEN [row EXCEPT !.time = chosen[p], !.moved = pc[p]]
                                      ELSE row : row \in rows}
    /\ Goto(p, "idle")
    /\ Choose(p, 0)
    /\ target' = [target EXCEPT ![p] = 0]
    /\ Changed(p)
    /\ UNCHANGED <<now, lastId>>

\* A refused statement, or a process that dies.
Fail(p) ==
    /\ pc[p] # "idle"
    /\ Goto(p, "idle")
    /\ Choose(p, 0)
    /\ target' = [target EXCEPT ![p] = 0]
    /\ Fresh(p)
    /\ UNCHANGED <<now, rows, lastId>>

\* mark_published, mark_failed.
MarkRow ==
    /\ \E row \in Waiting, s \in {"published", "failed"} :
          /\ row.time <= now
          /\ rows' = (rows \ {row}) \cup {[row EXCEPT !.status = s]}
    /\ seen' = [q \in Procs |-> IF pc[q] # "idle" THEN 1 ELSE seen[q]]
    /\ UNCHANGED <<now, lastId, pc, chosen, target>>

Tick ==
    /\ now < MaxTime
    /\ now' = now + 1
    /\ UNCHANGED <<rows, lastId, pc, chosen, target, seen>>

Next ==
    \/ \E p \in Procs : ReadLatest(p) \/ InsertRow(p) \/ Defer(p) \/ WriteDeferred(p) \/ Fail(p)
    \/ MarkRow \/ Tick

Spec == Init /\ [][Next]_vars

-----------------------------------------------------------------------------
\* The variables keep their types.
TypeOK ==
    /\ now \in 0..MaxTime
    /\ rows \subseteq [id : 1..MaxRows, time : Nat, status : {"waiting", "published", "failed"},
                       alone : BOOLEAN, moved : {"no", "hour", "window"}]
    /\ lastId \in 0..MaxRows
    /\ pc \in [Procs -> {"idle", "insert", "hour", "window"}]
    /\ chosen \in [Procs -> Nat]
    /\ target \in [Procs -> 0..MaxRows]
    /\ seen \in [Procs -> 0..1]

\* A video that was queued while nothing else happened to the table waits at least
\* the brand's interval after every one that was queued before it and still waits.
SpacedUnlessRaced ==
    \A a, b \in Waiting :
        a.id < b.id /\ a.moved = "no" /\ b.moved = "no" /\ b.alone
            => b.time >= a.time + INTERVAL

\* The rows that failures put into the windows of a day are no more than the daily
\* limit and one for every other process that counted before they were there.
DeferralsBounded ==
    \A d \in {Day(row.time) : row \in rows} :
        Cardinality({row \in rows : /\ Day(row.time) = d /\ row.moved = "window"
                                    /\ row.status \in {"waiting", "published"}})
            <= DAILY_LIMIT + Cardinality(Procs) - 1
=============================================================================
