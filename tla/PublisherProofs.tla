---------------------------- MODULE PublisherProofs ----------------------------
(***************************************************************************)
(* Theorems about Publisher, for every set of rows, platforms and           *)
(* overlapping runs.  RunInv says what a run may rely on between two        *)
(* statements although others go on meanwhile: the row in its hands, that   *)
(* a confirmed post is there before its success is logged, and that the     *)
(* success is logged before the tables are marked.  It survives because     *)
(* posts and publish_log only ever grow.                                    *)
(*                                                                          *)
(* The bounds on retries and on repeated posts count runs: TriesInv charges *)
(* every failure beyond the limit, and every post beyond the failures, to a *)
(* run that still has the row in hand or to a fault.                        *)
(***************************************************************************)
EXTENDS Publisher, FiniteSetTheorems, TLAPS

RunInv(r) ==
    /\ pc[r] \notin {"idle", "next"} => current[r] \in Rows
    /\ pc[r] = "call" => PlatformOf[current[r]] \in Publishers
    /\ pc[r] = "log_success" /\ PlatformOf[current[r]] \in Confirming => posts[current[r]] > 0
    /\ pc[r] \in {"mark", "insert"} => current[r] \in succeeded

Confirmed == \A q \in succeeded : PlatformOf[q] \in Confirming => posts[q] > 0

Marked == \A q \in Rows : status[q] = "published" \/ q \in recorded => q \in succeeded

PublisherInv ==
    /\ TypeOK
    /\ \A r \in Runs : RunInv(r)
    /\ Confirmed
    /\ Marked

\* The types of what a run keeps to itself.
ControlOK ==
    /\ pc \in [Runs -> Labels]
    /\ todo \in [Runs -> SUBSET Rows]
    /\ current \in [Runs -> Rows \cup {None}]
    /\ caught \subseteq Runs

\* What other steps do to the facts a run relies on.
Grows == /\ succeeded \subseteq succeeded'
         /\ \A q \in Rows : posts[q] > 0 => posts'[q] > 0

-----------------------------------------------------------------------------
\* The initial states satisfy the invariant.
LEMMA InitPublisher == Init => PublisherInv
  BY RetriesAssumption
  DEF Init, PublisherInv, TypeOK, RunInv, Confirmed, Marked, Statuses, Labels

\* A run that turns to its next row, or ends, keeps what all runs rely on.
LEMMA LeaveKeeps ==
  ASSUME PublisherInv, Grows, NEW r \in Runs, Continue(r) \/ Stop(r)
  PROVE  ControlOK' /\ \A x \in Runs : RunInv(x)'
  <1>1. ControlOK'
    BY DEF PublisherInv, TypeOK, ControlOK, Continue, Stop, Goto, Labels
  <1>2. ASSUME NEW x \in Runs PROVE RunInv(x)'
    <2>1. CASE x = r
      BY <2>1 DEF PublisherInv, TypeOK, RunInv, Continue, Stop, Goto
    <2>2. CASE x # r
      <3>1. pc'[x] = pc[x] /\ current'[x] = current[x] /\ current[x] \in Rows \cup {None}
        BY <2>2 DEF PublisherInv, TypeOK, Continue, Stop, Goto
      <3>2. posts \in [Rows -> Nat] /\ RunInv(x)
        BY DEF PublisherInv, TypeOK
      <3>3. CASE pc[x] \in {"idle", "next"}
        BY <3>1, <3>3 DEF RunInv
      <3>4. CASE pc[x] \notin {"idle", "next"}
        <4>1. current[x] \in Rows
          BY <3>2, <3>4 DEF RunInv
        <4>2. /\ posts[current[x]] > 0 => posts'[current[x]] > 0
              /\ current[x] \in succeeded => current[x] \in succeeded'
          BY <4>1 DEF Grows
        <4> QED  BY <4>1, <4>2, <3>1, <3>2 DEF RunInv
      <3> QED  BY <3>3, <3>4
    <2> QED  BY <2>1, <2>2
  <1> QED  BY <1>1, <1>2

\* So does a run that goes on with its row at a label nothing depends on.
LEMMA MoveKeeps ==
  ASSUME PublisherInv, Grows, NEW r \in Runs,
         pc[r] \notin {"idle", "next"},
         NEW l \in {"log_failure", "count", "reschedule", "give_up"},
         Goto(r, l), UNCHANGED <<todo, current>>, caught' \subseteq Runs
  PROVE  ControlOK' /\ \A x \in Runs : RunInv(x)'
  <1>1. ControlOK'
    BY DEF PublisherInv, TypeOK, ControlOK, Goto, Labels
  <1>2. ASSUME NEW x \in Runs PROVE RunInv(x)'
    <2>1. CASE x = r
      BY <2>1 DEF PublisherInv, TypeOK, RunInv, Goto
    <2>2. CASE x # r
      <3>1. pc'[x] = pc[x] /\ current'[x] = current[x] /\ current[x] \in Rows \cup {None}
        BY <2>2 DEF PublisherInv, TypeOK, Goto
      <3>2. posts \in [Rows -> Nat] /\ RunInv(x)
        BY DEF PublisherInv, TypeOK
      <3>3. CASE pc[x] \in {"idle", "next"}
        BY <3>1, <3>3 DEF RunInv
      <3>4. CASE pc[x] \notin {"idle", "next"}
        <4>1. current[x] \in Rows
          BY <3>2, <3>4 DEF RunInv
        <4>2. /\ posts[current[x]] > 0 => posts'[current[x]] > 0
              /\ current[x] \in succeeded => current[x] \in succeeded'
          BY <4>1 DEF Grows
        <4> QED  BY <4>1, <4>2, <3>1, <3>2 DEF RunInv
      <3> QED  BY <3>3, <3>4
    <2> QED  BY <2>1, <2>2
  <1> QED  BY <1>1, <1>2

\* An exception goes to _handle_failure or ends the run.
LEMMA RaiseKeeps ==
  ASSUME PublisherInv, Grows, NEW r \in Runs, pc[r] \notin {"idle", "next"}, Raise(r)
  PROVE  ControlOK' /\ faults' \in 0..MaxFaults /\ \A x \in Runs : RunInv(x)'
  <1>1. faults' \in 0..MaxFaults
    BY RetriesAssumption DEF PublisherInv, TypeOK, Raise
  <1>2. CASE r \in caught
    BY <1>1, <1>2, LeaveKeeps DEF Raise
  <1>3. CASE r \notin caught
    <2>1. Goto(r, "count") /\ UNCHANGED <<todo, current>> /\ caught' \subseteq Runs
      BY <1>3 DEF Raise, PublisherInv, TypeOK
    <2> QED  BY <1>1, <2>1, MoveKeeps
  <1> QED  BY <1>2, <1>3

\* A step that moves the control of a run and nothing the invariant says of the
\* tables.
LEMMA TablesKept ==
  ASSUME PublisherInv, UNCHANGED <<status, log, recorded, data, posts>>,
         due' \subseteq Rows, faults' \in 0..MaxFaults,
         ControlOK', \A x \in Runs : RunInv(x)'
  PROVE  PublisherInv'
  <1>1. TypeOK'
    BY DEF PublisherInv, TypeOK, ControlOK, log, data
  <1>2. Confirmed' /\ Marked'
    BY DEF PublisherInv, Confirmed, Marked, log
  <1> QED  BY <1>1, <1>2 DEF PublisherInv

\* A row that is not marked published cannot make the marks wrong.
LEMMA OtherStatusKept ==
  ASSUME PublisherInv, UNCHANGED <<due, log, recorded, data, posts>>,
         status' \in [Rows -> Statuses],
         \A q \in Rows : status'[q] = "published" => status[q] = "published",
         faults' \in 0..MaxFaults, ControlOK', \A x \in Runs : RunInv(x)'
  PROVE  PublisherInv'
  <1>1. TypeOK'
    BY DEF PublisherInv, TypeOK, ControlOK, log, data
  <1>2. Confirmed' /\ Marked'
    BY DEF PublisherInv, Confirmed, Marked, log
  <1> QED  BY <1>1, <1>2 DEF PublisherInv

\* Nothing a run relies on is lost when the logs and the posts stay.
LEMMA SameGrows ==
  ASSUME PublisherInv, UNCHANGED <<succeeded, posts>>
  PROVE  Grows
  BY DEF PublisherInv, TypeOK, Grows

\* The list of due rows, the choice of one and the end of the list.
LEMMA ListKeeps ==
  ASSUME PublisherInv, NEW r \in Runs, GetDue(r) \/ Finish(r) \/ Take(r) \/ Drop(r)
  PROVE  PublisherInv'
  <1>a. TypeOK /\ (\A x \in Runs : RunInv(x))
    BY DEF PublisherInv
  <1>1. CASE GetDue(r)
    <2>1. ControlOK' /\ \A x \in Runs : RunInv(x)'
      BY <1>1, <1>a DEF TypeOK, ControlOK, RunInv, GetDue, Goto, Labels, log
    <2> QED  BY <1>1, <2>1, TablesKept DEF GetDue, queue, PublisherInv, TypeOK
  <1>2. CASE Finish(r)
    <2>1. Grows
      BY <1>2, SameGrows DEF Finish, log
    <2>2. ControlOK' /\ \A x \in Runs : RunInv(x)'
      BY <1>2, <2>1, LeaveKeeps DEF Finish
    <2> QED  BY <1>2, <2>2, TablesKept DEF Finish, queue, PublisherInv, TypeOK
  <1>3. CASE Take(r)
    <2>1. PICK q \in todo[r] :
              /\ todo' = [todo EXCEPT ![r] = @ \ {q}]
              /\ \/ current' = [current EXCEPT ![r] = q] /\ Goto(r, "drop")
                 \/ /\ PlatformOf[q] \in Publishers
                    /\ current' = [current EXCEPT ![r] = q] /\ Goto(r, "call")
                 \/ UNCHANGED <<current, pc>>
      BY <1>3 DEF Take
    <2>2. q \in Rows
      BY <1>a DEF TypeOK
    <2>3. UNCHANGED <<caught, succeeded, posts>>
      BY <1>3 DEF Take, log
    <2>4. ControlOK'
      BY <2>1, <2>2, <2>3, <1>a DEF TypeOK, ControlOK, Goto, Labels
    <2>5. \A x \in Runs : RunInv(x)'
      BY <2>1, <2>2, <2>3, <1>a DEF TypeOK, RunInv, Goto
    <2> QED  BY <1>3, <2>4, <2>5, TablesKept DEF Take, queue, PublisherInv, TypeOK
  <1>4. CASE Drop(r)
    <2>1. Grows
      BY <1>4, SameGrows DEF Drop, log
    <2>2. ControlOK' /\ \A x \in Runs : RunInv(x)'
      BY <1>4, <2>1, LeaveKeeps DEF Drop
    <2>3. /\ status' \in [Rows -> Statuses]
          /\ \A q \in Rows : status'[q] = "published" => status[q] = "published"
      BY <1>4, <1>a DEF TypeOK, Drop, Statuses
    <2> QED  BY <1>4, <2>2, <2>3, OtherStatusKept DEF Drop, PublisherInv, TypeOK
  <1> QED  BY <1>1, <1>2, <1>3, <1>4

\* The call of the platform and its log entry.
LEMMA CallKeeps ==
  ASSUME PublisherInv, NEW r \in Runs, Refuse(r) \/ Call(r) \/ LogSuccess(r) \/ LogFailure(r)
  PROVE  PublisherInv'
  <1>a. TypeOK /\ (\A x \in Runs : RunInv(x)) /\ Confirmed /\ Marked
    BY DEF PublisherInv
  <1>1. CASE Refuse(r)
    <2>1. Grows
      BY <1>1, SameGrows DEF Refuse, log
    <2>2. ControlOK' /\ \A x \in Runs : RunInv(x)'
      BY <1>1, <2>1, <1>a, MoveKeeps DEF Refuse, TypeOK
    <2> QED  BY <1>1, <2>2, TablesKept DEF Refuse, queue, PublisherInv, TypeOK
  <1>2. CASE Call(r)
    <2>1. current[r] \in Rows /\ PlatformOf[current[r]] \in Publishers /\ pc[r] = "call"
      BY <1>2, <1>a DEF Call, RunInv
    <2>2. PICK o \in Outcomes[PlatformOf[current[r]]] :
              /\ posts' = IF o.posted THEN [posts EXCEPT ![current[r]] = @ + 1] ELSE posts
              /\ Goto(r, IF o.ok THEN "log_success" ELSE "log_failure")
      BY <1>2 DEF Call
    <2>3. PlatformOf[current[r]] \in Confirming /\ o.ok => o.posted
      BY <2>1, <2>2 DEF Outcomes, Confirming, Publishers, TikTok, YouTube
    <2>4. UNCHANGED <<succeeded, todo, current, caught>>
      BY <1>2 DEF Call, log
    <2>5. /\ posts' \in [Rows -> Nat] /\ Grows
          /\ o.posted => posts'[current[r]] > 0
      BY <2>1, <2>2, <2>4, <1>a DEF TypeOK, Grows
    <2>6. ControlOK'
      BY <2>2, <2>4, <1>a DEF TypeOK, ControlOK, Goto, Labels
    <2>7. ASSUME NEW x \in Runs PROVE RunInv(x)'
      <3>1. CASE x = r
        BY <3>1, <2>1, <2>2, <2>3, <2>4, <2>5, <1>a DEF TypeOK, RunInv, Goto
      <3>2. CASE x # r
        <4>1. pc'[x] = pc[x] /\ current'[x] = current[x]
          BY <3>2, <2>2, <2>4, <1>a DEF TypeOK, Goto
        <4> QED  BY <4>1, <2>4, <2>5, <1>a DEF TypeOK, RunInv, Grows
      <3> QED  BY <3>1, <3>2
    <2>8. TypeOK'
      BY <1>2, <2>5, <2>6, <1>a DEF TypeOK, ControlOK, Call, queue, log, data
    <2>9. Confirmed' /\ Marked'
      BY <1>2, <2>5, <1>a DEF TypeOK, Confirmed, Marked, Grows, Call, queue, log
    <2> QED  BY <2>7, <2>8, <2>9 DEF PublisherInv
  <1>3. CASE LogSuccess(r)
    <2>1. current[r] \in Rows /\ pc[r] = "log_success"
      BY <1>3, <1>a DEF LogSuccess, RunInv
    <2>2. CASE succeeded' = succeeded \cup {current[r]} /\ Goto(r, "mark")
               /\ UNCHANGED <<failures, faults>>
      <3>1. UNCHANGED <<queue, recorded, data, posts, todo, current, caught>>
        BY <1>3 DEF LogSuccess
      <3>2. TypeOK'
        BY <2>1, <2>2, <3>1, <1>a DEF TypeOK, Goto, Labels, queue, data
      <3>3. \A x \in Runs : RunInv(x)'
        BY <2>1, <2>2, <3>1, <1>a DEF TypeOK, RunInv, Goto
      <3>4. Confirmed' /\ Marked'
        BY <2>1, <2>2, <3>1, <1>a DEF Confirmed, Marked, RunInv, queue
      <3> QED  BY <3>2, <3>3, <3>4 DEF PublisherInv
    <2>3. CASE faults < MaxFaults /\ faults' = faults + 1 /\ Goto(r, "log_failure")
               /\ UNCHANGED log
      <3>1. UNCHANGED <<queue, recorded, data, posts, todo, current, caught>>
        BY <1>3 DEF LogSuccess
      <3>2. Grows
        BY <2>3, <3>1, SameGrows DEF log
      <3>3. ControlOK' /\ \A x \in Runs : RunInv(x)'
        BY <2>1, <2>3, <3>1, <3>2, <1>a, MoveKeeps DEF TypeOK
      <3>4. faults' \in 0..MaxFaults
        BY <2>3, <1>a, RetriesAssumption DEF TypeOK
      <3> QED  BY <2>3, <3>1, <3>3, <3>4, <1>a, TablesKept DEF queue, TypeOK
    <2> QED  BY <1>3, <2>2, <2>3 DEF LogSuccess
  <1>4. CASE LogFailure(r)
    <2>1. current[r] \in Rows /\ pc[r] = "log_failure"
      BY <1>4, <1>a DEF LogFailure, RunInv
    <2>2. UNCHANGED <<queue, succeeded, recorded, data, posts>> /\ Grows
      BY <1>4, SameGrows DEF LogFailure
    <2>3. /\ failures' \in [Rows -> Nat] /\ faults' \in 0..MaxFaults
          /\ ControlOK' /\ \A x \in Runs : RunInv(x)'
      <3>1. CASE failures' = [failures EXCEPT ![current[r]] = @ + 1] /\ Goto(r, "count")
                 /\ UNCHANGED <<todo, current, caught, faults>>
        <4>1. ControlOK' /\ \A x \in Runs : RunInv(x)'
          BY <3>1, <2>1, <2>2, <1>a, MoveKeeps DEF TypeOK
        <4> QED  BY <3>1, <4>1, <2>1, <1>a DEF TypeOK
      <3>2. CASE Raise(r) /\ UNCHANGED failures
        BY <3>2, <2>1, <2>2, <1>a, RaiseKeeps DEF TypeOK
      <3> QED  BY <1>4, <3>1, <3>2 DEF LogFailure
    <2>4. TypeOK'
      BY <2>2, <2>3, <1>a DEF TypeOK, ControlOK, queue, data
    <2>5. Confirmed' /\ Marked'
      BY <2>2, <1>a DEF Confirmed, Marked, queue
    <2> QED  BY <2>3, <2>4, <2>5 DEF PublisherInv
  <1> QED  BY <1>1, <1>2, <1>3, <1>4

\* The two marks of a success.
LEMMA MarkKeeps ==
  ASSUME PublisherInv, NEW r \in Runs, Mark(r) \/ Insert(r)
  PROVE  PublisherInv'
  <1>a. TypeOK /\ (\A x \in Runs : RunInv(x)) /\ Confirmed /\ Marked
    BY DEF PublisherInv
  <1>b. current[r] \in Rows /\ current[r] \in succeeded /\ pc[r] \notin {"idle", "next"}
    BY <1>a DEF RunInv, Mark, Insert
  <1>c. UNCHANGED <<log, data, posts, due>> /\ Grows
    BY SameGrows DEF Mark, Insert, queue, log
  <1>1. CASE Mark(r)
    <2>1. CASE status' = [status EXCEPT ![current[r]] = "published"] /\ Goto(r, "insert")
               /\ UNCHANGED <<todo, current, caught, faults>>
      <3>1. TypeOK' /\ recorded' = recorded
        BY <1>1, <2>1, <1>a, <1>b, <1>c DEF TypeOK, Mark, Goto, Labels, Statuses, log, data
      <3>2. \A x \in Runs : RunInv(x)'
        BY <2>1, <1>a, <1>b, <1>c DEF TypeOK, RunInv, Goto, log
      <3>3. Confirmed' /\ Marked'
        BY <2>1, <3>1, <1>a, <1>b, <1>c DEF TypeOK, Confirmed, Marked, log
      <3> QED  BY <3>1, <3>2, <3>3 DEF PublisherInv
    <2>2. CASE Raise(r) /\ UNCHANGED status
      <3>1. ControlOK' /\ faults' \in 0..MaxFaults /\ \A x \in Runs : RunInv(x)'
        BY <2>2, <1>b, <1>c, RaiseKeeps
      <3> QED  BY <1>1, <2>2, <3>1, <1>a, <1>c, TablesKept DEF Mark, TypeOK
    <2> QED  BY <1>1, <2>1, <2>2 DEF Mark
  <1>2. CASE Insert(r)
    <2>1. CASE recorded' = recorded \cup {current[r]} /\ Continue(r) /\ UNCHANGED faults
      <3>1. ControlOK' /\ \A x \in Runs : RunInv(x)'
        BY <2>1, <1>c, LeaveKeeps
      <3>2. TypeOK' /\ status' = status
        BY <1>2, <2>1, <3>1, <1>a, <1>b, <1>c DEF TypeOK, ControlOK, Insert, queue, log, data
      <3>3. Confirmed' /\ Marked'
        BY <2>1, <3>2, <1>a, <1>b, <1>c DEF Confirmed, Marked, log
      <3> QED  BY <3>1, <3>2, <3>3 DEF PublisherInv
    <2>2. CASE Raise(r) /\ UNCHANGED recorded
      <3>1. ControlOK' /\ faults' \in 0..MaxFaults /\ \A x \in Runs : RunInv(x)'
        BY <2>2, <1>b, <1>c, RaiseKeeps
      <3> QED  BY <1>2, <2>2, <3>1, <1>a, <1>c, TablesKept DEF Insert, queue, TypeOK
    <2> QED  BY <1>2, <2>1, <2>2 DEF Insert
  <1> QED  BY <1>1, <1>2

\* _handle_failure.
LEMMA FailureKeeps ==
  ASSUME PublisherInv, NEW r \in Runs, Count(r) \/ Reschedule(r) \/ GiveUp(r)
  PROVE  PublisherInv'
  <1>a. TypeOK
    BY DEF PublisherInv
  <1>b. pc[r] \notin {"idle", "next"}
    BY DEF Count, Reschedule, GiveUp
  <1>c. UNCHANGED <<log, recorded, data, posts>> /\ Grows
    BY SameGrows DEF Count, Reschedule, GiveUp, log
  <1>r. Raise(r) => ControlOK' /\ faults' \in 0..MaxFaults /\ \A x \in Runs : RunInv(x)'
    BY <1>b, <1>c, RaiseKeeps
  <1>l. Continue(r) => ControlOK' /\ \A x \in Runs : RunInv(x)'
    BY <1>c, LeaveKeeps
  <1>1. CASE Count(r)
    <2>1. CASE Goto(r, IF Exhausted(current[r]) THEN "give_up" ELSE "reschedule")
               /\ UNCHANGED <<todo, current, caught, faults>>
      <3>1. PICK l \in {"give_up", "reschedule"} : Goto(r, l)
        BY <2>1
      <3>2. ControlOK' /\ \A x \in Runs : RunInv(x)'
        BY <2>1, <3>1, <1>a, <1>b, <1>c, MoveKeeps DEF TypeOK
      <3> QED  BY <1>1, <2>1, <3>2, <1>a, <1>c, TablesKept DEF Count, queue, TypeOK
    <2>2. CASE Raise(r)
      BY <1>1, <2>2, <1>r, <1>a, <1>c, TablesKept DEF Count, queue, TypeOK
    <2> QED  BY <1>1, <2>1, <2>2 DEF Count
  <1>2. CASE Reschedule(r)
    <2>1. status' = status /\ due' \subseteq Rows
      BY <1>2, <1>a DEF Reschedule, TypeOK
    <2>2. ControlOK' /\ faults' \in 0..MaxFaults /\ \A x \in Runs : RunInv(x)'
      BY <1>2, <1>r, <1>l, <1>a DEF Reschedule, TypeOK
    <2> QED  BY <2>1, <2>2, <1>c, TablesKept
  <1>3. CASE GiveUp(r)
    <2>1. due' = due /\ status' \in [Rows -> Statuses]
          /\ \A q \in Rows : status'[q] = "published" => status[q] = "published"
      BY <1>3, <1>a DEF GiveUp, TypeOK, Statuses
    <2>2. ControlOK' /\ faults' \in 0..MaxFaults /\ \A x \in Runs : RunInv(x)'
      BY <1>3, <1>r, <1>l, <1>a DEF GiveUp, TypeOK
    <2> QED  BY <2>1, <2>2, <1>c, OtherStatusKept
  <1> QED  BY <1>1, <1>2, <1>3

\* The end of a run by force, the clock, the clean-up of files and cancel_scheduled.
LEMMA OutsideKeeps ==
  ASSUME PublisherInv,
         \/ \E r \in Runs : Die(r)
         \/ \E q \in Rows : TimeComes(q) \/ LoseFile(q)
         \/ Cancel
  PROVE  PublisherInv'
  <1>a. TypeOK /\ (\A x \in Runs : RunInv(x)) /\ Confirmed /\ Marked
    BY DEF PublisherInv
  <1>c. UNCHANGED <<log, recorded, videos, posts>> /\ Grows
    BY SameGrows DEF Die, TimeComes, LoseFile, Cancel, log, data
  <1>d. UNCHANGED control => ControlOK' /\ \A x \in Runs : RunInv(x)'
    BY <1>a, <1>c DEF TypeOK, ControlOK, RunInv, control, log
  <1>1. ASSUME NEW r \in Runs, Die(r) PROVE PublisherInv'
    <2>1. ControlOK' /\ \A x \in Runs : RunInv(x)'
      BY <1>1, <1>c, LeaveKeeps DEF Die
    <2>2. faults' \in 0..MaxFaults
      BY <1>1, <1>a, RetriesAssumption DEF Die, TypeOK
    <2> QED  BY <1>1, <2>1, <2>2, <1>a, TablesKept DEF Die, queue, TypeOK
  <1>2. ASSUME NEW q \in Rows, TimeComes(q) PROVE PublisherInv'
    <2>1. due' \subseteq Rows /\ status' = status /\ data' = data /\ faults' = faults
      BY <1>2, <1>a DEF TimeComes, TypeOK
    <2> QED  BY <1>2, <2>1, <1>a, <1>c, <1>d, TablesKept DEF TimeComes, TypeOK
  <1>3. ASSUME NEW q \in Rows, LoseFile(q) PROVE PublisherInv'
    <2>1. TypeOK'
      BY <1>3, <1>a, <1>c DEF TypeOK, LoseFile, queue, log, control
    <2>2. Confirmed' /\ Marked'
      BY <1>3, <1>a, <1>c DEF Confirmed, Marked, LoseFile, queue, log
    <2> QED  BY <1>3, <2>1, <2>2, <1>d DEF LoseFile, PublisherInv
  <1>4. CASE Cancel
    <2>1. /\ status' \in [Rows -> Statuses]
          /\ \A q \in Rows : status'[q] = "published" => status[q] = "published"
      BY <1>4, <1>a DEF Cancel, TypeOK, Statuses
    <2> QED  BY <1>4, <2>1, <1>a, <1>d, OtherStatusKept DEF Cancel, TypeOK
  <1> QED  BY <1>1, <1>2, <1>3, <1>4

-----------------------------------------------------------------------------
\* Every step keeps it.
LEMMA NextPublisher == PublisherInv /\ [Next]_vars => PublisherInv'
  <1> SUFFICES ASSUME PublisherInv, [Next]_vars PROVE PublisherInv'
    OBVIOUS
  <1>1. CASE UNCHANGED vars
    BY <1>1
    DEF PublisherInv, TypeOK, RunInv, Confirmed, Marked, vars, queue, log, data, control
  <1>2. ASSUME NEW r \in Runs, Step(r) PROVE PublisherInv'
    BY <1>2, ListKeeps, CallKeeps, MarkKeeps, FailureKeeps DEF Step
  <1> QED  BY <1>1, <1>2, OutsideKeeps DEF Next

\* Every behaviour of the publish runs, whichever overlap and die, satisfies the
\* invariant.
THEOREM PublisherInvariant == Spec => []PublisherInv
  BY InitPublisher, NextPublisher, PTL DEF Spec

\* The tables of the queue, of publish_log and of published_videos and the locals
\* of every run keep their types.
THEOREM PublisherTypeCorrect == Spec => []TypeOK
  <1>1. PublisherInv => TypeOK
    BY DEF PublisherInv
  <1> QED  BY PublisherInvariant, <1>1, PTL

\* What the tables call published was logged as a success first, and on TikTok and
\* YouTube it is really there.
THEOREM PublishedIsAlwaysTrue == Spec => []PublishedIsTrue
  <1>1. PublisherInv => PublishedIsTrue
    BY DEF PublisherInv, Confirmed, Marked, PublishedIsTrue
  <1> QED  BY PublisherInvariant, <1>1, PTL
-----------------------------------------------------------------------------
\* Nobody takes a row in hand that is not in a list of due rows.
Untaken(q) ==
    /\ \A r \in Runs : q \notin todo'[r] /\ current'[r] # q
    /\ status'[q] = "cancelled"
    /\ posts'[q] = posts[q]

LEMMA StepsPassBy ==
  ASSUME TypeOK, NEW q \in Rows, OutOfReach(q), NEW r \in Runs, Step(r) \/ Die(r)
  PROVE  Untaken(q)
  <1>a. /\ \A s \in Runs : q \notin todo[s] /\ current[s] # q
        /\ status[q] = "cancelled"
    BY DEF OutOfReach
  <1>b. /\ todo \in [Runs -> SUBSET Rows] /\ current \in [Runs -> Rows \cup {None}]
        /\ status \in [Rows -> Statuses] /\ posts \in [Rows -> Nat]
    BY DEF TypeOK
  <1>c. q # None
    BY NoneAssumption
  <1> USE <1>a, <1>b, <1>c DEF Untaken
  <1>1. CASE GetDue(r)
    BY <1>1 DEF GetDue, queue
  <1>2. CASE Take(r)
    <2>1. PICK x \in todo[r] : /\ todo' = [todo EXCEPT ![r] = @ \ {x}]
                               /\ current' = current \/ current' = [current EXCEPT ![r] = x]
      BY <1>2 DEF Take
    <2>2. x # q
      OBVIOUS
    <2> QED  BY <1>2, <2>1, <2>2 DEF Take, queue
  <1>3. CASE Finish(r) \/ Die(r)
    BY <1>3 DEF Finish, Die, Stop, queue
  <1>4. CASE Drop(r)
    BY <1>4 DEF Drop, Continue
  <1>5. CASE Refuse(r) \/ Call(r) \/ LogSuccess(r)
    BY <1>5 DEF Refuse, Call, LogSuccess, queue
  <1>6. CASE LogFailure(r) \/ Count(r)
    BY <1>6 DEF LogFailure, Count, Raise, Stop, queue
  <1>7. CASE Mark(r) \/ Insert(r)
    BY <1>7 DEF Mark, Insert, Raise, Stop, Continue, queue
  <1>8. CASE Reschedule(r) \/ GiveUp(r)
    BY <1>8 DEF Reschedule, GiveUp, Raise, Stop, Continue
  <1> QED  BY <1>1, <1>2, <1>3, <1>4, <1>5, <1>6, <1>7, <1>8 DEF Step

LEMMA AllPassBy ==
  ASSUME TypeOK, [Next]_vars, NEW q \in Rows, OutOfReach(q)
  PROVE  Untaken(q)
  <1>1. CASE UNCHANGED vars
    BY <1>1 DEF Untaken, OutOfReach, vars, queue, control
  <1>2. CASE Cancel
    BY <1>2 DEF Cancel, Untaken, OutOfReach, TypeOK, control
  <1>3. CASE \E x \in Rows : TimeComes(x) \/ LoseFile(x)
    BY <1>3 DEF TimeComes, LoseFile, Untaken, OutOfReach, queue, control
  <1> QED  BY <1>1, <1>2, <1>3, StepsPassBy DEF Next

\* A cancelled row that no run has in hand stays cancelled and is not posted, for any
\* number of rows, platforms and overlapping runs.
THEOREM CancelledAlwaysStaysOut == Spec => CancelledStaysOut
  <1>1. PublisherInv /\ [Next]_vars
          => [\A q \in Rows : OutOfReach(q) => OutOfReach(q)' /\ posts'[q] = posts[q]]_vars
    BY AllPassBy DEF PublisherInv, Untaken, OutOfReach
  <1> QED  BY <1>1, PublisherInvariant, PTL DEF Spec, CancelledStaysOut

-----------------------------------------------------------------------------
(* How often a row is tried.  While it waits, every failure logged beyond   *)
(* the limit and every post beyond the failures belongs to a run that still *)
(* has the row in hand, or to a fault.  Once it no longer waits nobody takes *)
(* it up again, and only the runs that have it ahead of them can add one.   *)

\* Where run r is with row q.
Place(r, q) ==
    IF q \in todo[r] THEN "ahead" ELSE IF current[r] = q THEN pc[r] ELSE "away"

RunsIn(places, q) == {r \in Runs : Place(r, q) \in places}

\* The row in hand is no longer on the list.
Hands == \A r \in Runs : /\ current[r] \notin todo[r]
                         /\ pc[r] \in {"idle", "next"} => current[r] = None

Counted(q) ==
    IF status[q] = "waiting"
    THEN \/ failures[q] + 1 < MAX_RETRIES
         \/ failures[q] + 2 <= MAX_RETRIES + faults + Cardinality(RunsIn({"count", "give_up"}, q))
    ELSE failures[q] + 2 + Cardinality(RunsIn({"ahead", "call", "log_success", "log_failure"}, q))
             <= MAX_RETRIES + faults + Cardinality(Runs)

Paid(q) ==
    IF status[q] = "waiting"
    THEN posts[q] <= failures[q] + faults
                         + Cardinality(RunsIn({"log_success", "log_failure", "mark"}, q))
    ELSE posts[q] + Cardinality(RunsIn({"ahead", "call"}, q))
             <= failures[q] + faults + Cardinality(Runs)

\* What a step of run r does to row q, p being where the run was and n where it is then.
Quiet(q) == UNCHANGED <<status[q], failures[q], posts[q], faults>>

Travels(p, n, q) ==
    \/ p = n
    \/ p = "away" /\ n = "ahead" /\ status[q] = "waiting"
    \/ p = "ahead" /\ n \in {"call", "drop", "away"}
    \/ p = "call" /\ n = "count"
    \/ p = "log_success" /\ n = "mark"
    \/ p = "insert" /\ n = "away"
    \/ p = "count" /\ n = "give_up"
    \/ p = "count" /\ n = "reschedule" /\ failures[q] + 1 < MAX_RETRIES
    \/ p = "reschedule" /\ n = "away"

Posts(p, n, q) ==
    /\ p = "call" /\ n \in {"log_success", "log_failure"}
    /\ posts'[q] \in {posts[q], posts[q] + 1}
    /\ UNCHANGED <<status[q], failures[q], faults>>

Fails(p, n, q) ==
    /\ p = "log_failure" /\ n = "count"
    /\ failures'[q] = failures[q] + 1
    /\ UNCHANGED <<status[q], posts[q], faults>>

Closes(p, n, q) ==
    /\ p \in {"drop", "mark", "give_up"} /\ n \in {"insert", "away"}
    /\ status'[q] # "waiting"
    /\ UNCHANGED <<failures[q], posts[q], faults>>

Faulty(p, n, q) ==
    /\ n = p \/ n \in {"count", "away"} \/ (p = "log_success" /\ n = "log_failure")
    /\ faults' = faults + 1
    /\ UNCHANGED <<status[q], failures[q], posts[q]>>

Moves(p, n, q) ==
    \/ Quiet(q) /\ Travels(p, n, q)
    \/ Posts(p, n, q) \/ Fails(p, n, q) \/ Closes(p, n, q) \/ Faulty(p, n, q)

\* The same of the row a run has in hand, when the list stays.
LEMMA InHand ==
  ASSUME TypeOK, Hands, NEW r \in Runs, NEW q \in Rows, q # current[r],
         \/ UNCHANGED <<todo, current>>
         \/ Continue(r)
  PROVE  Place(r, q)' = Place(r, q)
  <1>1. q # None
    BY NoneAssumption
  <1> QED  BY <1>1 DEF TypeOK, Place, Continue

\* The runs do not touch each other's lists.
LEMMA OthersStay ==
  ASSUME TypeOK, NEW r \in Runs, Step(r) \/ Die(r), NEW x \in Runs \ {r}, NEW q \in Rows
  PROVE  Place(x, q)' = Place(x, q)
  <1>a. /\ pc \in [Runs -> Labels] /\ todo \in [Runs -> SUBSET Rows]
        /\ current \in [Runs -> Rows \cup {None}]
    BY DEF TypeOK
  <1>1. pc'[x] = pc[x] /\ todo'[x] = todo[x] /\ current'[x] = current[x]
    <2>1. CASE GetDue(r) \/ Finish(r) \/ Die(r)
      BY <2>1, <1>a DEF GetDue, Finish, Die, Stop, Goto
    <2>2. CASE Take(r) \/ Drop(r)
      BY <2>2, <1>a DEF Take, Drop, Continue, Goto
    <2>3. CASE Refuse(r) \/ Call(r) \/ LogSuccess(r)
      BY <2>3, <1>a DEF Refuse, Call, LogSuccess, Goto
    <2>4. CASE LogFailure(r) \/ Count(r)
      BY <2>4, <1>a DEF LogFailure, Count, Raise, Stop, Goto
    <2>5. CASE Mark(r) \/ Insert(r)
      BY <2>5, <1>a DEF Mark, Insert, Raise, Stop, Continue, Goto
    <2>6. CASE Reschedule(r) \/ GiveUp(r)
      BY <2>6, <1>a DEF Reschedule, GiveUp, Raise, Stop, Continue, Goto
    <2> QED  BY <2>1, <2>2, <2>3, <2>4, <2>5, <2>6 DEF Step
  <1> QED  BY <1>1 DEF Place

\* A run's own step.
LEMMA OwnMoves ==
  ASSUME PublisherInv, Hands, NEW r \in Runs, Step(r) \/ Die(r), NEW q \in Rows,
         NEW p, NEW n, p = Place(r, q), n = Place(r, q)'
  PROVE  Moves(p, n, q)
  <1>a. /\ pc \in [Runs -> Labels] /\ todo \in [Runs -> SUBSET Rows]
        /\ current \in [Runs -> Rows \cup {None}]
        /\ status \in [Rows -> Statuses] /\ failures \in [Rows -> Nat] /\ posts \in [Rows -> Nat]
        /\ q # None /\ TypeOK
    BY NoneAssumption DEF PublisherInv, TypeOK
  <1>b. /\ current[r] \notin todo[r]
        /\ pc[r] \in {"idle", "next"} => current[r] = None
        /\ pc[r] \notin {"idle", "next"} => current[r] \in Rows
    BY DEF Hands, PublisherInv, RunInv
  <1>s. Stop(r) => n = "away"
    BY <1>a DEF Stop, Place
  <1>h. pc[r] \notin {"idle", "next"} /\ q = current[r] => p = pc[r]
    BY <1>b DEF Place
  <1>g. \A l : Goto(r, l) /\ UNCHANGED <<todo, current>> /\ pc[r] \notin {"idle", "next"}
                  => n = IF q = current[r] THEN l ELSE p
    BY <1>a, <1>b, InHand DEF Goto, Place
  <1>c. Continue(r) /\ pc[r] \notin {"idle", "next"} => n = IF q = current[r] THEN "away" ELSE p
    BY <1>a, <1>b, InHand DEF Continue, Place
  <1>r. ASSUME Raise(r), UNCHANGED <<status, failures, posts>>, pc[r] \notin {"idle", "next"}
        PROVE  Faulty(p, n, q)
    BY <1>r, <1>s, <1>g DEF Raise, Faulty
  <1> USE DEF Moves
  <1>1. CASE GetDue(r)
    <2>1. Quiet(q) /\ pc[r] = "idle"
      BY <1>1 DEF GetDue, Quiet, queue, log
    <2>2. /\ todo' = [todo EXCEPT ![r] = {x \in due : status[x] = "waiting"}]
          /\ current' = current /\ current[r] = None
      BY <1>1, <1>b DEF GetDue
    <2>3. n = "away" \/ (n = "ahead" /\ status[q] = "waiting")
      BY <2>2, <1>a DEF Place
    <2>4. p \in {"away", "ahead"}
      BY <2>2, <1>a DEF Place
    <2> QED  BY <2>1, <2>3, <2>4 DEF Travels
  <1>2. CASE Finish(r)
    <2>1. Quiet(q) /\ n = "away" /\ p = "away"
      BY <1>2, <1>a, <1>b, <1>s DEF Finish, Quiet, queue, log, Place
    <2> QED  BY <2>1 DEF Travels
  <1>3. CASE Take(r)
    <2>1. Quiet(q) /\ current[r] = None
      BY <1>3, <1>b DEF Take, Quiet, queue, log
    <2>2. PICK x \in todo[r] :
            /\ todo' = [todo EXCEPT ![r] = @ \ {x}]
            /\ \/ current' = [current EXCEPT ![r] = x] /\ Goto(r, "drop")
               \/ current' = [current EXCEPT ![r] = x] /\ Goto(r, "call")
               \/ UNCHANGED <<current, pc>>
      BY <1>3 DEF Take
    <2>3. CASE q = x
      BY <2>1, <2>2, <2>3, <1>a DEF Place, Goto, Travels
    <2>4. CASE q # x
      BY <2>1, <2>2, <2>4, <1>a DEF Place, Travels
    <2> QED  BY <2>3, <2>4
  <1>4. CASE Drop(r)
    <2>1. /\ pc[r] = "drop" /\ Continue(r) /\ status' = [status EXCEPT ![current[r]] = "failed"]
          /\ UNCHANGED <<failures, posts, faults>>
      BY <1>4 DEF Drop, log
    <2> QED  BY <2>1, <1>a, <1>c, <1>h DEF Closes, Quiet, Travels
  <1>5. CASE Refuse(r)
    <2>1. pc[r] = "call" /\ Quiet(q) /\ n = IF q = current[r] THEN "count" ELSE p
      BY <1>5, <1>g DEF Refuse, Quiet, queue, log
    <2> QED  BY <2>1, <1>h DEF Travels
  <1>6. CASE Call(r)
    <2>1. PICK o \in Outcomes[PlatformOf[current[r]]], l \in {"log_success", "log_failure"} :
            /\ posts' = IF o.posted THEN [posts EXCEPT ![current[r]] = @ + 1] ELSE posts
            /\ Goto(r, l)
      BY <1>6 DEF Call
    <2>2. pc[r] = "call" /\ UNCHANGED <<todo, current, status, failures, faults>>
      BY <1>6 DEF Call, queue, log
    <2>3. n = IF q = current[r] THEN l ELSE p
      BY <2>1, <2>2, <1>g
    <2>4. posts'[q] \in {posts[q], posts[q] + 1} /\ (q # current[r] => posts'[q] = posts[q])
      BY <2>1, <1>a
    <2> QED  BY <2>2, <2>3, <2>4, <1>h DEF Posts, Quiet, Travels
  <1>7. CASE LogSuccess(r)
    <2>1. pc[r] = "log_success" /\ UNCHANGED <<todo, current, status, failures, posts>>
      BY <1>7 DEF LogSuccess, queue, log
    <2>2. CASE Goto(r, "mark") /\ faults' = faults
      BY <2>1, <2>2, <1>g, <1>h DEF Quiet, Travels
    <2>3. CASE Goto(r, "log_failure") /\ faults' = faults + 1
      BY <2>1, <2>3, <1>g, <1>h DEF Faulty
    <2> QED  BY <1>7, <2>2, <2>3 DEF LogSuccess
  <1>8. CASE LogFailure(r)
    <2>1. pc[r] = "log_failure" /\ UNCHANGED <<status, posts>>
      BY <1>8 DEF LogFailure, queue
    <2>2. CASE /\ failures' = [failures EXCEPT ![current[r]] = @ + 1]
               /\ Goto(r, "count") /\ UNCHANGED <<todo, current, caught, faults>>
      BY <2>1, <2>2, <1>a, <1>b, <1>g, <1>h DEF Fails, Quiet, Travels
    <2>3. CASE Raise(r) /\ UNCHANGED failures
      BY <2>1, <2>3, <1>r
    <2> QED  BY <1>8, <2>2, <2>3 DEF LogFailure
  <1>9. CASE Mark(r)
    <2>1. pc[r] = "mark" /\ UNCHANGED <<failures, posts>>
      BY <1>9 DEF Mark, log
    <2>2. CASE /\ status' = [status EXCEPT ![current[r]] = "published"]
               /\ Goto(r, "insert") /\ UNCHANGED <<todo, current, caught, faults>>
      BY <2>1, <2>2, <1>a, <1>g, <1>h DEF Closes, Quiet, Travels
    <2>3. CASE Raise(r) /\ UNCHANGED status
      BY <2>1, <2>3, <1>r
    <2> QED  BY <1>9, <2>2, <2>3 DEF Mark
  <1>10. CASE Insert(r)
    <2>1. pc[r] = "insert" /\ UNCHANGED <<status, failures, posts>>
      BY <1>10 DEF Insert, log, queue
    <2>2. CASE Continue(r) /\ UNCHANGED faults
      BY <2>1, <2>2, <1>c, <1>h DEF Quiet, Travels
    <2>3. CASE Raise(r)
      BY <2>1, <2>3, <1>r
    <2> QED  BY <1>10, <2>2, <2>3 DEF Insert
  <1>11. CASE Count(r)
    <2>1. pc[r] = "count" /\ UNCHANGED <<status, failures, posts>>
      BY <1>11 DEF Count, log, queue
    <2>2. CASE /\ Goto(r, IF Exhausted(current[r]) THEN "give_up" ELSE "reschedule")
               /\ UNCHANGED <<todo, current, caught, faults>>
      <3>1. PICK l : l = (IF Exhausted(current[r]) THEN "give_up" ELSE "reschedule") /\ Goto(r, l)
        BY <2>2
      <3>2. n = IF q = current[r] THEN l ELSE p
        BY <3>1, <2>1, <2>2, <1>g
      <3>3. Exhausted(q) \/ failures[q] + 1 < MAX_RETRIES
        BY <1>a, RetriesAssumption DEF Exhausted
      <3> QED  BY <2>1, <2>2, <3>1, <3>2, <3>3, <1>h DEF Quiet, Travels
    <2>3. CASE Raise(r)
      BY <2>1, <2>3, <1>r
    <2> QED  BY <1>11, <2>2, <2>3 DEF Count
  <1>12. CASE Reschedule(r)
    <2>1. pc[r] = "reschedule" /\ UNCHANGED <<status, failures, posts>>
      BY <1>12 DEF Reschedule, log
    <2>2. CASE Continue(r) /\ UNCHANGED faults
      BY <2>1, <2>2, <1>c, <1>h DEF Quiet, Travels
    <2>3. CASE Raise(r)
      BY <2>1, <2>3, <1>r
    <2> QED  BY <1>12, <2>2, <2>3 DEF Reschedule
  <1>13. CASE GiveUp(r)
    <2>1. pc[r] = "give_up" /\ UNCHANGED <<failures, posts>>
      BY <1>13 DEF GiveUp, log
    <2>2. CASE /\ status' = [status EXCEPT ![current[r]] = "failed"]
               /\ Continue(r) /\ UNCHANGED faults
      BY <2>1, <2>2, <1>a, <1>c, <1>h DEF Closes, Quiet, Travels
    <2>3. CASE Raise(r) /\ UNCHANGED status
      BY <2>1, <2>3, <1>r
    <2> QED  BY <1>13, <2>2, <2>3 DEF GiveUp
  <1>14. CASE Die(r)
    BY <1>14, <1>s DEF Die, Faulty, queue, log
  <1> QED  BY <1>1, <1>2, <1>3, <1>4, <1>5, <1>6, <1>7, <1>8, <1>9, <1>10, <1>11, <1>12, <1>13,
              <1>14 DEF Step

\* The row in hand stays off the list.
LEMMA HandsKept ==
  ASSUME TypeOK, Hands, NEW r \in Runs, Step(r) \/ Die(r)
  PROVE  Hands'
  <1>a. /\ pc \in [Runs -> Labels] /\ todo \in [Runs -> SUBSET Rows]
        /\ current \in [Runs -> Rows \cup {None}] /\ None \notin Rows
    BY NoneAssumption DEF TypeOK
  <1>1. CASE GetDue(r)
    BY <1>1, <1>a DEF GetDue, Hands, Goto, TypeOK
  <1>2. CASE Finish(r) \/ Die(r)
    BY <1>2, <1>a DEF Finish, Die, Stop, Goto, Hands
  <1>3. CASE Take(r)
    <2>1. pc[r] = "next"
      BY <1>3 DEF Take
    <2> QED  BY <1>3, <2>1, <1>a DEF Take, Goto, Hands
  <1>4. CASE Drop(r)
    BY <1>4, <1>a DEF Drop, Continue, Goto, Hands
  <1>5. CASE Refuse(r) \/ Call(r) \/ LogSuccess(r)
    BY <1>5, <1>a DEF Refuse, Call, LogSuccess, Goto, Hands
  <1>6. CASE LogFailure(r) \/ Count(r)
    BY <1>6, <1>a DEF LogFailure, Count, Raise, Stop, Goto, Hands
  <1>7. CASE Mark(r) \/ Insert(r)
    BY <1>7, <1>a DEF Mark, Insert, Raise, Stop, Continue, Goto, Hands
  <1>8. CASE Reschedule(r) \/ GiveUp(r)
    BY <1>8, <1>a DEF Reschedule, GiveUp, Raise, Stop, Continue, Goto, Hands
  <1> QED  BY <1>1, <1>2, <1>3, <1>4, <1>5, <1>6, <1>7, <1>8 DEF Step

\* The runs at some places: only the one that moved comes or goes.
LEMMA RunsMoved ==
  ASSUME NEW S \in SUBSET Runs, NEW T \in SUBSET Runs, NEW r \in Runs, S \ {r} = T \ {r}
  PROVE  /\ Cardinality(S) \in Nat /\ Cardinality(T) \in Nat
         /\ (r \in S <=> r \in T) => Cardinality(T) = Cardinality(S)
         /\ r \in S /\ r \notin T => Cardinality(T) = Cardinality(S) - 1
         /\ r \notin S /\ r \in T => Cardinality(T) = Cardinality(S) + 1
  <1>1. IsFiniteSet(S) /\ IsFiniteSet(T) /\ IsFiniteSet(S \ {r})
    BY RowsAssumption, FS_Subset
  <1>2. /\ Cardinality(S) \in Nat /\ Cardinality(T) \in Nat /\ Cardinality(S \ {r}) \in Nat
    BY <1>1, FS_CardinalityType
  <1>3. /\ r \in S => Cardinality(S \ {r}) = Cardinality(S) - 1
        /\ r \in T => Cardinality(T \ {r}) = Cardinality(T) - 1
    BY <1>1, FS_RemoveElement
  <1>4. /\ r \notin S => Cardinality(S \ {r}) = Cardinality(S)
        /\ r \notin T => Cardinality(T \ {r}) = Cardinality(T)
    <2>1. (r \notin S => S \ {r} = S) /\ (r \notin T => T \ {r} = T)
      OBVIOUS
    <2> QED  BY <2>1
  <1>5. Cardinality(S \ {r}) = Cardinality(T \ {r})
    OBVIOUS
  <1>6. PICK s \in Nat, t \in Nat, u \in Nat :
           s = Cardinality(S) /\ t = Cardinality(T) /\ u = Cardinality(S \ {r})
    BY <1>2
  <1>7. /\ r \in S => u = s - 1
        /\ r \in T => u = t - 1
        /\ r \notin S => u = s
        /\ r \notin T => u = t
    BY <1>3, <1>4, <1>5, <1>6
  <1>8. /\ (r \in S <=> r \in T) => t = s
        /\ r \in S /\ r \notin T => t = s - 1
        /\ r \notin S /\ r \in T => t = s + 1
    BY <1>7
  <1> QED  BY <1>6, <1>8

\* A run is at one place.
LEMMA RunsApart ==
  ASSUME NEW S \in SUBSET Runs, NEW T \in SUBSET Runs, S \cap T = {}
  PROVE  Cardinality(S) + Cardinality(T) <= Cardinality(Runs)
  <1>1. IsFiniteSet(S) /\ IsFiniteSet(T) /\ IsFiniteSet(S \cup T) /\ S \cup T \subseteq Runs
    BY RowsAssumption, FS_Subset
  <1>2. Cardinality(S \cup T) <= Cardinality(Runs)
    BY <1>1, RowsAssumption, FS_Subset
  <1>3. Cardinality(S \cup T) = Cardinality(S) + Cardinality(T) - Cardinality(S \cap T)
    BY <1>1, FS_Union
  <1>4. Cardinality(S \cap T) = 0
    BY FS_EmptySet
  <1>5. /\ Cardinality(S) \in Nat /\ Cardinality(T) \in Nat /\ Cardinality(S \cup T) \in Nat
        /\ Cardinality(Runs) \in Nat
    BY <1>1, RowsAssumption, FS_CardinalityType
  <1> QED  BY <1>2, <1>3, <1>4, <1>5

\* The runs at some places, when one run moves from p to n.
LEMMA PlacesMoved ==
  ASSUME NEW r \in Runs, NEW q \in Rows, NEW p, NEW n, p = Place(r, q), n = Place(r, q)',
         \A x \in Runs \ {r} : Place(x, q)' = Place(x, q),
         NEW L
  PROVE  /\ Cardinality(RunsIn(L, q)) \in Nat /\ Cardinality(RunsIn(L, q))' \in Nat
         /\ (p \in L <=> n \in L) => Cardinality(RunsIn(L, q))' = Cardinality(RunsIn(L, q))
         /\ p \in L /\ n \notin L => Cardinality(RunsIn(L, q))' = Cardinality(RunsIn(L, q)) - 1
         /\ p \notin L /\ n \in L => Cardinality(RunsIn(L, q))' = Cardinality(RunsIn(L, q)) + 1
  <1>1. PICK S \in SUBSET Runs, T \in SUBSET Runs : S = RunsIn(L, q) /\ T = RunsIn(L, q)'
    BY DEF RunsIn
  <1>2. S \ {r} = T \ {r} /\ (r \in S <=> p \in L) /\ (r \in T <=> n \in L)
    BY <1>1 DEF RunsIn
  <1>3. /\ Cardinality(S) \in Nat /\ Cardinality(T) \in Nat
        /\ (r \in S <=> r \in T) => Cardinality(T) = Cardinality(S)
        /\ r \in S /\ r \notin T => Cardinality(T) = Cardinality(S) - 1
        /\ r \notin S /\ r \in T => Cardinality(T) = Cardinality(S) + 1
    BY <1>2, RunsMoved
  <1> QED  BY <1>1, <1>2, <1>3

\* The failures logged of a row.
LEMMA CountedKept ==
  ASSUME MAX_RETRIES > 1, TypeOK, TypeOK', NEW r \in Runs, NEW q \in Rows,
         NEW p, NEW n, p = Place(r, q), n = Place(r, q)',
         \A x \in Runs \ {r} : Place(x, q)' = Place(x, q),
         Moves(p, n, q), Counted(q)
  PROVE  Counted(q)'
  <1> DEFINE G == {"count", "give_up"}
  <1> DEFINE C == {"ahead", "call", "log_success", "log_failure"}
  <1>a. /\ failures[q] \in Nat /\ faults \in Nat /\ MAX_RETRIES \in Nat
        /\ failures'[q] \in Nat /\ faults' \in Nat
    BY RetriesAssumption DEF TypeOK
  <1>b. /\ Cardinality(RunsIn(G, q)) \in Nat /\ Cardinality(RunsIn(G, q))' \in Nat
        /\ Cardinality(RunsIn(C, q)) \in Nat /\ Cardinality(RunsIn(C, q))' \in Nat
        /\ Cardinality(Runs) \in Nat
    BY PlacesMoved, RowsAssumption, FS_CardinalityType
  <1>1. PICK f \in Nat, e \in Nat, M \in Nat, N \in Nat, g \in Nat, c \in Nat :
           /\ f = failures[q] /\ e = faults /\ M = MAX_RETRIES /\ N = Cardinality(Runs)
           /\ g = Cardinality(RunsIn(G, q)) /\ c = Cardinality(RunsIn(C, q))
    BY <1>a, <1>b
  <1>2. PICK f2 \in Nat, e2 \in Nat, g2 \in Nat, c2 \in Nat :
           /\ f2 = failures'[q] /\ e2 = faults'
           /\ g2 = Cardinality(RunsIn(G, q))' /\ c2 = Cardinality(RunsIn(C, q))'
    BY <1>a, <1>b
  <1>3. /\ (p \in G <=> n \in G) => g2 = g
        /\ p \in G /\ n \notin G => g2 = g - 1
        /\ p \notin G /\ n \in G => g2 = g + 1
    BY <1>1, <1>2, PlacesMoved
  <1>4. /\ (p \in C <=> n \in C) => c2 = c
        /\ p \in C /\ n \notin C => c2 = c - 1
        /\ p \notin C /\ n \in C => c2 = c + 1
    BY <1>1, <1>2, PlacesMoved
  <1>5. g + c <= N /\ M > 1
    <2>1. /\ RunsIn(G, q) \subseteq Runs /\ RunsIn(C, q) \subseteq Runs
          /\ RunsIn(G, q) \cap RunsIn(C, q) = {}
      BY DEF RunsIn
    <2>2. \A S, T \in SUBSET Runs :
             S \cap T = {} => Cardinality(S) + Cardinality(T) <= Cardinality(Runs)
      BY RunsApart
    <2> QED  BY <1>1, <2>1, <2>2
  <1>6. IF status[q] = "waiting" THEN f + 1 < M \/ f + 2 <= M + e + g
                                 ELSE f + 2 + c <= M + e + N
    BY <1>1 DEF Counted
  <1>7. f + 2 + c <= M + e + N
    BY <1>5, <1>6
  <1> HIDE DEF G, C
  <1>8. IF status'[q] = "waiting" THEN f2 + 1 < M \/ f2 + 2 <= M + e2 + g2
                                  ELSE f2 + 2 + c2 <= M + e2 + N
    <2>1. CASE Quiet(q) /\ Travels(p, n, q)
      <3>1. f2 = f /\ e2 = e /\ status'[q] = status[q]
        BY <2>1, <1>1, <1>2 DEF Quiet
      <3>2. status[q] # "waiting" => c2 <= c
        BY <2>1, <1>4 DEF Travels, C
      <3>3. f + 1 < M \/ g2 >= g
        BY <2>1, <1>1, <1>3 DEF Travels, G
      <3> QED  BY <3>1, <3>2, <3>3, <1>6
    <2>2. CASE Posts(p, n, q)
      <3>1. f2 = f /\ e2 = e /\ status'[q] = status[q]
        BY <2>2, <1>1, <1>2 DEF Posts
      <3>2. c2 = c /\ g2 = g
        BY <2>2, <1>3, <1>4 DEF Posts, G, C
      <3> QED  BY <3>1, <3>2, <1>6
    <2>3. CASE Fails(p, n, q)
      <3>1. f2 = f + 1 /\ e2 = e /\ status'[q] = status[q]
        BY <2>3, <1>1, <1>2 DEF Fails
      <3>2. c2 = c - 1 /\ g2 = g + 1
        BY <2>3, <1>3, <1>4 DEF Fails, G, C
      <3> QED  BY <3>1, <3>2, <1>5, <1>6
    <2>4. CASE Closes(p, n, q)
      <3>1. f2 = f /\ e2 = e /\ status'[q] # "waiting"
        BY <2>4, <1>1, <1>2 DEF Closes
      <3>2. c2 = c
        BY <2>4, <1>4 DEF Closes, C
      <3> QED  BY <3>1, <3>2, <1>7
    <2>5. CASE Faulty(p, n, q)
      <3>1. f2 = f /\ e2 = e + 1 /\ status'[q] = status[q]
        BY <2>5, <1>1, <1>2 DEF Faulty
      <3>2. c2 <= c /\ g2 >= g - 1
        BY <2>5, <1>3, <1>4 DEF Faulty, G, C
      <3> QED  BY <3>1, <3>2, <1>6
    <2> QED  BY <2>1, <2>2, <2>3, <2>4, <2>5 DEF Moves
  <1> QED  BY <1>1, <1>2, <1>8 DEF Counted, G, C

\* The posts of a row.
LEMMA PaidKept ==
  ASSUME TypeOK, TypeOK', NEW r \in Runs, NEW q \in Rows,
         NEW p, NEW n, p = Place(r, q), n = Place(r, q)',
         \A x \in Runs \ {r} : Place(x, q)' = Place(x, q),
         Moves(p, n, q), Paid(q)
  PROVE  Paid(q)'
  <1> DEFINE H == {"log_success", "log_failure", "mark"}
  <1> DEFINE C == {"ahead", "call"}
  <1>a. /\ failures[q] \in Nat /\ faults \in Nat /\ posts[q] \in Nat
        /\ failures'[q] \in Nat /\ faults' \in Nat /\ posts'[q] \in Nat
    BY RetriesAssumption DEF TypeOK
  <1>b. /\ Cardinality(RunsIn(H, q)) \in Nat /\ Cardinality(RunsIn(H, q))' \in Nat
        /\ Cardinality(RunsIn(C, q)) \in Nat /\ Cardinality(RunsIn(C, q))' \in Nat
        /\ Cardinality(Runs) \in Nat
    BY PlacesMoved, RowsAssumption, FS_CardinalityType
  <1>1. PICK b \in Nat, f \in Nat, e \in Nat, N \in Nat, h \in Nat, c \in Nat :
           /\ b = posts[q] /\ f = failures[q] /\ e = faults /\ N = Cardinality(Runs)
           /\ h = Cardinality(RunsIn(H, q)) /\ c = Cardinality(RunsIn(C, q))
    BY <1>a, <1>b
  <1>2. PICK b2 \in Nat, f2 \in Nat, e2 \in Nat, h2 \in Nat, c2 \in Nat :
           /\ b2 = posts'[q] /\ f2 = failures'[q] /\ e2 = faults'
           /\ h2 = Cardinality(RunsIn(H, q))' /\ c2 = Cardinality(RunsIn(C, q))'
    BY <1>a, <1>b
  <1>3. /\ (p \in H <=> n \in H) => h2 = h
        /\ p \in H /\ n \notin H => h2 = h - 1
        /\ p \notin H /\ n \in H => h2 = h + 1
    BY <1>1, <1>2, PlacesMoved
  <1>4. /\ (p \in C <=> n \in C) => c2 = c
        /\ p \in C /\ n \notin C => c2 = c - 1
        /\ p \notin C /\ n \in C => c2 = c + 1
    BY <1>1, <1>2, PlacesMoved
  <1>5. h + c <= N
    <2>1. /\ RunsIn(H, q) \subseteq Runs /\ RunsIn(C, q) \subseteq Runs
          /\ RunsIn(H, q) \cap RunsIn(C, q) = {}
      BY DEF RunsIn
    <2>2. \A S, T \in SUBSET Runs :
             S \cap T = {} => Cardinality(S) + Cardinality(T) <= Cardinality(Runs)
      BY RunsApart
    <2> QED  BY <1>1, <2>1, <2>2
  <1>6. IF status[q] = "waiting" THEN b <= f + e + h ELSE b + c <= f + e + N
    BY <1>1 DEF Paid
  <1>7. b + c <= f + e + N
    BY <1>5, <1>6
  <1> HIDE DEF H, C
  <1>8. IF status'[q] = "waiting" THEN b2 <= f2 + e2 + h2 ELSE b2 + c2 <= f2 + e2 + N
    <2>1. CASE Quiet(q) /\ Travels(p, n, q)
      <3>1. b2 = b /\ f2 = f /\ e2 = e /\ status'[q] = status[q]
        BY <2>1, <1>1, <1>2 DEF Quiet
      <3>2. (status[q] # "waiting" => c2 <= c) /\ h2 >= h
        BY <2>1, <1>3, <1>4 DEF Travels, C, H
      <3> QED  BY <3>1, <3>2, <1>6
    <2>2. CASE Posts(p, n, q)
      <3>1. b2 <= b + 1 /\ f2 = f /\ e2 = e /\ status'[q] = status[q]
        BY <2>2, <1>1, <1>2 DEF Posts
      <3>2. c2 = c - 1 /\ h2 = h + 1
        BY <2>2, <1>3, <1>4 DEF Posts, H, C
      <3> QED  BY <3>1, <3>2, <1>6
    <2>3. CASE Fails(p, n, q)
      <3>1. b2 = b /\ f2 = f + 1 /\ e2 = e /\ status'[q] = status[q]
        BY <2>3, <1>1, <1>2 DEF Fails
      <3>2. c2 = c /\ h2 = h - 1
        BY <2>3, <1>3, <1>4 DEF Fails, H, C
      <3> QED  BY <3>1, <3>2, <1>6
    <2>4. CASE Closes(p, n, q)
      <3>1. b2 = b /\ f2 = f /\ e2 = e /\ status'[q] # "waiting"
        BY <2>4, <1>1, <1>2 DEF Closes
      <3>2. c2 = c
        BY <2>4, <1>4 DEF Closes, C
      <3> QED  BY <3>1, <3>2, <1>7
    <2>5. CASE Faulty(p, n, q)
      <3>1. b2 = b /\ f2 = f /\ e2 = e + 1 /\ status'[q] = status[q]
        BY <2>5, <1>1, <1>2 DEF Faulty
      <3>2. c2 <= c /\ h2 >= h - 1
        BY <2>5, <1>3, <1>4 DEF Faulty, H, C
      <3> QED  BY <3>1, <3>2, <1>6
    <2> QED  BY <2>1, <2>2, <2>3, <2>4, <2>5 DEF Moves
  <1> QED  BY <1>1, <1>2, <1>8 DEF Paid, H, C

\* A row that stops waiting from outside: the runs at work were few enough.
LEMMA CancelledKept ==
  ASSUME TypeOK, UNCHANGED <<failures, posts, faults, todo, current, pc>>, NEW q \in Rows,
         status'[q] # "waiting"
  PROVE  /\ Paid(q) => Paid(q)'
         /\ MAX_RETRIES > 1 /\ Counted(q) => Counted(q)'
  <1> DEFINE G == RunsIn({"count", "give_up"}, q)
  <1> DEFINE C == RunsIn({"ahead", "call", "log_success", "log_failure"}, q)
  <1> DEFINE H == RunsIn({"log_success", "log_failure", "mark"}, q)
  <1> DEFINE D == RunsIn({"ahead", "call"}, q)
  <1>1. /\ failures[q] \in Nat /\ faults \in Nat /\ posts[q] \in Nat /\ MAX_RETRIES \in Nat
    BY RetriesAssumption DEF TypeOK
  <1>2. G \in SUBSET Runs /\ C \in SUBSET Runs /\ H \in SUBSET Runs /\ D \in SUBSET Runs
    BY DEF RunsIn
  <1>3. G \cap C = {} /\ H \cap D = {}
    BY DEF RunsIn
  <1>4. C' = C /\ D' = D
    BY DEF RunsIn, Place
  <1> HIDE DEF G, C, H, D
  <1>5. Cardinality(G) + Cardinality(C) <= Cardinality(Runs)
    BY <1>2, <1>3, RunsApart
  <1>6. Cardinality(H) + Cardinality(D) <= Cardinality(Runs)
    BY <1>2, <1>3, RunsApart
  <1>7. /\ Cardinality(G) \in Nat /\ Cardinality(C) \in Nat
        /\ Cardinality(H) \in Nat /\ Cardinality(D) \in Nat /\ Cardinality(Runs) \in Nat
    BY <1>2, RowsAssumption, FS_Subset, FS_CardinalityType
  <1>8. Paid(q) => posts[q] + Cardinality(D) <= failures[q] + faults + Cardinality(Runs)
    BY <1>1, <1>6, <1>7 DEF Paid, H, D
  <1>9. MAX_RETRIES > 1 /\ Counted(q)
           => failures[q] + 2 + Cardinality(C) <= MAX_RETRIES + faults + Cardinality(Runs)
    BY <1>1, <1>5, <1>7 DEF Counted, G, C
  <1>10. Paid(q) => Paid(q)'
    BY <1>4, <1>8 DEF Paid, D
  <1>11. MAX_RETRIES > 1 /\ Counted(q) => Counted(q)'
    BY <1>4, <1>9 DEF Counted, C
  <1> QED  BY <1>10, <1>11

TriesInv ==
    /\ PublisherInv
    /\ Hands
    /\ \A q \in Rows : Paid(q)
    /\ MAX_RETRIES > 1 => \A q \in Rows : Counted(q)

\* The initial states satisfy it: nothing was tried.
LEMMA InitTries == Init => TriesInv
  <1> SUFFICES ASSUME Init PROVE TriesInv
    OBVIOUS
  <1>1. PublisherInv
    BY InitPublisher
  <1>2. Hands
    BY NoneAssumption DEF Init, Hands
  <1>3. ASSUME NEW q \in Rows PROVE Paid(q) /\ (MAX_RETRIES > 1 => Counted(q))
    <2>1. RunsIn({"log_success", "log_failure", "mark"}, q) \in SUBSET Runs
      BY DEF RunsIn
    <2>2. Cardinality(RunsIn({"log_success", "log_failure", "mark"}, q)) \in Nat
      BY <2>1, RowsAssumption, FS_Subset, FS_CardinalityType
    <2> QED  BY <2>2, <1>3, RetriesAssumption DEF Init, Paid, Counted
  <1> QED  BY <1>1, <1>2, <1>3 DEF TriesInv

\* Every step keeps it.
LEMMA NextTries ==
  ASSUME TriesInv, [Next]_vars
  PROVE  TriesInv'
  <1>a. PublisherInv /\ PublisherInv' /\ TypeOK /\ TypeOK' /\ Hands
    BY NextPublisher DEF TriesInv, PublisherInv
  <1>1. ASSUME NEW r \in Runs, Step(r) \/ Die(r) PROVE TriesInv'
    <2>1. Hands'
      BY <1>1, <1>a, HandsKept
    <2>2. ASSUME NEW q \in Rows
          PROVE  Paid(q)' /\ (MAX_RETRIES > 1 => Counted(q)')
      <3>1. PICK p, n : p = Place(r, q) /\ n = Place(r, q)'
        OBVIOUS
      <3>2. Moves(p, n, q) /\ \A x \in Runs \ {r} : Place(x, q)' = Place(x, q)
        BY <1>1, <1>a, <3>1, OwnMoves, OthersStay
      <3>3. Paid(q)'
        BY <1>a, <3>1, <3>2, PaidKept DEF TriesInv
      <3>4. MAX_RETRIES > 1 => Counted(q)'
        BY <1>a, <3>1, <3>2, CountedKept DEF TriesInv
      <3> QED  BY <3>3, <3>4
    <2> QED  BY <1>a, <2>1, <2>2 DEF TriesInv
  <1>2. ASSUME UNCHANGED <<status, failures, posts, faults, todo, current, pc>> PROVE TriesInv'
    <2>1. \A places, q : RunsIn(places, q)' = RunsIn(places, q)
      BY <1>2 DEF RunsIn, Place
    <2>2. \A q \in Rows : Paid(q)' <=> Paid(q)
      BY <1>2, <2>1 DEF Paid
    <2>3. \A q \in Rows : Counted(q)' <=> Counted(q)
      BY <1>2, <2>1 DEF Counted
    <2>4. Hands'
      BY <1>2, <1>a DEF Hands
    <2> QED  BY <1>a, <2>2, <2>3, <2>4 DEF TriesInv
  <1>3. CASE Cancel
    <2>1. UNCHANGED <<failures, posts, faults, todo, current, pc>>
      BY <1>3 DEF Cancel, log, control
    <2>2. ASSUME NEW q \in Rows
          PROVE  Paid(q)' /\ (MAX_RETRIES > 1 => Counted(q)')
      <3>1. status'[q] \in {status[q], "cancelled"}
        BY <1>3, <1>a DEF Cancel, TypeOK
      <3>2. CASE status'[q] # "waiting"
        BY <3>2, <2>1, <1>a, CancelledKept DEF TriesInv
      <3>3. CASE status'[q] = status[q]
        BY <3>3, <2>1 DEF TriesInv, Paid, Counted, RunsIn, Place
      <3> QED  BY <3>1, <3>2, <3>3
    <2> QED  BY <1>a, <2>1, <2>2 DEF TriesInv, Hands
  <1>4. ASSUME NEW q \in Rows, TimeComes(q) \/ LoseFile(q) PROVE TriesInv'
    BY <1>2, <1>4 DEF TimeComes, LoseFile, queue, log, control
  <1>5. CASE UNCHANGED vars
    BY <1>2, <1>5 DEF vars, queue, log, control
  <1> QED  BY <1>1, <1>3, <1>4, <1>5 DEF Next

\* Once it no longer waits or still does, a row is posted at most once per run and fault
\* more than its failures.
LEMMA PaidBound ==
  ASSUME TypeOK, NEW q \in Rows, Paid(q)
  PROVE  posts[q] <= failures[q] + Cardinality(Runs) + faults
  <1> DEFINE H == RunsIn({"log_success", "log_failure", "mark"}, q)
  <1> DEFINE D == RunsIn({"ahead", "call"}, q)
  <1>1. failures[q] \in Nat /\ faults \in Nat /\ posts[q] \in Nat
    BY RetriesAssumption DEF TypeOK
  <1>2. H \in SUBSET Runs /\ D \in SUBSET Runs
    BY DEF RunsIn
  <1> HIDE DEF H, D
  <1>3. /\ Cardinality(H) \in Nat /\ Cardinality(D) \in Nat /\ Cardinality(Runs) \in Nat
        /\ Cardinality(H) <= Cardinality(Runs)
    BY <1>2, RowsAssumption, FS_Subset, FS_CardinalityType
  <1> QED  BY <1>1, <1>3 DEF Paid, H, D

\* The failures logged are at most the limit, one of every other run and one per fault.
LEMMA CountedBound ==
  ASSUME MAX_RETRIES > 1, TypeOK, NEW q \in Rows, Counted(q)
  PROVE  failures[q] < MAX_RETRIES + (Cardinality(Runs) - 1) + faults
  <1> DEFINE G == RunsIn({"count", "give_up"}, q)
  <1> DEFINE C == RunsIn({"ahead", "call", "log_success", "log_failure"}, q)
  <1>1. failures[q] \in Nat /\ faults \in Nat /\ MAX_RETRIES \in Nat
    BY RetriesAssumption DEF TypeOK
  <1>2. G \in SUBSET Runs /\ C \in SUBSET Runs
    BY DEF RunsIn
  <1> HIDE DEF G, C
  <1>3. /\ Cardinality(G) \in Nat /\ Cardinality(C) \in Nat /\ Cardinality(Runs) \in Nat
        /\ Cardinality(G) <= Cardinality(Runs)
    BY <1>2, RowsAssumption, FS_Subset, FS_CardinalityType
  <1> QED  BY <1>1, <1>3 DEF Counted, G, C

\* However many runs overlap, a video is posted at most once more than its attempts were
\* logged as failed, but for one post of every other run and one per fault.
THEOREM RepostsAlwaysBounded == Spec => []RepostsBounded
  <1>1. TriesInv => RepostsBounded
    BY PaidBound DEF TriesInv, PublisherInv, RepostsBounded
  <1> QED  BY InitTries, NextTries, <1>1, PTL DEF Spec

\* The retries end at the limit, but for one attempt of every other run that has the row
\* in its list and one per fault.  The limit must leave room for a retry, as the code's
\* five does: where the first failure is already the last, runs that fail together
\* are one over.
THEOREM RetriesAlwaysBounded ==
  ASSUME MAX_RETRIES > 1
  PROVE  Spec => []RetriesBounded
  <1>1. TriesInv => RetriesBounded
    BY CountedBound DEF TriesInv, PublisherInv, RetriesBounded
  <1> QED  BY InitTries, NextTries, <1>1, PTL DEF Spec
=============================================================================
