--------------------------- MODULE JobStateMachine ---------------------------
(***************************************************************************)
(* JobStateMachine of modules/infrastructure/job_state_machine.py over the  *)
(* job_states table of database/schema.sql.                                 *)
(*                                                                          *)
(* The pipeline's entry points are separate processes which share only the  *)
(* SQLite file.  Every SQL statement is one step; between two of them       *)
(* another process may run, and nothing keeps two processes off one job.    *)
(* transition() reads the job's newest row, validates the move and calls    *)
(* save_job_state(), which looks the record up again, by job and job type,  *)
(* and then writes it without repeating the validation.  cleanup_orphans()  *)
(* writes FAILED over a list of rows it read earlier.                       *)
(***************************************************************************)
EXTENDS JobStates, Naturals, Sequences, FiniteSets

CONSTANTS
    Jobs,        \* content jobs (job_id)
    Types,       \* job types (job_type)
    Drivers,     \* processes that may create, advance and retry jobs at one time
    Cleaner,     \* a process that cleans up orphans
    MaxCalls,    \* bound: how many calls the drivers begin
    None         \* SQL NULL

ASSUME DriversAssumption == IsFiniteSet(Drivers) /\ Cleaner \notin Drivers
ASSUME CallsAssumption == MaxCalls \in Nat
ASSUME NoneAssumption == None \notin JobState \cup Jobs \cup Types

Procs == Drivers \cup {Cleaner}

\* What save_job_state looks a row up by.
Records == Jobs \X Types

VARIABLES
    rows,        \* rows[r]: the rows of record r in job_states, oldest first
    pc,          \* where each process is
    call,        \* the arguments and local variables of the call it is in
    orphans,     \* the rows cleanup_orphans has read and not yet flagged
    begun,       \* how many calls the drivers have begun
    overlapped,  \* history: the jobs for which two calls were under way at once
    reviewed,    \* history: the jobs that were ever REVIEW_APPROVED
    failed       \* history: the jobs that were ever FAILED

vars == <<rows, pc, call, orphans, begun, overlapped, reviewed, failed>>

Row == [state : JobState, prev : JobState \cup {None}, retry : Nat,
        aged : BOOLEAN,      \* updated_at lies more than 24 h back
        newest : BOOLEAN]    \* no row of the job has a later updated_at

\* A call that moves record <<j, t>>; found: what save_job_state's look-up answered.
CallFor(j, t, from, to) ==
    [job |-> j, type |-> t, from |-> from, to |-> to, found |-> FALSE]

NoCall == CallFor(None, None, None, None)

Call == [job : Jobs \cup {None}, type : Types \cup {None}, from : JobState \cup {None},
         to : JobState \cup {None}, found : BOOLEAN]

Init ==
    /\ rows = [r \in Records |-> <<>>]
    /\ pc = [p \in Procs |-> "idle"]
    /\ call = [p \in Procs |-> NoCall]
    /\ orphans = {}
    /\ begun = 0
    /\ overlapped = {}
    /\ reviewed = {}
    /\ failed = {}

-----------------------------------------------------------------------------
\* The record a call moves.
Target(c) == <<c.job, c.type>>

\* States of the rows of job j.
StatesOf(j) == UNION {{rows[<<j, t>>][i].state : i \in DOMAIN rows[<<j, t>>]} : t \in Types}

\* What get_current_state may answer: a row of the job with the latest updated_at,
\* whatever its type.  Rows written in one second tie.
Current(j) ==
    UNION {{[type |-> t, state |-> rows[<<j, t>>][i].state] :
               i \in {k \in DOMAIN rows[<<j, t>>] : rows[<<j, t>>][k].newest}} : t \in Types}

Goto(p, label) == pc' = [pc EXCEPT ![p] = label]

Return(p) ==
    /\ Goto(p, "idle")
    /\ call' = [call EXCEPT ![p] = NoCall]

Busy(p) == pc[p] # "idle"

\* Some call, or the clean-up's list, already concerns j.
UnderWay(j) ==
    \/ \E p \in Procs : Busy(p) /\ call[p].job = j
    \/ \E o \in orphans : o.job = j

\* A driver calls for j: nothing in the code keeps it from doing so.
Begin(p, j) ==
    /\ ~Busy(p)
    /\ begun < MaxCalls
    /\ begun' = begun + 1
    /\ overlapped' = IF UnderWay(j) THEN overlapped \cup {j} ELSE overlapped

\* create_job: nothing is looked at, a job may be created twice or under two types.
CreateJob(p, j, t) ==
    /\ Begin(p, j)
    /\ Goto(p, "select")
    /\ call' = [call EXCEPT ![p] = CallFor(j, t, None, "trend_found")]
    /\ UNCHANGED <<rows, orphans, reviewed, failed>>

\* Faulty variant: the move is not looked up in VALID_TRANSITIONS.
ReadWithoutValidation(p, j, s) ==
    \E cur \in Current(j) :
        /\ Goto(p, "select")
        /\ call' = [call EXCEPT ![p] = CallFor(j, cur.type, cur.state, s)]

\* The read and the validation of transition().  An unknown job and a move outside
\* the map change nothing.
ReadAndValidate(p, j, s) ==
    \E cur \in Current(j) :
        /\ s \in Allowed(cur.state)
        /\ Goto(p, "select")
        /\ call' = [call EXCEPT ![p] = CallFor(j, cur.type, cur.state, s)]

Transition(p, j) ==
    /\ Begin(p, j)
    /\ \E s \in JobState : ReadAndValidate(p, j, s)
    /\ UNCHANGED <<rows, orphans, reviewed, failed>>

\* retry_job, for a job whose current row is FAILED.
RetryJob(p, j) ==
    /\ Begin(p, j)
    /\ \E cur \in Current(j) : cur.state = "failed"
    /\ \E s \in JobState :
          call' = [call EXCEPT ![p] = CallFor(j, None, None, s)]
    /\ Goto(p, "bump")
    /\ UNCHANGED <<rows, orphans, reviewed, failed>>

Bumped(r) == [r EXCEPT !.retry = @ + 1]

\* retry_count of every row of the job is raised before the target is validated.
BumpRetryCount(p) ==
    /\ pc[p] = "bump"
    /\ rows' = [r \in Records |->
                   IF r[1] = call[p].job
                   THEN [i \in DOMAIN rows[r] |-> Bumped(rows[r][i])]
                   ELSE rows[r]]
    /\ Goto(p, "read")
    /\ UNCHANGED <<call, orphans, begun, overlapped, reviewed, failed>>

\* The transition() at the end of retry_job reads and validates afresh.
RetryTransition(p) ==
    /\ pc[p] = "read"
    /\ ReadAndValidate(p, call[p].job, call[p].to)
    /\ UNCHANGED <<rows, orphans, begun, overlapped, reviewed, failed>>

\* Faulty variant: the look-up never matches, so every save inserts.
SelectMisses(p) ==
    /\ pc[p] = "select"
    /\ Goto(p, "write")
    /\ UNCHANGED <<rows, call, orphans, begun, overlapped, reviewed, failed>>

\* save_job_state, first statement: is there a row for the job and the type?
SaveSelect(p) ==
    /\ pc[p] = "select"
    /\ call' = [call EXCEPT ![p].found = (rows[Target(call[p])] # <<>>)]
    /\ Goto(p, "write")
    /\ UNCHANGED <<rows, orphans, begun, overlapped, reviewed, failed>>

\* Faulty variant: the UPDATE leaves previous_state as it was.
UpdatedKeepsPrev(r, c) == [r EXCEPT !.state = c.to, !.aged = FALSE, !.newest = TRUE]

Updated(r, c) == [r EXCEPT !.state = c.to, !.prev = c.from, !.aged = FALSE, !.newest = TRUE]

Inserted(c) == [state |-> c.to, prev |-> c.from, retry |-> 0, aged |-> FALSE, newest |-> TRUE]

\* Beside a row that is written now, another stays newest only if both fall into one
\* second.
Overtaken(r, tie) == [r EXCEPT !.newest = @ /\ tie /\ ~r.aged]

\* Faulty variant: the UPDATE's WHERE clause names the job alone.
WrittenByJob(r, c, tie) ==
    IF r[1] = c.job /\ (c.found \/ r # Target(c))
    THEN [i \in DOMAIN rows[r] |-> Updated(rows[r][i], c)]
    ELSE IF r = Target(c) THEN Append(rows[r], Inserted(c)) ELSE rows[r]

\* The rows of record r when the call c has written: an UPDATE of every row of the job
\* and the type, or an INSERT, as the look-up found.
Written(r, c, tie) ==
    LET others == [i \in DOMAIN rows[r] |-> Overtaken(rows[r][i], tie)]
    IN IF r = Target(c)
       THEN IF c.found
            THEN [i \in DOMAIN rows[r] |-> Updated(rows[r][i], c)]
            ELSE Append(others, Inserted(c))
       ELSE IF r[1] = c.job THEN others ELSE rows[r]

\* save_job_state, second statement.
SaveWrite(p) ==
    LET c == call[p]
    IN /\ pc[p] = "write"
       /\ \E tie \in BOOLEAN : rows' = [r \in Records |-> Written(r, c, tie)]
       /\ reviewed' = IF c.to = "review_approved" THEN reviewed \cup {c.job} ELSE reviewed
       /\ failed' = IF c.to = "failed" THEN failed \cup {c.job} ELSE failed
       /\ Return(p)
       /\ UNCHANGED <<orphans, begun, overlapped>>

\* A statement raises, the target of a retry is not allowed, or the process dies and
\* another takes its place: the call goes no further.
CallEnds(p) ==
    /\ Busy(p)
    /\ Return(p)
    /\ UNCHANGED <<rows, orphans, begun, overlapped, reviewed, failed>>

-----------------------------------------------------------------------------
\* A row passes the 24 h mark without an update.
Age(r) ==
    /\ \E i \in DOMAIN rows[r] :
          /\ ~rows[r][i].aged
          /\ rows' = [rows EXCEPT ![r][i].aged = TRUE]
    /\ UNCHANGED <<pc, call, orphans, begun, overlapped, reviewed, failed>>

\* The WHERE clause of get_orphaned_jobs.
Orphaned(r) == r.aged /\ r.state \in Orphanable

OrphanRows ==
    UNION {{[job |-> r[1], type |-> r[2], state |-> rows[r][i].state] :
               i \in {k \in DOMAIN rows[r] : Orphaned(rows[r][k])}} : r \in Records}

\* cleanup_orphans reads the whole list first ...
ListOrphans ==
    /\ ~Busy(Cleaner)
    /\ orphans = {}
    /\ orphans' = OrphanRows
    /\ overlapped' = overlapped \cup {j \in Jobs : UnderWay(j) /\ \E o \in OrphanRows : o.job = j}
    /\ UNCHANGED <<rows, pc, call, begun, reviewed, failed>>

\* ... and then flags the rows one by one, whatever happened to them since.
FlagNext ==
    /\ ~Busy(Cleaner)
    /\ \E o \in orphans :
          /\ orphans' = orphans \ {o}
          /\ call' = [call EXCEPT ![Cleaner] = CallFor(o.job, o.type, o.state, "failed")]
    /\ Goto(Cleaner, "select")
    /\ UNCHANGED <<rows, begun, overlapped, reviewed, failed>>

\* The clean-up is killed and its list is lost.
CleanerCrash ==
    /\ orphans # {}
    /\ Return(Cleaner)
    /\ orphans' = {}
    /\ UNCHANGED <<rows, begun, overlapped, reviewed, failed>>

-----------------------------------------------------------------------------
DriverStep(p) ==
    \/ \E j \in Jobs :
          \/ \E t \in Types : CreateJob(p, j, t)
          \/ Transition(p, j)
          \/ RetryJob(p, j)
    \/ BumpRetryCount(p)
    \/ RetryTransition(p)

SaveStep(p) == SaveSelect(p) \/ SaveWrite(p) \/ CallEnds(p)

CleanerStep == ListOrphans \/ FlagNext \/ CleanerCrash

Next ==
    \/ \E p \in Drivers : DriverStep(p)
    \/ \E p \in Procs : SaveStep(p)
    \/ \E r \in Records : Age(r)
    \/ CleanerStep

Spec == Init /\ [][Next]_vars

\* Time passes, and a save or a clean-up that was begun goes on.  Nothing calls
\* cleanup_orphans, so nothing is assumed of ListOrphans.
Fairness ==
    /\ \A r \in Records : WF_vars(Age(r))
    /\ \A p \in Procs : SF_vars(SaveSelect(p)) /\ SF_vars(SaveWrite(p))
    /\ SF_vars(FlagNext)

FairSpec == Spec /\ Fairness

-----------------------------------------------------------------------------
\* The variables keep their types.
TypeOK ==
    /\ rows \in [Records -> Seq(Row)]
    /\ pc \in [Procs -> {"idle", "bump", "read", "select", "write"}]
    /\ call \in [Procs -> Call]
    /\ orphans \subseteq [job : Jobs, type : Types, state : Orphanable]
    /\ begun \in 0..MaxCalls
    /\ overlapped \subseteq Jobs
    /\ reviewed \subseteq Jobs
    /\ failed \subseteq Jobs

\* The history a row records is always a legal one: the pair (previous_state,
\* state) left by the last save_job_state is an edge of VALID_TRANSITIONS or a
\* flagged orphan.  transition() validates what it writes beside what it read.
RecordedEdge ==
    \A r \in Records : \A i \in DOMAIN rows[r] :
        LET row == rows[r][i] IN
        \/ row.prev = None /\ row.state = "trend_found"
        \/ row.prev # None /\ row.state \in Allowed(row.prev)
        \/ row.prev \in Orphanable /\ row.state = "failed"

\* save_job_state's look-up-then-insert makes a second row for a job and a type when two
\* processes look before either inserts, but never more rows than processes run at once:
\* whoever looks later finds one.
DuplicatesBounded == \A r \in Records : Len(rows[r]) <= Cardinality(Drivers)

\* A job reaches SCHEDULED, PUBLISHING or PUBLISHED without ever having been
\* approved only if it failed and was retried past the review.
ReleasedWasReviewed ==
    \A j \in Jobs : StatesOf(j) \cap ReleaseStates # {} => j \in reviewed \cup failed

\* The module's promise: as long as no two calls for a job overlap (and the clean-up
\* does not hold a list with the job while a driver calls for it), each of its records
\* is one row that follows the abstract life cycle, although reads, validation and
\* writes are separate statements, calls die anywhere between them, and transition()
\* chooses the record it moves by the time of the last update.
Held(r) == IF rows[r] = <<>> THEN "none" ELSE rows[r][1].state

Status(r) == IF r[1] \in overlapped THEN "contested" ELSE Held(r)

LC == INSTANCE JobLifecycle WITH state <- [r \in Records |-> Status(r)]

Lifecycle == LC!LifecycleSpec

\* Orphaned jobs (stuck in non-terminal states >24h) are flagged by daily cleanup
\* (line 13).
OrphansAreFlagged ==
    \A r \in Records :
        (\E i \in DOMAIN rows[r] : Orphaned(rows[r][i]))
            ~> (\A i \in DOMAIN rows[r] : ~Orphaned(rows[r][i]))
=============================================================================
