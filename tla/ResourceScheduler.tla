-------------------------- MODULE ResourceScheduler --------------------------
(***************************************************************************)
(* ResourceScheduler of modules/infrastructure/resource_scheduler.py: the   *)
(* registry of active heavy jobs of one process, shared by its threads.     *)
(*                                                                          *)
(* A region under _lock is one step.  The checks of can_start_job, the      *)
(* semaphore and the registration are separate regions: the CPU is sampled  *)
(* for a second between the first and the last of them.                     *)
(***************************************************************************)
EXTENDS Naturals, FiniteSets

CONSTANTS
    Threads,       \* threads that run jobs
    JobTypes,      \* the job types in use
    MaxAssembly,   \* MAX_CONCURRENT_VIDEO_ASSEMBLY
    MaxPolls,      \* polls before wait_for_resources times out
    MaxSlots,      \* bound on the number of slots handed out (TLC only)
    None           \* no job, no slot

Thresholds ==      \* the keys of THRESHOLDS
    {"video_assembly", "tts_generation", "llm_inference",
     "background_download", "trend_scanning", "analytics_pull"}

VARIABLES
    active,     \* _active_jobs: the registered slots
    permits,    \* the count of _video_assembly_semaphore
    counter,    \* _job_counter
    shutdown,   \* the shutdown handler's flag
    pc,         \* where each thread is
    caller,     \* which method called can_start_job
    job,        \* the type of the thread's job
    slot,       \* the slot the thread was given
    polls       \* polls left to wait_for_resources

vars == <<active, permits, counter, shutdown, pc, caller, job, slot, polls>>

Exclusive(type) == type = "video_assembly"

ConflictsWith(type) ==
    IF type \in {"tts_generation", "llm_inference"} THEN {"video_assembly"} ELSE {}

Init ==
    /\ active = {}
    /\ permits = MaxAssembly
    /\ counter = 0
    /\ shutdown = FALSE
    /\ pc = [t \in Threads |-> "idle"]
    /\ caller = [t \in Threads |-> "none"]
    /\ job = [t \in Threads |-> None]
    /\ slot = [t \in Threads |-> None]
    /\ polls = [t \in Threads |-> 0]

Goto(t, label) == pc' = [pc EXCEPT ![t] = label]

\* The call is over and its local variables are gone.
Leave(t) ==
    /\ Goto(t, "idle")
    /\ caller' = [caller EXCEPT ![t] = "none"]
    /\ job' = [job EXCEPT ![t] = None]
    /\ polls' = [polls EXCEPT ![t] = 0]

Proceed(t, label) ==
    /\ Goto(t, label)
    /\ UNCHANGED <<caller, job, polls>>

ActiveOf(type) == {a \in active : a.type = type}

-----------------------------------------------------------------------------
\* acquire_job_slot(type) is called ...
Acquire(t) ==
    /\ pc[t] = "idle"
    /\ counter < MaxSlots
    /\ \E type \in JobTypes : job' = [job EXCEPT ![t] = type]
    /\ caller' = [caller EXCEPT ![t] = "acquire"]
    /\ Goto(t, "exclusive")
    /\ UNCHANGED <<active, permits, counter, shutdown, slot, polls>>

\* ... or wait_for_resources(type).
WaitForResources(t) ==
    /\ pc[t] = "idle"
    /\ \E type \in JobTypes : job' = [job EXCEPT ![t] = type]
    /\ caller' = [caller EXCEPT ![t] = "wait"]
    /\ polls' = [polls EXCEPT ![t] = MaxPolls]
    /\ Goto(t, "poll")
    /\ UNCHANGED <<active, permits, counter, shutdown, slot>>

\* Faulty variant: the loop forgets how long it has waited.
PollForever(t) ==
    /\ pc[t] = "poll"
    /\ IF shutdown THEN Leave(t) ELSE Proceed(t, "exclusive")
    /\ UNCHANGED <<active, permits, counter, shutdown, slot>>

\* One turn of the waiting loop: it ends when the time is over or the process
\* is shutting down, else can_start_job is asked.
Poll(t) ==
    /\ pc[t] = "poll"
    /\ IF polls[t] = 0 \/ shutdown
       THEN Leave(t)
       ELSE /\ Goto(t, "exclusive")
            /\ polls' = [polls EXCEPT ![t] = @ - 1]
            /\ UNCHANGED <<caller, job>>
    /\ UNCHANGED <<active, permits, counter, shutdown, slot>>

\* can_start_job returns False: the waiter sleeps and polls again, the
\* acquirer returns None.
Refuse(t) == IF caller[t] = "wait" THEN Proceed(t, "poll") ELSE Leave(t)

\* The exclusive check, under _lock.
CheckExclusive(t) ==
    /\ pc[t] = "exclusive"
    /\ IF Exclusive(job[t]) /\ Cardinality(ActiveOf(job[t])) >= MaxAssembly
       THEN Refuse(t)
       ELSE Proceed(t, "conflicts")
    /\ UNCHANGED <<active, permits, counter, shutdown, slot>>

\* The conflict check, under _lock: only the types that name a conflict look.
CheckConflicts(t) ==
    /\ pc[t] = "conflicts"
    /\ IF \E type \in ConflictsWith(job[t]) : ActiveOf(type) # {}
       THEN Refuse(t)
       ELSE Proceed(t, "measure")
    /\ UNCHANGED <<active, permits, counter, shutdown, slot>>

\* RAM, CPU and disk are read; any answer is possible for a constrained type.
Measure(t) ==
    /\ pc[t] = "measure"
    /\ \/ job[t] \in Thresholds /\ Refuse(t)
       \/ caller[t] = "wait" /\ Leave(t)
       \/ /\ caller[t] = "acquire"
          /\ Proceed(t, IF Exclusive(job[t]) THEN "permit" ELSE "register")
    /\ UNCHANGED <<active, permits, counter, shutdown, slot>>

\* Faulty variant: the result of the semaphore is not looked at.
TakePermitUnchecked(t) ==
    /\ pc[t] = "permit"
    /\ permits' = IF permits > 0 THEN permits - 1 ELSE 0
    /\ Goto(t, "register")
    /\ UNCHANGED <<active, counter, shutdown, caller, job, slot, polls>>

\* semaphore.acquire(blocking=False).
TakePermit(t) ==
    /\ pc[t] = "permit"
    /\ IF permits > 0
       THEN permits' = permits - 1 /\ Proceed(t, "register")
       ELSE Leave(t) /\ UNCHANGED permits
    /\ UNCHANGED <<active, counter, shutdown, slot>>

\* The registration, under _lock; the caller gets its slot and runs.
Register(t) ==
    /\ pc[t] = "register"
    /\ counter' = counter + 1
    /\ slot' = [slot EXCEPT ![t] = counter + 1]
    /\ active' = active \cup {[id |-> counter + 1, type |-> job[t]]}
    /\ Goto(t, "running")
    /\ UNCHANGED <<permits, shutdown, caller, job, polls>>

\* release_job_slot: the slot is popped under _lock ...  Releasing a slot
\* that is no longer registered changes nothing.
PopSlot(t) ==
    /\ pc[t] = "running"
    /\ active' = {a \in active : a.id # slot[t]}
    /\ slot' = [slot EXCEPT ![t] = None]
    /\ IF Exclusive(job[t]) THEN Proceed(t, "popped") ELSE Leave(t)
    /\ UNCHANGED <<permits, counter, shutdown>>

\* Faulty variant: the permit of the popped slot is not given back.
ForgetPermit(t) ==
    /\ pc[t] = "popped"
    /\ Leave(t)
    /\ UNCHANGED <<active, permits, counter, shutdown, slot>>

\* ... and its permit is given back after the lock is released.
ReturnPermit(t) ==
    /\ pc[t] = "popped"
    /\ permits' = permits + 1
    /\ Leave(t)
    /\ UNCHANGED <<active, counter, shutdown, slot>>

\* A signal sets the shutdown flag; it is never cleared.
Signal ==
    /\ ~shutdown
    /\ shutdown' = TRUE
    /\ UNCHANGED <<active, permits, counter, pc, caller, job, slot, polls>>

-----------------------------------------------------------------------------
CanStartStep(t) == CheckExclusive(t) \/ CheckConflicts(t) \/ Measure(t)

AcquireStep(t) == TakePermit(t) \/ Register(t)

ReleaseStep(t) == PopSlot(t) \/ ReturnPermit(t)

\* A thread inside a call goes on.
InCall(t) == Poll(t) \/ CanStartStep(t) \/ AcquireStep(t)

Step(t) ==
    \/ Acquire(t)
    \/ WaitForResources(t)
    \/ Poll(t)
    \/ CanStartStep(t)
    \/ AcquireStep(t)
    \/ ReleaseStep(t)

Next == Signal \/ \E t \in Threads : Step(t)

Spec == Init /\ [][Next]_vars

\* A thread inside a call goes on; nothing makes it call, or its job end.
FairSpec == Spec /\ \A t \in Threads : WF_vars(InCall(t))

-----------------------------------------------------------------------------
Labels == {"idle", "poll", "exclusive", "conflicts", "measure", "permit",
           "register", "running", "popped"}

\* The variables keep their types; the semaphore never exceeds its limit.
TypeOK ==
    /\ active \subseteq [id : Nat, type : JobTypes]
    /\ permits \in 0..MaxAssembly
    /\ counter \in Nat
    /\ shutdown \in BOOLEAN
    /\ pc \in [Threads -> Labels]
    /\ caller \in [Threads -> {"none", "acquire", "wait"}]
    /\ job \in [Threads -> JobTypes \cup {None}]
    /\ slot \in [Threads -> Nat \cup {None}]
    /\ polls \in [Threads -> Nat]

\* Threads whose job runs, and threads that own a permit of the semaphore.
Running(type) == {t \in Threads : pc[t] = "running" /\ job[t] = type}

Owners == {t \in Threads : Exclusive(job[t]) /\ pc[t] \in {"register", "running", "popped"}}

\* Only MaxAssembly video assemblies run at a time (line 15), although the
\* check in can_start_job and the registration are separate lock regions.
AssembliesBounded == Cardinality(Running("video_assembly")) <= MaxAssembly

\* No permit is lost or made up: the free ones and the owned ones add up, in
\* every interleaving of acquirers, refusals and releases.
PermitsAccounted == permits + Cardinality(Owners) = MaxAssembly

\* The registry mirrors the jobs that run: every registered slot belongs to
\* one running thread, and no two threads share one.
SlotsMirrorJobs ==
    /\ active = {[id |-> slot[t], type |-> job[t]] : t \in {u \in Threads : pc[u] = "running"}}
    /\ \A t, u \in Threads :
          pc[t] = "running" /\ pc[u] = "running" /\ slot[t] = slot[u] => t = u

\* wait_for_resources returns: by an answer, by its timeout or by a shutdown.
WaitReturns ==
    \A t \in Threads : (caller[t] = "wait" /\ pc[t] = "poll") ~> (pc[t] = "idle")
=============================================================================
