------------------------------- MODULE MCGuards -------------------------------
(***************************************************************************)
(* The three guards that others ask before they work, for TLC in one run: a *)
(* behaviour is one of RateLimits, CircuitBreaker or ResourceScheduler,     *)
(* which share nothing, chosen at its beginning.                            *)
(***************************************************************************)
EXTENDS RateLimits

CONSTANTS
    FAILURE_THRESHOLD, TIMEOUT, MaxInFlight,
    Threads, JobTypes, MaxAssembly, MaxPolls, MaxSlots,
    None

VARIABLES
    row, cache, normal, tests, streak, quiet,
    active, permits, counter, shutdown, place, caller, job, slot, polls,
    which    \* the guard a behaviour is one of

Breaker == INSTANCE CircuitBreaker
Scheduler == INSTANCE ResourceScheduler WITH pc <- place

ASSUME BreakerAssumption ==
    FAILURE_THRESHOLD \in Nat \ {0} /\ TIMEOUT \in Nat \ {0} /\ MaxInFlight \in Nat

ASSUME SchedulerAssumption ==
    IsFiniteSet(Threads) /\ MaxAssembly \in Nat /\ MaxPolls \in Nat /\ MaxSlots \in Nat

ASSUME NoneAssumption == None \notin Breaker!Circuit \cup Nat \cup JobTypes

breakerVars == <<row, cache, normal, tests, streak, quiet>>
schedulerVars == <<active, permits, counter, shutdown, place, caller, job, slot, polls>>

\* The other two have one initial state each; a call is no matter there.
MCInit ==
    /\ Init /\ Breaker!Init /\ Scheduler!Init
    /\ which \in {"limits", "breaker", "scheduler"}
    /\ which # "limits" => call \notin Gapped /\ ~recent

LimitStep ==
    /\ which = "limits" /\ Next
    /\ UNCHANGED <<which, breakerVars, schedulerVars>>

BreakerStep ==
    /\ which = "breaker" /\ Breaker!Next
    /\ UNCHANGED <<which, vars, schedulerVars>>

SchedulerStep ==
    /\ which = "scheduler" /\ Scheduler!Next
    /\ UNCHANGED <<which, vars, breakerVars>>

MCNext == LimitStep \/ BreakerStep \/ SchedulerStep

Breaks(A) == which = "breaker" /\ A

\* The fairness of CircuitBreaker; that of ResourceScheduler is MCResourceScheduler's.
MCSpec ==
    /\ MCInit /\ [][MCNext]_<<which, vars, breakerVars, schedulerVars>>
    /\ WF_breakerVars(Breaks(Breaker!Tick))
    /\ \A p \in Procs :
          /\ WF_breakerVars(Breaks(Breaker!Reply(p)))
          /\ SF_breakerVars(Breaks(Breaker!AllowRequest(p)))

-----------------------------------------------------------------------------
\* A process keeps away from a platform after its failures, whatever others write.
ThresholdBlocks == Breaker!ThresholdBlocks

\* An open circuit is tested in the end.
OpenIsTested == Breaker!OpenIsTested

\* As many video assemblies run as the semaphore has permits, and no more.
AssembliesBounded == Scheduler!AssembliesBounded

\* No permit of the semaphore is lost or made up.
PermitsAccounted == Scheduler!PermitsAccounted

On(platform, endpoint) == [platform |-> platform, endpoint |-> endpoint]

\* A call for each kind of limit, and one that has none.  The quota is no multiple of
\* the units, as 10000 is none of 1600.
MCCalls ==
    {On("instagram", "publish"), On("tiktok", "publish"), On("youtube", "upload"),
     On("youtube", "metadata")}

MCLimit == [c \in MCCalls |-> IF c.platform = "youtube" THEN 5 ELSE 2]
MCUnits == [c \in MCCalls |-> IF c.platform = "youtube" THEN 2 ELSE 1]

\* One exclusive type, one that conflicts with it, one that THRESHOLDS omits.
MCJobTypes == {"video_assembly", "tts_generation", "caption"}
=============================================================================
