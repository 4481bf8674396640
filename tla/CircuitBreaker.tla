---------------------------- MODULE CircuitBreaker ----------------------------
(***************************************************************************)
(* CircuitBreaker of modules/infrastructure/circuit_breaker.py: one circuit *)
(* (a brand on a platform) as several processes see it.                     *)
(*                                                                          *)
(* Each process keeps the circuit in a cache that it fills from the         *)
(* circuit_breakers table once and never again; every update writes the row *)
(* and then the cache, without looking at the row.  The methods never       *)
(* await, so within one process a call is one step; the load of the cache   *)
(* is a step of its own.  A statement that raises is swallowed.             *)
(*                                                                          *)
(* opens_until is the time that is left of it; a failure count is only ever *)
(* compared with FAILURE_THRESHOLD, so it stops growing there.              *)
(***************************************************************************)
EXTENDS Naturals

CONSTANTS
    Procs,              \* processes that call the platform
    FAILURE_THRESHOLD,
    TIMEOUT,            \* TIMEOUT_SECONDS, in ticks of the clock
    MaxInFlight,        \* requests a process has under way at a time
    None                \* no row, nothing cached, SQL NULL

VARIABLES
    row,       \* the row of circuit_breakers, or None
    cache,     \* cache[p]: _cache of process p for this circuit, or None
    normal,    \* requests in flight that a closed circuit let through
    tests,     \* requests in flight that were let through to test the platform
    streak,    \* history: failures p recorded since its last success or reset
    quiet      \* history: time left for which that streak should keep p quiet

vars == <<row, cache, normal, tests, streak, quiet>>

States == {"CLOSED", "OPEN", "HALF_OPEN"}

Circuit == [state : States, count : 0..FAILURE_THRESHOLD, until : (0..TIMEOUT) \cup {None}]

Closed == [state |-> "CLOSED", count |-> 0, until |-> None]

Init ==
    /\ row = None
    /\ cache = [p \in Procs |-> None]
    /\ normal = [p \in Procs |-> 0]
    /\ tests = [p \in Procs |-> 0]
    /\ streak = [p \in Procs |-> 0]
    /\ quiet = [p \in Procs |-> 0]

-----------------------------------------------------------------------------
\* _get_state, the first time: the row is read, or made.
Load(p) ==
    /\ cache[p] = None
    /\ row' = IF row = None THEN Closed ELSE row
    /\ cache' = [cache EXCEPT ![p] = row']
    /\ UNCHANGED <<normal, tests, streak, quiet>>

\* What _get_state returns: without a cached entry the read has just failed,
\* and a closed circuit is assumed.
View(p) == IF cache[p] = None THEN Closed ELSE cache[p]

\* _update_state with all fields; an UPDATE of a missing row changes nothing.
Write(p, c) ==
    /\ row' = IF row = None THEN None ELSE c
    /\ cache' = [cache EXCEPT ![p] = c]

WriteFails == UNCHANGED <<row, cache>>

\* Faulty variant: the test of opens_until is turned round.
ElapsedIfUnset(c) == c.state = "OPEN" /\ c.until = None

\* The timeout of an open circuit is over.
Elapsed(c) == c.state = "OPEN" /\ c.until = 0

\* _transition_to_half_open writes the state and nothing else.
HalfOpen(c) == IF c = None THEN None ELSE [c EXCEPT !.state = "HALF_OPEN"]

WriteHalfOpen(p) ==
    /\ row' = HalfOpen(row)
    /\ cache' = [cache EXCEPT ![p] = HalfOpen(cache[p])]

\* allow_request.  An open circuit raises CircuitOpenError: no request.
AllowNormal(p) ==
    /\ View(p).state = "CLOSED"
    /\ normal' = [normal EXCEPT ![p] = @ + 1]
    /\ UNCHANGED <<row, cache, tests>>

AllowTest(p) ==
    /\ \/ View(p).state = "HALF_OPEN" /\ UNCHANGED <<row, cache>>
       \/ Elapsed(View(p)) /\ WriteHalfOpen(p)
       \/ Elapsed(View(p)) /\ WriteFails
    /\ tests' = [tests EXCEPT ![p] = @ + 1]
    /\ UNCHANGED normal

AllowRequest(p) ==
    /\ normal[p] + tests[p] < MaxInFlight
    /\ AllowNormal(p) \/ AllowTest(p)
    /\ UNCHANGED <<streak, quiet>>

-----------------------------------------------------------------------------
\* One of the requests in flight comes back.
Return(p) ==
    \/ /\ normal[p] > 0
       /\ normal' = [normal EXCEPT ![p] = @ - 1]
       /\ UNCHANGED tests
    \/ /\ tests[p] > 0
       /\ tests' = [tests EXCEPT ![p] = @ - 1]
       /\ UNCHANGED normal

Forget(p) ==
    /\ streak' = [streak EXCEPT ![p] = 0]
    /\ quiet' = [quiet EXCEPT ![p] = 0]

\* record_success: the check may half-open the circuit first; then it is
\* closed, in whatever state it was.
RecordSuccess(p) ==
    /\ Return(p)
    /\ \/ Write(p, Closed)
       \/ WriteFails
       \/ Elapsed(View(p)) /\ WriteHalfOpen(p)
    /\ Forget(p)

Bump(n) == IF n < FAILURE_THRESHOLD THEN n + 1 ELSE n

\* Faulty variant: a failed test leaves the circuit half open.
AfterFailureStays(c) ==
    IF Bump(c.count) = FAILURE_THRESHOLD /\ c.state # "HALF_OPEN"
    THEN [state |-> "OPEN", count |-> Bump(c.count), until |-> TIMEOUT]
    ELSE [state |-> IF c.state = "HALF_OPEN" THEN "HALF_OPEN" ELSE "CLOSED",
          count |-> Bump(c.count), until |-> None]

\* What record_failure makes of a circuit.  It does not look at opens_until:
\* a failure while the circuit is open starts the timeout again.
AfterFailure(c) ==
    IF c.state = "HALF_OPEN" \/ Bump(c.count) = FAILURE_THRESHOLD
    THEN [state |-> "OPEN", count |-> Bump(c.count), until |-> TIMEOUT]
    ELSE [state |-> "CLOSED", count |-> Bump(c.count), until |-> None]

\* The history counts what is on record: a failure whose write was lost is not.
RecordFailure(p) ==
    /\ Return(p)
    /\ \/ /\ Write(p, AfterFailure(View(p)))
          /\ streak' = [streak EXCEPT ![p] = Bump(@)]
          /\ quiet' = [quiet EXCEPT ![p] =
                          IF streak'[p] = FAILURE_THRESHOLD THEN TIMEOUT ELSE 0]
       \/ WriteFails /\ UNCHANGED <<streak, quiet>>

-----------------------------------------------------------------------------
\* reset_circuit, by hand.
ResetCircuit(p) ==
    /\ Write(p, Closed)
    /\ Forget(p)
    /\ UNCHANGED <<normal, tests>>

\* reset_all: the table, and the cache of the process that runs it.
ResetAll(p) ==
    /\ row' = IF row = None THEN None ELSE Closed
    /\ cache' = [cache EXCEPT ![p] = None]
    /\ Forget(p)
    /\ UNCHANGED <<normal, tests>>

\* A process ends, with its requests, and is started again.
Restart(p) ==
    /\ cache' = [cache EXCEPT ![p] = None]
    /\ normal' = [normal EXCEPT ![p] = 0]
    /\ tests' = [tests EXCEPT ![p] = 0]
    /\ Forget(p)
    /\ UNCHANGED row

Less(n) == IF n > 0 THEN n - 1 ELSE 0

Older(c) ==
    IF c = None THEN None
    ELSE [c EXCEPT !.until = IF c.until = None THEN None ELSE Less(c.until)]

Tick ==
    /\ row' = Older(row)
    /\ cache' = [p \in Procs |-> Older(cache[p])]
    /\ quiet' = [p \in Procs |-> Less(quiet[p])]
    /\ UNCHANGED <<normal, tests, streak>>

-----------------------------------------------------------------------------
Reply(p) == RecordSuccess(p) \/ RecordFailure(p)

Step(p) ==
    \/ Load(p)
    \/ AllowRequest(p)
    \/ Reply(p)
    \/ ResetCircuit(p)
    \/ ResetAll(p)
    \/ Restart(p)

Next == Tick \/ \E p \in Procs : Step(p)

Spec == Init /\ [][Next]_vars

\* Time passes, every request is answered, and a process with work to publish
\* asks for the circuit again and again.
FairSpec ==
    /\ Spec
    /\ WF_vars(Tick)
    /\ \A p \in Procs : WF_vars(Reply(p)) /\ SF_vars(AllowRequest(p))

-----------------------------------------------------------------------------
\* The variables keep their types.
TypeOK ==
    /\ row \in Circuit \cup {None}
    /\ cache \in [Procs -> Circuit \cup {None}]
    /\ normal \in [Procs -> 0..MaxInFlight]
    /\ tests \in [Procs -> 0..MaxInFlight]
    /\ streak \in [Procs -> 0..FAILURE_THRESHOLD]
    /\ quiet \in [Procs -> 0..TIMEOUT]

\* An open circuit always knows when to let a test through: check_circuit would
\* never leave OPEN if opens_until were NULL, whether the state comes from the
\* table or from a cache, and although half-opening writes one column of a row
\* that another process may just have reset.
OpenHasDeadline ==
    \A c \in {row} \cup {cache[p] : p \in Procs} :
        c # None => (c.state = "OPEN" => c.until # None)

\* FAILURE_THRESHOLD consecutive failures that a process has on record keep it
\* from the platform until TIMEOUT after the last of them (line 11), whatever
\* other processes write to the row in the meantime.
ThresholdBlocks ==
    [][\A p \in Procs : quiet[p] > 0 => normal'[p] + tests'[p] <= normal[p] + tests[p]]_vars

\* An open circuit does not block for ever (line 13): its process sends a
\* request again, or the circuit is no longer open.
OpenIsTested ==
    \A p \in Procs :
        View(p).state = "OPEN" ~> (View(p).state # "OPEN" \/ tests[p] > 0)
=============================================================================
