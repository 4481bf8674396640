--------------------------- MODULE GracefulShutdown ---------------------------
(***************************************************************************)
(* GracefulShutdownHandler (modules/infrastructure/shutdown_handler.py):    *)
(* one process, its main thread with its operations, the signals it gets,   *)
(* and the daemon thread that shuts it down.  The lock is held for one      *)
(* dictionary operation at a time, and the signal handler does not take it. *)
(***************************************************************************)
EXTENDS Integers

CONSTANTS
    Operations,
    CHECKS,        \* SHUTDOWN_TIMEOUT divided by check_interval: 24
    MaxCallbacks   \* bound on the callbacks ever registered (TLC only)

VARIABLES
    alive,       \* the process runs
    requested,   \* shutdown_requested is set
    active,      \* _active_operations
    callbacks,   \* how many callbacks are registered
    called,      \* how many of them have been called
    checks,      \* how often _wait_for_operations has looked
    thread       \* where the shutdown is

vars == <<alive, requested, active, callbacks, called, checks, thread>>

Init ==
    /\ alive = TRUE
    /\ requested = FALSE
    /\ active = {}
    /\ callbacks = 0
    /\ called = 0
    /\ checks = 0
    /\ thread = "none"

\* register_operation is open to all, also when the shutdown has begun.
RegisterOperation(o) ==
    /\ alive
    /\ o \notin active
    /\ active' = active \cup {o}
    /\ UNCHANGED <<alive, requested, callbacks, called, checks, thread>>

\* complete_operation, for one that is there.
CompleteOperation(o) ==
    /\ alive
    /\ o \in active
    /\ active' = active \ {o}
    /\ UNCHANGED <<alive, requested, callbacks, called, checks, thread>>

\* register_callback.
RegisterCallback ==
    /\ alive
    /\ callbacks < MaxCallbacks
    /\ callbacks' = callbacks + 1
    /\ UNCHANGED <<alive, requested, active, called, checks, thread>>

\* _handle_signal: the first signal starts the shutdown, the second ends it all.
HandleSignal ==
    /\ alive
    /\ IF requested
          THEN alive' = FALSE /\ UNCHANGED <<requested, thread>>
          ELSE /\ requested' = TRUE
               /\ thread' = "wait"
               /\ UNCHANGED alive
    /\ UNCHANGED <<active, callbacks, called, checks>>

\* Faulty variant: it waits for as long as there are operations.
WaitForOperationsForever ==
    /\ alive
    /\ thread = "wait"
    /\ active = {}
    /\ thread' = "callbacks"
    /\ UNCHANGED <<alive, requested, active, callbacks, called, checks>>

\* _wait_for_operations: another look five seconds later, while there is something
\* to wait for and the timeout is not over.
WaitForOperations ==
    /\ alive
    /\ thread = "wait"
    /\ IF active # {} /\ checks < CHECKS
          THEN checks' = checks + 1 /\ UNCHANGED thread
          ELSE thread' = "callbacks" /\ UNCHANGED checks
    /\ UNCHANGED <<alive, requested, active, callbacks, called>>

\* _execute_callbacks: the next one, and what it raises is swallowed; one that was
\* registered meanwhile is called too.
ExecuteCallback ==
    /\ alive
    /\ thread = "callbacks"
    /\ called < callbacks
    /\ called' = called + 1
    /\ UNCHANGED <<alive, requested, active, callbacks, checks, thread>>

CallbacksDone ==
    /\ alive
    /\ thread = "callbacks"
    /\ called = callbacks
    /\ thread' = "database"
    /\ UNCHANGED <<alive, requested, active, callbacks, called, checks>>

\* _cleanup_database: a checkpoint; the pool has no close, which is swallowed.
CleanupDatabase ==
    /\ alive
    /\ thread = "database"
    /\ thread' = "files"
    /\ UNCHANGED <<alive, requested, active, callbacks, called, checks>>

\* _cleanup_temp_files, and the thread is done; the process is not ended by it.
CleanupTempFiles ==
    /\ alive
    /\ thread = "files"
    /\ thread' = "done"
    /\ UNCHANGED <<alive, requested, active, callbacks, called, checks>>

\* The main thread returns: a daemon thread is not waited for.
MainReturns ==
    /\ alive
    /\ alive' = FALSE
    /\ UNCHANGED <<requested, active, callbacks, called, checks, thread>>

ExecuteShutdown ==
    \/ WaitForOperations \/ ExecuteCallback \/ CallbacksDone
    \/ CleanupDatabase \/ CleanupTempFiles

Next ==
    \/ \E o \in Operations : RegisterOperation(o) \/ CompleteOperation(o)
    \/ RegisterCallback
    \/ HandleSignal
    \/ ExecuteShutdown
    \/ MainReturns

\* The thread is run; nothing says that an operation ends.
Spec == Init /\ [][Next]_vars /\ WF_vars(ExecuteShutdown)

-----------------------------------------------------------------------------
\* The variables keep their types.
TypeOK ==
    /\ alive \in BOOLEAN
    /\ requested \in BOOLEAN
    /\ active \subseteq Operations
    /\ callbacks \in Nat
    /\ called \in 0..callbacks
    /\ checks \in 0..CHECKS
    /\ thread \in {"none", "wait", "callbacks", "database", "files", "done"}

\* A shutdown comes to its end, whatever operations are registered while it waits
\* and however many of them never complete, unless the process is gone before.
ShutdownEnds == requested ~> (thread = "done" \/ ~alive)
=============================================================================
