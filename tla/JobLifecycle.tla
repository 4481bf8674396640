---------------------------- MODULE JobLifecycle ----------------------------
(***************************************************************************)
(* What the job state machine can promise its callers.  A job has one       *)
(* record per job type.  A record is created, and may be created again; it  *)
(* only follows the transition map, and the clean-up may flag it while it   *)
(* is neither finished nor failed.  Once two calls for one job overlap, the *)
(* job is contested and nothing more is promised of its records.            *)
(***************************************************************************)
EXTENDS JobStates

CONSTANTS Jobs, Types

VARIABLE state   \* of every record: "none" before it is created, or "contested"

Records == Jobs \X Types

InitState == state = [r \in Records |-> "none"]

Create(r) ==
    /\ state[r] # "contested"
    /\ state' = [state EXCEPT ![r] = "trend_found"]

Advance(r) ==
    /\ state[r] \in JobState
    /\ \E s \in Allowed(state[r]) : state' = [state EXCEPT ![r] = s]

FlagOrphan(r) ==
    /\ state[r] \in Orphanable
    /\ state' = [state EXCEPT ![r] = "failed"]

Contest ==
    \E js \in SUBSET Jobs :
        state' = [r \in Records |-> IF r[1] \in js THEN "contested" ELSE state[r]]

NextState ==
    \/ \E r \in Records : Create(r) \/ Advance(r) \/ FlagOrphan(r)
    \/ Contest

LifecycleSpec == InitState /\ [][NextState]_state
=============================================================================
