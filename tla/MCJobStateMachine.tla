------------------------- MODULE MCJobStateMachine -------------------------
(***************************************************************************)
(* Small instances of JobStateMachine: its constants are given by the       *)
(* configurations.  Processes and job types are interchangeable.            *)
(***************************************************************************)
EXTENDS JobStateMachine, TLC

Symmetry == Permutations(Drivers) \cup Permutations(Types)
=============================================================================
