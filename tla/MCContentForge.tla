---------------------------- MODULE MCContentForge ----------------------------
(* Two processes that forge videos of one brand or look after its library.  *)
EXTENDS ContentForge

CONSTANTS p1, p2
MCProcs == {p1, p2}
=============================================================================
