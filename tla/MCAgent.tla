------------------------------ MODULE MCAgent ------------------------------
(* Two tasks share an agent whose responses call at most one tool; calls    *)
(* interleave at every lock they take.                                      *)
EXTENDS Agent

MCModes == {"parallel"}
=============================================================================
