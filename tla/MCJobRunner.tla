---------------------------- MODULE MCJobRunner -----------------------------
(* The instance of JobRunner for TLC: two jobs that share both their keys,  *)
(* of which the second must not be rerun.                                   *)
EXTENDS JobRunner

CONSTANTS j1, j2

MCJobs == {j1, j2}
MCKeys == [j \in MCJobs |-> {1, 2}]
MCRerun == {j1}
=============================================================================
