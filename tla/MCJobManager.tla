---------------------------- MODULE MCJobManager ----------------------------
(* Instances of JobManager for TLC.                                        *)
EXTENDS JobManager, TLC

CONSTANTS j1, j2, c1, c2

MCJobs == {j1, j2}
MCCalls == {c1, c2}
OwnKeys == [j \in MCJobs |-> IF j = j1 THEN {1} ELSE {2}]

OneJob == {j1}
OneKey == [j \in OneJob |-> {1}]

\* No action asks which jobs were admitted blindly or how often a job was announced, the
\* properties of the cache only whether it was, and no step changes these alone.
CacheView == <<remote, cache, call, {j \in Jobs : settled[j] > 0}, late, revived, restarts>>
=============================================================================
