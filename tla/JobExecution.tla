--------------------------- MODULE JobExecution ----------------------------
(***************************************************************************)
(* What the node side of durable jobs promises, whatever dies or restarts: *)
(* jobs that share a resource key are never granted execution together,    *)
(* only a granted job starts its command, and the command of a job that    *)
(* must not be rerun is started at most once.                              *)
(***************************************************************************)
EXTENDS Integers

CONSTANTS Jobs, keysOf, Rerun

VARIABLES granted, executions

execVars == <<granted, executions>>

Conflict(i, j) == i # j /\ keysOf[i] \cap keysOf[j] # {}

ExecInit == granted = {} /\ executions = [j \in Jobs |-> 0]

Grant(j) ==
    /\ j \notin granted
    /\ \A i \in granted : ~Conflict(i, j)
    /\ granted' = granted \cup {j}
    /\ UNCHANGED executions

Execute(j) ==
    /\ j \in granted
    /\ j \in Rerun \/ executions[j] = 0
    /\ executions' = [executions EXCEPT ![j] = @ + 1]
    /\ UNCHANGED granted

\* A job ends, its runner dies, or the whole node goes down.
Withdraw ==
    /\ granted' \subseteq granted
    /\ UNCHANGED executions

ExecNext == Withdraw \/ \E j \in Jobs : Grant(j) \/ Execute(j)

ExecSpec == ExecInit /\ [][ExecNext]_execVars
=============================================================================
