----------------------------- MODULE JobRunner -----------------------------
(***************************************************************************)
(* One node's durable jobs: the state.json of each job, the process of     *)
(* src/jobs/remote-runner.py that executes it under its systemd unit, the  *)
(* command that process starts, the flock locks of the job's resource      *)
(* keys, and the --cancel and --fail helpers that the control plane starts *)
(* on the node.  The runner and the helpers read and write state.json      *)
(* without a lock, the runner can die between any two steps, and the node  *)
(* can restart.                                                            *)
(*                                                                         *)
(* systemd is external.  Of a unit the model keeps what decides whether    *)
(* the runner runs: a start is pending, the runner is its main process, a  *)
(* stop or the clean-up after a failed main process is killing the control *)
(* group, or a restart is due (Restart=on-failure).                        *)
(*                                                                         *)
(* Abstracted: log text, progress values and timestamps, of which only the *)
(* start grace of a queued job is kept; the content of the result file,    *)
(* whose refusal is one more way to fail.                                  *)
(***************************************************************************)
EXTENDS Integers, FiniteSets

CONSTANTS
    Jobs,        \* job identifiers
    keysOf,      \* the resource keys of each job; keys are numbers, sorted as the code sorts names
    Rerun,       \* the jobs whose rerunOnRestart is not false
    MaxFaults    \* bound on runner deaths and node restarts

ASSUME KeysAssumption == keysOf \in [Jobs -> (SUBSET Nat) \ {{}}]
ASSUME RerunAssumption == Rerun \subseteq Jobs
ASSUME FaultsAssumption == MaxFaults \in Nat

VARIABLES
    status,       \* status[j]: the "status" field of j's state.json on disk
    unit,         \* unit[j]: what systemd is doing with j's unit
    enabled,      \* the units wanted by multi-user.target
    pc,           \* pc[j]: where j's runner process is, "off" when there is none
    interrupted,  \* interrupted[j]: the flag the runner's signal handler sets
    held,         \* held[j]: the keys whose lock file the runner of j has locked
    command,      \* command[j]: the process started for j's command
    starts,       \* starts[j]: how often j's command was started (history)
    canceler,     \* canceler[j]: the cancel script of JobManager on the node
    failer,       \* failer[j]: the recovery script of JobManager on the node
    young,        \* the jobs submitted less than QUEUED_START_GRACE_MS ago
    faults        \* deaths and restarts so far

vars == <<status, unit, enabled, pc, interrupted, held, command, starts,
          canceler, failer, young, faults>>

runnerVars == <<pc, interrupted, held, command, starts>>
unitVars   == <<unit, enabled>>
helperVars == <<canceler, failer>>
clockVars  == <<young, faults>>

Terminal == {"succeeded", "failed", "canceled"}
Status   == {"absent", "queued", "running", "gone"} \cup Terminal
Unit     == {"inactive", "starting", "active", "stopping", "cleaning", "restarting"}
\* refused: a lock was busy and the locks taken so far are still open.  locked: all are
\* taken and state.json is not written yet.  drain: the loop saw the interrupt and waits
\* for the process.  raised: an exception is on its way to the handler.  settled: the
\* terminal state is written and the locks are still open.
Pc       == {"off", "boot", "giveup", "lock", "refused", "locked", "spawn", "loop",
             "drain", "reap", "raised", "settled"}
Command  == {"none", "running", "exited0", "exited1"}

TypeOK ==
    /\ status \in [Jobs -> Status]
    /\ unit \in [Jobs -> Unit]
    /\ enabled \subseteq Jobs
    /\ pc \in [Jobs -> Pc]
    /\ interrupted \in [Jobs -> BOOLEAN]
    /\ held \in [Jobs -> SUBSET Nat]
    /\ command \in [Jobs -> Command]
    /\ starts \in [Jobs -> Nat]
    /\ canceler \in [Jobs -> {"off", "stopping", "marking", "read"}]
    /\ failer \in [Jobs -> {"off", "inactive", "read"}]
    /\ young \subseteq Jobs
    /\ faults \in Nat

Init ==
    /\ status = [j \in Jobs |-> "absent"]
    /\ unit = [j \in Jobs |-> "inactive"]
    /\ enabled = {}
    /\ pc = [j \in Jobs |-> "off"]
    /\ interrupted = [j \in Jobs |-> FALSE]
    /\ held = [j \in Jobs |-> {}]
    /\ command = [j \in Jobs |-> "none"]
    /\ starts = [j \in Jobs |-> 0]
    /\ canceler = [j \in Jobs |-> "off"]
    /\ failer = [j \in Jobs |-> "off"]
    /\ young = {}
    /\ faults = 0

Nonterminal(j) == status[j] \in {"queued", "running"}
At(j, l)       == pc[j] = l
Goto(j, l)     == pc' = [pc EXCEPT ![j] = l]
Write(j, s)    == status' = [status EXCEPT ![j] = s]
UnitTo(j, u)   == unit' = [unit EXCEPT ![j] = u]

-----------------------------------------------------------------------------
(* The submission script: job directory, unit file, enable, start.         *)

\* The script ran to its end: state.json says queued and the start is pending.
Submit(j) ==
    /\ status[j] = "absent"
    /\ Write(j, "queued")
    /\ UnitTo(j, "starting")
    /\ enabled' = enabled \cup {j}
    /\ young' = young \cup {j}
    /\ UNCHANGED <<runnerVars, helperVars, faults>>

\* The script (set -e) stopped after state.json was in place: before or after the unit
\* was enabled, in any case before it was started.
SubmitPartly(j) ==
    /\ status[j] = "absent"
    /\ Write(j, "queued")
    /\ enabled' \in {enabled, enabled \cup {j}}
    /\ young' = young \cup {j}
    /\ UNCHANGED <<unit, runnerVars, helperVars, faults>>

-----------------------------------------------------------------------------
(* systemd.                                                                *)

Spawned(j) ==
    /\ UnitTo(j, "active")
    /\ Goto(j, "boot")
    /\ UNCHANGED <<status, enabled, interrupted, held, command, starts, helperVars, clockVars>>

StartUnit(j)   == unit[j] = "starting" /\ Spawned(j)
RestartUnit(j) == unit[j] = "restarting" /\ Spawned(j)

\* The main process failed: the rest of the control group is killed, a restart is due.
CleanUp(j) ==
    /\ unit[j] = "cleaning"
    /\ UnitTo(j, "restarting")
    /\ command' = [command EXCEPT ![j] = "none"]
    /\ UNCHANGED <<status, enabled, pc, interrupted, held, starts, helperVars, clockVars>>

\* A stop is done when the control group is empty.
StopDone(j) ==
    /\ unit[j] = "stopping"
    /\ At(j, "off") /\ command[j] # "running"
    /\ UnitTo(j, "inactive")
    /\ command' = [command EXCEPT ![j] = "none"]
    /\ UNCHANGED <<status, enabled, pc, interrupted, held, starts, helperVars, clockVars>>

\* TimeoutStopSec passed: SIGKILL to the control group.
StopKill(j) ==
    /\ unit[j] = "stopping"
    /\ UnitTo(j, "inactive")
    /\ Goto(j, "off")
    /\ interrupted' = [interrupted EXCEPT ![j] = FALSE]
    /\ held' = [held EXCEPT ![j] = {}]
    /\ command' = [command EXCEPT ![j] = "none"]
    /\ UNCHANGED <<status, enabled, starts, helperVars, clockVars>>

-----------------------------------------------------------------------------
(* run(spec_path).                                                         *)

\* The process is gone, its lock files with it.  A main process that failed has its
\* control group cleaned and is restarted, unless a stop is under way.
Exit(j, ok) ==
    /\ Goto(j, "off")
    /\ interrupted' = [interrupted EXCEPT ![j] = FALSE]
    /\ held' = [held EXCEPT ![j] = {}]
    /\ UnitTo(j, IF unit[j] = "stopping" THEN "stopping"
                 ELSE IF ok THEN "inactive" ELSE "cleaning")

\* Mutant: rerunOnRestart is ignored.
AfterRead_AlwaysRerun(j) == IF ~Nonterminal(j) THEN "off" ELSE "lock"

\* Mutant: "canceled" is missing from the terminal states.
AfterRead_CanceledForgotten(j) ==
    IF status[j] \in {"succeeded", "failed", "gone"} THEN "off" ELSE "lock"

\* What run() makes of the state it reads: nothing to do, do not run it twice, or go on.
AfterRead(j) ==
    IF ~Nonterminal(j) THEN "off"
    ELSE IF status[j] = "running" /\ j \notin Rerun THEN "giveup"
    ELSE "lock"

ReadState(j) ==
    /\ At(j, "boot")
    /\ IF AfterRead(j) = "off"
         THEN Exit(j, TRUE)
         ELSE Goto(j, AfterRead(j)) /\ UNCHANGED <<unit, interrupted, held>>
    /\ UNCHANGED <<status, enabled, command, starts, helperVars, clockVars>>

\* Mutant: a status that JobStatusSchema does not know.
GiveUp_UnknownStatus(j) ==
    /\ At(j, "giveup")
    /\ Write(j, "interrupted")
    /\ Exit(j, TRUE)
    /\ UNCHANGED <<enabled, command, starts, helperVars, clockVars>>

\* The command may have run before the interruption: fail the job instead.
GiveUp(j) ==
    /\ At(j, "giveup")
    /\ Write(j, "failed")
    /\ Exit(j, TRUE)
    /\ UNCHANGED <<enabled, command, starts, helperVars, clockVars>>

\* Mutant: the keys are locked in any order.
NextKey_Unsorted(j, k) == k \in keysOf[j] \ held[j]

\* The keys are locked one at a time in sorted order.
NextKey(j, k) ==
    /\ k \in keysOf[j] \ held[j]
    /\ \A m \in keysOf[j] \ held[j] : k <= m

\* Mutant: LOCK_SH instead of LOCK_EX.
Busy_Shared(j, k) == FALSE

Busy(j, k) == \E i \in Jobs \ {j} : k \in held[i]

TakeLock(j) ==
    /\ At(j, "lock")
    /\ \E k \in keysOf[j] :
          /\ NextKey(j, k)
          /\ ~Busy(j, k)
          /\ held' = [held EXCEPT ![j] = @ \cup {k}]
          /\ Goto(j, IF keysOf[j] \subseteq held[j] \cup {k} THEN "locked" ELSE "lock")
    /\ UNCHANGED <<status, unitVars, interrupted, command, starts, helperVars, clockVars>>

\* LOCK_NB: a busy lock is an error, never a wait.
LockRefused(j) ==
    /\ At(j, "lock")
    /\ \E k \in keysOf[j] : NextKey(j, k) /\ Busy(j, k)
    /\ Goto(j, "refused")
    /\ UNCHANGED <<status, unitVars, interrupted, held, command, starts, helperVars, clockVars>>

CloseTaken(j) ==
    /\ At(j, "refused")
    /\ held' = [held EXCEPT ![j] = {}]
    /\ Goto(j, "raised")
    /\ UNCHANGED <<status, unitVars, interrupted, command, starts, helperVars, clockVars>>

MarkRunning(j) ==
    /\ At(j, "locked")
    /\ Write(j, "running")
    /\ Goto(j, "spawn")
    /\ UNCHANGED <<unitVars, interrupted, held, command, starts, helperVars, clockVars>>

StartCommand(j) ==
    /\ At(j, "spawn")
    /\ command' = [command EXCEPT ![j] = "running"]
    /\ starts' = [starts EXCEPT ![j] = @ + 1]
    /\ Goto(j, "loop")
    /\ UNCHANGED <<status, unitVars, interrupted, held, helperVars, clockVars>>

\* No such user or executable.
StartRaises(j) ==
    /\ At(j, "spawn")
    /\ Goto(j, "raised")
    /\ UNCHANGED <<status, unitVars, interrupted, held, command, starts, helperVars, clockVars>>

\* A progress line or a due heartbeat writes the runner's own copy of the state, whose
\* status is running, whatever is on disk; also after the handler has set the flag, until
\* the loop looks at it.
Heartbeat(j) ==
    /\ At(j, "loop")
    /\ status[j] # "running"
    /\ Write(j, "running")
    /\ UNCHANGED <<unitVars, runnerVars, helperVars, clockVars>>

\* The loop sees the flag, or the end of the command's output.
LeaveLoop(j) ==
    /\ At(j, "loop")
    /\ \/ interrupted[j] /\ Goto(j, "drain")
       \/ ~interrupted[j] /\ Goto(j, "reap")
    /\ UNCHANGED <<status, unitVars, interrupted, held, command, starts, helperVars, clockVars>>

\* The runtime limit passed: SIGTERM, five seconds, SIGKILL, then the exception.
Deadline(j) ==
    /\ pc[j] \in {"loop", "reap"}
    /\ command[j] = "running"
    /\ command' = [command EXCEPT ![j] = "none"]
    /\ Goto(j, "raised")
    /\ UNCHANGED <<status, unitVars, interrupted, held, starts, helperVars, clockVars>>

\* Mutant: the end of the output is taken for the end of the command.
Finish_WithoutWait(j) ==
    /\ At(j, "reap")
    /\ Write(j, IF command[j] = "exited1" THEN "failed" ELSE "succeeded")
    /\ Goto(j, "settled")
    /\ UNCHANGED <<unitVars, interrupted, held, command, starts, helperVars, clockVars>>

\* The result of a command that ended by itself.
Finish(j) ==
    /\ At(j, "reap")
    /\ command[j] \in {"exited0", "exited1"}
    /\ \/ command[j] = "exited0" /\ Write(j, "succeeded") /\ Goto(j, "settled")
       \/ command[j] = "exited1" /\ Write(j, "failed") /\ Goto(j, "settled")
       \/ UNCHANGED status /\ Goto(j, "raised")    \* collect_result refuses the file
    /\ command' = [command EXCEPT ![j] = "none"]
    /\ UNCHANGED <<unitVars, interrupted, held, starts, helperVars, clockVars>>

\* except Exception: the job failed.
HandleException(j) ==
    /\ At(j, "raised")
    /\ Write(j, "failed")
    /\ Goto(j, "settled")
    /\ UNCHANGED <<unitVars, interrupted, held, command, starts, helperVars, clockVars>>

\* finally: the locks are closed and the process ends.
Release(j) ==
    /\ At(j, "settled")
    /\ Exit(j, TRUE)
    /\ UNCHANGED <<status, enabled, command, starts, helperVars, clockVars>>

\* SystemExit(75) once the interrupted command is gone; state.json still says running.
ExitInterrupted(j) ==
    /\ At(j, "drain")
    /\ command[j] # "running"
    /\ Exit(j, FALSE)
    /\ command' = [command EXCEPT ![j] = "none"]
    /\ UNCHANGED <<status, enabled, starts, helperVars, clockVars>>

\* The command ends by itself or by a signal.
CommandEnds(j) ==
    /\ command[j] = "running"
    /\ \E e \in {"exited0", "exited1"} : command' = [command EXCEPT ![j] = e]
    /\ UNCHANGED <<status, unitVars, pc, interrupted, held, starts, helperVars, clockVars>>

-----------------------------------------------------------------------------
(* The scripts JobManager.cancel and JobManager.reconcile run on the node. *)

\* systemctl stop: SIGTERM to the control group.  The runner dies of it until its
\* handlers are installed; the handler sets the flag and passes the signal on.
StopEffect(j) ==
    IF unit[j] \in {"active", "stopping", "cleaning"}
      THEN /\ UnitTo(j, "stopping")
           /\ IF pc[j] \in {"boot", "giveup"}
                THEN /\ Goto(j, "off")
                     /\ UNCHANGED interrupted
                ELSE /\ interrupted' = [interrupted EXCEPT ![j] = pc[j] # "off"]
                     /\ UNCHANGED pc
      ELSE /\ UnitTo(j, "inactive")
           /\ UNCHANGED <<pc, interrupted>>

\* cancel() has seen the job unfinished; by now it may have ended.
CancelStop(j) ==
    /\ canceler[j] = "off"
    /\ status[j] # "absent"
    /\ StopEffect(j)
    /\ canceler' = [canceler EXCEPT ![j] = "stopping"]
    /\ UNCHANGED <<status, enabled, held, command, starts, failer, clockVars>>

\* Mutant: systemctl stop --no-block.
CancelStopped_NoBlock(j) ==
    /\ canceler[j] = "stopping"
    /\ canceler' = [canceler EXCEPT ![j] = "marking"]
    /\ UNCHANGED <<status, unitVars, runnerVars, failer, clockVars>>

\* systemctl stop returns when the unit is down.
CancelStopped(j) ==
    /\ canceler[j] = "stopping"
    /\ unit[j] = "inactive"
    /\ canceler' = [canceler EXCEPT ![j] = "marking"]
    /\ UNCHANGED <<status, unitVars, runnerVars, failer, clockVars>>

\* remote-runner.py --cancel reads state.json.
CancelRead(j) ==
    /\ canceler[j] = "marking"
    /\ canceler' = [canceler EXCEPT ![j] = IF Nonterminal(j) THEN "read" ELSE "off"]
    /\ UNCHANGED <<status, unitVars, runnerVars, failer, clockVars>>

CancelWrite(j) ==
    /\ canceler[j] = "read"
    /\ IF status[j] = "gone" THEN UNCHANGED status ELSE Write(j, "canceled")
    /\ canceler' = [canceler EXCEPT ![j] = "off"]
    /\ UNCHANGED <<unitVars, runnerVars, failer, clockVars>>

\* The script is lost with its connection.
CancelLost(j) ==
    /\ canceler[j] # "off"
    /\ canceler' = [canceler EXCEPT ![j] = "off"]
    /\ UNCHANGED <<status, unitVars, runnerVars, failer, clockVars>>

\* Mutant: "inactive" is listed among the active states.
IsActive_Inactive(j) == unit[j] # "starting"

\* What systemctl is-active calls active, activating, reloading or deactivating.  A
\* start that is only queued is not among them.
IsActive(j) == unit[j] \in {"active", "stopping", "cleaning", "restarting"}

\* reconcile() has seen the job unfinished; by now it may have ended.
FailCheck(j) ==
    /\ failer[j] = "off"
    /\ status[j] # "absent"
    /\ status[j] = "queued" => j \notin young
    /\ ~IsActive(j)
    /\ failer' = [failer EXCEPT ![j] = "inactive"]
    /\ UNCHANGED <<status, unitVars, runnerVars, canceler, clockVars>>

\* The grace for a queued job to start is over.
GraceOver(j) ==
    /\ j \in young
    /\ young' = young \ {j}
    /\ UNCHANGED <<status, unitVars, runnerVars, helperVars, faults>>

\* remote-runner.py --fail reads state.json.
FailRead(j) ==
    /\ failer[j] = "inactive"
    /\ failer' = [failer EXCEPT ![j] = IF Nonterminal(j) THEN "read" ELSE "off"]
    /\ UNCHANGED <<status, unitVars, runnerVars, canceler, clockVars>>

FailWrite(j) ==
    /\ failer[j] = "read"
    /\ IF status[j] = "gone" THEN UNCHANGED status ELSE Write(j, "failed")
    /\ failer' = [failer EXCEPT ![j] = "off"]
    /\ UNCHANGED <<unitVars, runnerVars, canceler, clockVars>>

\* Retention is over: disable --now, then the unit file and the job directory go.
Expire(j) ==
    /\ status[j] \in Terminal
    /\ Write(j, "gone")
    /\ UnitTo(j, "inactive")
    /\ enabled' = enabled \ {j}
    /\ Goto(j, "off")
    /\ interrupted' = [interrupted EXCEPT ![j] = FALSE]
    /\ held' = [held EXCEPT ![j] = {}]
    /\ command' = [command EXCEPT ![j] = "none"]
    /\ UNCHANGED <<starts, helperVars, clockVars>>

-----------------------------------------------------------------------------
(* Faults.                                                                 *)

\* The runner is killed.  Its locks go with it; its command does not.
RunnerDies(j) ==
    /\ faults < MaxFaults
    /\ ~At(j, "off")
    /\ Exit(j, FALSE)
    /\ faults' = faults + 1
    /\ UNCHANGED <<status, enabled, command, starts, helperVars, young>>

\* The node restarts: files survive, processes and locks do not, and the enabled units
\* have a start pending.
NodeRestarts ==
    /\ faults < MaxFaults
    /\ faults' = faults + 1
    /\ unit' = [j \in Jobs |-> IF j \in enabled THEN "starting" ELSE "inactive"]
    /\ pc' = [j \in Jobs |-> "off"]
    /\ interrupted' = [j \in Jobs |-> FALSE]
    /\ held' = [j \in Jobs |-> {}]
    /\ command' = [j \in Jobs |-> "none"]
    /\ canceler' = [j \in Jobs |-> "off"]
    /\ failer' = [j \in Jobs |-> "off"]
    /\ UNCHANGED <<status, enabled, starts, young>>

-----------------------------------------------------------------------------
Runner(j) ==
    \/ ReadState(j) \/ GiveUp(j)
    \/ TakeLock(j) \/ LockRefused(j) \/ CloseTaken(j)
    \/ MarkRunning(j) \/ StartCommand(j) \/ StartRaises(j)
    \/ Heartbeat(j) \/ LeaveLoop(j) \/ Deadline(j) \/ Finish(j)
    \/ HandleException(j) \/ Release(j) \/ ExitInterrupted(j)

Systemd(j) == StartUnit(j) \/ RestartUnit(j) \/ CleanUp(j) \/ StopDone(j) \/ StopKill(j)

Cancel(j) == CancelStop(j) \/ CancelStopped(j) \/ CancelRead(j) \/ CancelWrite(j) \/ CancelLost(j)

Recover(j) == GraceOver(j) \/ FailCheck(j) \/ FailRead(j) \/ FailWrite(j)

JobStep(j) ==
    \/ Submit(j) \/ SubmitPartly(j) \/ Expire(j)
    \/ Systemd(j) \/ Runner(j) \/ CommandEnds(j) \/ Cancel(j) \/ Recover(j)
    \/ RunnerDies(j)

Next == NodeRestarts \/ \E j \in Jobs : JobStep(j)

Spec == Init /\ [][Next]_vars

\* systemd and the runner keep going, a command ends or meets its deadline, and the
\* reconcile timer keeps firing.  Submission, cancellation, expiry and faults are free.
Fairness ==
    \A j \in Jobs :
        /\ WF_vars(Systemd(j))
        /\ WF_vars(ReadState(j)) /\ WF_vars(GiveUp(j))
        /\ WF_vars(TakeLock(j) \/ LockRefused(j)) /\ WF_vars(CloseTaken(j))
        /\ WF_vars(MarkRunning(j)) /\ WF_vars(StartCommand(j) \/ StartRaises(j))
        /\ WF_vars(LeaveLoop(j)) /\ WF_vars(Deadline(j)) /\ WF_vars(Finish(j))
        /\ WF_vars(HandleException(j)) /\ WF_vars(Release(j)) /\ WF_vars(ExitInterrupted(j))
        /\ WF_vars(CommandEnds(j))
        /\ WF_vars(GraceOver(j)) /\ WF_vars(FailCheck(j)) /\ WF_vars(FailRead(j)) /\ WF_vars(FailWrite(j))

FairSpec == Spec /\ Fairness

-----------------------------------------------------------------------------
(* Properties.                                                             *)

\* A command whose runner is gone and whose control group systemd is about to kill.
Orphan(j) == At(j, "off") /\ unit[j] \in {"cleaning", "stopping"}

\* The commands of two jobs that share a resource key run together only while one of
\* them is an orphan: flock dies with the runner that acquire_locks gave it to, the
\* command of that runner a little later.
ExclusiveCommands ==
    \A i, j \in Jobs :
        (/\ i # j /\ keysOf[i] \cap keysOf[j] # {}
         /\ command[i] = "running" /\ command[j] = "running")
            => Orphan(i) \/ Orphan(j)

\* acquire_locks sorts the keys: two jobs are never refused because of each other, so
\* of two jobs that collide at least one goes on, although nobody waits for a lock.
NoMutualRefusal ==
    \A i, j \in Jobs :
        i # j /\ At(i, "refused") /\ At(j, "refused")
            => ~ \E k \in keysOf[i], m \in keysOf[j] :
                    NextKey(i, k) /\ k \in held[j] /\ NextKey(j, m) /\ m \in held[i]

\* run() executes the command of a job with rerunOnRestart = false at most once, over
\* every restart of the unit or of the node and whatever the helpers write meanwhile.
AtMostOnce == \A j \in Jobs \ Rerun : starts[j] <= 1

\* Once --cancel has recorded the cancellation nothing of the job runs, and no runner
\* is past its first look at state.json: cancel() stops the unit and waits for it.
CanceledIsQuiet ==
    \A j \in Jobs :
        status[j] = "canceled" => pc[j] \in {"off", "boot"} /\ command[j] # "running"

\* run() reports success only for a command it has reaped.
SucceededIsQuiet ==
    \A j \in Jobs :
        status[j] = "succeeded" => pc[j] \in {"off", "boot", "settled"} /\ command[j] # "running"

\* Every job that is queued or running leaves that state: the runner finishes it, or,
\* when its unit was stopped, never started or lost, reconciliation fails it.
EveryJobSettles ==
    \A j \in Jobs : Nonterminal(j) ~> ~Nonterminal(j)

\* The runner and systemd together implement the abstract execution service: a job is
\* granted while its runner holds all its locks.
Execution == INSTANCE JobExecution WITH
    granted <- {j \in Jobs : keysOf[j] \subseteq held[j]},
    executions <- starts

ImplementsExecution == Execution!ExecSpec

\* A job that --fail has failed although its runner is past its first look at state.json,
\* or a --cancel is: either will write once more.
Contested(j) ==
    /\ status[j] = "failed"
    /\ pc[j] \in {"lock", "locked", "spawn", "loop", "reap"} \/ canceler[j] = "read"

StatusShown == [j \in Jobs |-> IF Contested(j) THEN "contested" ELSE status[j]]

Statuses == INSTANCE JobStatus WITH status <- StatusShown

\* Whatever the runner, --cancel and --fail read and write in whatever order, state.json
\* goes through what JobStatus allows: no success or cancellation is taken back but by a
\* --fail that read earlier, and no failure but one whose runner is still at work.
ImplementsStatus == Statuses!StatusSpec
=============================================================================
