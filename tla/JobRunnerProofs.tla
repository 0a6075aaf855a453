-------------------------- MODULE JobRunnerProofs ---------------------------
(***************************************************************************)
(* Proofs about JobRunner for every set of jobs, every assignment of       *)
(* resource keys and every number of faults.                               *)
(***************************************************************************)
EXTENDS JobRunner, TLAPS

-----------------------------------------------------------------------------
(* The inductive invariant, in four parts.                                 *)

\* Where processes can be: a runner only in a unit that systemd considers up, a running
\* command only under its runner or in a control group about to be killed, and a
\* cancel script past its stop only over a unit that is down.  A job that was never
\* submitted, or has been removed, has no unit.
PlaceInv ==
    \A j \in Jobs :
        /\ pc[j] # "off" => unit[j] \in {"active", "stopping"}
        /\ command[j] = "running" =>
              \/ pc[j] \in {"loop", "drain", "reap"}
              \/ pc[j] = "off" /\ unit[j] \in {"cleaning", "stopping"}
        /\ canceler[j] \in {"marking", "read"} => unit[j] = "inactive"
        /\ canceler[j] # "off" \/ failer[j] # "off" => status[j] # "absent"
        /\ status[j] \in {"absent", "gone"} => unit[j] = "inactive" /\ j \notin enabled

\* Who holds which locks: nobody two of the same, a runner only its own keys and those
\* in sorted order, all of them from the moment it may touch the command.
LockInv ==
    /\ \A j \in Jobs :
          /\ held[j] \subseteq keysOf[j]
          /\ pc[j] \in {"off", "boot", "giveup"} => held[j] = {}
          /\ pc[j] \in {"locked", "spawn", "loop", "drain", "reap"} => keysOf[j] \subseteq held[j]
          /\ pc[j] \in {"lock", "refused"} =>
                \A m \in held[j], k \in keysOf[j] \ held[j] : m < k
    /\ \A i, j \in Jobs : i # j => held[i] \cap held[j] = {}

\* A job that must not be rerun has not started while it can still start.
OnceInv ==
    \A j \in Jobs \ Rerun :
        /\ starts[j] <= 1
        /\ status[j] \in {"absent", "queued"} => starts[j] = 0
        /\ pc[j] \in {"lock", "locked", "spawn"} => starts[j] = 0
        /\ pc[j] = "spawn" => status[j] \notin {"absent", "queued"}

\* What a success and a cancellation imply about the job's processes, and what a runner
\* and a cancel script that are about to write can find in state.json.
QuietInv ==
    /\ CanceledIsQuiet
    /\ SucceededIsQuiet
    /\ \A j \in Jobs : canceler[j] = "read" => status[j] \in {"queued", "running", "failed", "gone"}
    /\ \A j \in Jobs : pc[j] \in {"spawn", "loop", "reap"} => status[j] \in {"running", "failed"}

IInv == TypeOK /\ PlaceInv /\ LockInv /\ OnceInv /\ QuietInv

-----------------------------------------------------------------------------
(* Every step preserves each part.                                         *)

\* Every step keeps the types.
LEMMA TypeStep ==
    ASSUME TypeOK, [Next]_vars
    PROVE  TypeOK'
<1> USE DEF TypeOK, Status, Terminal, Unit, Pc, Command, vars, runnerVars, unitVars, helperVars, clockVars, Write, Goto, UnitTo, At
<1>1. CASE NodeRestarts
  BY <1>1, KeysAssumption DEF NodeRestarts
<1>2. ASSUME NEW i \in Jobs, JobStep(i) PROVE TypeOK'
  <2>1. CASE Submit(i)
    BY <2>1, KeysAssumption DEF Submit
  <2>2. CASE SubmitPartly(i)
    BY <2>2, KeysAssumption DEF SubmitPartly
  <2>3. CASE Expire(i)
    BY <2>3, KeysAssumption DEF Expire
  <2>4. CASE CommandEnds(i)
    BY <2>4, KeysAssumption DEF CommandEnds
  <2>5. CASE RunnerDies(i)
    BY <2>5, KeysAssumption DEF RunnerDies, Exit
  <2>6. CASE StartUnit(i)
    BY <2>6, KeysAssumption DEF StartUnit, Spawned
  <2>7. CASE RestartUnit(i)
    BY <2>7, KeysAssumption DEF RestartUnit, Spawned
  <2>8. CASE CleanUp(i)
    BY <2>8, KeysAssumption DEF CleanUp
  <2>9. CASE StopDone(i)
    BY <2>9, KeysAssumption DEF StopDone
  <2>10. CASE StopKill(i)
    BY <2>10, KeysAssumption DEF StopKill
  <2>11. CASE ReadState(i)
    <3>1. AfterRead(i) \in {"off", "giveup", "lock"}
      BY DEF AfterRead
    <3>2. CASE AfterRead(i) = "off"
      <4>1. Exit(i, TRUE) /\ UNCHANGED <<status, enabled, command, starts, helperVars, clockVars>>
        BY <2>11, <3>2 DEF ReadState
      <4>2. unit' \in [Jobs -> Unit]
        BY <4>1 DEF Exit
      <4>3. pc' \in [Jobs -> Pc] /\ interrupted' \in [Jobs -> BOOLEAN] /\ held' \in [Jobs -> SUBSET Nat]
        BY <4>1 DEF Exit
      <4> QED
        BY <4>1, <4>2, <4>3
    <3>3. CASE AfterRead(i) = "giveup"
      BY <2>11, <3>3 DEF ReadState
    <3>4. CASE AfterRead(i) = "lock"
      BY <2>11, <3>4 DEF ReadState
    <3> QED
      BY <3>1, <3>2, <3>3, <3>4
  <2>12. CASE GiveUp(i)
    BY <2>12, KeysAssumption DEF GiveUp, Exit
  <2>13. CASE TakeLock(i)
    <3>1. PICK k \in keysOf[i] : held' = [held EXCEPT ![i] = @ \cup {k}]
      BY <2>13 DEF TakeLock
    <3>2. held[i] \cup {k} \in SUBSET Nat
      BY KeysAssumption
    <3>3. held' \in [Jobs -> SUBSET Nat]
      BY <3>1, <3>2
    <3>4. pc' \in [Jobs -> Pc]
      BY <2>13 DEF TakeLock
    <3> QED
      BY <2>13, <3>3, <3>4 DEF TakeLock
  <2>14. CASE LockRefused(i)
    BY <2>14, KeysAssumption DEF LockRefused, NextKey, Busy
  <2>15. CASE CloseTaken(i)
    BY <2>15, KeysAssumption DEF CloseTaken
  <2>16. CASE MarkRunning(i)
    BY <2>16, KeysAssumption DEF MarkRunning
  <2>17. CASE StartCommand(i)
    BY <2>17, KeysAssumption DEF StartCommand
  <2>18. CASE StartRaises(i)
    BY <2>18, KeysAssumption DEF StartRaises
  <2>19. CASE Heartbeat(i)
    BY <2>19, KeysAssumption DEF Heartbeat
  <2>20. CASE LeaveLoop(i)
    BY <2>20, KeysAssumption DEF LeaveLoop
  <2>21. CASE Deadline(i)
    BY <2>21, KeysAssumption DEF Deadline
  <2>22. CASE Finish(i)
    BY <2>22, KeysAssumption DEF Finish
  <2>23. CASE HandleException(i)
    BY <2>23, KeysAssumption DEF HandleException
  <2>24. CASE Release(i)
    BY <2>24, KeysAssumption DEF Release, Exit
  <2>25. CASE ExitInterrupted(i)
    BY <2>25, KeysAssumption DEF ExitInterrupted, Exit
  <2>26. CASE CancelStop(i)
    <3>1. UNCHANGED <<status, enabled, held, command, starts, failer, clockVars>>
      BY <2>26 DEF CancelStop
    <3>2. canceler' = [canceler EXCEPT ![i] = "stopping"] /\ StopEffect(i)
      BY <2>26 DEF CancelStop
    <3>3. unit' \in [Jobs -> Unit]
      BY <3>2 DEF StopEffect
    <3>4. pc' \in [Jobs -> Pc]
      BY <3>2 DEF StopEffect
    <3>5. (pc[i] # "off") \in BOOLEAN
      OBVIOUS
    <3>6. interrupted' \in [Jobs -> BOOLEAN]
      BY <3>2, <3>5, Zenon DEF StopEffect
    <3> QED
      BY <3>1, <3>2, <3>3, <3>4, <3>6
  <2>27. CASE CancelStopped(i)
    BY <2>27, KeysAssumption DEF CancelStopped
  <2>28. CASE CancelRead(i)
    BY <2>28, KeysAssumption DEF CancelRead, Nonterminal
  <2>29. CASE CancelWrite(i)
    BY <2>29, KeysAssumption DEF CancelWrite
  <2>30. CASE CancelLost(i)
    BY <2>30, KeysAssumption DEF CancelLost
  <2>31. CASE GraceOver(i)
    BY <2>31, KeysAssumption DEF GraceOver
  <2>32. CASE FailCheck(i)
    BY <2>32, KeysAssumption DEF FailCheck, Nonterminal, IsActive
  <2>33. CASE FailRead(i)
    BY <2>33, KeysAssumption DEF FailRead, Nonterminal
  <2>34. CASE FailWrite(i)
    BY <2>34, KeysAssumption DEF FailWrite
  <2> QED
    BY <1>2, <2>1, <2>2, <2>3, <2>4, <2>5, <2>6, <2>7, <2>8, <2>9, <2>10, <2>11, <2>12, <2>13, <2>14, <2>15, <2>16, <2>17, <2>18, <2>19, <2>20, <2>21, <2>22, <2>23, <2>24, <2>25, <2>26, <2>27, <2>28, <2>29, <2>30, <2>31, <2>32, <2>33, <2>34 DEF JobStep, Systemd, Runner, Cancel, Recover
<1>3. CASE UNCHANGED vars
  BY <1>3
<1> QED
  BY <1>1, <1>2, <1>3 DEF Next

\* Every step keeps processes in their place.
LEMMA PlaceStep ==
    ASSUME TypeOK, PlaceInv, [Next]_vars
    PROVE  PlaceInv'
<1> USE DEF TypeOK, Status, Terminal, Unit, Pc, Command, PlaceInv, vars, runnerVars, unitVars, helperVars, clockVars, Write, Goto, UnitTo, At
<1>1. CASE NodeRestarts
  BY <1>1 DEF NodeRestarts
<1>2. ASSUME NEW i \in Jobs, JobStep(i) PROVE PlaceInv'
  <2>1. CASE Submit(i)
    BY <2>1 DEF Submit
  <2>2. CASE SubmitPartly(i)
    BY <2>2 DEF SubmitPartly
  <2>3. CASE Expire(i)
    BY <2>3 DEF Expire
  <2>4. CASE CommandEnds(i)
    BY <2>4 DEF CommandEnds
  <2>5. CASE RunnerDies(i)
    BY <2>5 DEF RunnerDies, Exit
  <2>6. CASE StartUnit(i)
    BY <2>6 DEF StartUnit, Spawned
  <2>7. CASE RestartUnit(i)
    BY <2>7 DEF RestartUnit, Spawned
  <2>8. CASE CleanUp(i)
    BY <2>8 DEF CleanUp
  <2>9. CASE StopDone(i)
    BY <2>9 DEF StopDone
  <2>10. CASE StopKill(i)
    BY <2>10 DEF StopKill
  <2>11. CASE ReadState(i)
    BY <2>11 DEF ReadState, AfterRead, Exit, Nonterminal
  <2>12. CASE GiveUp(i)
    BY <2>12 DEF GiveUp, Exit
  <2>13. CASE TakeLock(i)
    BY <2>13 DEF TakeLock, NextKey, Busy
  <2>14. CASE LockRefused(i)
    BY <2>14 DEF LockRefused, NextKey, Busy
  <2>15. CASE CloseTaken(i)
    BY <2>15 DEF CloseTaken
  <2>16. CASE MarkRunning(i)
    BY <2>16 DEF MarkRunning
  <2>17. CASE StartCommand(i)
    BY <2>17 DEF StartCommand
  <2>18. CASE StartRaises(i)
    BY <2>18 DEF StartRaises
  <2>19. CASE Heartbeat(i)
    BY <2>19 DEF Heartbeat
  <2>20. CASE LeaveLoop(i)
    BY <2>20 DEF LeaveLoop
  <2>21. CASE Deadline(i)
    BY <2>21 DEF Deadline
  <2>22. CASE Finish(i)
    BY <2>22 DEF Finish
  <2>23. CASE HandleException(i)
    BY <2>23 DEF HandleException
  <2>24. CASE Release(i)
    BY <2>24 DEF Release, Exit
  <2>25. CASE ExitInterrupted(i)
    BY <2>25 DEF ExitInterrupted, Exit
  <2>26. CASE CancelStop(i)
    BY <2>26 DEF CancelStop, StopEffect
  <2>27. CASE CancelStopped(i)
    BY <2>27 DEF CancelStopped
  <2>28. CASE CancelRead(i)
    BY <2>28 DEF CancelRead, Nonterminal
  <2>29. CASE CancelWrite(i)
    BY <2>29 DEF CancelWrite
  <2>30. CASE CancelLost(i)
    BY <2>30 DEF CancelLost
  <2>31. CASE GraceOver(i)
    BY <2>31 DEF GraceOver
  <2>32. CASE FailCheck(i)
    BY <2>32 DEF FailCheck, Nonterminal, IsActive
  <2>33. CASE FailRead(i)
    BY <2>33 DEF FailRead, Nonterminal
  <2>34. CASE FailWrite(i)
    BY <2>34 DEF FailWrite
  <2> QED
    BY <1>2, <2>1, <2>2, <2>3, <2>4, <2>5, <2>6, <2>7, <2>8, <2>9, <2>10, <2>11, <2>12, <2>13, <2>14, <2>15, <2>16, <2>17, <2>18, <2>19, <2>20, <2>21, <2>22, <2>23, <2>24, <2>25, <2>26, <2>27, <2>28, <2>29, <2>30, <2>31, <2>32, <2>33, <2>34 DEF JobStep, Systemd, Runner, Cancel, Recover
<1>3. CASE UNCHANGED vars
  BY <1>3
<1> QED
  BY <1>1, <1>2, <1>3 DEF Next

\* Every step keeps the locks exclusive and taken in order.
LEMMA LockStep ==
    ASSUME TypeOK, PlaceInv, LockInv, [Next]_vars
    PROVE  LockInv'
<1> USE DEF TypeOK, Status, Terminal, Unit, Pc, Command, PlaceInv, LockInv, vars, runnerVars, unitVars, helperVars, clockVars, Write, Goto, UnitTo, At
<1>1. CASE NodeRestarts
  BY <1>1, KeysAssumption DEF NodeRestarts
<1>2. ASSUME NEW i \in Jobs, JobStep(i) PROVE LockInv'
  <2>1. CASE Submit(i)
    BY <2>1, KeysAssumption DEF Submit
  <2>2. CASE SubmitPartly(i)
    BY <2>2, KeysAssumption DEF SubmitPartly
  <2>3. CASE Expire(i)
    BY <2>3, KeysAssumption DEF Expire
  <2>4. CASE CommandEnds(i)
    BY <2>4, KeysAssumption DEF CommandEnds
  <2>5. CASE RunnerDies(i)
    BY <2>5, KeysAssumption DEF RunnerDies, Exit
  <2>6. CASE StartUnit(i)
    BY <2>6, KeysAssumption DEF StartUnit, Spawned
  <2>7. CASE RestartUnit(i)
    BY <2>7, KeysAssumption DEF RestartUnit, Spawned
  <2>8. CASE CleanUp(i)
    BY <2>8, KeysAssumption DEF CleanUp
  <2>9. CASE StopDone(i)
    BY <2>9, KeysAssumption DEF StopDone
  <2>10. CASE StopKill(i)
    BY <2>10, KeysAssumption DEF StopKill
  <2>11. CASE ReadState(i)
    BY <2>11, KeysAssumption DEF ReadState, AfterRead, Exit, Nonterminal
  <2>12. CASE GiveUp(i)
    BY <2>12, KeysAssumption DEF GiveUp, Exit
  <2>13. CASE TakeLock(i)
    BY <2>13, KeysAssumption DEF TakeLock, NextKey, Busy
  <2>14. CASE LockRefused(i)
    BY <2>14, KeysAssumption DEF LockRefused, NextKey, Busy
  <2>15. CASE CloseTaken(i)
    BY <2>15, KeysAssumption DEF CloseTaken
  <2>16. CASE MarkRunning(i)
    BY <2>16, KeysAssumption DEF MarkRunning
  <2>17. CASE StartCommand(i)
    BY <2>17, KeysAssumption DEF StartCommand
  <2>18. CASE StartRaises(i)
    BY <2>18, KeysAssumption DEF StartRaises
  <2>19. CASE Heartbeat(i)
    BY <2>19, KeysAssumption DEF Heartbeat
  <2>20. CASE LeaveLoop(i)
    BY <2>20, KeysAssumption DEF LeaveLoop
  <2>21. CASE Deadline(i)
    BY <2>21, KeysAssumption DEF Deadline
  <2>22. CASE Finish(i)
    BY <2>22, KeysAssumption DEF Finish
  <2>23. CASE HandleException(i)
    BY <2>23, KeysAssumption DEF HandleException
  <2>24. CASE Release(i)
    BY <2>24, KeysAssumption DEF Release, Exit
  <2>25. CASE ExitInterrupted(i)
    BY <2>25, KeysAssumption DEF ExitInterrupted, Exit
  <2>26. CASE CancelStop(i)
    BY <2>26, KeysAssumption DEF CancelStop, StopEffect
  <2>27. CASE CancelStopped(i)
    BY <2>27, KeysAssumption DEF CancelStopped
  <2>28. CASE CancelRead(i)
    BY <2>28, KeysAssumption DEF CancelRead, Nonterminal
  <2>29. CASE CancelWrite(i)
    BY <2>29, KeysAssumption DEF CancelWrite
  <2>30. CASE CancelLost(i)
    BY <2>30, KeysAssumption DEF CancelLost
  <2>31. CASE GraceOver(i)
    BY <2>31, KeysAssumption DEF GraceOver
  <2>32. CASE FailCheck(i)
    BY <2>32, KeysAssumption DEF FailCheck, Nonterminal, IsActive
  <2>33. CASE FailRead(i)
    BY <2>33, KeysAssumption DEF FailRead, Nonterminal
  <2>34. CASE FailWrite(i)
    BY <2>34, KeysAssumption DEF FailWrite
  <2> QED
    BY <1>2, <2>1, <2>2, <2>3, <2>4, <2>5, <2>6, <2>7, <2>8, <2>9, <2>10, <2>11, <2>12, <2>13, <2>14, <2>15, <2>16, <2>17, <2>18, <2>19, <2>20, <2>21, <2>22, <2>23, <2>24, <2>25, <2>26, <2>27, <2>28, <2>29, <2>30, <2>31, <2>32, <2>33, <2>34 DEF JobStep, Systemd, Runner, Cancel, Recover
<1>3. CASE UNCHANGED vars
  BY <1>3
<1> QED
  BY <1>1, <1>2, <1>3 DEF Next

\* Every step keeps the start count of a job that must not be rerun.
LEMMA OnceStep ==
    ASSUME TypeOK, OnceInv, [Next]_vars
    PROVE  OnceInv'
<1> USE DEF TypeOK, Status, Terminal, Unit, Pc, Command, OnceInv, vars, runnerVars, unitVars, helperVars, clockVars, Write, Goto, UnitTo, At
<1>1. CASE NodeRestarts
  BY <1>1 DEF NodeRestarts
<1>2. ASSUME NEW i \in Jobs, JobStep(i) PROVE OnceInv'
  <2>1. CASE Submit(i)
    BY <2>1 DEF Submit
  <2>2. CASE SubmitPartly(i)
    BY <2>2 DEF SubmitPartly
  <2>3. CASE Expire(i)
    BY <2>3 DEF Expire
  <2>4. CASE CommandEnds(i)
    BY <2>4 DEF CommandEnds
  <2>5. CASE RunnerDies(i)
    BY <2>5 DEF RunnerDies, Exit
  <2>6. CASE StartUnit(i)
    BY <2>6 DEF StartUnit, Spawned
  <2>7. CASE RestartUnit(i)
    BY <2>7 DEF RestartUnit, Spawned
  <2>8. CASE CleanUp(i)
    BY <2>8 DEF CleanUp
  <2>9. CASE StopDone(i)
    BY <2>9 DEF StopDone
  <2>10. CASE StopKill(i)
    BY <2>10 DEF StopKill
  <2>11. CASE ReadState(i)
    BY <2>11 DEF ReadState, AfterRead, Exit, Nonterminal
  <2>12. CASE GiveUp(i)
    BY <2>12 DEF GiveUp, Exit
  <2>13. CASE TakeLock(i)
    BY <2>13 DEF TakeLock, NextKey, Busy
  <2>14. CASE LockRefused(i)
    BY <2>14 DEF LockRefused, NextKey, Busy
  <2>15. CASE CloseTaken(i)
    BY <2>15 DEF CloseTaken
  <2>16. CASE MarkRunning(i)
    BY <2>16 DEF MarkRunning
  <2>17. CASE StartCommand(i)
    BY <2>17 DEF StartCommand
  <2>18. CASE StartRaises(i)
    BY <2>18 DEF StartRaises
  <2>19. CASE Heartbeat(i)
    BY <2>19 DEF Heartbeat
  <2>20. CASE LeaveLoop(i)
    BY <2>20 DEF LeaveLoop
  <2>21. CASE Deadline(i)
    BY <2>21 DEF Deadline
  <2>22. CASE Finish(i)
    BY <2>22 DEF Finish
  <2>23. CASE HandleException(i)
    BY <2>23 DEF HandleException
  <2>24. CASE Release(i)
    BY <2>24 DEF Release, Exit
  <2>25. CASE ExitInterrupted(i)
    BY <2>25 DEF ExitInterrupted, Exit
  <2>26. CASE CancelStop(i)
    BY <2>26 DEF CancelStop, StopEffect
  <2>27. CASE CancelStopped(i)
    BY <2>27 DEF CancelStopped
  <2>28. CASE CancelRead(i)
    BY <2>28 DEF CancelRead, Nonterminal
  <2>29. CASE CancelWrite(i)
    BY <2>29 DEF CancelWrite
  <2>30. CASE CancelLost(i)
    BY <2>30 DEF CancelLost
  <2>31. CASE GraceOver(i)
    BY <2>31 DEF GraceOver
  <2>32. CASE FailCheck(i)
    BY <2>32 DEF FailCheck, Nonterminal, IsActive
  <2>33. CASE FailRead(i)
    BY <2>33 DEF FailRead, Nonterminal
  <2>34. CASE FailWrite(i)
    BY <2>34 DEF FailWrite
  <2> QED
    BY <1>2, <2>1, <2>2, <2>3, <2>4, <2>5, <2>6, <2>7, <2>8, <2>9, <2>10, <2>11, <2>12, <2>13, <2>14, <2>15, <2>16, <2>17, <2>18, <2>19, <2>20, <2>21, <2>22, <2>23, <2>24, <2>25, <2>26, <2>27, <2>28, <2>29, <2>30, <2>31, <2>32, <2>33, <2>34 DEF JobStep, Systemd, Runner, Cancel, Recover
<1>3. CASE UNCHANGED vars
  BY <1>3
<1> QED
  BY <1>1, <1>2, <1>3 DEF Next

\* Every step keeps what an outcome implies.
LEMMA QuietStep ==
    ASSUME TypeOK, PlaceInv, QuietInv, [Next]_vars
    PROVE  QuietInv'
<1> USE DEF TypeOK, Status, Terminal, Unit, Pc, Command, PlaceInv, QuietInv, CanceledIsQuiet, SucceededIsQuiet, vars, runnerVars, unitVars, helperVars, clockVars, Write, Goto, UnitTo, At
<1>1. CASE NodeRestarts
  BY <1>1 DEF NodeRestarts
<1>2. ASSUME NEW i \in Jobs, JobStep(i) PROVE QuietInv'
  <2>1. CASE Submit(i)
    BY <2>1 DEF Submit
  <2>2. CASE SubmitPartly(i)
    BY <2>2 DEF SubmitPartly
  <2>3. CASE Expire(i)
    BY <2>3 DEF Expire
  <2>4. CASE CommandEnds(i)
    BY <2>4 DEF CommandEnds
  <2>5. CASE RunnerDies(i)
    BY <2>5 DEF RunnerDies, Exit
  <2>6. CASE StartUnit(i)
    BY <2>6 DEF StartUnit, Spawned
  <2>7. CASE RestartUnit(i)
    BY <2>7 DEF RestartUnit, Spawned
  <2>8. CASE CleanUp(i)
    BY <2>8 DEF CleanUp
  <2>9. CASE StopDone(i)
    BY <2>9 DEF StopDone
  <2>10. CASE StopKill(i)
    BY <2>10 DEF StopKill
  <2>11. CASE ReadState(i)
    BY <2>11 DEF ReadState, AfterRead, Exit, Nonterminal
  <2>12. CASE GiveUp(i)
    BY <2>12 DEF GiveUp, Exit
  <2>13. CASE TakeLock(i)
    BY <2>13 DEF TakeLock, NextKey, Busy
  <2>14. CASE LockRefused(i)
    BY <2>14 DEF LockRefused, NextKey, Busy
  <2>15. CASE CloseTaken(i)
    BY <2>15 DEF CloseTaken
  <2>16. CASE MarkRunning(i)
    BY <2>16 DEF MarkRunning
  <2>17. CASE StartCommand(i)
    BY <2>17 DEF StartCommand
  <2>18. CASE StartRaises(i)
    BY <2>18 DEF StartRaises
  <2>19. CASE Heartbeat(i)
    BY <2>19 DEF Heartbeat
  <2>20. CASE LeaveLoop(i)
    BY <2>20 DEF LeaveLoop
  <2>21. CASE Deadline(i)
    BY <2>21 DEF Deadline
  <2>22. CASE Finish(i)
    BY <2>22 DEF Finish
  <2>23. CASE HandleException(i)
    BY <2>23 DEF HandleException
  <2>24. CASE Release(i)
    BY <2>24 DEF Release, Exit
  <2>25. CASE ExitInterrupted(i)
    BY <2>25 DEF ExitInterrupted, Exit
  <2>26. CASE CancelStop(i)
    BY <2>26 DEF CancelStop, StopEffect
  <2>27. CASE CancelStopped(i)
    BY <2>27 DEF CancelStopped
  <2>28. CASE CancelRead(i)
    BY <2>28 DEF CancelRead, Nonterminal
  <2>29. CASE CancelWrite(i)
    BY <2>29 DEF CancelWrite
  <2>30. CASE CancelLost(i)
    BY <2>30 DEF CancelLost
  <2>31. CASE GraceOver(i)
    BY <2>31 DEF GraceOver
  <2>32. CASE FailCheck(i)
    BY <2>32 DEF FailCheck, Nonterminal, IsActive
  <2>33. CASE FailRead(i)
    BY <2>33 DEF FailRead, Nonterminal
  <2>34. CASE FailWrite(i)
    BY <2>34 DEF FailWrite
  <2> QED
    BY <1>2, <2>1, <2>2, <2>3, <2>4, <2>5, <2>6, <2>7, <2>8, <2>9, <2>10, <2>11, <2>12, <2>13, <2>14, <2>15, <2>16, <2>17, <2>18, <2>19, <2>20, <2>21, <2>22, <2>23, <2>24, <2>25, <2>26, <2>27, <2>28, <2>29, <2>30, <2>31, <2>32, <2>33, <2>34 DEF JobStep, Systemd, Runner, Cancel, Recover
<1>3. CASE UNCHANGED vars
  BY <1>3
<1> QED
  BY <1>1, <1>2, <1>3 DEF Next


-----------------------------------------------------------------------------
(* The invariant and what follows from it.                                 *)

LEMMA InitInv == Init => IInv
  BY DEF Init, IInv, TypeOK, PlaceInv, LockInv, OnceInv, QuietInv, CanceledIsQuiet,
         SucceededIsQuiet, Status, Terminal, Unit, Pc, Command

LEMMA StepInv == IInv /\ [Next]_vars => IInv'
<1> SUFFICES ASSUME IInv, [Next]_vars PROVE IInv'
  OBVIOUS
<1>1. TypeOK'
  BY TypeStep DEF IInv
<1>2. PlaceInv'
  BY PlaceStep DEF IInv
<1>3. LockInv'
  BY LockStep DEF IInv
<1>4. OnceInv'
  BY OnceStep DEF IInv
<1>5. QuietInv'
  BY QuietStep DEF IInv
<1> QED
  BY <1>1, <1>2, <1>3, <1>4, <1>5 DEF IInv

\* The inductive invariant holds in every reachable state.
THEOREM Invariance == Spec => []IInv
  BY InitInv, StepInv, PTL DEF Spec

\* Type correctness of the node side of durable jobs.
THEOREM TypeCorrect == Spec => []TypeOK
<1>1. IInv => TypeOK
  BY DEF IInv
<1> QED
  BY <1>1, Invariance, PTL

\* Commands of jobs that share a resource key overlap only while one of them is an
\* orphan in a control group about to be killed (acquire_locks, KillMode=control-group).
THEOREM ExclusiveCommandsHold == Spec => []ExclusiveCommands
<1>1. IInv => ExclusiveCommands
  <2> SUFFICES ASSUME IInv,
                      NEW i \in Jobs, NEW j \in Jobs,
                      i # j, keysOf[i] \cap keysOf[j] # {},
                      command[i] = "running", command[j] = "running",
                      ~Orphan(i), ~Orphan(j)
               PROVE  FALSE
    BY DEF ExclusiveCommands
  <2>1. \A m \in {i, j} : keysOf[m] \subseteq held[m]
    BY DEF IInv, PlaceInv, LockInv, Orphan, At
  <2>2. held[i] \cap held[j] = {}
    BY DEF IInv, LockInv
  <2> QED
    BY <2>1, <2>2
<1> QED
  BY <1>1, Invariance, PTL

\* Sorted acquisition: no two jobs are refused because of each other (acquire_locks).
THEOREM NoMutualRefusalHolds == Spec => []NoMutualRefusal
<1>1. IInv => NoMutualRefusal
  <2> SUFFICES ASSUME IInv,
                      NEW i \in Jobs, NEW j \in Jobs,
                      i # j, At(i, "refused"), At(j, "refused"),
                      NEW k \in keysOf[i], NEW m \in keysOf[j],
                      NextKey(i, k), k \in held[j], NextKey(j, m), m \in held[i]
               PROVE  FALSE
    BY DEF NoMutualRefusal
  <2>1. m < k /\ k < m
    BY DEF IInv, LockInv, NextKey, At
  <2>2. k \in Nat /\ m \in Nat
    BY DEF IInv, TypeOK
  <2> QED
    BY <2>1, <2>2
<1> QED
  BY <1>1, Invariance, PTL

\* A job with rerunOnRestart = false starts its command at most once (run).
THEOREM AtMostOnceHolds == Spec => []AtMostOnce
<1>1. IInv => AtMostOnce
  BY DEF IInv, OnceInv, AtMostOnce
<1> QED
  BY <1>1, Invariance, PTL

\* After --cancel has written its state nothing of the job runs (cancel, JobManager.cancel).
THEOREM CanceledIsQuietHolds == Spec => []CanceledIsQuiet
<1>1. IInv => CanceledIsQuiet
  BY DEF IInv, QuietInv
<1> QED
  BY <1>1, Invariance, PTL

\* A success is reported only for a command that was reaped (run).
THEOREM SucceededIsQuietHolds == Spec => []SucceededIsQuiet
<1>1. IInv => SucceededIsQuiet
  BY DEF IInv, QuietInv
<1> QED
  BY <1>1, Invariance, PTL

-----------------------------------------------------------------------------
(* Refinement: every step grants one job, executes one command, withdraws  *)
(* grants, or changes nothing the abstract service knows.                  *)

Granted == {j \in Jobs : keysOf[j] \subseteq held[j]}

LEMMA ExecutionInit == Init => Execution!ExecInit
  BY KeysAssumption DEF Init, Execution!ExecInit

\* Steps that take no lock and start no command only withdraw.
LEMMA OnlyWithdraws ==
    ASSUME \A j \in Jobs : held'[j] \subseteq held[j] \/ held'[j] = {}, UNCHANGED starts
    PROVE  Execution!Withdraw
  BY KeysAssumption DEF Execution!Withdraw

\* Every step of the node implements a step of the execution service or stutters.
LEMMA ExecutionStep ==
    ASSUME IInv, [Next]_vars
    PROVE  [Execution!ExecNext]_(Execution!execVars)
<1> USE DEF IInv, TypeOK, vars, runnerVars, unitVars, helperVars, clockVars, Write, Goto,
            UnitTo, At
<1>1. CASE NodeRestarts
  BY <1>1, OnlyWithdraws DEF NodeRestarts, Execution!ExecNext
<1>2. ASSUME NEW i \in Jobs, JobStep(i) PROVE [Execution!ExecNext]_(Execution!execVars)
  <2>1. CASE Submit(i)
    BY <2>1, OnlyWithdraws DEF Submit, Execution!ExecNext
  <2>2. CASE SubmitPartly(i)
    BY <2>2, OnlyWithdraws DEF SubmitPartly, Execution!ExecNext
  <2>3. CASE Expire(i)
    BY <2>3, OnlyWithdraws DEF Expire, Execution!ExecNext
  <2>4. CASE CommandEnds(i)
    BY <2>4, OnlyWithdraws DEF CommandEnds, Execution!ExecNext
  <2>5. CASE RunnerDies(i)
    BY <2>5, OnlyWithdraws DEF RunnerDies, Exit, Execution!ExecNext
  <2>6. CASE StartUnit(i)
    BY <2>6, OnlyWithdraws DEF StartUnit, Spawned, Execution!ExecNext
  <2>7. CASE RestartUnit(i)
    BY <2>7, OnlyWithdraws DEF RestartUnit, Spawned, Execution!ExecNext
  <2>8. CASE CleanUp(i)
    BY <2>8, OnlyWithdraws DEF CleanUp, Execution!ExecNext
  <2>9. CASE StopDone(i)
    BY <2>9, OnlyWithdraws DEF StopDone, Execution!ExecNext
  <2>10. CASE StopKill(i)
    BY <2>10, OnlyWithdraws DEF StopKill, Execution!ExecNext
  <2>11. CASE ReadState(i)
    BY <2>11, OnlyWithdraws DEF ReadState, AfterRead, Exit, Nonterminal, Execution!ExecNext
  <2>12. CASE GiveUp(i)
    BY <2>12, OnlyWithdraws DEF GiveUp, Exit, Execution!ExecNext
  <2>13. CASE TakeLock(i)
    <3>1. PICK k \in keysOf[i] : ~Busy(i, k) /\ held' = [held EXCEPT ![i] = @ \cup {k}]
      BY <2>13 DEF TakeLock
    <3>2. UNCHANGED starts
      BY <2>13 DEF TakeLock
    <3>3. CASE keysOf[i] \subseteq held[i] \cup {k} /\ ~(keysOf[i] \subseteq held[i])
      <4>1. \A j \in Granted : ~Execution!Conflict(j, i)
        BY <3>1, <3>3, KeysAssumption DEF Granted, Busy, LockInv, Execution!Conflict
      <4>2. Granted' = Granted \cup {i} /\ i \notin Granted
        BY <3>1, <3>3 DEF Granted
      <4> QED
        BY <4>1, <4>2, <3>2 DEF Granted, Execution!Grant, Execution!ExecNext
    <3>4. CASE ~(keysOf[i] \subseteq held[i] \cup {k}) \/ keysOf[i] \subseteq held[i]
      <4>1. Granted' = Granted
        BY <3>1, <3>4 DEF Granted
      <4> QED
        BY <4>1, <3>2 DEF Granted, Execution!execVars
    <3> QED
      BY <3>3, <3>4
  <2>14. CASE LockRefused(i)
    BY <2>14, OnlyWithdraws DEF LockRefused, NextKey, Busy, Execution!ExecNext
  <2>15. CASE CloseTaken(i)
    BY <2>15, OnlyWithdraws DEF CloseTaken, Execution!ExecNext
  <2>16. CASE MarkRunning(i)
    BY <2>16, OnlyWithdraws DEF MarkRunning, Execution!ExecNext
  <2>17. CASE StartCommand(i)
    <3>1. i \in Granted /\ Granted' = Granted
      BY <2>17 DEF StartCommand, LockInv, Granted
    <3>2. i \in Rerun \/ starts[i] = 0
      BY <2>17 DEF StartCommand, OnceInv
    <3>3. starts' = [starts EXCEPT ![i] = @ + 1]
      BY <2>17 DEF StartCommand
    <3> QED
      BY <3>1, <3>2, <3>3 DEF Granted, Execution!Execute, Execution!ExecNext
  <2>18. CASE StartRaises(i)
    BY <2>18, OnlyWithdraws DEF StartRaises, Execution!ExecNext
  <2>19. CASE Heartbeat(i)
    BY <2>19, OnlyWithdraws DEF Heartbeat, Execution!ExecNext
  <2>20. CASE LeaveLoop(i)
    BY <2>20, OnlyWithdraws DEF LeaveLoop, Execution!ExecNext
  <2>21. CASE Deadline(i)
    BY <2>21, OnlyWithdraws DEF Deadline, Execution!ExecNext
  <2>22. CASE Finish(i)
    BY <2>22, OnlyWithdraws DEF Finish, Execution!ExecNext
  <2>23. CASE HandleException(i)
    BY <2>23, OnlyWithdraws DEF HandleException, Execution!ExecNext
  <2>24. CASE Release(i)
    BY <2>24, OnlyWithdraws DEF Release, Exit, Execution!ExecNext
  <2>25. CASE ExitInterrupted(i)
    BY <2>25, OnlyWithdraws DEF ExitInterrupted, Exit, Execution!ExecNext
  <2>26. CASE CancelStop(i)
    BY <2>26, OnlyWithdraws DEF CancelStop, StopEffect, Execution!ExecNext
  <2>27. CASE CancelStopped(i)
    BY <2>27, OnlyWithdraws DEF CancelStopped, Execution!ExecNext
  <2>28. CASE CancelRead(i)
    BY <2>28, OnlyWithdraws DEF CancelRead, Nonterminal, Execution!ExecNext
  <2>29. CASE CancelWrite(i)
    BY <2>29, OnlyWithdraws DEF CancelWrite, Execution!ExecNext
  <2>30. CASE CancelLost(i)
    BY <2>30, OnlyWithdraws DEF CancelLost, Execution!ExecNext
  <2>31. CASE GraceOver(i)
    BY <2>31, OnlyWithdraws DEF GraceOver, Execution!ExecNext
  <2>32. CASE FailCheck(i)
    BY <2>32, OnlyWithdraws DEF FailCheck, Nonterminal, IsActive, Execution!ExecNext
  <2>33. CASE FailRead(i)
    BY <2>33, OnlyWithdraws DEF FailRead, Nonterminal, Execution!ExecNext
  <2>34. CASE FailWrite(i)
    BY <2>34, OnlyWithdraws DEF FailWrite, Execution!ExecNext
  <2> QED
    BY <1>2, <2>1, <2>2, <2>3, <2>4, <2>5, <2>6, <2>7, <2>8, <2>9, <2>10, <2>11, <2>12, <2>13, <2>14, <2>15, <2>16, <2>17, <2>18, <2>19, <2>20, <2>21, <2>22, <2>23, <2>24, <2>25, <2>26, <2>27, <2>28, <2>29, <2>30, <2>31, <2>32, <2>33, <2>34 DEF JobStep, Systemd, Runner, Cancel, Recover
<1>3. CASE UNCHANGED vars
  BY <1>3 DEF Execution!execVars
<1> QED
  BY <1>1, <1>2, <1>3 DEF Next

\* The node side of durable jobs implements the execution service (remote-runner.py).
THEOREM Implements == Spec => ImplementsExecution
<1>1. Init => Execution!ExecInit
  BY ExecutionInit
<1>2. IInv /\ [Next]_vars => [Execution!ExecNext]_(Execution!execVars)
  BY ExecutionStep
<1> QED
  BY <1>1, <1>2, Invariance, PTL DEF Spec, ImplementsExecution, Execution!ExecSpec

-----------------------------------------------------------------------------
(* Refinement: what the writers of state.json do to it.                    *)

Shown(j) == IF Contested(j) THEN "contested" ELSE status[j]

\* The ways in which JobStatus lets a status change, one by one.
MayBecome(s, t) ==
    \/ s = t
    \/ s = "absent" /\ t = "queued"
    \/ s = "queued" /\ t = "running"
    \/ s = "running" /\ t = "succeeded"
    \/ s \in {"queued", "running"} /\ t \in {"failed", "canceled", "contested"}
    \/ s = "contested" /\ t \in {"running", "succeeded", "failed", "canceled"}
    \/ s \in {"succeeded", "canceled"} /\ t = "failed"
    \/ s \in {"succeeded", "failed", "canceled", "contested"} /\ t = "gone"

LEMMA StatusMoves ==
    ASSUME TypeOK', \A j \in Jobs : MayBecome(Shown(j), Shown(j)')
    PROVE  Statuses!StatusNext
<1>1. StatusShown' \in [Jobs -> Statuses!Status]
  BY DEF StatusShown, TypeOK, Status, Terminal, Statuses!Status, Statuses!Unsettled, Statuses!Terminal
<1>2. ASSUME NEW j \in Jobs
      PROVE  \/ Statuses!Submitted(j) \/ Statuses!Written(j) \/ Statuses!Removed(j)
             \/ StatusShown'[j] = StatusShown[j]
  <2>1. StatusShown[j] = Shown(j) /\ StatusShown'[j] = Shown(j)'
    BY DEF StatusShown, Shown
  <2>2. MayBecome(Shown(j), Shown(j)')
    OBVIOUS
  <2> QED
    BY <2>1, <2>2 DEF MayBecome, Statuses!Submitted, Statuses!Written, Statuses!Removed,
       Statuses!Moves, Statuses!Unsettled, Statuses!Terminal
<1> QED
  BY <1>1, <1>2 DEF Statuses!StatusNext

\* A step that writes no state.json can at most end a contest.
LEMMA ContestEnds ==
    ASSUME UNCHANGED status, NEW j \in Jobs, status[j] = "failed" => (Contested(j)' => Contested(j))
    PROVE  MayBecome(Shown(j), Shown(j)')
BY DEF Contested, Shown, MayBecome

LEMMA StatusStep ==
    ASSUME IInv, NEW i \in Jobs, JobStep(i), NEW j \in Jobs
    PROVE  MayBecome(Shown(j), Shown(j)')
<1> USE DEF IInv, TypeOK, Status, Terminal, PlaceInv, QuietInv, CanceledIsQuiet, SucceededIsQuiet,
            vars, runnerVars, unitVars, helperVars, clockVars, Write, Goto, UnitTo, At, Contested
<1>1. CASE Submit(i)
  BY <1>1 DEF Submit, Shown, MayBecome
<1>2. CASE SubmitPartly(i)
  BY <1>2 DEF SubmitPartly, Shown, MayBecome
<1>3. CASE Expire(i)
  BY <1>3 DEF Expire, Shown, MayBecome
<1>4. CASE CommandEnds(i)
  BY <1>4, ContestEnds DEF CommandEnds
<1>5. CASE RunnerDies(i)
  BY <1>5, ContestEnds DEF RunnerDies, Exit
<1>6. CASE StartUnit(i)
  BY <1>6, ContestEnds DEF StartUnit, Spawned
<1>7. CASE RestartUnit(i)
  BY <1>7, ContestEnds DEF RestartUnit, Spawned
<1>8. CASE CleanUp(i)
  BY <1>8, ContestEnds DEF CleanUp
<1>9. CASE StopDone(i)
  BY <1>9, ContestEnds DEF StopDone
<1>10. CASE StopKill(i)
  BY <1>10, ContestEnds DEF StopKill
<1>11. CASE ReadState(i)
  BY <1>11, ContestEnds DEF ReadState, AfterRead, Exit, Nonterminal
<1>12. CASE GiveUp(i)
  BY <1>12 DEF GiveUp, Exit, Shown, MayBecome
<1>13. CASE TakeLock(i)
  BY <1>13, ContestEnds DEF TakeLock, NextKey, Busy
<1>14. CASE LockRefused(i)
  BY <1>14, ContestEnds DEF LockRefused, NextKey, Busy
<1>15. CASE CloseTaken(i)
  BY <1>15, ContestEnds DEF CloseTaken
<1>16. CASE MarkRunning(i)
  BY <1>16 DEF MarkRunning, Shown, MayBecome
<1>17. CASE StartCommand(i)
  BY <1>17, ContestEnds DEF StartCommand
<1>18. CASE StartRaises(i)
  BY <1>18, ContestEnds DEF StartRaises
<1>19. CASE Heartbeat(i)
  BY <1>19 DEF Heartbeat, Shown, MayBecome
<1>20. CASE LeaveLoop(i)
  BY <1>20, ContestEnds DEF LeaveLoop
<1>21. CASE Deadline(i)
  BY <1>21, ContestEnds DEF Deadline
<1>22. CASE Finish(i)
  BY <1>22 DEF Finish, Shown, MayBecome
<1>23. CASE HandleException(i)
  BY <1>23 DEF HandleException, Shown, MayBecome
<1>24. CASE Release(i)
  BY <1>24, ContestEnds DEF Release, Exit
<1>25. CASE ExitInterrupted(i)
  BY <1>25, ContestEnds DEF ExitInterrupted, Exit
<1>26. CASE CancelStop(i)
  BY <1>26, ContestEnds DEF CancelStop, StopEffect
<1>27. CASE CancelStopped(i)
  BY <1>27, ContestEnds DEF CancelStopped
<1>28. CASE CancelRead(i)
  BY <1>28, ContestEnds DEF CancelRead, Nonterminal
<1>29. CASE CancelWrite(i)
  BY <1>29 DEF CancelWrite, Shown, MayBecome
<1>30. CASE CancelLost(i)
  BY <1>30, ContestEnds DEF CancelLost
<1>31. CASE GraceOver(i)
  BY <1>31, ContestEnds DEF GraceOver
<1>32. CASE FailCheck(i)
  BY <1>32, ContestEnds DEF FailCheck, Nonterminal, IsActive
<1>33. CASE FailRead(i)
  BY <1>33, ContestEnds DEF FailRead, Nonterminal
<1>34. CASE FailWrite(i)
  BY <1>34 DEF FailWrite, Shown, MayBecome
<1> QED
  BY <1>1, <1>2, <1>3, <1>4, <1>5, <1>6, <1>7, <1>8, <1>9, <1>10, <1>11, <1>12, <1>13, <1>14, <1>15, <1>16, <1>17,
     <1>18, <1>19, <1>20, <1>21, <1>22, <1>23, <1>24, <1>25, <1>26, <1>27, <1>28, <1>29, <1>30, <1>31, <1>32, <1>33, <1>34
     DEF JobStep, Systemd, Runner, Cancel, Recover

\* Every write of the runner and of the helpers, and every step that lets one of them
\* forget what it read, is a step of JobStatus: no success or cancellation is taken back
\* but by a --fail, and no failure but one whose victim is still at work (run, main).
THEOREM StatusRefined == Spec => ImplementsStatus
<1>1. Init => Statuses!StatusInit
  BY DEF Init, StatusShown, Contested, Statuses!StatusInit
<1>2. IInv /\ [Next]_vars => [Statuses!StatusNext]_StatusShown
  <2> SUFFICES ASSUME IInv, [Next]_vars
               PROVE  Statuses!StatusNext \/ UNCHANGED StatusShown
    OBVIOUS
  <2>0. TypeOK'
    BY TypeStep DEF IInv
  <2>1. CASE NodeRestarts
    <3>1. ASSUME NEW j \in Jobs
          PROVE  MayBecome(Shown(j), Shown(j)')
      BY <2>1, ContestEnds DEF NodeRestarts, Contested
    <3> QED
      BY <2>0, <3>1, StatusMoves
  <2>2. ASSUME NEW i \in Jobs, JobStep(i)
        PROVE  Statuses!StatusNext
    BY <2>0, <2>2, StatusStep, StatusMoves
  <2>3. CASE UNCHANGED vars
    BY <2>3 DEF vars, StatusShown, Contested
  <2> QED
    BY <2>1, <2>2, <2>3 DEF Next
<1> QED
  BY <1>1, <1>2, Invariance, PTL DEF Spec, ImplementsStatus, Statuses!StatusSpec
=============================================================================
