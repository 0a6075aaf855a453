------------------------------- MODULE Broker -------------------------------
(***************************************************************************)
(* The brokers of the modules that compute in a sandbox: python-compute,   *)
(* image-render and image-processing, each a service.py over a sandbox.py. *)
(* A broker accepts one request per connection in a thread of its own,     *)
(* admits it (rate limit, slots), runs it in a per-call directory, most    *)
(* often in a bubblewrap process it watches, stores what the call made     *)
(* against a reservation it took before, and answers.                      *)
(*                                                                         *)
(* document-ocr works the same way without a broker: each adapter process  *)
(* takes the GPU's lock and runs a container itself.                       *)
(*                                                                         *)
(* `service` is chosen in Init.  Admission differs by service, and so do   *)
(* who notices a caller that left and what is stored after a failure.      *)
(* What a process writes, and how large a response is, are left open.      *)
(***************************************************************************)
EXTENDS Integers, FiniteSets

CONSTANTS
    Calls,        \* slots for connections being served
    Slots,        \* concurrentCalls, CONCURRENT_RENDERS, CONCURRENT_CALLS
    PerMinute     \* calls accepted within 60 seconds

VARIABLES
    service,      \* which of the brokers this is
    up,           \* the broker accepts connections
    call,         \* call[c]: the connection in slot c
    free,         \* free[k]: what is left of the semaphore of class k
    recent,       \* RECENT_CALLS: calls accepted less than 60 seconds ago
    left,         \* directories of dead calls lie in calls/
    orphans       \* reservations of dead calls lie in the artifact store

vars == <<service, up, call, free, recent, left, orphans>>

Services == {"compute", "render", "process", "ocr"}
Classes == {"main", "background", "check", "import", "gpu"}

\* Only python-compute has a slot for background calls, image-render those for checks
\* and imports, and document-ocr the lock of the GPU.
Capacity == [k \in Classes |-> IF k = "main" THEN Slots ELSE 1]

\* light: answered without a sandbox.  imports: python_env's import check.  analyze:
\* python_check.  polyhaven: an import, staged and stored without a process.
Kinds == [compute |-> {"ping", "light", "imports", "analyze", "run"},
          render  |-> {"ping", "light", "polyhaven", "check", "scene", "benchmark"},
          process |-> {"ping", "light", "image"},
          ocr     |-> {"light", "extract"}]

Requests ==
    [kind : Kinds[service], background : BOOLEAN, store : BOOLEAN]

\* What the handlers and schemas let through: background execution is for python_run,
\* render_scene and render_benchmark, artifact output for the calls that have an output.
Valid(r) ==
    /\ r.background => r.kind \in {"run", "scene", "benchmark"}
    /\ r.store => r.kind \in {"run", "scene", "image", "polyhaven", "extract"}
    /\ r.kind = "polyhaven" => r.store

Idle == [stage |-> "idle", kind |-> "ping", background |-> FALSE, store |-> FALSE,
         gone |-> FALSE, slot |-> "none", dir |-> FALSE, res |-> FALSE, proc |-> FALSE,
         found |-> "none", reason |-> "none", stored |-> FALSE, ok |-> FALSE]

\* found: what the process has written so far.  reason: why it is no longer watched.
Call == [stage : {"idle", "asked", "waiting", "taken", "working", "staging", "staged",
                  "running", "ended", "cleaning", "leaving", "replying"},
         kind : UNION {Kinds[s] : s \in Services}, background : BOOLEAN, store : BOOLEAN,
         gone : BOOLEAN, slot : Classes \cup {"none"}, dir : BOOLEAN, res : BOOLEAN,
         proc : BOOLEAN, found : {"none", "completed", "error"},
         reason : {"none", "exit", "disconnected", "timeout", "workspace"},
         stored : BOOLEAN, ok : BOOLEAN]

TypeOK ==
    /\ service \in Services
    /\ up \in BOOLEAN
    /\ call \in [Calls -> Call]
    /\ free \in [Classes -> 0..(Slots + 1)]
    /\ recent \in 0..PerMinute
    /\ left \in BOOLEAN /\ orphans \in BOOLEAN

Init ==
    /\ service \in Services
    /\ up = TRUE
    /\ call = [c \in Calls |-> Idle]
    /\ free = Capacity
    /\ recent = 0
    /\ left = FALSE /\ orphans = FALSE

World == <<service, up, left, orphans>>
Counters == <<free, recent>>

At(c, stage) == up /\ call[c].stage = stage
Put(c, new)  == call' = [call EXCEPT ![c] = new]
Go(c, stage) == Put(c, [call[c] EXCEPT !.stage = stage])
Say(c, ok)   == Put(c, [Idle EXCEPT !.stage = "replying", !.ok = ok])
Fail(c)      == Put(c, [call[c] EXCEPT !.stage = "cleaning", !.ok = FALSE])
Return(c)    == Put(c, [call[c] EXCEPT !.stage = "cleaning", !.ok = TRUE])

-----------------------------------------------------------------------------
(* A connection, and the caller's end of it.                               *)

\* The adapter connects and sends its request; one that is malformed, unauthorized or
\* invalid is answered with an error.
Connect(c) ==
    /\ At(c, "idle")
    /\ \E r \in Requests :
           IF Valid(r)
           THEN Put(c, [Idle EXCEPT !.stage = "asked", !.kind = r.kind,
                                    !.background = r.background, !.store = r.store])
           ELSE Say(c, FALSE)
    /\ UNCHANGED <<World, Counters>>

\* The adapter closes its socket: its timeout, its end, the cancellation of its job.
CallerLeaves(c) ==
    /\ call[c].stage \notin {"idle", "replying"} /\ ~call[c].gone
    /\ Put(c, [call[c] EXCEPT !.gone = TRUE])
    /\ UNCHANGED <<World, Counters>>

\* The response, or an error in its place when it exceeds the limit; the caller may
\* have left.
Reply(c) ==
    /\ At(c, "replying")
    /\ Put(c, Idle)
    /\ UNCHANGED <<World, Counters>>

-----------------------------------------------------------------------------
(* Admission.                                                              *)

Limited == recent >= PerMinute

Forget_Always ==
    /\ recent' = recent - 1
    /\ UNCHANGED <<World, call, free>>
\* An accepted call turns 60 seconds old.
Forget ==
    /\ recent > 0
    /\ recent' = recent - 1
    /\ UNCHANGED <<World, call, free>>

Wanted(c) == CASE call[c].kind = "check" -> "check"
               [] call[c].kind = "polyhaven" -> "import"
               [] OTHER -> "main"

\* The rate limit is asked first, so a call that then finds no slot has been counted; a
\* background call has its own slot, which it does not wait for, and is not counted.
ComputeAdmit(c) ==
    /\ service = "compute" /\ At(c, "asked")
    /\ \/ call[c].kind = "ping" /\ Say(c, TRUE) /\ UNCHANGED Counters
       \/ call[c].background /\ free["background"] = 0 /\ Say(c, FALSE) /\ UNCHANGED Counters
       \/ /\ call[c].background /\ free["background"] > 0
          /\ free' = [free EXCEPT !["background"] = @ - 1]
          /\ Put(c, [call[c] EXCEPT !.stage = "working", !.slot = "background"])
          /\ UNCHANGED recent
       \/ /\ ~call[c].background /\ call[c].kind # "ping"
          /\ IF Limited THEN Say(c, FALSE) /\ UNCHANGED recent
                        ELSE Go(c, "waiting") /\ recent' = recent + 1
          /\ UNCHANGED free
    /\ UNCHANGED World

\* The slot is taken first; documentation, library and environment need none.
RenderAdmit(c) ==
    /\ service = "render" /\ At(c, "asked")
    /\ \/ call[c].kind = "ping" /\ Say(c, TRUE)
       \/ call[c].kind = "light" /\ Go(c, "working")
       \/ call[c].kind \in {"check", "scene", "benchmark"} /\ Go(c, "waiting")
    /\ UNCHANGED <<World, Counters>>

\* render_polyhaven makes its directory before it is admitted: a search, a plan and a
\* listing that cannot be read end here; an import is counted, then waits for its slot.
PolyhavenAdmit(c) ==
    /\ service = "render" /\ At(c, "asked") /\ call[c].kind = "polyhaven"
    /\ \/ \E ok \in BOOLEAN :
              Put(c, [call[c] EXCEPT !.stage = "cleaning", !.dir = TRUE, !.ok = ok])
          /\ UNCHANGED recent
       \/ /\ ~Limited
          /\ Put(c, [call[c] EXCEPT !.stage = "waiting", !.dir = TRUE])
          /\ recent' = recent + 1
    /\ UNCHANGED <<World, free>>

ProcessAdmit(c) ==
    /\ service = "process" /\ At(c, "asked")
    /\ IF call[c].kind = "ping" THEN Say(c, TRUE) /\ UNCHANGED recent
       ELSE IF Limited THEN Say(c, FALSE) /\ UNCHANGED recent
       ELSE Go(c, "waiting") /\ recent' = recent + 1
    /\ UNCHANGED <<World, free>>

\* The environment is answered at once; the lock is taken without waiting.
OcrAdmit(c) ==
    /\ service = "ocr" /\ At(c, "asked")
    /\ \/ call[c].kind = "light" /\ Say(c, TRUE) /\ UNCHANGED free
       \/ call[c].kind = "extract" /\ Say(c, FALSE) /\ UNCHANGED free
       \/ /\ call[c].kind = "extract" /\ free["gpu"] > 0
          /\ free' = [free EXCEPT !["gpu"] = @ - 1]
          /\ Put(c, [call[c] EXCEPT !.stage = "staging", !.slot = "gpu", !.dir = TRUE])
    /\ UNCHANGED <<World, recent>>

TakeSlot(c) ==
    /\ At(c, "waiting") /\ free[Wanted(c)] > 0
    /\ free' = [free EXCEPT ![Wanted(c)] = @ - 1]
    /\ Put(c, [call[c] EXCEPT !.slot = Wanted(c),
                              !.stage = IF service = "render" /\ call[c].kind # "polyhaven"
                                        THEN "taken" ELSE "working"])
    /\ UNCHANGED <<World, recent>>

\* acquire(timeout=5)
SlotTimeout(c) ==
    /\ At(c, "waiting") /\ free[Wanted(c)] = 0
    /\ IF call[c].dir THEN Fail(c) ELSE Say(c, FALSE)
    /\ UNCHANGED <<World, Counters>>

RenderRate_KeepsSlot(c) ==
    /\ At(c, "taken")
    /\ IF Limited THEN Say(c, FALSE) /\ UNCHANGED recent
                  ELSE Go(c, "working") /\ recent' = recent + 1
    /\ UNCHANGED <<World, free>>
\* image-render asks the rate limit with the slot in hand.
RenderRate(c) ==
    /\ At(c, "taken")
    /\ IF Limited
       THEN Put(c, [call[c] EXCEPT !.stage = "leaving", !.ok = FALSE]) /\ UNCHANGED recent
       ELSE Go(c, "working") /\ recent' = recent + 1
    /\ UNCHANGED <<World, free>>

-----------------------------------------------------------------------------
(* A call at work.                                                         *)

\* Validation may still refuse; the environment is read or inspected; the rest is run.
ExecuteCompute(c) ==
    /\ service = "compute"
    /\ \/ Put(c, [call[c] EXCEPT !.stage = "leaving", !.ok = FALSE])
       \/ call[c].kind = "light" /\ Put(c, [call[c] EXCEPT !.stage = "leaving", !.ok = TRUE])
       \/ call[c].kind # "light" /\ Put(c, [call[c] EXCEPT !.stage = "staging", !.dir = TRUE])

\* render_benchmark runs only in the background.
ExecuteRender(c) ==
    /\ service = "render" /\ call[c].kind # "polyhaven"
    /\ \/ Put(c, [call[c] EXCEPT !.stage = "leaving", !.ok = FALSE])
       \/ call[c].kind = "light" /\ Put(c, [call[c] EXCEPT !.stage = "leaving", !.ok = TRUE])
       \/ /\ call[c].kind # "light" /\ (call[c].kind = "benchmark" => call[c].background)
          /\ Put(c, [call[c] EXCEPT !.stage = "staging", !.dir = TRUE])

ExecuteProcess(c) ==
    /\ service = "process"
    /\ \/ Put(c, [call[c] EXCEPT !.stage = "leaving", !.ok = FALSE])
       \/ call[c].kind = "light" /\ Put(c, [call[c] EXCEPT !.stage = "leaving", !.ok = TRUE])
       \/ call[c].kind = "image" /\ Put(c, [call[c] EXCEPT !.stage = "staging", !.dir = TRUE])

\* An import holds its slot and has its directory.
ExecuteImport(c) == call[c].kind = "polyhaven" /\ Go(c, "staging")

Execute(c) ==
    /\ At(c, "working")
    /\ ExecuteCompute(c) \/ ExecuteRender(c) \/ ExecuteProcess(c) \/ ExecuteImport(c)
    /\ UNCHANGED <<World, Counters>>

\* Inputs are copied out of the artifact store and verified; an artifact may be gone.
StageInputs(c) ==
    /\ At(c, "staging")
    /\ Go(c, "staged") \/ Fail(c)
    /\ UNCHANGED <<World, Counters>>

\* The output's budget is reserved before any work is done; the quota may refuse it.
Reserve(c) ==
    /\ At(c, "staged") /\ call[c].store /\ ~call[c].res
    /\ Put(c, [call[c] EXCEPT !.res = TRUE]) \/ Fail(c)
    /\ UNCHANGED <<World, Counters>>

Launch(c) ==
    /\ At(c, "staged") /\ call[c].store = call[c].res /\ call[c].kind # "polyhaven"
    /\ Put(c, [call[c] EXCEPT !.stage = "running", !.proc = TRUE]) \/ Fail(c)
    /\ UNCHANGED <<World, Counters>>

\* The runner, the renderer or the worker leaves what it has to say in the workspace.
ProcessWrites(c) ==
    /\ At(c, "running") /\ call[c].found = "none"
    /\ \E f \in {"completed", "error"} : Put(c, [call[c] EXCEPT !.found = f])
    /\ UNCHANGED <<World, Counters>>

\* The process is gone; the watching thread goes on with `reason`.
Stopped(c, reason) ==
    /\ Put(c, [call[c] EXCEPT !.stage = "ended", !.proc = FALSE, !.reason = reason])
    /\ UNCHANGED <<World, Counters>>

ProcessEnds(c) == At(c, "running") /\ Stopped(c, "exit")

\* Which calls are given `abandoned`: neither the import check, nor image-processing.
Watched(c) == call[c].kind \in {"run", "analyze", "check", "scene", "benchmark"}

ComputeWatch_NotAnalyze(c) ==
    /\ service = "compute" /\ At(c, "running")
    /\ call[c].kind = "run" /\ call[c].gone /\ Stopped(c, "disconnected")
\* python-compute, each second: a caller that left, before the deadline is looked at.
ComputeWatch(c) ==
    /\ service = "compute" /\ At(c, "running")
    /\ Watched(c) /\ call[c].gone /\ Stopped(c, "disconnected")

\* image-render, each second: a caller that left, before the deadline.
RenderWatch(c) ==
    /\ service = "render" /\ At(c, "running") /\ call[c].gone
    /\ Stopped(c, "disconnected")

\* The scene wrote more than its budget into its workspace.
WorkspaceFull(c) ==
    /\ service = "render" /\ At(c, "running") /\ ~call[c].gone
    /\ Stopped(c, "workspace")

\* communicate(timeout) of image-processing and the deadlines of the others.
Deadline(c) ==
    /\ At(c, "running") /\ (call[c].gone => ~Watched(c))
    /\ Stopped(c, "timeout")

-----------------------------------------------------------------------------
(* What a call made.                                                       *)

\* The batch is stored and the reservation consumed.
Stores(c, ok) == Put(c, [call[c] EXCEPT !.stage = "cleaning", !.ok = ok, !.res = FALSE,
                                        !.stored = call[c].found # "none"])
Publish(c) == Stores(c, TRUE)

\* exitReason: a caller that left wins over a result, a result over a deadline.
ExitReason(c) ==
    IF call[c].reason = "disconnected" THEN "killed"
    ELSE IF call[c].found # "none" THEN call[c].found
    ELSE IF call[c].reason = "timeout" THEN "timeout" ELSE "killed"

\* What the process left is read, which may fail.  In store mode whatever the result
\* file lists is published, whichever way the run ended; without a result the
\* reservation is consumed by an empty batch.  Any exit reason is a result, except of
\* the import check.
ComputeDeliver(c) ==
    /\ service = "compute"
    /\ \/ Fail(c)
       \/ call[c].store /\ Publish(c)
       \/ /\ ~call[c].store
          /\ call[c].kind = "imports" => ExitReason(c) = "completed"
          /\ Return(c)

Rendered(c) == call[c].reason = "exit" /\ call[c].found = "completed"

\* A render that did not complete is a result without an image: its reservation is left
\* to the cleaning.  One that did is checked, then stored or returned inline.
RenderDeliver(c) ==
    /\ service = "render"
    /\ IF ~Rendered(c) \/ call[c].kind # "scene" THEN Return(c)
       ELSE \/ Fail(c)
            \/ IF call[c].store THEN Publish(c) ELSE Return(c)

ProcessDeliver_ChecksLast(c) ==
    /\ service = "process" /\ Rendered(c)
    /\ Put(c, [call[c] EXCEPT !.stage = "cleaning", !.res = FALSE, !.stored = call[c].store])
\* Only a completed worker has a value; everything else is an exception.
ProcessDeliver(c) ==
    /\ service = "process"
    /\ \/ Fail(c)
       \/ Rendered(c) /\ IF call[c].store THEN Publish(c) ELSE Return(c)

\* The container has exited or was stopped; a worker that failed, wrote too much or
\* answered nothing valid is an exception.  So is a result without the name of its
\* model, which is noticed when the result has been stored.
OcrDeliver(c) ==
    /\ service = "ocr"
    /\ \/ Fail(c)
       \/ Rendered(c) /\ IF call[c].store THEN Publish(c) \/ Stores(c, FALSE) ELSE Return(c)

\* The include file of an import is written, reserved for and published with the slot
\* in hand.
ImportDeliver(c) ==
    /\ At(c, "staged") /\ call[c].kind = "polyhaven" /\ call[c].res
    /\ \/ Fail(c)
       \/ Put(c, [call[c] EXCEPT !.stage = "cleaning", !.ok = TRUE, !.res = FALSE,
                                 !.stored = TRUE])
    /\ UNCHANGED <<World, Counters>>

Deliver(c) ==
    /\ At(c, "ended")
    /\ ComputeDeliver(c) \/ RenderDeliver(c) \/ ProcessDeliver(c) \/ OcrDeliver(c)
    /\ UNCHANGED <<World, Counters>>

\* The inner blocks of an import: its reservation and its slot go before its directory.
LeaveImport(c) ==
    /\ At(c, "cleaning") /\ call[c].slot = "import"
    /\ free' = [free EXCEPT !["import"] = @ + 1]
    /\ Put(c, [call[c] EXCEPT !.slot = "none", !.res = FALSE])
    /\ UNCHANGED <<World, recent>>

\* finally: the reservation, unless it was consumed, and the call's directory.
Clean(c) ==
    /\ At(c, "cleaning") /\ call[c].slot # "import"
    /\ Put(c, [call[c] EXCEPT !.stage = "leaving", !.dir = FALSE, !.res = FALSE,
                              !.found = "none", !.reason = "none"])
    /\ UNCHANGED <<World, Counters>>

\* finally: the slot.
Leave(c) ==
    /\ At(c, "leaving")
    /\ free' = IF call[c].slot = "none" THEN free ELSE [free EXCEPT ![call[c].slot] = @ + 1]
    /\ Put(c, [Idle EXCEPT !.stage = "replying", !.ok = call[c].ok, !.stored = call[c].stored])
    /\ UNCHANGED <<World, recent>>

\* document-ocr turns SIGTERM (its job is canceled) into KeyboardInterrupt, which every
\* `finally` sees: the container is stopped.  It may come when a reservation was made but
\* not yet remembered, which then stays, and in or after the storing of the result: the
\* publisher takes a batch back for an Exception only, and this is none.
Interrupted(c) ==
    /\ service = "ocr" /\ call[c].stage \in {"staging", "staged", "running", "ended"}
    /\ \E late \in BOOLEAN :
           /\ Put(c, [call[c] EXCEPT
                        !.stage = "cleaning", !.proc = FALSE, !.ok = FALSE,
                        !.stored = late /\ call[c].stage = "ended" /\ call[c].store /\ Rendered(c)])
           /\ orphans' = (orphans \/ (late /\ call[c].stage = "staged" /\ call[c].store))
    /\ UNCHANGED <<service, up, left, Counters>>

\* It may come in those `finally` blocks, too, which then leave the directory, the
\* reservation or both; or before the answer is written.
InterruptedLate(c) ==
    /\ service = "ocr" /\ call[c].stage \in {"cleaning", "leaving"}
    /\ left' \in {left, left \/ call[c].dir}
    /\ orphans' \in {orphans, orphans \/ call[c].res}
    /\ Put(c, [call[c] EXCEPT !.stage = "leaving", !.dir = FALSE, !.res = FALSE, !.ok = FALSE,
                              !.found = "none", !.reason = "none"])
    /\ UNCHANGED <<service, up, Counters>>

\* SIGKILL (the job's wrapper gave up on it) runs none: the lock goes with the process,
\* its directory and reservation stay.
Killed(c) ==
    /\ service = "ocr" /\ call[c].stage # "idle"
    /\ left' = (left \/ call[c].dir)
    /\ orphans' = (orphans \/ call[c].res)
    /\ free' = IF call[c].slot = "none" THEN free ELSE [free EXCEPT ![call[c].slot] = @ + 1]
    /\ Put(c, Idle)
    /\ UNCHANGED <<service, up, recent>>

-----------------------------------------------------------------------------
(* The broker process.                                                     *)

\* The sandboxes die with it, their directories and reservations do not.
Crash ==
    /\ up /\ service # "ocr"
    /\ up' = FALSE
    /\ left' = (left \/ \E c \in Calls : call[c].dir)
    /\ orphans' = (orphans \/ \E c \in Calls : call[c].res)
    /\ call' = [c \in Calls |-> Idle]
    /\ free' = Capacity
    /\ recent' = 0
    /\ UNCHANGED service

Boot_NoPurge ==
    /\ ~up
    /\ up' = TRUE
    /\ UNCHANGED <<service, call, left, orphans, Counters>>
\* main(): purge_stale_calls() before the first connection is accepted; the probe of the
\* sandbox leaves nothing behind.
Boot ==
    /\ ~up
    /\ up' = TRUE
    /\ left' = FALSE
    /\ UNCHANGED <<service, call, orphans, Counters>>

\* The store's collection removes a reservation no one has touched for an hour.
CollectReservations ==
    /\ orphans
    /\ orphans' = FALSE
    /\ UNCHANGED <<service, up, call, left, Counters>>

\* What the broker's threads do without help from the caller or the process.
Thread(c) ==
    \/ ComputeAdmit(c) \/ RenderAdmit(c) \/ PolyhavenAdmit(c) \/ ProcessAdmit(c) \/ OcrAdmit(c)
    \/ TakeSlot(c) \/ SlotTimeout(c) \/ RenderRate(c) \/ Execute(c)
    \/ StageInputs(c) \/ Reserve(c) \/ Launch(c) \/ Deliver(c) \/ ImportDeliver(c)
    \/ LeaveImport(c) \/ Clean(c) \/ Leave(c) \/ Reply(c)

Watch(c) == ComputeWatch(c) \/ RenderWatch(c)

Next ==
    \/ \E c \in Calls :
           \/ Connect(c) \/ CallerLeaves(c) \/ Thread(c) \/ Watch(c)
           \/ ProcessWrites(c) \/ ProcessEnds(c) \/ Deadline(c) \/ WorkspaceFull(c)
           \/ Interrupted(c) \/ InterruptedLate(c) \/ Killed(c)
    \/ Forget \/ Crash \/ Boot \/ CollectReservations

Spec == Init /\ [][Next]_vars

\* Threads run, and the watching thread wakes every second.  Nothing is assumed of the
\* sandboxed process, of its deadline or of the caller.
Fairness == \A c \in Calls : WF_vars(Thread(c)) /\ WF_vars(Watch(c))

FairSpec == Spec /\ Fairness

-----------------------------------------------------------------------------
(* Properties.                                                             *)

Holding(k) == {c \in Calls : call[c].slot = k}

\* The `finally` blocks of handle(): however a call ends, the semaphores are as if it had
\* never been, and a sandbox runs only in a call that holds a slot.
SlotsExact ==
    /\ \A k \in Classes : free[k] + Cardinality(Holding(k)) = Capacity[k]
    /\ \A c \in Calls : call[c].proc => call[c].slot # "none" /\ call[c].dir

\* The `finally` blocks of run() and purge_stale_calls(): while a broker is up, only the
\* calls it is serving own a directory or a process, and none that has ended owns a
\* reservation.  Two things are left out: document-ocr has no broker that would purge
\* what a killed or interrupted call left, and reservations that a crash leaves
\* (`orphans`) stay until the store's collection.
NothingLeft ==
    /\ up /\ service # "ocr" => ~left
    /\ \A c \in Calls : call[c].stage \in {"idle", "asked", "leaving", "replying"} =>
           ~call[c].dir /\ ~call[c].res /\ ~call[c].proc

\* An exception after the output was stored would hide it from the caller: in the three
\* brokers a call that ends in one has stored nothing.  document-ocr cannot promise this
\* (OcrDeliver, Interrupted), and the property speaks of the call, not of its answer: the
\* broker answers an error in place of a response over its limit, whatever was stored.
ErrorStoresNothing ==
    \A c \in Calls : call[c].stored /\ service # "ocr" => call[c].ok

\* A caller that left (a canceled background job) does not keep a slot until the
\* deadline: its sandbox is stopped and the call ends.
AbandonedEnds ==
    \A c \in Calls :
        call[c].gone /\ Watched(c) /\ call[c].slot # "none" ~> call[c].slot = "none"
=============================================================================
