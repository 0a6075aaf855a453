----------------------------- MODULE JobManager -----------------------------
(***************************************************************************)
(* The control plane's side of durable jobs on one node:                   *)
(* src/jobs/manager.ts.  Calls are asynchronous.  Each goes through steps  *)
(* separated by awaits: a listing is asked for, taken on the node, and     *)
(* applied to the cache in one synchronous step when its reply is handled, *)
(* which may be much later, because execMany waits for the slowest of all  *)
(* nodes.  What a call does next rests on the listing it took.             *)
(*                                                                         *)
(* A slot of Calls is one call in progress: list (get, log and result are  *)
(* listings that change nothing else), submit, cancel or reconcile.  The   *)
(* node is reduced to what a listing and a script can tell apart, the      *)
(* status in state.json, and moves as JobStatus says, which JobRunner      *)
(* implements; whether the unit of an unfinished job is active is left     *)
(* open.                                                                   *)
(***************************************************************************)
EXTENDS Integers, FiniteSets

CONSTANTS
    Jobs,         \* job identifiers, each submitted at most once
    keysOf,       \* the resource keys of each job
    Calls,        \* slots for calls in progress
    Limit,        \* maxConcurrent of the node
    MaxRestarts   \* bound on restarts of the control plane

ASSUME LimitAssumption == Limit \in Nat \ {0}
ASSUME RestartsAssumption == MaxRestarts \in Nat

VARIABLES
    remote,       \* remote[j]: the status in j's state.json on the node
    cache,        \* cache[j]: the cached status, "absent" without an entry
    call,         \* call[c]: the call in slot c
    settled,      \* settled[j]: how often this process announced j (history, at most 2)
    blind,        \* jobs admitted on a listing that failed (history)
    late,         \* jobs whose submission was given up while its script may still run
    revived,      \* jobs that went on although --fail had failed them (history)
    restarts      \* restarts of the control plane so far

vars == <<remote, cache, call, settled, blind, late, revived, restarts>>
historyVars == <<settled, blind, late, revived, restarts>>

Terminal  == {"succeeded", "failed", "canceled"}
Unsettled == {"queued", "running"}
Listing   == {"absent"} \cup Unsettled \cup Terminal
Over      == Terminal \cup {"contested", "gone"}
Status    == Listing \cup Over

\* The node's state.json files.
Node == INSTANCE JobStatus WITH status <- remote

Nothing == [j \in Jobs |-> "absent"]
Idle == [op |-> "idle", stage |-> "idle", job |-> "none", seen |-> Nothing]

\* waiting: for earlier submissions.  sent, served, failed: the listing.  exec: a script is
\* under way.  done: it has run, its reply is on the way.  seen: the listing taken, from
\* which reconcile drops what it has handled.
Call == [op    : {"idle", "list", "submit", "cancel", "reconcile"},
         stage : {"idle", "waiting", "sent", "served", "failed", "exec", "done"},
         job   : Jobs \cup {"none"},
         seen  : [Jobs -> Listing]]

TypeOK ==
    /\ remote \in [Jobs -> Status]
    /\ cache \in [Jobs -> Listing]
    /\ call \in [Calls -> Call]
    /\ settled \in [Jobs -> 0..2]
    /\ blind \subseteq Jobs
    /\ late \subseteq Jobs
    /\ revived \subseteq Jobs
    /\ restarts \in 0..MaxRestarts

Init ==
    /\ remote = Nothing
    /\ cache = Nothing
    /\ call = [c \in Calls |-> Idle]
    /\ settled = [j \in Jobs |-> 0]
    /\ blind = {} /\ late = {} /\ revived = {}
    /\ restarts = 0

At(c, op, stage) == call[c].op = op /\ call[c].stage = stage
Stage(c, stage)  == call' = [call EXCEPT ![c].stage = stage]
Return(c)        == call' = [call EXCEPT ![c] = Idle]
Begin(c, op, stage, j) ==
    /\ call[c] = Idle
    /\ call' = [call EXCEPT ![c] = [Idle EXCEPT !.op = op, !.stage = stage, !.job = j]]

\* The listing has served its purpose: the call waits for its script.
Script(c) == call' = [call EXCEPT ![c].stage = "exec", ![c].seen = Nothing]

-----------------------------------------------------------------------------
(* The node, as far as listings see it.                                    *)

\* The runner, or a cancel or --fail script which outlived its call, writes state.json.
StateWritten(j) ==
    \E s \in Status :
        /\ <<remote[j], s>> \in Node!Moves
        /\ remote' = [remote EXCEPT ![j] = s]
        /\ revived' = IF remote[j] = "contested" /\ s # "failed" THEN revived \cup {j} ELSE revived
        /\ UNCHANGED <<cache, call, settled, blind, late, restarts>>

\* A submission script that outlives the call that gave it up.
LateSubmission(j) ==
    /\ j \in late /\ remote[j] = "absent"
    /\ remote' = [remote EXCEPT ![j] = "queued"]
    /\ UNCHANGED <<cache, call, historyVars>>

-----------------------------------------------------------------------------
(* Calls arrive.                                                           *)

\* A fresh random identifier: no other call knows it yet.
CallSubmit(c, j) ==
    /\ remote[j] = "absent" /\ j \notin late
    /\ \A d \in Calls : call[d].job # j
    /\ Begin(c, "submit", "waiting", j)
    /\ UNCHANGED <<remote, cache, historyVars>>

CallList(c) ==
    /\ Begin(c, "list", "sent", "none")
    /\ UNCHANGED <<remote, cache, historyVars>>

CallCancel(c, j) ==
    /\ remote[j] # "absent"
    /\ Begin(c, "cancel", "sent", j)
    /\ UNCHANGED <<remote, cache, historyVars>>

\* Mutant: reconcile only while the cache has an unfinished job.
Tick_WhileUnsettled(c) ==
    /\ \E j \in Jobs : cache[j] \in Unsettled
    /\ Begin(c, "reconcile", "sent", "none")
    /\ UNCHANGED <<remote, cache, historyVars>>

\* The interval timer does not wait for the reconcile before it.
Tick(c) ==
    /\ Begin(c, "reconcile", "sent", "none")
    /\ UNCHANGED <<remote, cache, historyVars>>

\* submit(): the submissions of a node form a chain of promises (here in any order, for
\* nothing tells fresh jobs apart).
SubmitNext_Unserialized(c) ==
    /\ At(c, "submit", "waiting")
    /\ Stage(c, "sent")
    /\ UNCHANGED <<remote, cache, historyVars>>
SubmitNext(c) ==
    /\ At(c, "submit", "waiting")
    /\ \A d \in Calls \ {c} : call[d].op = "submit" => call[d].stage = "waiting"
    /\ Stage(c, "sent")
    /\ UNCHANGED <<remote, cache, historyVars>>

-----------------------------------------------------------------------------
(* list().                                                                 *)

Listed_Removed(j) == remote[j]
Listed(j) ==
    IF remote[j] = "gone" THEN "absent" ELSE IF remote[j] = "contested" THEN "failed" ELSE remote[j]

ListServe(c) ==
    /\ call[c].stage = "sent"
    /\ call' = [call EXCEPT ![c].stage = "served", ![c].seen = [j \in Jobs |-> Listed(j)]]
    /\ UNCHANGED <<remote, cache, historyVars>>

ListFails(c) ==
    /\ call[c].stage = "sent"
    /\ Stage(c, "failed")
    /\ UNCHANGED <<remote, cache, historyVars>>

\* Settled by this reply: unfinished in the cache before, finished in the listing.
SettledBy_Dropped(c) == {j \in Jobs : cache[j] \in Unsettled /\ call[c].seen[j] \notin Unsettled}
SettledBy(c) == {j \in Jobs : cache[j] \in Unsettled /\ call[c].seen[j] \in Terminal}

Announce(js) ==
    settled' = [j \in Jobs |-> IF j \in js /\ settled[j] < 2 THEN settled[j] + 1 ELSE settled[j]]

Active(seen) == {j \in Jobs : seen[j] \in Unsettled}

Admitted_RunningOnly(j, seen) ==
    /\ \A i \in Jobs : seen[i] = "running" => keysOf[i] \cap keysOf[j] = {}
    /\ Cardinality(Active(seen)) < Limit
Admitted(j, seen) ==
    /\ \A i \in Active(seen) : keysOf[i] \cap keysOf[j] = {}
    /\ Cardinality(Active(seen)) < Limit

\* reconcile() goes on with one of the jobs of todo.  The next script starts in the step
\* that handles the reply of the one before.
NextJob(c, todo) ==
    IF todo = Nothing THEN Return(c)
    ELSE \E j \in {i \in Jobs : todo[i] # "absent"} :
            call' = [call EXCEPT ![c] = [@ EXCEPT !.stage = "exec", !.job = j, !.seen = todo]]

\* What reconcile() makes of its listing: it skips queued jobs in their start grace and
\* finished jobs that have not expired.
Reconcile(c, seen) ==
    \E skipped \in SUBSET {j \in Jobs : seen[j] \in {"queued"} \cup Terminal} :
        NextJob(c, [j \in Jobs |-> IF j \in skipped THEN "absent" ELSE seen[j]])

\* What the caller of list() makes of the jobs it returned.
Continue(c, seen) ==
    LET j == call[c].job
    IN  \/ call[c].op = "list" /\ Return(c)
        \/ call[c].op = "submit" /\ IF Admitted(j, seen) THEN Script(c) ELSE Return(c)
        \/ call[c].op = "cancel" /\ IF j \in Active(seen) THEN Script(c) ELSE Return(c)
        \/ call[c].op = "reconcile" /\ Reconcile(c, seen)

\* The reply replaces every entry of the node in the cache.
ListReply(c) ==
    /\ call[c].stage = "served"
    /\ cache' = call[c].seen
    /\ Announce(SettledBy(c))
    /\ Continue(c, call[c].seen)
    /\ UNCHANGED <<remote, blind, late, revived, restarts>>

\* The node counts as unreachable: the cache stays, and no job of it is returned.
ListUnreachable(c) ==
    /\ call[c].stage = "failed"
    /\ Continue(c, Nothing)
    /\ blind' = IF call[c].op = "submit" THEN blind \cup {call[c].job} ELSE blind
    /\ UNCHANGED <<remote, cache, settled, late, revived, restarts>>

-----------------------------------------------------------------------------
(* submitNow() after its checks.                                           *)

SubmitServe(c) ==
    /\ At(c, "submit", "exec")
    /\ remote' = [remote EXCEPT ![call[c].job] = "queued"]
    /\ Stage(c, "done")
    /\ UNCHANGED <<cache, historyVars>>

SubmitReply(c) ==
    /\ At(c, "submit", "done")
    /\ cache' = [cache EXCEPT ![call[c].job] = "queued"]
    /\ Return(c)
    /\ UNCHANGED <<remote, historyVars>>

\* Too little memory, or the script failed before it wrote anything.
SubmitRefused(c) ==
    /\ At(c, "submit", "exec")
    /\ Return(c)
    /\ UNCHANGED <<remote, cache, historyVars>>

\* The 60 seconds are over: the call fails, whatever the script did or still does.
SubmitTimesOut(c) ==
    /\ call[c].op = "submit" /\ call[c].stage \in {"exec", "done"}
    /\ late' = late \cup {call[c].job}
    /\ Return(c)
    /\ UNCHANGED <<remote, cache, settled, blind, revived, restarts>>

-----------------------------------------------------------------------------
(* cancel() after its get().                                               *)

CancelServe(c) ==
    /\ At(c, "cancel", "exec")
    /\ remote' = [remote EXCEPT ![call[c].job] = IF @ \in Unsettled THEN "canceled" ELSE @]
    /\ Stage(c, "done")
    /\ UNCHANGED <<cache, historyVars>>

\* The second get().
CancelReply_Assumed(c) ==
    /\ At(c, "cancel", "done")
    /\ cache' = [cache EXCEPT ![call[c].job] = "canceled"]
    /\ Return(c)
    /\ UNCHANGED <<remote, historyVars>>
CancelReply(c) ==
    /\ At(c, "cancel", "done")
    /\ call' = [call EXCEPT ![c] = [Idle EXCEPT !.op = "list", !.stage = "sent"]]
    /\ UNCHANGED <<remote, cache, historyVars>>

CancelFails(c) ==
    /\ call[c].op = "cancel" /\ call[c].stage \in {"exec", "done"}
    /\ Return(c)
    /\ UNCHANGED <<remote, cache, historyVars>>

-----------------------------------------------------------------------------
(* reconcile() after its list(): one listed job after the other.           *)

Handled(c) == NextJob(c, [call[c].seen EXCEPT ![call[c].job] = "absent"])

\* The unit of a job the listing shows unfinished is not active.  --fail leaves a finished
\* state alone, and may fail a job whose runner is just starting; the script prints
\* __FAILED__ in any case.
RecoverServe(c) ==
    /\ At(c, "reconcile", "exec")
    /\ call[c].seen[call[c].job] \in Unsettled
    /\ \E s \in {"failed", "contested"} :
          remote' = [remote EXCEPT ![call[c].job] = IF @ \in Unsettled THEN s ELSE @]
    /\ Stage(c, "done")
    /\ UNCHANGED <<cache, historyVars>>

\* The listing says that the retention, a day at least, is over: nobody still writes.
ExpireServe(c) ==
    /\ At(c, "reconcile", "exec")
    /\ call[c].seen[call[c].job] \in Terminal
    /\ remote[call[c].job] \in Over
    /\ remote' = [remote EXCEPT ![call[c].job] = "gone"]
    /\ Stage(c, "done")
    /\ UNCHANGED <<cache, historyVars>>

\* __FAILED__: the job is failed in the cache.  A removed job leaves the cache.
ReconcileReply(c) ==
    /\ At(c, "reconcile", "done")
    /\ LET j == call[c].job
       IN  cache' = [cache EXCEPT ![j] =
               IF call[c].seen[j] \in Unsettled THEN "failed" ELSE "absent"]
    /\ Handled(c)
    /\ UNCHANGED <<remote, historyVars>>

\* __ACTIVE__, or the script failed, or its reply was lost.
ReconcileNoChange(c) ==
    /\ call[c].op = "reconcile" /\ call[c].stage \in {"exec", "done"}
    /\ Handled(c)
    /\ UNCHANGED <<remote, cache, historyVars>>

-----------------------------------------------------------------------------
\* The MCP process ends and a new one starts: nothing in memory survives, a submission
\* script under way does.
Restart ==
    /\ restarts < MaxRestarts
    /\ restarts' = restarts + 1
    /\ late' = late \cup {call[c].job : c \in {d \in Calls : At(d, "submit", "exec")}}
    /\ call' = [c \in Calls |-> Idle]
    /\ cache' = Nothing
    /\ settled' = [j \in Jobs |-> 0]
    /\ UNCHANGED <<remote, blind, revived>>

NodeStep(j) == StateWritten(j) \/ LateSubmission(j)

Arrive(c) ==
    \/ CallList(c) \/ Tick(c)
    \/ \E j \in Jobs : CallSubmit(c, j) \/ CallCancel(c, j)

Proceed(c) ==
    \/ SubmitNext(c)
    \/ ListReply(c) \/ ListUnreachable(c)
    \/ SubmitServe(c) \/ SubmitReply(c) \/ SubmitRefused(c) \/ SubmitTimesOut(c)
    \/ CancelServe(c) \/ CancelReply(c) \/ CancelFails(c)
    \/ RecoverServe(c) \/ ExpireServe(c) \/ ReconcileReply(c) \/ ReconcileNoChange(c)

Next ==
    \/ Restart
    \/ \E j \in Jobs : NodeStep(j)
    \/ \E c \in Calls : Arrive(c) \/ ListServe(c) \/ ListFails(c) \/ Proceed(c)

Spec == Init /\ [][Next]_vars

\* Every await ends (each exec has a timeout), the timer keeps firing, and a node that
\* is asked again and again answers now and then.
Fairness ==
    \A c \in Calls :
        /\ WF_vars(Proceed(c)) /\ WF_vars(ListServe(c) \/ ListFails(c))
        /\ SF_vars(ListServe(c)) /\ SF_vars(Tick(c))

FairSpec == Spec /\ Fairness

-----------------------------------------------------------------------------
(* Properties.                                                             *)

Unfinished == {j \in Jobs : remote[j] \in Unsettled}

\* The per-node limit of submit(): jobs admitted on a listing that succeeded, by a call
\* that did not give up on its script, never exceed the limit, however calls interleave.
\* A job that runs on although it was listed as failed has left its place to another.
LimitHeld == Cardinality(Unfinished \ (blind \cup late \cup revived)) <= Limit

\* The conflict check of submit(): two unfinished jobs share a resource key only if one
\* was admitted blindly, its submission was given up, or it was listed as failed.
ResourcesHeld ==
    \A i, j \in Unfinished :
        i # j /\ keysOf[i] \cap keysOf[j] # {} => {i, j} \cap (blind \cup late \cup revived) # {}

\* A job that has come to an end, as far as a listing showed, once at least.
Closed(j) == remote[j] \in Over \/ j \in revived

\* onJobSettled never announces a job that has not ended on its node.
AnnouncedIsFinished == \A j \in Jobs : settled[j] > 0 => Closed(j)

\* Whatever replies arrive in whatever order, the cache shows a success or a cancellation
\* only of a job that ended that way, which nothing but a belated --fail takes back.
CacheIsNotAhead ==
    \A j \in Jobs : cache[j] \in {"succeeded", "canceled"} => remote[j] \in {cache[j], "failed", "gone"}

\* The node's state.json files, as scripts and listings find them here, go through what
\* JobStatus allows.
NodeImplementsStatus == Node!StatusSpec

Revival == \E j \in Jobs : remote[j] = "contested" /\ remote'[j] = "running"

\* In the end the cache shows what is on the node: stale replies and reconcile's guesses
\* are overwritten by the next listings, unless --fail races with a starting runner again
\* and again.
CacheCatchesUp == <>[][~Revival]_vars => <>[](\A j \in Jobs : cache[j] = Listed(j))

\* onJobSettled: "Fires once when a job this process has seen running reaches a terminal
\* state."
SettlesOnce == \A j \in Jobs : settled[j] <= 1

\* reconcile() reports a job as failed only if it failed: the job directory is the source
\* of truth for durable job state.
FailedIsFailed ==
    \A j \in Jobs : cache[j] = "failed" => remote[j] \in {"failed", "contested", "gone"} \/ j \in revived

\* "The daemon serializes submissions per node, which keeps the limit exact."
LimitExact == Cardinality(Unfinished) <= Limit
=============================================================================
