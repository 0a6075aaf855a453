--------------------------- MODULE ModuleManager ---------------------------
(***************************************************************************)
(* The life cycle of one module on the nodes of a cluster: the operations  *)
(* of src/src/modules/manager.ts that install, update, uninstall, purge    *)
(* and call it, the lifecycle scripts they start on the nodes, and the     *)
(* gate that lines the mutations up inside the control plane.              *)
(*                                                                         *)
(* An operation names one node; a request for several nodes does the same  *)
(* on each of them.  Any remote read may fail.  A failed listing of jobs   *)
(* counts as an empty one, which is why the checks on busy jobs appear     *)
(* here as refusals that may or may not happen: what keeps two jobs of a   *)
(* module apart in the end is the lock of their resource key, see          *)
(* JobRunner.                                                              *)
(***************************************************************************)
EXTENDS Naturals, FiniteSets

CONSTANTS
    Nodes,      \* the nodes of the cluster
    Ops,        \* operations the control plane handles
    Kinds,      \* the kinds of operation that arrive
    Manifests,  \* how modules may be declared: [durable, service, singleton]
    Initial,    \* the versions a node may have to begin with
    MaxCuts     \* how often scripts are cut off or given up

None == "none"
Old == 1      \* the version before
Current == 2  \* the version in the catalog

ASSUME OpsAssumption == None \notin Ops
ASSUME KindsAssumption == Kinds \subseteq {"install", "update", "uninstall", "purge", "call"}
ASSUME ManifestsAssumption ==
    Manifests \subseteq [durable : BOOLEAN, service : BOOLEAN, singleton : BOOLEAN]
ASSUME InitialAssumption == Initial \subseteq {0, Old, Current}
ASSUME MaxCutsAssumption == MaxCuts \in Nat

VARIABLES
    manifest,   \* the module's declaration
    node,       \* what each node has of the module
    op,         \* each operation
    tail,       \* the last mutation in line: moduleMutations
    cuts

vars == <<manifest, node, op, tail, cuts>>

Versions == {Old, Current}
Mutations == {"install", "update", "uninstall", "purge"}
Scripts == {"copy", "swap", "describe", "activate"}
Removals == {"unlink", "remove", "forget"}

NodeState == [receipt : {0} \cup Versions, link : {0} \cup Versions,
              dirs : SUBSET Versions, data : BOOLEAN, amiss : BOOLEAN]

OpState ==
    [kind : Mutations \cup {"call", None}, node : Nodes \cup {None},
     pc : {"idle", "outdated", "queue", "place", "apply", "running", "job",
           "clean", "inspect", "look", "wipe", "select", "submit", "done"},
     prev : Ops \cup {None},
     work : Scripts \cup Removals \cup {None, "queued", "calling", "succeeded", "failed"},
     ver : {0} \cup Versions, prior : {0} \cup Versions, backup : {0} \cup Versions]

Installed(v) == [receipt |-> v, link |-> v, dirs |-> {v} \ {0}, data |-> v # 0,
                 amiss |-> FALSE]

Idle == [kind |-> None, node |-> None, pc |-> "idle", prev |-> None,
         work |-> None, ver |-> 0, prior |-> 0, backup |-> 0]

\* A background call that an earlier control plane left running.
LeftRunning(n, v) == [Idle EXCEPT !.kind = "call", !.node = n, !.pc = "done",
                                  !.work = "calling", !.ver = v]

Init ==
    /\ manifest \in Manifests
    /\ \E v \in [Nodes -> Initial] :
        /\ node = [n \in Nodes |-> Installed(v[n])]
        /\ manifest.singleton => Cardinality({n \in Nodes : v[n] # 0}) <= 1
        /\ op \in [Ops -> {Idle}] \cup
               {[m \in Ops |-> IF m = c THEN LeftRunning(n, v[n]) ELSE Idle] :
                   c \in {c \in Ops : "call" \in Kinds /\ manifest.durable},
                   n \in {n \in Nodes : v[n] # 0}}
    /\ tail = None
    /\ cuts = 0

-----------------------------------------------------------------------------
(* The gate: a chain of promises, one per mutation.                        *)

Inside(m) ==
    op[m].pc \in {"place", "apply", "running", "inspect", "look", "wipe"}

\* The mutations that are over.  The job of an update goes on outside.
Released(m) == op[m].pc \in {"job", "clean", "done"}

Resolved(p) == p \in Ops => Released(p)

Leave_Forgets(m, pc) ==
    /\ op' = [op EXCEPT ![m].pc = pc]
    /\ tail' = None
\* The release of withModuleMutation, whatever the operation ended with.
Leave(m, pc) ==
    /\ op' = [op EXCEPT ![m].pc = pc]
    /\ tail' = IF tail = m THEN None ELSE tail

Enqueue(m, k, n) ==
    /\ op' = [op EXCEPT ![m] = [Idle EXCEPT !.kind = k, !.node = n,
                                            !.pc = "queue", !.prev = tail]]
    /\ tail' = m

Arrive(m, k, n) ==
    /\ op[m].pc = "idle"
    /\ CASE k = "update" -> /\ op' = [op EXCEPT ![m].kind = k, ![m].node = n,
                                                ![m].pc = "outdated"]
                            /\ UNCHANGED tail
         [] k = "call" -> /\ op' = [op EXCEPT ![m].kind = k, ![m].node = n,
                                              ![m].pc = "select", ![m].prev = tail]
                          /\ UNCHANGED tail
         [] OTHER -> Enqueue(m, k, n)
    /\ UNCHANGED <<manifest, node, cuts>>

\* updateOutdatedModules takes the nodes whose receipt is older.
Outdated(m) ==
    /\ op[m].pc = "outdated"
    /\ \/ node[op[m].node].receipt = Old /\ Enqueue(m, "update", op[m].node)
       \/ op' = [op EXCEPT ![m].pc = "done"] /\ UNCHANGED tail
    /\ UNCHANGED <<manifest, node, cuts>>

Enter(m) ==
    /\ op[m].pc = "queue"
    /\ Resolved(op[m].prev)
    /\ op' = [op EXCEPT ![m].prev = None, ![m].pc =
                CASE op[m].kind = "uninstall" -> "inspect"
                  [] op[m].kind = "purge" -> "look"
                  [] OTHER -> "place"]
    /\ UNCHANGED <<manifest, node, tail, cuts>>

\* Placement, busy jobs, preflight, packages, mounts, staging: any may refuse.
Refused(m) ==
    /\ op[m].pc \in {"place", "apply", "inspect", "look", "wipe"}
    /\ Leave(m, "done")
    /\ UNCHANGED <<manifest, node, cuts>>

-----------------------------------------------------------------------------
(* install() and the update of an outdated module                          *)

\* assertInstallPlacement reads receipts; a job still at work has none yet.
Place(m) ==
    /\ op[m].pc = "place"
    /\ manifest.singleton =>
        \A n \in Nodes \ {op[m].node} : node[n].receipt = 0
    /\ op' = [op EXCEPT ![m].pc = "apply"]
    /\ UNCHANGED <<manifest, node, tail, cuts>>

\* The provisioning job is submitted, and the gate opens while it runs.  A
\* submission that timed out may have happened.
Submit(m) ==
    /\ op[m].pc = "apply" /\ manifest.durable
    /\ \E pc \in {IF op[m].kind = "update" THEN "job" ELSE "done", "done"} :
        /\ op' = [op EXCEPT ![m].pc = pc, ![m].work = "queued"]
        /\ tail' = IF tail = m THEN None ELSE tail
    /\ UNCHANGED <<manifest, node, cuts>>

\* A module without a job is installed by a script that install() waits for.
RunDirect(m) ==
    /\ op[m].pc = "apply" /\ ~manifest.durable
    /\ op' = [op EXCEPT ![m].pc = "running", ![m].work = "queued"]
    /\ UNCHANGED <<manifest, node, tail, cuts>>

Returned(m) ==
    /\ op[m].pc = "running"
    /\ op[m].work \in {"succeeded", "failed"}
    /\ Leave(m, IF op[m].kind = "update" /\ op[m].work = "succeeded"
                THEN "clean" ELSE "done")
    /\ UNCHANGED <<manifest, node, cuts>>

\* The call over SSH runs into its timeout: the script may go on.
GivenUp(m) ==
    /\ op[m].pc = "running" /\ cuts < MaxCuts
    /\ Leave(m, "done")
    /\ node' = [node EXCEPT ![op[m].node].amiss = TRUE]
    /\ cuts' = cuts + 1
    /\ UNCHANGED manifest

\* waitForJob ends with the job, or at its deadline.
JobWaited(m) ==
    /\ op[m].pc = "job"
    /\ op' = [op EXCEPT ![m].pc = IF op[m].work = "succeeded" THEN "clean" ELSE "done"]
    /\ UNCHANGED <<manifest, node, tail, cuts>>

\* The old directory goes once `current` names the new one.
Clean(m) ==
    /\ op[m].pc = "clean"
    /\ \/ /\ node[op[m].node].link = Current
          /\ node' = [node EXCEPT ![op[m].node].dirs = @ \ {Old}]
       \/ UNCHANGED node
    /\ op' = [op EXCEPT ![m].pc = "done"]
    /\ UNCHANGED <<manifest, tail, cuts>>

-----------------------------------------------------------------------------
(* uninstall() and purgeData()                                             *)

\* Installing or calling, as a complete listing of the node's jobs shows it.
BusyJob(n) ==
    \E m \in Ops : /\ op[m].node = n
                   /\ op[m].work \in Scripts \cup {"queued", "calling"}

\* A listing of the jobs that fails shows none; the receipt names what to
\* remove.
Inspect(m) ==
    LET n == op[m].node
    IN /\ op[m].pc = "inspect"
       /\ \E listed \in BOOLEAN : listed => ~BusyJob(n)
       /\ node[n].receipt # 0
       /\ op' = [op EXCEPT ![m].pc = "running", ![m].work = "unlink",
                           ![m].ver = node[n].receipt]
       /\ node' = [node EXCEPT ![n].amiss = @ \/ BusyJob(n)]
       /\ UNCHANGED <<manifest, tail, cuts>>

\* No installation in the inventory, or no inventory of the node: purgeData
\* looks at the list of modules, which a node that did not answer lacks.
Look(m) ==
    /\ op[m].pc = "look"
    /\ \E listed \in BOOLEAN : listed => ~BusyJob(op[m].node)
    /\ \E answered \in BOOLEAN : answered => node[op[m].node].receipt = 0
    /\ op' = [op EXCEPT ![m].pc = "wipe"]
    /\ UNCHANGED <<manifest, node, tail, cuts>>

Wipe(m) ==
    LET n == op[m].node
    IN /\ op[m].pc = "wipe"
       /\ node' = [node EXCEPT ![n].data = FALSE,
                               ![n].amiss = @ \/ BusyJob(n) \/ node[n].receipt # 0]
       /\ Leave(m, "done")
       /\ UNCHANGED <<manifest, cuts>>

-----------------------------------------------------------------------------
(* Background calls                                                        *)

\* After the mutations that were in line when it looked, a call wants a
\* receipt of the catalog's version, its directory and its link.
Select(m) ==
    LET n == op[m].node
    IN /\ op[m].pc = "select"
       /\ Resolved(op[m].prev)
       /\ \/ /\ manifest.durable /\ node[n].receipt = Current
             /\ node[n].link = Current /\ Current \in node[n].dirs
             /\ op' = [op EXCEPT ![m].pc = "submit", ![m].prev = None,
                                 ![m].ver = Current]
          \/ op' = [op EXCEPT ![m].pc = "done", ![m].prev = None]
       /\ UNCHANGED <<manifest, node, tail, cuts>>

SubmitCall(m) ==
    /\ op[m].pc = "submit"
    /\ \E work \in {"queued", None} :
        op' = [op EXCEPT ![m].pc = "done", ![m].work = work]
    /\ UNCHANGED <<manifest, node, tail, cuts>>

-----------------------------------------------------------------------------
(* At the node: the lifecycle scripts and the call                         *)

Locked_Never(n) == FALSE
\* The lock of the module's resource key.
Locked(n) ==
    \E m \in Ops : op[m].node = n /\ op[m].work \in Scripts \cup {"calling"}

\* The install script notes where `current` points, the receipt to restore,
\* and sets the data directory up.  A job whose lock is taken fails, and so does
\* a call whose directory is not there.
Start(m) ==
    LET n == op[m].node
    IN /\ op[m].work = "queued"
       /\ \/ /\ manifest.durable => ~Locked(n)
             /\ IF op[m].kind = "call"
                THEN /\ op[m].ver \in node[n].dirs
                     /\ op' = [op EXCEPT ![m].work = "calling"]
                     /\ UNCHANGED node
                ELSE /\ op' = [op EXCEPT ![m].work = "copy",
                                         ![m].prior = node[n].link,
                                         ![m].backup = node[n].receipt]
                     /\ node' = [node EXCEPT ![n].data = TRUE]
          \/ /\ op' = [op EXCEPT ![m].work = "failed"]
             /\ UNCHANGED node
       /\ UNCHANGED <<manifest, tail, cuts>>

CallEnds(m) ==
    /\ op[m].work = "calling"
    /\ op' = [op EXCEPT ![m].work = "succeeded"]
    /\ UNCHANGED <<manifest, node, tail, cuts>>

\* install.sh removes the version's directory, moves the new one to its place
\* and points `current` at it.
Copy(m) ==
    LET n == op[m].node
    IN /\ \/ /\ op[m].work = "copy"
             /\ node' = [node EXCEPT ![n].dirs = @ \ {Current}]
             /\ op' = [op EXCEPT ![m].work = "swap"]
          \/ /\ op[m].work = "swap"
             /\ node' = [node EXCEPT ![n].dirs = @ \cup {Current}, ![n].link = Current]
             /\ op' = [op EXCEPT ![m].work = "describe"]
       /\ UNCHANGED <<manifest, tail, cuts>>

\* What was amiss before is repaired, unless another script interferes.
Complete(m) ==
    LET n == op[m].node
        alone == \A p \in Ops \ {m} :
                    op[p].node = n => op[p].work \notin Scripts \cup Removals
    IN /\ op' = [op EXCEPT ![m].work = "succeeded"]
       /\ node' = [node EXCEPT ![n].receipt = Current,
                               ![n].amiss =
                                    @ /\ ~(/\ alone /\ node[n].link = Current
                                           /\ node[n].data
                                           /\ Current \in node[n].dirs)]

\* The receipt, and the end of the script unless a service is to start.
Describe(m) ==
    /\ op[m].work = "describe"
    /\ IF manifest.service
       THEN /\ op' = [op EXCEPT ![m].work = "activate"]
            /\ node' = [node EXCEPT ![op[m].node].receipt = Current]
       ELSE Complete(m)
    /\ UNCHANGED <<manifest, tail, cuts>>

Activate(m) ==
    /\ op[m].work = "activate"
    /\ Complete(m)
    /\ UNCHANGED <<manifest, tail, cuts>>

RollBack_LinkOnly(m) ==
    /\ op[m].work \in Scripts
    /\ node' = [node EXCEPT ![op[m].node].link = op[m].prior]
    /\ op' = [op EXCEPT ![m].work = "failed"]
    /\ UNCHANGED <<manifest, tail, cuts>>
\* The script fails and rolls the link back, and the receipt if it had been
\* replaced; the new directory stays, and what install.sh removed stays away.
RollBack(m) ==
    LET n == op[m].node
    IN /\ op[m].work \in Scripts
       /\ node' = [node EXCEPT ![n].link = op[m].prior,
                               ![n].amiss = @ \/ (op[m].work = "swap" /\ op[m].prior = Current),
                               ![n].receipt = IF op[m].work = "activate"
                                              THEN op[m].backup ELSE @]
       /\ op' = [op EXCEPT ![m].work = "failed"]
       /\ UNCHANGED <<manifest, tail, cuts>>

\* The link if it names this version, its directory, the receipt.
Removal(m) ==
    LET n == op[m].node
    IN /\ \/ /\ op[m].work = "unlink"
             /\ node' = [node EXCEPT ![n].link = IF @ = op[m].ver THEN 0 ELSE @]
             /\ op' = [op EXCEPT ![m].work = "remove"]
          \/ /\ op[m].work = "remove"
             /\ node' = [node EXCEPT ![n].dirs = @ \ {op[m].ver}]
             /\ op' = [op EXCEPT ![m].work = "forget"]
          \/ /\ op[m].work = "forget"
             /\ node' = [node EXCEPT ![n].receipt = 0]
             /\ op' = [op EXCEPT ![m].work = "succeeded"]
       /\ UNCHANGED <<manifest, tail, cuts>>

\* A script dies halfway.  The job of an installation is run again when a
\* restart of the node killed it, and is over when it was canceled.
Cut(m) ==
    LET n == op[m].node
    IN /\ op[m].work \in Scripts \cup Removals /\ cuts < MaxCuts
       /\ \E work \in IF op[m].work \in Scripts /\ manifest.durable
                      THEN {"queued", "failed"} ELSE {"failed"} :
            op' = [op EXCEPT ![m].work = work]
       /\ node' = [node EXCEPT ![n].amiss = TRUE]
       /\ cuts' = cuts + 1
       /\ UNCHANGED <<manifest, tail>>

-----------------------------------------------------------------------------
Proceed(m) ==
    \/ Outdated(m) \/ Enter(m) \/ Refused(m) \/ Place(m) \/ Submit(m)
    \/ RunDirect(m) \/ Returned(m) \/ GivenUp(m) \/ JobWaited(m) \/ Clean(m)
    \/ Inspect(m) \/ Look(m) \/ Wipe(m) \/ Select(m) \/ SubmitCall(m)

Work(m) ==
    \/ Start(m) \/ CallEnds(m) \/ Copy(m) \/ Describe(m) \/ Activate(m)
    \/ RollBack(m) \/ Removal(m) \/ Cut(m)

Next ==
    \E m \in Ops :
        \/ \E k \in Kinds, n \in Nodes : Arrive(m, k, n)
        \/ Proceed(m)
        \/ Work(m)

Spec == Init /\ [][Next]_vars

\* Every await is settled, by an answer or by a timeout; scripts are bounded
\* by the timeouts of their jobs.
FairSpec == Spec /\ \A m \in Ops : WF_vars(Proceed(m)) /\ WF_vars(Work(m))

-----------------------------------------------------------------------------
TypeOK ==
    /\ manifest \in [durable : BOOLEAN, service : BOOLEAN, singleton : BOOLEAN]
    /\ node \in [Nodes -> NodeState]
    /\ op \in [Ops -> OpState]
    /\ tail \in Ops \cup {None}
    /\ cuts \in 0 .. MaxCuts

\* withModuleMutation: no two mutations of a module are at work together in
\* the control plane, although the chain forgets its tail when that is over.
MutationsExclusive ==
    \A m, p \in Ops : Inside(m) /\ Inside(p) => m = p

AtWork(n) ==
    \E m \in Ops : op[m].node = n /\ op[m].work \in Scripts \cup Removals

\* Between scripts, and unless one was cut off or started blindly, receipt,
\* link and directories agree: installations that fail at any step, and
\* updates, leave what was there before (one that fails between the removal and
\* the move of its own version's directory excepted); an installation that
\* completes also repairs what an interrupted one has left.
ReceiptIsTrue ==
    \A n \in Nodes :
        ~AtWork(n) /\ ~node[n].amiss =>
            /\ node[n].link = node[n].receipt
            /\ node[n].receipt # 0 =>
                node[n].receipt \in node[n].dirs /\ node[n].data

\* Background calls run from the directory of their version.  It stays while
\* they do, whatever installs and updates arrive and whatever the control
\* plane overlooks; only an uninstall takes it away.
CallsKeepTheirVersion ==
    \A c \in Ops :
        op[c].work = "calling" =>
            \/ op[c].ver \in node[op[c].node].dirs
            \/ \E m \in Ops : /\ op[m].kind = "uninstall" /\ op[m].node = op[c].node
                              /\ op[m].work # None

\* Every operation comes to its end: no promise of the gate is left open.
OperationsEnd ==
    \A m \in Ops : op[m].pc # "idle" ~> op[m].pc = "done"

\* docs/Modules.md: a singleton module may have one installation.
OneInstallation ==
    manifest.singleton => Cardinality({n \in Nodes : node[n].receipt # 0}) <= 1

\* docs/Modules.md: purging retained data is allowed only after uninstall.
PurgeSparesInstalled ==
    [][\A n \in Nodes : node[n].data /\ ~node'[n].data => node[n].receipt = 0]_vars
=============================================================================
