------------------------------ MODULE MCModules ------------------------------
(* The life of modules, one part at a time: their installation on nodes       *)
(* (ModuleManager), the jobs of one module, which share its resource key      *)
(* (JobManager), and the provisioning of a corpus (Corpus).  `part` is chosen *)
(* in MCInit; the variables of the others stay as they begin.                 *)
(*                                                                            *)
(* The limit of two leaves the shared key alone to refuse a job; MCRequests   *)
(* has the limit refuse.                                                      *)
EXTENDS ModuleManager, TLC

CONSTANTS n1, o1, o2, o3, j1, j2, c1, c2,
          Jobs, Calls                                                     \* JobManager

VARIABLES part,
          remote, cache, call, settled, blind, late, revived, restarts,            \* JobManager
          day, release, feed, active, working, wal, hot, checkpoint, run, kills   \* Corpus

jobVars == <<remote, cache, call, settled, blind, late, revived, restarts>>
corpusVars == <<day, release, feed, active, working, wal, hot, checkpoint, run, kills>>

OneNode == {n1}
ThreeOps == {o1, o2, o3}
MCJobs == {j1, j2}
MCCalls == {c1, c2}

\* python-compute and its like, document-ocr, text-tools.
Replicated ==
    {[durable |-> d, service |-> s, singleton |-> FALSE] : d \in BOOLEAN, s \in BOOLEAN}
        \ {[durable |-> FALSE, service |-> TRUE, singleton |-> FALSE]}
AllKinds == Mutations \cup {"call"}
AnyVersion == {0, Old, Current}

Keyed == INSTANCE JobManager WITH keysOf <- [j \in Jobs |-> {1}], Limit <- 2, MaxRestarts <- 0
Corpora == INSTANCE Corpus WITH
    Sources <- {"arxiv", "wikipedia"}, Batches <- 1, Topics <- 1, MaxRelease <- 2, MaxDay <- 1, MaxKills <- 1

MCInit ==
    /\ part \in {"lifecycle", "keyed", "corpus"}
    /\ Init /\ Keyed!Init /\ Corpora!Init
    /\ part # "lifecycle" =>
           /\ \A n \in Nodes : node[n] = Installed(0)
           /\ manifest = [durable |-> FALSE, service |-> FALSE, singleton |-> FALSE]

MCNext ==
    \/ part = "lifecycle" /\ Next /\ UNCHANGED <<part, jobVars, corpusVars>>
    \/ part = "keyed" /\ Keyed!Next /\ UNCHANGED <<part, vars, corpusVars>>
    \/ part = "corpus" /\ Corpora!Next /\ UNCHANGED <<part, vars, jobVars>>

MCSpec == MCInit /\ [][MCNext]_<<part, vars, jobVars, corpusVars>>

\* The cache and the announcements decide nothing about admission, nor does which end a
\* job came to, whether it was removed since and what its history was, or how far a plain
\* list has come.  Of its listing a submission needs to know which jobs are active, a cancel
\* whether its own is, a reconcile once it has chosen the jobs only which of those left are.
Ended(j) == remote[j] \in Keyed!Terminal \cup {"gone"}
Told(c) ==
    LET shown == call[c].seen
        rest == {j \in Jobs : shown[j] # "absent" /\ ~(j = call[c].job /\ call[c].stage = "done")}
    IN  CASE call[c].op = "submit" -> Keyed!Active(shown)
          [] call[c].op = "cancel" -> call[c].job \in Keyed!Active(shown)
          [] call[c].op = "reconcile" /\ call[c].stage = "served" ->
                [j \in rest |-> IF shown[j] \in Keyed!Unsettled THEN shown[j] ELSE "failed"]
          [] call[c].op = "reconcile" /\ call[c].stage # "served" -> [j \in rest |-> j \in Keyed!Active(shown)]
          [] OTHER -> {}
Heard(c) ==
    [call[c] EXCEPT !.seen = Told(c), !.stage = IF call[c].op = "list" THEN "sent" ELSE @]
Live(js) == {j \in js : ~Ended(j)}
AdmissionView ==
    <<[j \in Jobs |-> IF Ended(j) THEN "gone" ELSE remote[j]], [c \in Calls |-> Heard(c)],
      Live(blind), Live(late), Live(revived), restarts>>

\* Of an operation that is over only an uninstallation that began is still asked for, and
\* nothing waits for one that was released.
Over(m) == op[m].pc = "done" /\ op[m].work \in {None, "succeeded", "failed"}
Removed(m) == op[m].kind = "uninstall" /\ op[m].work # None
LifecycleView ==
    <<manifest, node, tail, cuts,
      [m \in Ops |-> IF Over(m) THEN <<"over", Removed(m), op[m].node>>
                     ELSE [op[m] EXCEPT !.prev = IF Resolved(@) THEN None ELSE @]]>>

PartView ==
    CASE part = "lifecycle" -> <<part, LifecycleView>>
      [] part = "keyed" -> <<part, AdmissionView>>
      [] part = "corpus" -> <<part, corpusVars>>

\* Operations differ in nothing but the order they arrive in; the names are given in it.
NamedInTurn ==
    /\ op[o3].pc # "idle" => op[o2].pc # "idle"
    /\ op[o2].pc # "idle" => op[o1].pc # "idle"

Symmetry == Permutations(MCJobs) \cup Permutations(MCCalls)

\* The type invariant of the part that runs.
TypesOK ==
    /\ part = "lifecycle" => TypeOK
    /\ part = "keyed" => Keyed!TypeOK
    /\ part = "corpus" => Corpora!TypeOK

\* JobManager's ResourcesHeld, where the keys are what refuses.
KeysAreHeld == part = "keyed" => Keyed!ResourcesHeld
\* Corpus's properties of the same names.
ActivatedIsWhole == part = "corpus" => Corpora!ActivatedIsWhole
NoGap == part = "corpus" => Corpora!NoGap
=============================================================================
