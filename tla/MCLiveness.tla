------------------------------ MODULE MCLiveness ------------------------------
(* The components that must get somewhere, one at a time: `part` is chosen in *)
(* MCInit and the others stay as they begin.  Each has the fairness of its    *)
(* own module.                                                                *)
EXTENDS ModuleCall

CONSTANTS j1, d1, d2, p1, c1

VARIABLES part,
          status, unit, enabled, handling, interrupted, held, command, starts, canceler, failer,
          young, faults,                                                \* JobRunner
          dir, res, stale, sections, op, crashes,                       \* ArtifactStore
          service, up, call, free, recent, left, orphans                \* Broker

Runner == INSTANCE JobRunner WITH
    Jobs <- {j1}, keysOf <- [j \in {j1} |-> {1, 2}], Rerun <- {j1}, MaxFaults <- 3, pc <- handling
Store == INSTANCE ArtifactStore WITH
    Dirs <- {d1, d2}, Reservations <- {}, Publishers <- {p1}, held <- sections,
    Quota <- 1, MaxSize <- 1, MaxDays <- 2, MaxCrashes <- 1
Served == INSTANCE Broker WITH Calls <- {c1}, Slots <- 1, PerMinute <- 1

runnerVars == <<status, unit, enabled, handling, interrupted, held, command, starts, canceler,
                failer, young, faults>>
storeVars == <<dir, res, stale, sections, op, crashes>>
brokerVars == <<service, up, call, free, recent, left, orphans>>

MCInit ==
    /\ part \in {"runner", "store", "broker", "call"}
    /\ Runner!Init /\ Store!Init /\ Served!Init /\ Init
    /\ part # "broker" => service = "compute"
    /\ part # "call" => module = "compute"

RunnerStep == Runner!Next /\ UNCHANGED <<part, storeVars, brokerVars, vars>>
StoreStep == Store!Next /\ UNCHANGED <<part, runnerVars, brokerVars, vars>>
BrokerStep == Served!Next /\ UNCHANGED <<part, runnerVars, storeVars, vars>>
CallStep == Next /\ UNCHANGED <<part, runnerVars, storeVars, brokerVars>>

MCNext ==
    \/ part = "runner" /\ RunnerStep
    \/ part = "store" /\ StoreStep
    \/ part = "broker" /\ BrokerStep
    \/ part = "call" /\ CallStep

\* The fair actions of a runner and of a broker that have been asked nothing are disabled.
MCSpec ==
    /\ MCInit /\ [][MCNext]_<<part, runnerVars, storeVars, brokerVars, vars>>
    /\ Runner!Fairness /\ Served!Fairness
    /\ WF_storeVars(part = "store" /\ Store!Proceed)
    /\ WF_storeVars(part = "store" /\ Store!Day)
    /\ SF_storeVars(part = "store" /\ Store!GcStart("gc"))
    /\ WF_vars(part = "call" /\ Wrap)
    /\ WF_vars(part = "call" /\ Timeout)

\* JobRunner's property of the same name.
EveryJobSettles == Runner!EveryJobSettles
\* ArtifactStore's properties of the same names.
ArtifactsExpire == Store!ArtifactsExpire
StaleUploadsGo == Store!StaleUploadsGo
\* Broker's property of the same name.
AbandonedEnds == Served!AbandonedEnds
\* ModuleCall's CallSettles, of the wrapper when it is the part that runs.
WrapperSettles == part = "call" => CallSettles
=============================================================================
