------------------------------ MODULE MCServices ------------------------------
(* What the modules make of calls, one part at a time: browser-retrieval with *)
(* its browsers and downloads, the brokers of the modules that compute        *)
(* (Broker), the two engines of image-processing (Imaging) and the child in   *)
(* which text-tools runs a regular expression (RegexWorker).  `part` is       *)
(* chosen in MCInit; the variables of the others stay as they begin.          *)
EXTENDS Browser, TLC

CONSTANTS c1, c2,
          MaxSide, MaxPixels, MaxEdits, Margin                   \* Imaging

ASSUME ImageAssumption ==
  /\ MaxSide \in Nat \ {0}
  /\ MaxPixels \in Nat /\ MaxEdits \in Nat /\ Margin \in Nat

VARIABLES part,
          service, running, served, slots, counted, left, orphans,  \* Broker
          step, pil, mag, gravity, source, exact, edits,                   \* Imaging
          parent, child, pipe                                       \* RegexWorker

MCCalls == {c1, c2}
Symmetry == Permutations(MCCalls)

Compute == INSTANCE Broker WITH
    up <- running, call <- served, free <- slots, recent <- counted, Slots <- 1
Images == INSTANCE Imaging
Worker == INSTANCE RegexWorker

brokerVars == <<service, running, served, slots, counted, left, orphans>>
imageVars == <<step, pil, mag, gravity, source, exact, edits>>
workerVars == <<parent, child, pipe>>

MCInit ==
    /\ part \in {"browser", "compute", "images", "worker"}
    /\ Init /\ Compute!Init /\ Images!Init /\ Worker!Init
    /\ part # "compute" => service = "compute"

MCNext ==
    \/ part = "browser" /\ Next /\ UNCHANGED <<part, brokerVars, imageVars, workerVars>>
    \/ part = "compute" /\ Compute!Next /\ UNCHANGED <<part, vars, imageVars, workerVars>>
    \/ part = "images" /\ Images!Next /\ UNCHANGED <<part, vars, brokerVars, workerVars>>
    \/ part = "worker" /\ Worker!Next /\ UNCHANGED <<part, vars, brokerVars, imageVars>>

MCSpec == MCInit /\ [][MCNext]_<<part, vars, brokerVars, imageVars, workerVars>>

\* Strays, what kind of call leaves its slot, and a file remembered that the store no longer
\* has decide nothing.  Of the other parts everything counts.
InCall(c) == [call[c] EXCEPT !.op = IF call[c].stage = "leaving" THEN "page" ELSE @]
BrowserView ==
    <<up, [c \in Calls |-> InCall(c)], free, recent, browsers, cooling, version,
      IF held THEN remembered ELSE NoFile>>
PartView ==
    CASE part = "browser" -> <<part, BrowserView>>
      [] part = "compute" -> <<part, brokerVars>>
      [] part = "images" -> <<part, imageVars>>
      [] part = "worker" -> <<part, workerVars>>

\* The type invariant of the part that runs.
TypesOK ==
    /\ part = "browser" => TypeOK
    /\ part = "compute" => Compute!TypeOK
    /\ part = "images" => Images!TypeOK
    /\ part = "worker" => Worker!TypeOK

\* Broker's properties of the same names.
SlotsExact == part = "compute" => Compute!SlotsExact
NothingLeft == part = "compute" => Compute!NothingLeft
ErrorStoresNothing == part = "compute" => Compute!ErrorStoresNothing
\* Imaging's property of the same name.
EnginesAgree == part = "images" => Images!EnginesAgree
\* RegexWorker's property of the same name.
WorkerIsReaped == part = "worker" => Worker!WorkerIsReaped
=============================================================================
