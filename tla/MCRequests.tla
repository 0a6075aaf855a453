------------------------------ MODULE MCRequests ------------------------------
(* What is asked of the system, one part at a time: jobs and their admission  *)
(* (JobManager), the requests of calls (Requests), and what text, JSON, time, *)
(* search and library operations make of theirs.  `part` is chosen in MCInit; *)
(* the variables of the others stay as they begin.                            *)
(*                                                                            *)
(* The jobs have keys of their own, so that only the limit can refuse one;    *)
(* MCModules has jobs that only a shared key refuses.  The control plane does *)
(* not restart here: MCJobManager's does, and LimitHeld is proved for any     *)
(* number of restarts.                                                        *)
EXTENDS JobManager, TLC

CONSTANTS j1, j2, c1, c2

VARIABLES part,
          phase, req, work, inputs, mapping, left, limits,                    \* Requests
          task,                                                               \* JsonTools
          cut,                                                                \* TextTools
          asked,                                                              \* TimeTools
          query, papers, offset, seen, corrected,                             \* CorpusQuery
          previous, at, holds, partial, listed, missing, read                 \* RenderLibrary

requestVars == <<phase, req, work, inputs, mapping, left, limits>>
queryVars == <<query, papers, offset, seen, corrected>>
libraryVars == <<previous, at, holds, partial, listed, missing, read>>
allVars == <<vars, requestVars, task, cut, asked, queryVars, libraryVars>>

MCJobs == {j1, j2}
MCCalls == {c1, c2}
OwnKeys == [j \in MCJobs |-> IF j = j1 THEN {1} ELSE {2}]

Asked == INSTANCE Requests
Values == INSTANCE JsonTools
Texts == INSTANCE TextTools
Times == INSTANCE TimeTools
Queries == INSTANCE CorpusQuery WITH
    Letters <- {1, 2}, MaxWord <- 3, MaxTokens <- 3, Limit <- 1, MaxOffset <- 3, MaxClauses <- 3, Long <- 3, Stem <- 2
Assets == INSTANCE RenderLibrary WITH MaxText <- 5, MaxEvents <- 4

MCInit ==
    /\ part \in {"limited", "requests", "values", "texts", "times", "queries", "library"}
    /\ Init /\ Asked!Init /\ Values!Init /\ Texts!Init /\ Times!Init
    /\ Queries!Init /\ Assets!Init

MCNext ==
    \/ /\ part = "limited" /\ Next
       /\ UNCHANGED <<part, requestVars, task, cut, asked, queryVars, libraryVars>>
    \/ /\ part = "requests" /\ Asked!Next
       /\ UNCHANGED <<part, vars, task, cut, asked, queryVars, libraryVars>>
    \/ /\ part = "values" /\ Values!Next
       /\ UNCHANGED <<part, vars, requestVars, cut, asked, queryVars, libraryVars>>
    \/ /\ part = "texts" /\ Texts!Next
       /\ UNCHANGED <<part, vars, requestVars, task, asked, queryVars, libraryVars>>
    \/ /\ part = "times" /\ Times!Next
       /\ UNCHANGED <<part, vars, requestVars, task, cut, queryVars, libraryVars>>
    \/ /\ part = "queries" /\ Queries!Next
       /\ UNCHANGED <<part, vars, requestVars, task, cut, asked, libraryVars>>
    \/ /\ part = "library" /\ Assets!Next
       /\ UNCHANGED <<part, vars, requestVars, task, cut, asked, queryVars>>

MCSpec == MCInit /\ [][MCNext]_<<part, allVars>>

\* The cache and the announcements decide nothing about admission, nor does which end a
\* job came to, whether it was removed since and what its history was, or how far a plain
\* list has come.  Of its listing a submission needs to know which jobs are active, a cancel
\* whether its own is, a reconcile once it has chosen the jobs only which of those left are.
\* Of the other parts everything counts.
Ended(j) == remote[j] \in Terminal \cup {"gone"}
Told(c) ==
    LET shown == call[c].seen
        rest == {j \in Jobs : shown[j] # "absent" /\ ~(j = call[c].job /\ call[c].stage = "done")}
    IN  CASE call[c].op = "submit" -> Active(shown)
          [] call[c].op = "cancel" -> call[c].job \in Active(shown)
          [] call[c].op = "reconcile" /\ call[c].stage = "served" ->
                [j \in rest |-> IF shown[j] \in Unsettled THEN shown[j] ELSE "failed"]
          [] call[c].op = "reconcile" /\ call[c].stage # "served" -> [j \in rest |-> j \in Active(shown)]
          [] OTHER -> {}
Heard(c) ==
    [call[c] EXCEPT !.seen = Told(c), !.stage = IF call[c].op = "list" THEN "sent" ELSE @]
Live(js) == {j \in js : ~Ended(j)}
AdmissionView ==
    <<[j \in Jobs |-> IF Ended(j) THEN "gone" ELSE remote[j]], [c \in Calls |-> Heard(c)],
      Live(blind), Live(late), Live(revived), restarts>>
PartView ==
    <<part, IF part = "limited" THEN AdmissionView
            ELSE <<requestVars, task, cut, asked, queryVars, libraryVars>> >>

Symmetry == Permutations(MCJobs) \cup Permutations(MCCalls)

\* What requests mean and get: the properties of Requests, of CorpusQuery (the distances,
\* which no state changes, looked at once) and of RenderLibrary.
RequestsHold ==
    /\ part = "requests" =>
           /\ Asked!TypeOK
           /\ Asked!NamesLeadToContent /\ Asked!InputsAreWithinBounds /\ Asked!DefaultsAreGrantable
    /\ part = "queries" => Queries!QueriesMeanWhatTheySay /\ Queries!PagesComplete
    /\ part = "queries" /\ query = <<>> => Queries!DistanceIsExact
    /\ part = "library" => Assets!ListedIsVerified /\ Assets!LibraryIsReadable
\* What the tools on values, texts and times are for: the properties of JsonTools,
\* TextTools and TimeTools.
ToolsHold ==
    /\ part = "values" =>
           Values!ValuesSurvive /\ Values!SchemaAcceptsSamples /\ Values!VersionsAreOrdered
    /\ part = "texts" => Texts!SectionsCoverText /\ Texts!NothingIsLost
    /\ part = "times" => Times!DurationsSurvive /\ Times!ConversionKeepsInstant /\ Times!DifferenceIsElapsed
=============================================================================
