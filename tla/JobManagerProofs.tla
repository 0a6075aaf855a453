-------------------------- MODULE JobManagerProofs --------------------------
(***************************************************************************)
(* Proofs about JobManager for every set of jobs, every assignment of      *)
(* resource keys, every number of calls in progress and every limit.       *)
(***************************************************************************)
EXTENDS JobManager, FiniteSetTheorems, TLAPS

-----------------------------------------------------------------------------
(* How a step changes the calls in progress.                               *)

Ops    == {"idle", "list", "submit", "cancel", "reconcile"}
Stages == {"idle", "waiting", "sent", "served", "failed", "exec", "done"}

\* A call that needs a job to go on has one.
JobInv ==
    \A c \in Calls :
        \/ call[c].op \in {"submit", "cancel"}
        \/ call[c].op = "reconcile" /\ call[c].stage \in {"exec", "done"}
        => call[c].job \in Jobs

\* The call of slot c becomes r, the others stay.
Becomes(c, r) == /\ r \in Call
                 /\ call' \in [Calls -> Call]
                 /\ call'[c] = r
                 /\ \A d \in Calls \ {c} : call'[d] = call[d]

LEMMA NothingType == Nothing \in [Jobs -> Listing] /\ \A j \in Jobs : Nothing[j] = "absent"
BY DEF Nothing, Listing

LEMMA IdleType == /\ Idle \in Call /\ Idle.op = "idle" /\ Idle.stage = "idle"
                  /\ Idle.job = "none" /\ Idle.seen = Nothing
BY NothingType DEF Idle, Call

\* A call moves to another stage.
LEMMA StageStep ==
    ASSUME TypeOK, NEW c \in Calls, NEW s \in Stages, Stage(c, s)
    PROVE  Becomes(c, [call[c] EXCEPT !.stage = s])
BY DEF TypeOK, Stages, Stage, Becomes, Call

LEMMA ReturnStep ==
    ASSUME TypeOK, NEW c \in Calls, Return(c)
    PROVE  Becomes(c, Idle)
BY IdleType DEF TypeOK, Return, Becomes

LEMMA BeginStep ==
    ASSUME TypeOK, NEW c \in Calls, NEW op \in Ops, NEW s \in Stages, NEW j \in Jobs \cup {"none"},
           Begin(c, op, s, j)
    PROVE  Becomes(c, [Idle EXCEPT !.op = op, !.stage = s, !.job = j])
<1>1. [Idle EXCEPT !.op = op, !.stage = s, !.job = j] \in Call
  BY IdleType DEF Call, Ops, Stages
<1> QED
  BY <1>1 DEF TypeOK, Begin, Becomes

LEMMA ScriptStep ==
    ASSUME TypeOK, NEW c \in Calls, Script(c)
    PROVE  Becomes(c, [call[c] EXCEPT !.stage = "exec", !.seen = Nothing])
<1>1. call[c] \in Call
  BY DEF TypeOK
<1>2. [call[c] EXCEPT !.stage = "exec", !.seen = Nothing] \in Call
  BY <1>1, NothingType DEF Call
<1>3. call' = [call EXCEPT ![c] = [call[c] EXCEPT !.stage = "exec", !.seen = Nothing]]
  BY <1>1 DEF TypeOK, Script, Call
<1> QED
  BY <1>2, <1>3 DEF TypeOK, Becomes

LEMMA NextJobStep ==
    ASSUME TypeOK, NEW c \in Calls, NEW todo \in [Jobs -> Listing], NextJob(c, todo)
    PROVE  \/ Becomes(c, Idle)
           \/ \E j \in Jobs : todo[j] # "absent"
                /\ Becomes(c, [call[c] EXCEPT !.stage = "exec", !.job = j, !.seen = todo])
<1>1. CASE todo = Nothing
  BY <1>1, ReturnStep DEF NextJob
<1>2. CASE todo # Nothing
  <2>1. PICK j \in {i \in Jobs : todo[i] # "absent"} :
             call' = [call EXCEPT ![c] = [@ EXCEPT !.stage = "exec", !.job = j, !.seen = todo]]
    BY <1>2 DEF NextJob
  <2>2. [call[c] EXCEPT !.stage = "exec", !.job = j, !.seen = todo] \in Call
    BY DEF TypeOK, Call
  <2>3. Becomes(c, [call[c] EXCEPT !.stage = "exec", !.job = j, !.seen = todo])
    BY <2>1, <2>2 DEF TypeOK, Becomes
  <2> QED
    BY <2>1, <2>3
<1> QED
  BY <1>1, <1>2

\* What becomes of a call when its listing has been handled.
After(c, seen) ==
    \/ Becomes(c, Idle)
    \/ /\ call[c].op \in {"submit", "cancel"}
       /\ call[c].op = "submit" => Admitted(call[c].job, seen)
       /\ Becomes(c, [call[c] EXCEPT !.stage = "exec", !.seen = Nothing])
    \/ /\ call[c].op = "reconcile"
       /\ \E j \in Jobs, todo \in [Jobs -> Listing] :
             /\ \A i \in Jobs : todo[i] \in {"absent", seen[i]}
             /\ todo[j] # "absent"
             /\ Becomes(c, [call[c] EXCEPT !.stage = "exec", !.job = j, !.seen = todo])

LEMMA ContinueStep ==
    ASSUME TypeOK, NEW c \in Calls, NEW seen \in [Jobs -> Listing], Continue(c, seen)
    PROVE  After(c, seen)
<1>1. CASE call[c].op = "list" /\ Return(c)
  BY <1>1, ReturnStep DEF After
<1>2. CASE call[c].op = "submit" /\ IF Admitted(call[c].job, seen) THEN Script(c) ELSE Return(c)
  BY <1>2, ReturnStep, ScriptStep DEF After
<1>3. CASE call[c].op = "cancel" /\ IF call[c].job \in Active(seen) THEN Script(c) ELSE Return(c)
  BY <1>3, ReturnStep, ScriptStep DEF After
<1>4. CASE call[c].op = "reconcile" /\ Reconcile(c, seen)
  <2>1. PICK skipped \in SUBSET {j \in Jobs : seen[j] \in {"queued"} \cup Terminal} :
             NextJob(c, [j \in Jobs |-> IF j \in skipped THEN "absent" ELSE seen[j]])
    BY <1>4 DEF Reconcile
  <2> DEFINE todo == [j \in Jobs |-> IF j \in skipped THEN "absent" ELSE seen[j]]
  <2>2. todo \in [Jobs -> Listing] /\ \A i \in Jobs : todo[i] \in {"absent", seen[i]}
    BY DEF Listing
  <2> HIDE DEF todo
  <2>3. NextJob(c, todo)
    BY <2>1 DEF todo
  <2> QED
    BY <1>4, <2>2, <2>3, NextJobStep DEF After
<1> QED
  BY <1>1, <1>2, <1>3, <1>4 DEF Continue

LEMMA HandledStep ==
    ASSUME TypeOK, NEW c \in Calls, Handled(c)
    PROVE  \/ Becomes(c, Idle)
           \/ \E j \in Jobs, todo \in [Jobs -> Listing] :
                 /\ \A i \in Jobs : todo[i] \in {"absent", call[c].seen[i]}
                 /\ todo[j] # "absent"
                 /\ Becomes(c, [call[c] EXCEPT !.stage = "exec", !.job = j, !.seen = todo])
<1> DEFINE todo == [call[c].seen EXCEPT ![call[c].job] = "absent"]
<1>1. call[c].seen \in [Jobs -> Listing]
  BY DEF TypeOK, Call
<1>2. todo \in [Jobs -> Listing] /\ \A i \in Jobs : todo[i] \in {"absent", call[c].seen[i]}
  BY <1>1 DEF Listing
<1>3. NextJob(c, todo)
  BY DEF Handled
<1> HIDE DEF todo
<1> QED
  BY <1>2, <1>3, NextJobStep

-----------------------------------------------------------------------------
(* Types.                                                                  *)

LEMMA JobBecomes ==
    ASSUME JobInv, NEW c \in Calls, NEW r, Becomes(c, r),
           \/ r.op \in {"submit", "cancel"}
           \/ r.op = "reconcile" /\ r.stage \in {"exec", "done"}
           => r.job \in Jobs
    PROVE  JobInv'
BY DEF JobInv, Becomes

\* Every step keeps the types.
LEMMA TypeStep ==
    ASSUME TypeOK, JobInv, [Next]_vars
    PROVE  TypeOK' /\ JobInv'
<1> USE DEF historyVars
<1>0. /\ \A c \in Calls : call[c] \in Call
      /\ Listing \subseteq Status
  BY DEF TypeOK, Listing, Status
<1>1. CASE Restart
  <2>1. call' \in [Calls -> Call] /\ \A c \in Calls : call'[c] = Idle
    BY <1>1, IdleType DEF Restart
  <2>2. JobInv'
    BY <2>1, IdleType DEF JobInv
  <2>3. {call[c].job : c \in {d \in Calls : At(d, "submit", "exec")}} \subseteq Jobs
    BY DEF At, JobInv
  <2>4. cache' \in [Jobs -> Listing]
    BY <1>1, NothingType DEF Restart
  <2>5. restarts' \in 0..MaxRestarts
    BY <1>1, RestartsAssumption DEF Restart, TypeOK
  <2>6. settled' \in [Jobs -> 0..2]
    BY <1>1 DEF Restart
  <2> QED
    BY <1>1, <2>1, <2>2, <2>3, <2>4, <2>5, <2>6 DEF Restart, TypeOK
<1>2. ASSUME NEW j \in Jobs, NodeStep(j)
      PROVE  TypeOK' /\ JobInv'
  <2>1. /\ remote' \in [Jobs -> Status] /\ revived' \subseteq Jobs
        /\ UNCHANGED <<cache, call, settled, blind, late, restarts>>
    BY <1>2 DEF TypeOK, NodeStep, StateWritten, LateSubmission, Status, Over, Listing, Unsettled
  <2> QED
    BY <2>1 DEF TypeOK, JobInv
<1>3. ASSUME NEW c \in Calls, Arrive(c)
      PROVE  TypeOK' /\ JobInv'
  <2>1. CASE CallList(c)
    <3>1. Becomes(c, [Idle EXCEPT !.op = "list", !.stage = "sent", !.job = "none"])
      BY <2>1, BeginStep DEF CallList, Ops, Stages
    <3> QED
      BY <2>1, <3>1, IdleType, JobBecomes DEF CallList, TypeOK, Becomes, Call
  <2>2. CASE Tick(c)
    <3>1. Becomes(c, [Idle EXCEPT !.op = "reconcile", !.stage = "sent", !.job = "none"])
      BY <2>2, BeginStep DEF Tick, Ops, Stages
    <3> QED
      BY <2>2, <3>1, IdleType, JobBecomes DEF Tick, TypeOK, Becomes, Call
  <2>3. ASSUME NEW j \in Jobs, CallSubmit(c, j)
        PROVE  TypeOK' /\ JobInv'
    <3>1. Becomes(c, [Idle EXCEPT !.op = "submit", !.stage = "waiting", !.job = j])
      BY <2>3, BeginStep DEF CallSubmit, Ops, Stages
    <3> QED
      BY <2>3, <3>1, IdleType, JobBecomes DEF CallSubmit, TypeOK, Becomes, Call
  <2>4. ASSUME NEW j \in Jobs, CallCancel(c, j)
        PROVE  TypeOK' /\ JobInv'
    <3>1. Becomes(c, [Idle EXCEPT !.op = "cancel", !.stage = "sent", !.job = j])
      BY <2>4, BeginStep DEF CallCancel, Ops, Stages
    <3> QED
      BY <2>4, <3>1, IdleType, JobBecomes DEF CallCancel, TypeOK, Becomes, Call
  <2> QED
    BY <1>3, <2>1, <2>2, <2>3, <2>4 DEF Arrive
<1>4. ASSUME NEW c \in Calls, ListServe(c)
      PROVE  TypeOK' /\ JobInv'
  <2> DEFINE seen == [j \in Jobs |-> Listed(j)]
             r == [call[c] EXCEPT !.stage = "served", !.seen = seen]
  <2>1. seen \in [Jobs -> Listing]
    BY DEF Listed, TypeOK, Status, Over, Listing, Terminal
  <2>2. r \in Call
    BY <1>0, <2>1 DEF Call
  <2>3. call' = [call EXCEPT ![c] = r]
    BY <1>4, <1>0 DEF ListServe, TypeOK, Call
  <2>4. Becomes(c, r) /\ r.op = call[c].op /\ r.job = call[c].job /\ r.stage = "served"
    BY <2>2, <2>3, <1>0 DEF Becomes, TypeOK, Call
  <2> HIDE DEF r
  <2>5. JobInv'
    BY <2>4, JobBecomes DEF JobInv
  <2> QED
    BY <1>4, <2>4, <2>5 DEF ListServe, TypeOK, Becomes
<1>5. ASSUME NEW c \in Calls, ListFails(c)
      PROVE  TypeOK' /\ JobInv'
  <2>1. Becomes(c, [call[c] EXCEPT !.stage = "failed"])
    BY <1>5, StageStep DEF ListFails, Stages
  <2> QED
    BY <1>5, <1>0, <2>1, JobBecomes DEF ListFails, TypeOK, Becomes, JobInv, Call
<1>6. ASSUME NEW c \in Calls, Proceed(c)
      PROVE  TypeOK' /\ JobInv'
  <2>1. CASE SubmitNext(c)
    <3>1. Becomes(c, [call[c] EXCEPT !.stage = "sent"])
      BY <2>1, StageStep DEF SubmitNext, Stages
    <3> QED
      BY <2>1, <1>0, <3>1, JobBecomes DEF SubmitNext, TypeOK, Becomes, JobInv, Call
  <2>2. CASE ListReply(c)
    <3>1. call[c].seen \in [Jobs -> Listing]
      BY <1>0 DEF Call
    <3>2. After(c, call[c].seen)
      BY <2>2, <3>1, ContinueStep DEF ListReply
    <3>3. call' \in [Calls -> Call]
      BY <3>2 DEF After, Becomes
    <3>4. JobInv'
      BY <3>2, <1>0, IdleType, JobBecomes DEF After, JobInv, Call
    <3>5. settled' \in [Jobs -> 0..2]
      BY <2>2 DEF ListReply, Announce, TypeOK
    <3> QED
      BY <2>2, <3>1, <3>3, <3>4, <3>5 DEF ListReply, TypeOK
  <2>3. CASE ListUnreachable(c)
    <3>1. After(c, Nothing)
      BY <2>3, NothingType, ContinueStep DEF ListUnreachable
    <3>2. call' \in [Calls -> Call]
      BY <3>1 DEF After, Becomes
    <3>3. JobInv'
      BY <3>1, <1>0, IdleType, JobBecomes DEF After, JobInv, Call
    <3>4. blind' \subseteq Jobs
      BY <2>3 DEF ListUnreachable, TypeOK, JobInv
    <3> QED
      BY <2>3, <3>2, <3>3, <3>4 DEF ListUnreachable, TypeOK
  <2>4. CASE SubmitServe(c)
    <3>1. Becomes(c, [call[c] EXCEPT !.stage = "done"])
      BY <2>4, StageStep DEF SubmitServe, Stages
    <3>2. JobInv'
      BY <2>4, <1>0, <3>1, JobBecomes DEF SubmitServe, At, JobInv, Call
    <3>3. remote' \in [Jobs -> Status]
      BY <2>4 DEF SubmitServe, TypeOK, Status, Over, Listing, Unsettled
    <3> QED
      BY <2>4, <3>1, <3>2, <3>3 DEF SubmitServe, TypeOK, Becomes
  <2>5. CASE SubmitReply(c)
    <3>1. cache' \in [Jobs -> Listing]
      BY <2>5 DEF SubmitReply, TypeOK, Listing, Unsettled
    <3> QED
      BY <2>5, <3>1, ReturnStep, IdleType, JobBecomes DEF SubmitReply, TypeOK, Becomes
  <2>6. CASE SubmitRefused(c)
    BY <2>6, ReturnStep, IdleType, JobBecomes DEF SubmitRefused, TypeOK, Becomes
  <2>7. CASE SubmitTimesOut(c)
    <3>1. late' \subseteq Jobs
      BY <2>7 DEF SubmitTimesOut, TypeOK, JobInv
    <3> QED
      BY <2>7, <3>1, ReturnStep, IdleType, JobBecomes DEF SubmitTimesOut, TypeOK, Becomes
  <2>8. CASE CancelServe(c)
    <3>1. Becomes(c, [call[c] EXCEPT !.stage = "done"])
      BY <2>8, StageStep DEF CancelServe, Stages
    <3>2. JobInv'
      BY <2>8, <1>0, <3>1, JobBecomes DEF CancelServe, At, JobInv, Call
    <3>3. remote' \in [Jobs -> Status]
      BY <2>8 DEF CancelServe, TypeOK, Status, Over, Listing, Terminal
    <3> QED
      BY <2>8, <3>1, <3>2, <3>3 DEF CancelServe, TypeOK, Becomes
  <2>9. CASE CancelReply(c)
    <3>1. Becomes(c, [Idle EXCEPT !.op = "list", !.stage = "sent"])
      BY <2>9, IdleType DEF CancelReply, TypeOK, Becomes, Call
    <3> QED
      BY <2>9, <3>1, IdleType, JobBecomes DEF CancelReply, TypeOK, Becomes, Call
  <2>10. CASE CancelFails(c)
    BY <2>10, ReturnStep, IdleType, JobBecomes DEF CancelFails, TypeOK, Becomes
  <2>11. CASE RecoverServe(c)
    <3>1. Becomes(c, [call[c] EXCEPT !.stage = "done"])
      BY <2>11, StageStep DEF RecoverServe, Stages
    <3>2. JobInv'
      BY <2>11, <1>0, <3>1, JobBecomes DEF RecoverServe, At, JobInv, Call
    <3>3. remote' \in [Jobs -> Status]
      BY <2>11 DEF RecoverServe, TypeOK, Status, Over, Listing, Terminal
    <3> QED
      BY <2>11, <3>1, <3>2, <3>3 DEF RecoverServe, TypeOK, Becomes
  <2>12. CASE ExpireServe(c)
    <3>1. Becomes(c, [call[c] EXCEPT !.stage = "done"])
      BY <2>12, StageStep DEF ExpireServe, Stages
    <3>2. JobInv'
      BY <2>12, <1>0, <3>1, JobBecomes DEF ExpireServe, At, JobInv, Call
    <3>3. remote' \in [Jobs -> Status]
      BY <2>12 DEF ExpireServe, TypeOK, Status, Over
    <3> QED
      BY <2>12, <3>1, <3>2, <3>3 DEF ExpireServe, TypeOK, Becomes
  <2>13. ASSUME Handled(c)
         PROVE  call' \in [Calls -> Call] /\ JobInv'
    <3>1. CASE Becomes(c, Idle)
      BY <3>1, IdleType, JobBecomes DEF Becomes
    <3>2. ASSUME NEW j \in Jobs, NEW todo \in [Jobs -> Listing],
                 Becomes(c, [call[c] EXCEPT !.stage = "exec", !.job = j, !.seen = todo])
          PROVE  call' \in [Calls -> Call] /\ JobInv'
      BY <3>2, <1>0, JobBecomes DEF Becomes, Call
    <3> QED
      BY <2>13, <3>1, <3>2, HandledStep
  <2>14. CASE ReconcileReply(c)
    <3>1. cache' \in [Jobs -> Listing]
      BY <2>14 DEF ReconcileReply, TypeOK, Listing, Terminal
    <3> QED
      BY <2>13, <2>14, <3>1 DEF ReconcileReply, TypeOK
  <2>15. CASE ReconcileNoChange(c)
    BY <2>13, <2>15 DEF ReconcileNoChange, TypeOK
  <2> QED
    BY <1>6, <2>1, <2>2, <2>3, <2>4, <2>5, <2>6, <2>7, <2>8, <2>9, <2>10, <2>11, <2>12,
       <2>14, <2>15 DEF Proceed
<1>7. CASE UNCHANGED vars
  BY <1>7 DEF vars, TypeOK, JobInv
<1> QED
  BY <1>1, <1>2, <1>3, <1>4, <1>5, <1>6, <1>7 DEF Next

-----------------------------------------------------------------------------
(* The node and what the control plane believes of it.                     *)

\* The job of a submission that has not reached the node is unknown there, and nobody
\* else submits it.
Fresh(c) ==
    /\ call[c].op = "submit"
    /\ call[c].stage \in {"waiting", "sent", "served", "failed", "exec"}

FreshInv ==
    \A c \in Calls : Fresh(c) =>
        /\ remote[call[c].job] = "absent"
        /\ call[c].job \notin late
        /\ \A d \in Calls \ {c} : call[d].op = "submit" => call[d].job # call[c].job

\* What a listing that shows outcome o of a job says of the job, however old it is.
Outcome(j, o) ==
    /\ Closed(j)
    /\ o \in {"succeeded", "canceled"} => remote[j] \in {o, "failed", "gone"}

SeenInv ==
    \A c \in Calls, j \in Jobs : call[c].seen[j] \in Terminal => Outcome(j, call[c].seen[j])

TruthInv == FreshInv /\ SeenInv /\ CacheIsNotAhead /\ AnnouncedIsFinished

\* A step takes no outcome back, but for a belated --fail.
Forward ==
    \A j \in Jobs :
        /\ Closed(j) => Closed(j)'
        /\ \A o \in {"succeeded", "canceled"} :
               remote[j] \in {o, "failed", "gone"} => remote'[j] \in {o, "failed", "gone"}

LEMMA FreshKept ==
    ASSUME FreshInv,
           \A c \in Calls : call'[c].op = "submit" =>
               call[c].op = "submit" /\ call'[c].job = call[c].job /\ (Fresh(c)' => Fresh(c)),
           \A c \in Calls : Fresh(c) /\ Fresh(c)' => remote'[call[c].job] = "absent" /\ call[c].job \notin late'
    PROVE  FreshInv'
<1> SUFFICES ASSUME NEW c \in Calls, Fresh(c)'
             PROVE  /\ remote'[call'[c].job] = "absent"
                    /\ call'[c].job \notin late'
                    /\ \A d \in Calls \ {c} : call'[d].op = "submit" => call'[d].job # call'[c].job
  BY DEF FreshInv
<1>1. Fresh(c) /\ call'[c].job = call[c].job
  BY DEF Fresh
<1>2. \A d \in Calls \ {c} : call'[d].op = "submit" => call'[d].job # call'[c].job
  BY <1>1 DEF FreshInv
<1> QED
  BY <1>1, <1>2

LEMMA SeenKept ==
    ASSUME SeenInv, Forward, NEW c \in Calls, NEW r, Becomes(c, r),
           \A j \in Jobs : r.seen[j] \in Terminal => r.seen[j] = call[c].seen[j]
    PROVE  SeenInv'
<1> SUFFICES ASSUME NEW d \in Calls, NEW j \in Jobs, call'[d].seen[j] \in Terminal
             PROVE  Outcome(j, call[d].seen[j])'
  BY DEF SeenInv
<1>1. call'[d].seen[j] = call[d].seen[j]
  BY DEF Becomes
<1>2. Outcome(j, call[d].seen[j])
  BY <1>1 DEF SeenInv
<1> QED
  BY <1>1, <1>2 DEF Forward, Outcome

LEMMA CacheKept ==
    ASSUME CacheIsNotAhead, Forward,
           \A j \in Jobs : cache'[j] \in {"succeeded", "canceled"} => cache'[j] = cache[j]
    PROVE  CacheIsNotAhead'
BY DEF CacheIsNotAhead, Forward

LEMMA AnnouncedKept ==
    ASSUME AnnouncedIsFinished, Forward, UNCHANGED settled
    PROVE  AnnouncedIsFinished'
BY DEF AnnouncedIsFinished, Forward

\* What is left to show of a step that concerns one call.
LEMMA TruthKept ==
    ASSUME TypeOK, TruthInv, Forward, UNCHANGED settled, NEW c \in Calls, NEW r \in Call, Becomes(c, r),
           r.op = "submit" => call[c].op = "submit" /\ r.job = call[c].job /\ (Fresh(c)' => Fresh(c)),
           \A d \in Calls : Fresh(d) /\ Fresh(d)' => remote'[call[d].job] = "absent" /\ call[d].job \notin late',
           \A j \in Jobs : r.seen[j] \in Terminal => r.seen[j] = call[c].seen[j],
           \A j \in Jobs : cache'[j] \in {"succeeded", "canceled"} => cache'[j] = cache[j]
    PROVE  TruthInv'
<1>1. \A d \in Calls : call'[d].op = "submit" =>
          call[d].op = "submit" /\ call'[d].job = call[d].job /\ (Fresh(d)' => Fresh(d))
  BY DEF Becomes, Fresh
<1>2. FreshInv'
  BY <1>1, FreshKept DEF TruthInv
<1> QED
  BY <1>2, SeenKept, CacheKept, AnnouncedKept DEF TruthInv

\* Every step keeps the beliefs true.
LEMMA TruthStep ==
    ASSUME TypeOK, JobInv, TruthInv, [Next]_vars
    PROVE  TruthInv'
<1> USE DEF historyVars
<1>0. /\ \A c \in Calls : call[c] \in Call
      /\ \A c \in Calls : Fresh(c) => remote[call[c].job] = "absent" /\ call[c].job \notin late /\ call[c].job \in Jobs
  BY DEF TypeOK, TruthInv, FreshInv, JobInv, Fresh
<1>1. CASE Restart
  <2>1. \A c \in Calls : call'[c] = Idle
    BY <1>1, IdleType DEF Restart
  <2>2. FreshInv' /\ SeenInv'
    BY <2>1, IdleType, NothingType DEF FreshInv, Fresh, SeenInv, Terminal
  <2> QED
    BY <1>1, <2>2, NothingType DEF Restart, TruthInv, CacheIsNotAhead, AnnouncedIsFinished
<1>2. ASSUME NEW j \in Jobs, NodeStep(j)
      PROVE  TruthInv'
  <2>0. /\ UNCHANGED <<cache, call, settled, blind, late, restarts>>
        /\ \A i \in Jobs \ {j} : remote'[i] = remote[i]
        /\ revived \subseteq revived'
    BY <1>2 DEF NodeStep, StateWritten, LateSubmission, TypeOK
  <2>1. Forward
    <3>1. CASE LateSubmission(j)
      BY <2>0, <3>1 DEF LateSubmission, Forward, Closed, Over, TypeOK, Terminal
    <3>2. CASE StateWritten(j)
      <4>1. PICK s \in Status :
              /\ <<remote[j], s>> \in Node!Moves
              /\ remote' = [remote EXCEPT ![j] = s]
              /\ remote[j] = "contested" /\ s # "failed" => j \in revived'
        BY <3>2 DEF StateWritten
      <4>2. remote'[j] = s
        BY <4>1 DEF TypeOK
      <4>3. \/ remote[j] \in {"queued", "running"}
            \/ remote[j] = "contested" /\ (s = "failed" \/ j \in revived')
            \/ remote[j] \in {"succeeded", "canceled"} /\ s = "failed"
        BY <4>1 DEF Node!Moves, Node!Unsettled
      <4> QED
        BY <2>0, <4>2, <4>3 DEF Forward, Closed, Over, Terminal
    <3> QED
      BY <1>2, <3>1, <3>2 DEF NodeStep
  <2>2. \A i \in Jobs : remote[i] = "absent" /\ i \notin late => remote'[i] = "absent"
    <3>1. remote[j] = "absent" => ~StateWritten(j)
      BY DEF StateWritten, Node!Moves, Node!Unsettled
    <3> QED
      BY <1>2, <2>0, <3>1 DEF NodeStep, LateSubmission
  <2>3. FreshInv'
    BY <1>0, <2>0, <2>2, FreshKept DEF TruthInv, Fresh
  <2>4. SeenInv'
    BY <2>0, <2>1 DEF TruthInv, SeenInv, Forward, Outcome
  <2> QED
    BY <2>0, <2>1, <2>3, <2>4, CacheKept, AnnouncedKept DEF TruthInv
<1>3. ASSUME UNCHANGED <<remote, revived>>
      PROVE  Forward
  BY <1>3 DEF Forward, Closed, Over
<1>4. ASSUME NEW c \in Calls, Arrive(c)
      PROVE  TruthInv'
  <2>1. ASSUME NEW op \in {"list", "reconcile", "cancel"}, NEW j \in Jobs \cup {"none"},
               Begin(c, op, "sent", j), UNCHANGED <<remote, cache, historyVars>>
        PROVE  TruthInv'
    <3> DEFINE r == [Idle EXCEPT !.op = op, !.stage = "sent", !.job = j]
    <3>0. op \in Ops /\ "sent" \in Stages
      BY DEF Ops, Stages
    <3>1. Becomes(c, r)
      BY <2>1, <3>0, BeginStep
    <3>3. r.op = op /\ r.seen = Nothing
      BY IdleType DEF Call
    <3>2. r \in Call
      BY <3>1 DEF Becomes
    <3> HIDE DEF r
    <3> QED
      BY <1>0, <1>3, <2>1, <3>1, <3>2, <3>3, NothingType, TruthKept DEF Terminal
  <2>2. ASSUME NEW j \in Jobs, CallSubmit(c, j)
        PROVE  TruthInv'
    <3> DEFINE r == [Idle EXCEPT !.op = "submit", !.stage = "waiting", !.job = j]
    <3>1. Becomes(c, r) /\ r.op = "submit" /\ r.job = j /\ r.seen = Nothing
      BY <2>2, BeginStep, IdleType DEF CallSubmit, Ops, Stages, Call
    <3> HIDE DEF r
    <3>2. FreshInv'
      BY <2>2, <3>1 DEF CallSubmit, FreshInv, Fresh, Becomes, TruthInv
    <3>3. SeenInv'
      BY <1>3, <2>2, <3>1, NothingType, SeenKept DEF CallSubmit, TruthInv, Terminal
    <3> QED
      BY <1>3, <2>2, <3>2, <3>3, CacheKept, AnnouncedKept DEF CallSubmit, TruthInv
  <2>3. CASE CallList(c)
    BY <2>1, <2>3 DEF CallList
  <2>4. CASE Tick(c)
    BY <2>1, <2>4 DEF Tick
  <2>5. ASSUME NEW j \in Jobs, CallCancel(c, j)
        PROVE  TruthInv'
    BY <2>1, <2>5 DEF CallCancel
  <2> QED
    BY <1>4, <2>2, <2>3, <2>4, <2>5 DEF Arrive
<1>5. ASSUME NEW c \in Calls, ListServe(c)
      PROVE  TruthInv'
  <2> DEFINE seen == [j \in Jobs |-> Listed(j)]
  <2>1. call' = [call EXCEPT ![c] = [call[c] EXCEPT !.stage = "served", !.seen = seen]]
    BY <1>5, <1>0 DEF ListServe, TypeOK, Call
  <2>2. /\ call'[c].op = call[c].op /\ call'[c].job = call[c].job
        /\ call'[c].stage = "served" /\ call'[c].seen = seen
        /\ \A d \in Calls \ {c} : call'[d] = call[d]
    BY <2>1, <1>0 DEF TypeOK, Call
  <2>3. FreshInv'
    BY <1>0, <1>5, <2>2, FreshKept DEF ListServe, Fresh, TruthInv
  <2>4. SeenInv'
    <3> SUFFICES ASSUME NEW d \in Calls, NEW j \in Jobs, call'[d].seen[j] \in Terminal
                 PROVE  Outcome(j, call[d].seen[j])'
      BY DEF SeenInv
    <3>1. UNCHANGED <<remote, revived>>
      BY <1>5 DEF ListServe
    <3>2. CASE d = c
      BY <2>2, <3>1, <3>2 DEF Listed, Terminal, Outcome, Closed, Over
    <3>3. CASE d # c
      BY <2>2, <3>1, <3>3 DEF SeenInv, TruthInv, Outcome, Closed, Over
    <3> QED
      BY <3>2, <3>3
  <2> QED
    BY <1>3, <1>5, <2>3, <2>4, CacheKept, AnnouncedKept DEF ListServe, TruthInv
<1>6. ASSUME NEW c \in Calls, NEW s \in Stages, Stage(c, s), UNCHANGED <<cache, historyVars>>, Forward,
             call[c].op = "submit" /\ s \in {"waiting", "sent", "served", "failed", "exec"} => Fresh(c),
             \A d \in Calls : Fresh(d) /\ Fresh(d)' => remote'[call[d].job] = "absent"
      PROVE  TruthInv'
  <2>1. Becomes(c, [call[c] EXCEPT !.stage = s])
    BY <1>6, StageStep
  <2> QED
    BY <1>0, <1>6, <2>1, TruthKept DEF Becomes, Call, Fresh
<1>7. ASSUME NEW c \in Calls, ListFails(c)
      PROVE  TruthInv'
  BY <1>0, <1>3, <1>6, <1>7 DEF ListFails, Stages, Fresh
<1>8. ASSUME NEW c \in Calls, Becomes(c, Idle), Forward, UNCHANGED settled,
             \A d \in Calls : Fresh(d) /\ Fresh(d)' => remote'[call[d].job] = "absent" /\ call[d].job \notin late',
             \A j \in Jobs : cache'[j] \in {"succeeded", "canceled"} => cache'[j] = cache[j]
      PROVE  TruthInv'
  BY <1>8, IdleType, NothingType, TruthKept DEF Terminal
<1>9. ASSUME NEW c \in Calls, Handled(c), UNCHANGED <<remote, historyVars>>,
             call[c].op = "reconcile",
             \A j \in Jobs : cache'[j] \in {"succeeded", "canceled"} => cache'[j] = cache[j]
      PROVE  TruthInv'
  <2>1. CASE Becomes(c, Idle)
    BY <1>0, <1>3, <1>8, <1>9, <2>1
  <2>2. ASSUME NEW j \in Jobs, NEW todo \in [Jobs -> Listing],
               \A i \in Jobs : todo[i] \in {"absent", call[c].seen[i]},
               Becomes(c, [call[c] EXCEPT !.stage = "exec", !.job = j, !.seen = todo])
        PROVE  TruthInv'
    <3> DEFINE r == [call[c] EXCEPT !.stage = "exec", !.job = j, !.seen = todo]
    <3>1. r \in Call /\ r.op = "reconcile" /\ r.seen = todo
      BY <1>0, <1>9, <2>2 DEF Becomes, Call
    <3> HIDE DEF r
    <3>2. \A i \in Jobs : r.seen[i] \in Terminal => r.seen[i] = call[c].seen[i]
      BY <2>2, <3>1 DEF Terminal
    <3>3. Becomes(c, r)
      BY <2>2 DEF r
    <3> QED
      BY <1>0, <1>3, <1>9, <3>1, <3>2, <3>3, TruthKept
  <2> QED
    BY <1>9, <2>1, <2>2, HandledStep
<1>10. ASSUME NEW c \in Calls, NEW seen \in [Jobs -> Listing], After(c, seen), UNCHANGED <<remote, late, revived>>,
              call[c].stage \in {"served", "failed"},
              \A j \in Jobs : seen[j] \in Terminal => seen[j] = call[c].seen[j]
       PROVE  FreshInv' /\ SeenInv'
  <2>0. Forward
    BY <1>3, <1>10
  <2>1. ASSUME NEW r, Becomes(c, r),
               r.op = "submit" => call[c].op = "submit" /\ r.job = call[c].job,
               \A j \in Jobs : r.seen[j] \in Terminal => r.seen[j] = call[c].seen[j]
        PROVE  FreshInv' /\ SeenInv'
    <3>1. \A d \in Calls : call'[d].op = "submit" =>
             call[d].op = "submit" /\ call'[d].job = call[d].job /\ (Fresh(d)' => Fresh(d))
      BY <1>10, <2>1 DEF Becomes, Fresh
    <3>2. FreshInv'
      BY <1>0, <1>10, <3>1, FreshKept DEF TruthInv
    <3> QED
      BY <2>0, <2>1, <3>2, SeenKept DEF TruthInv
  <2>2. CASE Becomes(c, Idle)
    BY <2>1, <2>2, IdleType, NothingType DEF Terminal
  <2>3. CASE Becomes(c, [call[c] EXCEPT !.stage = "exec", !.seen = Nothing])
    <3> DEFINE r == [call[c] EXCEPT !.stage = "exec", !.seen = Nothing]
    <3>1. r.op = call[c].op /\ r.job = call[c].job /\ r.seen = Nothing
      BY <1>0 DEF Call
    <3>2. Becomes(c, r)
      BY <2>3
    <3> HIDE DEF r
    <3>3. \A j \in Jobs : r.seen[j] \in Terminal => r.seen[j] = call[c].seen[j]
      BY <3>1, NothingType DEF Terminal
    <3> QED
      BY <2>1, <3>1, <3>2, <3>3
  <2>4. ASSUME NEW j \in Jobs, NEW todo \in [Jobs -> Listing],
               \A i \in Jobs : todo[i] \in {"absent", seen[i]}, call[c].op = "reconcile",
               Becomes(c, [call[c] EXCEPT !.stage = "exec", !.job = j, !.seen = todo])
        PROVE  FreshInv' /\ SeenInv'
    <3> DEFINE r == [call[c] EXCEPT !.stage = "exec", !.job = j, !.seen = todo]
    <3>1. r.op = "reconcile" /\ r.seen = todo
      BY <1>0, <2>4 DEF Call
    <3>3. Becomes(c, r)
      BY <2>4
    <3> HIDE DEF r
    <3>2. \A i \in Jobs : r.seen[i] \in Terminal => r.seen[i] = call[c].seen[i]
      BY <1>10, <2>4, <3>1 DEF Terminal
    <3> QED
      BY <2>1, <3>1, <3>2, <3>3
  <2> QED
    BY <1>10, <2>2, <2>3, <2>4 DEF After
<1>11. ASSUME NEW c \in Calls, Proceed(c)
       PROVE  TruthInv'
  <2>1. CASE SubmitNext(c)
    BY <1>0, <1>3, <1>6, <2>1 DEF SubmitNext, At, Stages, Fresh
  <2>2. CASE ListReply(c)
    <3>1. call[c].seen \in [Jobs -> Listing]
      BY <1>0 DEF Call
    <3>2. FreshInv' /\ SeenInv'
      BY <1>10, <2>2, <3>1, ContinueStep DEF ListReply
    <3>3. CacheIsNotAhead'
      BY <2>2 DEF ListReply, CacheIsNotAhead, TruthInv, SeenInv, Outcome, Terminal
    <3>4. AnnouncedIsFinished'
      BY <2>2 DEF ListReply, Announce, SettledBy, AnnouncedIsFinished, TruthInv, SeenInv, Outcome,
         Closed, Over, TypeOK
    <3> QED
      BY <3>2, <3>3, <3>4 DEF TruthInv
  <2>3. CASE ListUnreachable(c)
    <3>0. After(c, Nothing) /\ Nothing \in [Jobs -> Listing]
      BY <2>3, NothingType, ContinueStep DEF ListUnreachable
    <3>3. \A j \in Jobs : Nothing[j] \in Terminal => Nothing[j] = call[c].seen[j]
      BY NothingType DEF Terminal
    <3>4. call[c].stage = "failed" /\ UNCHANGED <<remote, late, revived>>
      BY <2>3 DEF ListUnreachable
    <3>1. FreshInv' /\ SeenInv'
      BY <1>10, <3>0, <3>3, <3>4
    <3>2. Forward /\ UNCHANGED <<cache, settled>>
      BY <1>3, <2>3 DEF ListUnreachable
    <3> QED
      BY <3>1, <3>2, CacheKept, AnnouncedKept DEF TruthInv
  <2>4. CASE SubmitServe(c)
    <3>1. Fresh(c)
      BY <2>4 DEF SubmitServe, At, Fresh
    <3>2. Forward
      BY <1>0, <2>4, <3>1 DEF SubmitServe, Forward, Closed, Over, Terminal, TypeOK
    <3>3. ~Fresh(c)'
      BY <1>0, <2>4 DEF SubmitServe, Stage, Fresh, TypeOK, Call
    <3>4. \A d \in Calls : Fresh(d) /\ Fresh(d)' => remote'[call[d].job] = "absent"
      BY <1>0, <2>4, <3>1, <3>3 DEF SubmitServe, TruthInv, FreshInv, Fresh, TypeOK
    <3> QED
      BY <1>6, <2>4, <3>1, <3>2, <3>4 DEF SubmitServe, Stages
  <2>5. CASE SubmitReply(c)
    <3>1. \A j \in Jobs : cache'[j] \in {"succeeded", "canceled"} => cache'[j] = cache[j]
      BY <2>5 DEF SubmitReply, TypeOK
    <3> QED
      BY <1>0, <1>3, <1>8, <2>5, <3>1, ReturnStep DEF SubmitReply
  <2>6. CASE SubmitRefused(c)
    BY <1>0, <1>3, <1>8, <2>6, ReturnStep DEF SubmitRefused
  <2>7. CASE SubmitTimesOut(c)
    <3>1. Becomes(c, Idle) /\ Forward
      BY <1>3, <2>7, ReturnStep DEF SubmitTimesOut
    <3>2. ~Fresh(c)'
      BY <3>1, IdleType DEF Becomes, Fresh
    <3>3. \A d \in Calls : Fresh(d) /\ Fresh(d)' => call[d].job \notin late'
      BY <1>0, <2>7, <3>2 DEF SubmitTimesOut, TruthInv, FreshInv, Fresh
    <3> QED
      BY <1>0, <1>8, <2>7, <3>1, <3>3 DEF SubmitTimesOut
  <2>8. CASE CancelServe(c)
    <3>1. Forward /\ \A j \in Jobs : remote[j] = "absent" => remote'[j] = "absent"
      BY <2>8 DEF CancelServe, Forward, Closed, Over, Terminal, Unsettled, TypeOK
    <3> QED
      BY <1>0, <1>6, <2>8, <3>1 DEF CancelServe, At, Stages
  <2>9. CASE CancelReply(c)
    <3> DEFINE r == [Idle EXCEPT !.op = "list", !.stage = "sent"]
    <3>1. Becomes(c, r) /\ r.op = "list" /\ r.seen = Nothing
      BY <2>9, IdleType DEF CancelReply, TypeOK, Becomes, Call
    <3>2. r \in Call
      BY <3>1 DEF Becomes
    <3> HIDE DEF r
    <3> QED
      BY <1>0, <1>3, <2>9, <3>1, <3>2, NothingType, TruthKept DEF CancelReply, Terminal
  <2>10. CASE CancelFails(c)
    BY <1>0, <1>3, <1>8, <2>10, ReturnStep DEF CancelFails
  <2>11. CASE RecoverServe(c)
    <3>1. Forward /\ \A j \in Jobs : remote[j] = "absent" => remote'[j] = "absent"
      BY <2>11 DEF RecoverServe, Forward, Closed, Over, Terminal, Unsettled, TypeOK
    <3> QED
      BY <1>0, <1>6, <2>11, <3>1 DEF RecoverServe, At, Stages
  <2>12. CASE ExpireServe(c)
    <3>1. call[c].job \in Jobs
      BY <2>12 DEF ExpireServe, At, JobInv
    <3>2. remote[call[c].job] \in Over
      BY <2>12 DEF ExpireServe
    <3>3. Forward /\ \A j \in Jobs : remote[j] = "absent" => remote'[j] = "absent"
      BY <2>12, <3>2 DEF ExpireServe, Forward, Closed, Over, Terminal, TypeOK
    <3> QED
      BY <1>0, <1>6, <2>12, <3>3 DEF ExpireServe, At, Stages
  <2>13. CASE ReconcileReply(c)
    <3>1. \A j \in Jobs : cache'[j] \in {"succeeded", "canceled"} => cache'[j] = cache[j]
      BY <2>13 DEF ReconcileReply, TypeOK
    <3> QED
      BY <1>9, <2>13, <3>1 DEF ReconcileReply, At
  <2>14. CASE ReconcileNoChange(c)
    BY <1>9, <2>14 DEF ReconcileNoChange
  <2> QED
    BY <1>11, <2>1, <2>2, <2>3, <2>4, <2>5, <2>6, <2>7, <2>8, <2>9, <2>10, <2>11, <2>12,
       <2>13, <2>14 DEF Proceed
<1>12. CASE UNCHANGED vars
  BY <1>12 DEF vars, TruthInv, FreshInv, Fresh, SeenInv, Outcome, Closed, Over, CacheIsNotAhead, AnnouncedIsFinished
<1> QED
  BY <1>1, <1>2, <1>4, <1>5, <1>7, <1>11, <1>12 DEF Next

-----------------------------------------------------------------------------
(* Admission.                                                              *)

\* The jobs that a listing need not show, for they come or come back afterwards.
Aside == late \cup revived

\* The unfinished jobs that the limit is promised for.
Counted == Unfinished \ (blind \cup Aside)

\* A submission that has its turn.
Working(c) == call[c].op = "submit" /\ call[c].stage # "waiting"

\* Submissions take turns.
SerialInv == \A c, d \in Calls : Working(c) /\ Working(d) => c = d

\* The listing a submission rests on shows every unfinished job but those that come
\* late or come back: nobody else has submitted since.
ListingInv ==
    \A c \in Calls : Working(c) /\ call[c].stage = "served" =>
        /\ Unfinished \ Aside \subseteq Active(call[c].seen)
        /\ IsFiniteSet(Active(call[c].seen))

\* A submission whose script is under way still has room.
AdmitInv ==
    \A c \in Calls :
        Working(c) /\ call[c].stage = "exec" /\ call[c].job \notin blind \cup Aside =>
            /\ Cardinality(Counted) < Limit
            /\ \A i \in Counted : keysOf[i] \cap keysOf[call[c].job] = {}

CountInv ==
    /\ IsFiniteSet(Unfinished)
    /\ Cardinality(Counted) <= Limit
    /\ \A i, j \in Counted : i # j => keysOf[i] \cap keysOf[j] = {}

AdmissionInv == SerialInv /\ ListingInv /\ AdmitInv /\ CountInv

\* A step after which no more jobs count and that leaves the working submissions alone.
LEMMA AdmissionKept ==
    ASSUME AdmissionInv, IsFiniteSet(Unfinished'),
           Unfinished' \ Aside' \subseteq Unfinished \ Aside, blind \subseteq blind', Aside \subseteq Aside',
           \A c \in Calls : Working(c)' => call'[c] = call[c]
    PROVE  AdmissionInv'
<1>0. \A c \in Calls : Working(c)' => Working(c)
  BY DEF Working
<1>1. Counted' \subseteq Counted
  BY DEF Counted
<1>2. IsFiniteSet(Counted) /\ IsFiniteSet(Counted')
  BY FS_Subset DEF AdmissionInv, CountInv, Counted
<1>3. /\ Cardinality(Counted) \in Nat /\ Cardinality(Counted') \in Nat
      /\ Cardinality(Counted') <= Cardinality(Counted)
  BY <1>1, <1>2, FS_Subset, FS_CardinalityType
<1>4. SerialInv'
  BY <1>0 DEF AdmissionInv, SerialInv
<1>5. ListingInv'
  <2> SUFFICES ASSUME NEW c \in Calls, Working(c)', call'[c].stage = "served"
               PROVE  /\ Unfinished' \ Aside' \subseteq Active(call'[c].seen)
                      /\ IsFiniteSet(Active(call'[c].seen))
    BY DEF ListingInv, Active
  <2> QED
    BY <1>0 DEF AdmissionInv, ListingInv
<1>6. AdmitInv'
  <2> SUFFICES ASSUME NEW c \in Calls, Working(c)', call'[c].stage = "exec", call'[c].job \notin blind' \cup Aside'
               PROVE  /\ Cardinality(Counted') < Limit
                      /\ \A i \in Counted' : keysOf[i] \cap keysOf[call'[c].job] = {}
    BY DEF AdmitInv
  <2>1. /\ Cardinality(Counted) < Limit
        /\ \A i \in Counted : keysOf[i] \cap keysOf[call[c].job] = {}
    BY <1>0 DEF AdmissionInv, AdmitInv
  <2> QED
    BY <1>1, <1>3, <2>1, LimitAssumption
<1>7. CountInv'
  BY <1>1, <1>3, LimitAssumption DEF AdmissionInv, CountInv
<1> QED
  BY <1>4, <1>5, <1>6, <1>7 DEF AdmissionInv

\* The same for a step that changes the working submission c.
LEMMA AdmissionMoves ==
    ASSUME AdmissionInv, NEW c \in Calls, NEW r, Becomes(c, r), UNCHANGED <<remote, Aside>>, blind \subseteq blind',
           \A d \in Calls \ {c} : ~Working(d),
           r.stage = "served" => /\ Unfinished \ Aside \subseteq Active(r.seen)
                                 /\ IsFiniteSet(Active(r.seen)),
           r.stage = "exec" /\ r.job \notin blind' \cup Aside =>
               /\ Cardinality(Counted) < Limit
               /\ \A i \in Counted : keysOf[i] \cap keysOf[r.job] = {}
    PROVE  AdmissionInv'
<1>0. \A d \in Calls : Working(d)' => d = c
  BY DEF Working, Becomes
<1>1. Unfinished' = Unfinished /\ Counted' \subseteq Counted
  BY DEF Unfinished, Counted
<1>2. IsFiniteSet(Counted) /\ IsFiniteSet(Counted')
  BY <1>1, FS_Subset DEF AdmissionInv, CountInv, Counted
<1>3. /\ Cardinality(Counted) \in Nat /\ Cardinality(Counted') \in Nat
      /\ Cardinality(Counted') <= Cardinality(Counted)
  BY <1>1, <1>2, FS_Subset, FS_CardinalityType
<1>4. SerialInv'
  BY <1>0 DEF SerialInv
<1>5. ListingInv'
  <2> SUFFICES ASSUME Working(c)', call'[c].stage = "served"
               PROVE  /\ Unfinished' \ Aside' \subseteq Active(call'[c].seen)
                      /\ IsFiniteSet(Active(call'[c].seen))
    BY <1>0 DEF ListingInv, Active
  <2> QED
    BY <1>1 DEF Becomes
<1>6. AdmitInv'
  <2> SUFFICES ASSUME Working(c)', call'[c].stage = "exec", call'[c].job \notin blind' \cup Aside'
               PROVE  /\ Cardinality(Counted') < Limit
                      /\ \A i \in Counted' : keysOf[i] \cap keysOf[call'[c].job] = {}
    BY <1>0 DEF AdmitInv
  <2>1. /\ Cardinality(Counted) < Limit
        /\ \A i \in Counted : keysOf[i] \cap keysOf[call'[c].job] = {}
    BY DEF Becomes
  <2> QED
    BY <1>1, <1>3, <2>1, LimitAssumption
<1>7. CountInv'
  BY <1>1, <1>3, LimitAssumption DEF AdmissionInv, CountInv
<1> QED
  BY <1>4, <1>5, <1>6, <1>7 DEF AdmissionInv

\* The script of an admitted submission: one more job, and there is room for it.
LEMMA ServeAdmission ==
    ASSUME TypeOK, JobInv, AdmissionInv, NEW c \in Calls, SubmitServe(c)
    PROVE  AdmissionInv'
<1> DEFINE job == call[c].job
<1>1. Working(c) /\ call[c].stage = "exec" /\ job \in Jobs
  BY DEF SubmitServe, At, Working, JobInv
<1>2. Becomes(c, [call[c] EXCEPT !.stage = "done"])
  BY StageStep DEF SubmitServe, Stages
<1>3. call'[c].stage = "done" /\ UNCHANGED <<blind, Aside>>
  BY <1>2 DEF Becomes, SubmitServe, historyVars, Aside, TypeOK, Call
<1>4. \A d \in Calls : Working(d)' => d = c
  BY <1>1, <1>2 DEF Working, Becomes, AdmissionInv, SerialInv
<1>5. Unfinished' \subseteq Unfinished \cup {job}
  BY DEF SubmitServe, Unfinished, TypeOK
<1>6. IsFiniteSet(Unfinished')
  <2>1. IsFiniteSet(Unfinished \cup {job})
    BY FS_AddElement DEF AdmissionInv, CountInv
  <2> QED
    BY <1>5, <2>1, FS_Subset
<1>7. IsFiniteSet(Counted) /\ Cardinality(Counted) \in Nat
  BY FS_Subset, FS_CardinalityType DEF AdmissionInv, CountInv, Counted
<1>8. IsFiniteSet(Counted') /\ Cardinality(Counted') \in Nat
  BY <1>6, FS_Subset, FS_CardinalityType DEF Counted
<1>9. CountInv'
  <2>1. CASE job \in blind \cup Aside
    <3>1. Counted' \subseteq Counted
      BY <1>3, <1>5, <2>1 DEF Counted
    <3>2. Cardinality(Counted') <= Limit
      BY <1>7, <1>8, <3>1, FS_Subset, LimitAssumption DEF AdmissionInv, CountInv
    <3> QED
      BY <1>6, <3>1, <3>2 DEF AdmissionInv, CountInv
  <2>2. CASE job \notin blind \cup Aside
    <3>1. Counted' \subseteq Counted \cup {job}
      BY <1>3, <1>5 DEF Counted
    <3>2. /\ Cardinality(Counted) < Limit
          /\ \A i \in Counted : keysOf[i] \cap keysOf[job] = {}
      BY <1>1, <2>2 DEF AdmissionInv, AdmitInv
    <3>3. /\ IsFiniteSet(Counted \cup {job})
          /\ Cardinality(Counted \cup {job}) <= Cardinality(Counted) + 1
      BY <1>7, FS_AddElement
    <3>4. Cardinality(Counted \cup {job}) \in Nat
      BY <3>3, FS_CardinalityType
    <3>5. Cardinality(Counted') <= Cardinality(Counted \cup {job})
      BY <3>1, <3>3, FS_Subset
    <3>6. Cardinality(Counted') <= Limit
      BY <1>7, <1>8, <3>2, <3>3, <3>4, <3>5, LimitAssumption
    <3>7. \A i, j \in Counted' : i # j => keysOf[i] \cap keysOf[j] = {}
      BY <3>1, <3>2 DEF AdmissionInv, CountInv
    <3> QED
      BY <1>6, <3>6, <3>7 DEF CountInv
  <2> QED
    BY <2>1, <2>2
<1>10. SerialInv' /\ ListingInv' /\ AdmitInv'
  BY <1>3, <1>4 DEF SerialInv, ListingInv, AdmitInv
<1> QED
  BY <1>9, <1>10 DEF AdmissionInv

\* A submission's listing is handled.
LEMMA ReplyAdmission ==
    ASSUME TypeOK, AdmissionInv, NEW c \in Calls, call[c].op = "submit",
           ListReply(c) \/ ListUnreachable(c)
    PROVE  AdmissionInv'
<1>0. call[c] \in Call /\ Working(c)
  BY DEF TypeOK, Working, ListReply, ListUnreachable
<1>1. \A d \in Calls \ {c} : ~Working(d)
  BY <1>0 DEF AdmissionInv, SerialInv
<1>2. UNCHANGED <<remote, Aside>> /\ blind \subseteq blind'
  BY DEF ListReply, ListUnreachable, Aside
<1>3. ASSUME Becomes(c, Idle)
      PROVE  AdmissionInv'
  BY <1>1, <1>2, <1>3, IdleType, AdmissionMoves
<1> DEFINE r == [call[c] EXCEPT !.stage = "exec", !.seen = Nothing]
<1>4. r.stage = "exec" /\ r.job = call[c].job
  BY <1>0 DEF Call
<1>5. CASE ListReply(c)
  <2>1. call[c].seen \in [Jobs -> Listing]
    BY <1>0 DEF Call
  <2>2. After(c, call[c].seen)
    BY <1>5, <2>1, ContinueStep DEF ListReply
  <2>3. CASE Becomes(c, r) /\ Admitted(call[c].job, call[c].seen)
    <3> DEFINE active == Active(call[c].seen)
    <3>1. Unfinished \ Aside \subseteq active /\ IsFiniteSet(active)
      BY <1>0, <1>5 DEF AdmissionInv, ListingInv, ListReply
    <3>2. Counted \subseteq active
      BY <3>1 DEF Counted
    <3>3. /\ \A i \in active : keysOf[i] \cap keysOf[call[c].job] = {}
          /\ Cardinality(active) < Limit
      BY <2>3 DEF Admitted
    <3> HIDE DEF active
    <3>4. IsFiniteSet(Counted) /\ Cardinality(Counted) <= Cardinality(active)
      BY <3>1, <3>2, FS_Subset
    <3>5. Cardinality(active) \in Nat /\ Cardinality(Counted) \in Nat
      BY <3>1, <3>4, FS_CardinalityType
    <3>6. Cardinality(Counted) < Limit
      BY <3>3, <3>4, <3>5, LimitAssumption
    <3> HIDE DEF r
    <3> QED
      BY <1>1, <1>2, <1>4, <2>3, <3>2, <3>3, <3>6, AdmissionMoves
  <2> QED
    BY <1>3, <2>2, <2>3 DEF After
<1>6. CASE ListUnreachable(c)
  <2>1. After(c, Nothing)
    BY <1>6, NothingType, ContinueStep DEF ListUnreachable
  <2>2. call[c].job \in blind'
    BY <1>6 DEF ListUnreachable
  <2>3. CASE Becomes(c, r)
    <3> HIDE DEF r
    <3> QED
      BY <1>1, <1>2, <1>4, <2>2, <2>3, AdmissionMoves
  <2> QED
    BY <1>3, <2>1, <2>3 DEF After
<1> QED
  BY <1>5, <1>6

\* Every step keeps admission safe.
LEMMA AdmissionStep ==
    ASSUME TypeOK, JobInv, AdmissionInv, [Next]_vars
    PROVE  AdmissionInv'
<1> USE DEF historyVars, Aside
<1>0. /\ \A c \in Calls : call[c] \in Call
      /\ IsFiniteSet(Unfinished)
  BY DEF TypeOK, AdmissionInv, CountInv
<1>1. ASSUME Unfinished' \subseteq Unfinished, blind \subseteq blind', Aside \subseteq Aside',
             \A c \in Calls : Working(c)' => call'[c] = call[c]
      PROVE  AdmissionInv'
  <2>1. IsFiniteSet(Unfinished')
    BY <1>0, <1>1, FS_Subset
  <2>2. Unfinished' \ Aside' \subseteq Unfinished \ Aside
    BY <1>1
  <2> QED
    BY <1>1, <2>1, <2>2, AdmissionKept
<1>2. ASSUME UNCHANGED remote
      PROVE  Unfinished' = Unfinished
  BY <1>2 DEF Unfinished
<1>3. ASSUME NEW c \in Calls, NEW r, Becomes(c, r), r.op # "submit" \/ r.stage = "waiting"
      PROVE  \A d \in Calls : Working(d)' => call'[d] = call[d]
  BY <1>3 DEF Becomes, Working
<1>4. CASE Restart
  <2>1. \A c \in Calls : ~Working(c)'
    BY <1>4, IdleType DEF Restart, Working
  <2> QED
    BY <1>1, <1>2, <1>4, <2>1 DEF Restart
<1>5. ASSUME NEW j \in Jobs, NodeStep(j)
      PROVE  AdmissionInv'
  <2>1. UNCHANGED <<call, blind, late>>
    BY <1>5 DEF NodeStep, StateWritten, LateSubmission
  <2>2. CASE StateWritten(j)
    <3>1. revived \subseteq revived'
      BY <2>2 DEF StateWritten
    <3>2. PICK s \in Status :
            /\ <<remote[j], s>> \in Node!Moves
            /\ remote' = [remote EXCEPT ![j] = s]
            /\ remote[j] = "contested" /\ s # "failed" => j \in revived'
      BY <2>2 DEF StateWritten
    <3>3. s \in Unsettled => remote[j] \in Unsettled \/ j \in revived'
      BY <3>2 DEF Node!Moves, Node!Unsettled, Node!Terminal, Unsettled
    <3>4. Unfinished' \ Unfinished \subseteq {j} \cap revived'
      BY <3>2, <3>3 DEF Unfinished, TypeOK
    <3>5. IsFiniteSet(Unfinished \cup {j})
      BY <1>0, FS_AddElement
    <3>6. IsFiniteSet(Unfinished')
      BY <3>4, <3>5, FS_Subset
    <3> QED
      BY <2>1, <3>1, <3>4, <3>6, AdmissionKept
  <2>3. CASE LateSubmission(j)
    <3>1. Unfinished' \subseteq Unfinished \cup {j} /\ j \in late
      BY <2>3 DEF LateSubmission, Unfinished, TypeOK
    <3>2. IsFiniteSet(Unfinished \cup {j})
      BY <1>0, FS_AddElement
    <3>3. IsFiniteSet(Unfinished')
      BY <3>1, <3>2, FS_Subset
    <3> QED
      BY <2>1, <2>3, <3>1, <3>3, AdmissionKept DEF LateSubmission
  <2> QED
    BY <1>5, <2>2, <2>3 DEF NodeStep
<1>6. ASSUME NEW c \in Calls, Arrive(c)
      PROVE  AdmissionInv'
  <2>1. PICK op \in Ops, s \in Stages, j \in Jobs \cup {"none"} :
            Begin(c, op, s, j) /\ (op = "submit" => s = "waiting")
    BY <1>6 DEF Arrive, CallList, Tick, CallSubmit, CallCancel, Ops, Stages
  <2> DEFINE r == [Idle EXCEPT !.op = op, !.stage = s, !.job = j]
  <2>2. r.op = op /\ r.stage = s
    BY IdleType DEF Call
  <2>3. Becomes(c, r)
    BY <2>1, BeginStep
  <2> HIDE DEF r
  <2>4. \A d \in Calls : Working(d)' => call'[d] = call[d]
    BY <1>3, <2>1, <2>2, <2>3
  <2>5. UNCHANGED <<remote, blind, Aside>>
    BY <1>6 DEF Arrive, CallList, Tick, CallSubmit, CallCancel
  <2> QED
    BY <1>1, <1>2, <2>4, <2>5
<1>7. ASSUME NEW c \in Calls, NEW s \in Stages, Stage(c, s), call[c].op # "submit"
      PROVE  \A d \in Calls : Working(d)' => call'[d] = call[d]
  BY <1>0, <1>3, <1>7, StageStep DEF Call
<1>8. ASSUME NEW c \in Calls, Return(c)
      PROVE  \A d \in Calls : Working(d)' => call'[d] = call[d]
  BY <1>3, <1>8, IdleType, ReturnStep
<1>9. ASSUME NEW c \in Calls, ListServe(c)
      PROVE  AdmissionInv'
  <2> DEFINE seen == [j \in Jobs |-> Listed(j)]
             r == [call[c] EXCEPT !.stage = "served", !.seen = seen]
  <2>1. call' = [call EXCEPT ![c] = r]
    BY <1>9, <1>0 DEF ListServe, TypeOK, Call
  <2>2. r.op = call[c].op /\ r.stage = "served" /\ r.seen = seen
    BY <1>0 DEF Call
  <2>3. seen \in [Jobs -> Listing]
    BY DEF Listed, TypeOK, Status, Over, Listing, Terminal
  <2>4. Becomes(c, r)
    BY <1>0, <2>1, <2>3 DEF Becomes, TypeOK, Call
  <2>5. Active(seen) = Unfinished
    BY DEF Active, Unfinished, Listed, Unsettled
  <2>6. UNCHANGED <<remote, blind, Aside>>
    BY <1>9 DEF ListServe
  <2> HIDE DEF r, seen
  <2>7. CASE call[c].op # "submit"
    BY <1>1, <1>2, <1>3, <2>2, <2>4, <2>6, <2>7
  <2>8. CASE call[c].op = "submit"
    <3>1. Working(c)
      BY <1>9, <2>8 DEF ListServe, Working
    <3>2. \A d \in Calls \ {c} : ~Working(d)
      BY <3>1 DEF AdmissionInv, SerialInv
    <3> QED
      BY <1>0, <2>2, <2>4, <2>5, <2>6, <3>2, AdmissionMoves
  <2> QED
    BY <2>7, <2>8
<1>10. ASSUME NEW c \in Calls, ListFails(c)
       PROVE  AdmissionInv'
  <2>1. UNCHANGED <<remote, blind, Aside>>
    BY <1>10 DEF ListFails
  <2>2. CASE call[c].op # "submit"
    BY <1>1, <1>2, <1>7, <1>10, <2>1, <2>2 DEF ListFails, Stages
  <2>3. CASE call[c].op = "submit"
    <3>1. Working(c)
      BY <1>10, <2>3 DEF ListFails, Working
    <3>2. \A d \in Calls \ {c} : ~Working(d)
      BY <3>1 DEF AdmissionInv, SerialInv
    <3>3. Becomes(c, [call[c] EXCEPT !.stage = "failed"])
      BY <1>10, StageStep DEF ListFails, Stages
    <3> QED
      BY <1>0, <2>1, <3>2, <3>3, AdmissionMoves DEF Call
  <2> QED
    BY <2>2, <2>3
<1>11. ASSUME NEW c \in Calls, Proceed(c)
       PROVE  AdmissionInv'
  <2>1. CASE SubmitNext(c)
    <3>1. Becomes(c, [call[c] EXCEPT !.stage = "sent"])
      BY <2>1, StageStep DEF SubmitNext, Stages
    <3>2. \A d \in Calls \ {c} : ~Working(d)
      BY <2>1 DEF SubmitNext, Working
    <3>3. UNCHANGED <<remote, blind, Aside>>
      BY <2>1 DEF SubmitNext
    <3> QED
      BY <1>0, <3>1, <3>2, <3>3, AdmissionMoves DEF Call
  <2>2. CASE ListReply(c) /\ call[c].op # "submit"
    <3>1. After(c, call[c].seen)
      BY <1>0, <2>2, ContinueStep DEF ListReply, Call
    <3>2. \A d \in Calls : Working(d)' => call'[d] = call[d]
      BY <1>0, <1>3, <2>2, <3>1, IdleType DEF After, Call
    <3> QED
      BY <1>1, <1>2, <2>2, <3>2 DEF ListReply
  <2>3. CASE ListUnreachable(c) /\ call[c].op # "submit"
    <3>1. After(c, Nothing)
      BY <2>3, NothingType, ContinueStep DEF ListUnreachable
    <3>2. \A d \in Calls : Working(d)' => call'[d] = call[d]
      BY <1>0, <1>3, <2>3, <3>1, IdleType DEF After, Call
    <3> QED
      BY <1>1, <1>2, <2>3, <3>2 DEF ListUnreachable
  <2>4. CASE (ListReply(c) \/ ListUnreachable(c)) /\ call[c].op = "submit"
    BY <2>4, ReplyAdmission
  <2>5. CASE SubmitServe(c)
    BY <2>5, ServeAdmission
  <2>6. CASE SubmitReply(c)
    BY <1>1, <1>2, <1>8, <2>6 DEF SubmitReply
  <2>7. CASE SubmitRefused(c)
    BY <1>1, <1>2, <1>8, <2>7 DEF SubmitRefused
  <2>8. CASE SubmitTimesOut(c)
    BY <1>1, <1>2, <1>8, <2>8 DEF SubmitTimesOut
  <2>9. CASE CancelServe(c)
    <3>1. Unfinished' \subseteq Unfinished
      BY <2>9 DEF CancelServe, Unfinished, Unsettled, TypeOK
    <3> QED
      BY <1>1, <1>7, <2>9, <3>1 DEF CancelServe, At, Stages
  <2>10. CASE CancelReply(c)
    <3>1. Becomes(c, [Idle EXCEPT !.op = "list", !.stage = "sent"])
      BY <2>10, IdleType DEF CancelReply, TypeOK, Becomes, Call
    <3> QED
      BY <1>1, <1>2, <1>3, <2>10, <3>1, IdleType DEF CancelReply, Call
  <2>11. CASE CancelFails(c)
    BY <1>1, <1>2, <1>8, <2>11 DEF CancelFails
  <2>12. CASE RecoverServe(c)
    <3>1. Unfinished' \subseteq Unfinished
      BY <2>12 DEF RecoverServe, Unfinished, Unsettled, TypeOK
    <3> QED
      BY <1>1, <1>7, <2>12, <3>1 DEF RecoverServe, At, Stages
  <2>13. CASE ExpireServe(c)
    <3>1. Unfinished' \subseteq Unfinished
      BY <2>13 DEF ExpireServe, Unfinished, Unsettled, TypeOK
    <3> QED
      BY <1>1, <1>7, <2>13, <3>1 DEF ExpireServe, At, Stages
  <2>14. ASSUME Handled(c), call[c].op = "reconcile"
         PROVE  \A d \in Calls : Working(d)' => call'[d] = call[d]
    BY <1>0, <1>3, <2>14, HandledStep, IdleType DEF Call
  <2>15. CASE ReconcileReply(c)
    BY <1>1, <1>2, <2>14, <2>15 DEF ReconcileReply, At
  <2>16. CASE ReconcileNoChange(c)
    BY <1>1, <1>2, <2>14, <2>16 DEF ReconcileNoChange
  <2> QED
    BY <1>11, <2>1, <2>2, <2>3, <2>4, <2>5, <2>6, <2>7, <2>8, <2>9, <2>10, <2>11, <2>12,
       <2>13, <2>15, <2>16 DEF Proceed
<1>12. CASE UNCHANGED vars
  BY <1>1, <1>2, <1>12 DEF vars
<1> QED
  BY <1>4, <1>5, <1>6, <1>9, <1>10, <1>11, <1>12 DEF Next

-----------------------------------------------------------------------------
(* The theorems.                                                           *)

IInv == TypeOK /\ JobInv /\ TruthInv /\ AdmissionInv

LEMMA InitInv == Init => IInv
<1> SUFFICES ASSUME Init
             PROVE  IInv
  OBVIOUS
<1>1. TypeOK /\ JobInv
  BY IdleType, NothingType, RestartsAssumption DEF Init, TypeOK, JobInv, Status, Over, Listing
<1>2. TruthInv
  BY IdleType, NothingType DEF Init, TruthInv, FreshInv, Fresh, SeenInv, CacheIsNotAhead,
     AnnouncedIsFinished, Terminal
<1>3. Unfinished = {} /\ Counted = {}
  BY NothingType DEF Init, Unfinished, Counted, Unsettled
<1>4. AdmissionInv
  BY <1>3, IdleType, FS_EmptySet, LimitAssumption DEF Init, AdmissionInv, SerialInv, ListingInv,
     AdmitInv, CountInv, Working
<1> QED
  BY <1>1, <1>2, <1>4 DEF IInv

\* The inductive invariant: types, what submissions rest on, what the control plane knows.
THEOREM Invariance == Spec => []IInv
<1>1. IInv /\ [Next]_vars => IInv'
  BY TypeStep, TruthStep, AdmissionStep DEF IInv
<1> QED
  BY <1>1, InitInv, PTL DEF Spec

\* The state of the control plane keeps its type.
THEOREM TypeCorrect == Spec => []TypeOK
<1>1. IInv => TypeOK
  BY DEF IInv
<1> QED
  BY <1>1, Invariance, PTL

\* submit(): the limit of a node holds for every job admitted on a listing that succeeded
\* and by a submission that was not given up.
THEOREM LimitIsHeld == Spec => []LimitHeld
<1>1. IInv => LimitHeld
  BY DEF IInv, AdmissionInv, CountInv, Counted, Aside, LimitHeld
<1> QED
  BY <1>1, Invariance, PTL

\* submit(): the conflict check keeps such jobs apart.
THEOREM ResourcesAreHeld == Spec => []ResourcesHeld
<1>1. IInv => ResourcesHeld
  BY DEF IInv, AdmissionInv, CountInv, Counted, Aside, ResourcesHeld
<1> QED
  BY <1>1, Invariance, PTL

\* onJobSettled: only jobs that have finished are announced.
THEOREM AnnouncedHaveFinished == Spec => []AnnouncedIsFinished
<1>1. IInv => AnnouncedIsFinished
  BY DEF IInv, TruthInv
<1> QED
  BY <1>1, Invariance, PTL

\* list(), cancel(), reconcile(): a success or a cancellation in the cache is the node's.
THEOREM CacheNeverAhead == Spec => []CacheIsNotAhead
<1>1. IInv => CacheIsNotAhead
  BY DEF IInv, TruthInv
<1> QED
  BY <1>1, Invariance, PTL

-----------------------------------------------------------------------------
(* The node under the control plane moves as JobStatus allows.             *)

\* One state.json changes, in one of the ways of JobStatus.
LEMMA OneMove ==
    ASSUME TypeOK, NEW j \in Jobs, NEW s \in Status, remote' = [remote EXCEPT ![j] = s],
           \/ remote[j] = "absent" /\ s = "queued"
           \/ <<remote[j], s>> \in Node!Moves
           \/ remote[j] \in Terminal \cup {"contested"} /\ s = "gone"
           \/ s = remote[j]
    PROVE  Node!StatusNext
<1>1. remote' \in [Jobs -> Node!Status]
  BY DEF TypeOK, Status, Listing, Over, Unsettled, Terminal, Node!Status, Node!Unsettled, Node!Terminal
<1>2. remote'[j] = s /\ \A i \in Jobs : i # j => remote'[i] = remote[i]
  BY DEF TypeOK
<1>3. Node!Submitted(j) \/ Node!Written(j) \/ Node!Removed(j) \/ remote'[j] = remote[j]
  BY <1>2 DEF Terminal, Node!Submitted, Node!Written, Node!Removed, Node!Terminal
<1> QED
  BY <1>1, <1>2, <1>3 DEF Node!StatusNext

LEMMA NodeStepMoves ==
    ASSUME TypeOK, NEW j \in Jobs, NodeStep(j)
    PROVE  Node!StatusNext
<1>1. CASE StateWritten(j)
  BY <1>1, OneMove DEF StateWritten
<1>2. CASE LateSubmission(j)
  BY <1>2, OneMove DEF LateSubmission, Status, Listing, Unsettled
<1> QED
  BY <1>1, <1>2 DEF NodeStep

LEMMA CallStepMoves ==
    ASSUME TypeOK, JobInv, FreshInv, NEW c \in Calls, Proceed(c)
    PROVE  Node!StatusNext \/ UNCHANGED remote
<1>1. CASE SubmitServe(c)
  <2>1. call[c].job \in Jobs /\ remote[call[c].job] = "absent"
    BY <1>1 DEF SubmitServe, At, JobInv, FreshInv, Fresh
  <2> QED
    BY <1>1, <2>1, OneMove DEF SubmitServe, Status, Listing, Unsettled
<1>2. CASE CancelServe(c)
  <2> DEFINE j == call[c].job
             s == IF remote[j] \in Unsettled THEN "canceled" ELSE remote[j]
  <2>1. j \in Jobs /\ remote' = [remote EXCEPT ![j] = s]
    BY <1>2 DEF CancelServe, At, JobInv, TypeOK
  <2>2. s \in Status /\ (s = remote[j] \/ <<remote[j], s>> \in Node!Moves)
    BY <2>1 DEF TypeOK, Status, Over, Terminal, Unsettled, Node!Moves, Node!Unsettled
  <2> QED
    BY <2>1, <2>2, OneMove
<1>3. CASE RecoverServe(c)
  <2> DEFINE j == call[c].job
  <2>1. PICK o \in {"failed", "contested"} :
           remote' = [remote EXCEPT ![j] = IF remote[j] \in Unsettled THEN o ELSE remote[j]]
    BY <1>3 DEF RecoverServe, At, JobInv, TypeOK
  <2> DEFINE s == IF remote[j] \in Unsettled THEN o ELSE remote[j]
  <2>2. j \in Jobs
    BY <1>3 DEF RecoverServe, At, JobInv
  <2>3. s \in Status /\ (s = remote[j] \/ <<remote[j], s>> \in Node!Moves)
    BY <2>2 DEF TypeOK, Status, Over, Terminal, Unsettled, Node!Moves, Node!Unsettled
  <2> QED
    BY <2>1, <2>2, <2>3, OneMove
<1>4. CASE ExpireServe(c)
  <2>1. call[c].job \in Jobs
    BY <1>4 DEF ExpireServe, At, JobInv
  <2> QED
    BY <1>4, <2>1, OneMove DEF ExpireServe, Status, Over
<1>5. CASE ~(SubmitServe(c) \/ CancelServe(c) \/ RecoverServe(c) \/ ExpireServe(c))
  BY <1>5 DEF Proceed, SubmitNext, ListReply, ListUnreachable, SubmitReply, SubmitRefused,
     SubmitTimesOut, CancelReply, CancelFails, ReconcileReply, ReconcileNoChange
<1> QED
  BY <1>1, <1>2, <1>3, <1>4, <1>5

\* What the scripts of manager.ts do to state.json, and the writers on the node assumed here,
\* are among the writes JobStatus allows: this side demands no more of the node than that.
THEOREM NodeMovesAsJobStatus == Spec => NodeImplementsStatus
<1>1. Init => Node!StatusInit
  BY DEF Init, Nothing, Node!StatusInit
<1>2. IInv /\ [Next]_vars => [Node!StatusNext]_remote
  <2> SUFFICES ASSUME IInv, [Next]_vars
               PROVE  Node!StatusNext \/ UNCHANGED remote
    OBVIOUS
  <2>0. TypeOK /\ JobInv /\ FreshInv
    BY DEF IInv, TruthInv
  <2>1. CASE Restart
    BY <2>1 DEF Restart
  <2>2. ASSUME NEW j \in Jobs, NodeStep(j)
        PROVE  Node!StatusNext
    BY <2>0, <2>2, NodeStepMoves
  <2>3. ASSUME NEW c \in Calls, Arrive(c) \/ ListServe(c) \/ ListFails(c)
        PROVE  UNCHANGED remote
    BY <2>3 DEF Arrive, CallList, Tick, CallSubmit, CallCancel, ListServe, ListFails
  <2>4. ASSUME NEW c \in Calls, Proceed(c)
        PROVE  Node!StatusNext \/ UNCHANGED remote
    BY <2>0, <2>4, CallStepMoves
  <2>5. CASE UNCHANGED vars
    BY <2>5 DEF vars
  <2> QED
    BY <2>1, <2>2, <2>3, <2>4, <2>5 DEF Next
<1> QED
  BY <1>1, <1>2, Invariance, PTL DEF Spec, NodeImplementsStatus, Node!StatusSpec
=============================================================================
