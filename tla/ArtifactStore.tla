---------------------------- MODULE ArtifactStore ----------------------------
(***************************************************************************)
(* The shared artifact store: modules/artifact-storage/store.py (its       *)
(* broker) and modules/artifact_protocol.py (publishers: brokers of other  *)
(* modules that write to the store directly).  One file lock excludes them *)
(* from each other; readers take no lock, and any of the processes may die *)
(* inside its locked section.  The model therefore has one locked section  *)
(* at a time, op, made of the file system steps a reader or a crash can    *)
(* tell apart.  A chunk of content is one unit of size; what the bytes are *)
(* is abstracted to how many of them there are.                            *)
(***************************************************************************)
EXTENDS Integers, FiniteSets

CONSTANTS
    Dirs,          \* directories below .uploads and objects: uploads and artifacts
    Reservations,  \* files below .reservations
    Publishers,    \* processes that publish through artifact_protocol.py
    Quota,         \* totalQuotaBytes
    MaxSize,       \* maxArtifactBytes, also the largest reservation
    MaxDays,       \* maxRetentionDays
    MaxCrashes     \* bound on processes that die

ASSUME FiniteAssumption == IsFiniteSet(Dirs) /\ IsFiniteSet(Reservations) /\ IsFiniteSet(Publishers)
ASSUME QuotaAssumption == Quota \in Nat
ASSUME SizeAssumption == MaxSize \in Nat \ {0}
ASSUME DaysAssumption == MaxDays \in Nat \ {0}
ASSUME CrashesAssumption == MaxCrashes \in Nat

VARIABLES
    dir,           \* dir[d]: what the directory is and holds
    res,           \* res[r]: declaredBytes of the reservation file, NoFile without one
    stale,         \* uploads and reservations not updated for UPLOAD_TTL_SECONDS
    held,          \* held[p]: the reservation p works under, or "none"
    op,            \* the locked section under way
    crashes        \* processes that have died so far

vars == <<dir, res, stale, held, op, crashes>>

NoFile == -1

\* place: "staging" is a directory of .uploads named publish-<key>-<index>, "uploads" one
\* named by an upload identifier.  json: upload.json or metadata.json.  size: of content.
\* life and cap: days until expiresEpoch and until createdEpoch plus maxRetentionDays.
Dir == [place    : {"none", "uploads", "staging", "objects"},
        json     : {"none", "upload", "metadata"},
        declared : 0..MaxSize,
        received : 0..MaxSize,
        size     : NoFile..MaxSize + 1,
        life     : 0..MaxDays,
        cap      : 0..MaxDays]

NoDir == [place |-> "none", json |-> "none", declared |-> 0, received |-> 0,
          size |-> NoFile, life |-> 0, cap |-> 0]

\* todo: directories being removed.  made: directories of a publication.  left: what is left
\* of its budget.
Op == [who    : Publishers \cup {"nobody", "broker"},
       kind   : {"none", "gc", "begin", "append", "commit", "remove", "publish"},
       step   : {"none", "objects", "uploads", "admit", "made", "written", "unlinked",
                 "described", "staged", "next", "undo"},
       target : Dirs \cup {"none"},
       todo   : SUBSET Dirs,
       made   : SUBSET Dirs,
       left   : 0..MaxSize]

NoOp == [who |-> "nobody", kind |-> "none", step |-> "none", target |-> "none",
         todo |-> {}, made |-> {}, left |-> 0]

TypeOK ==
    /\ dir \in [Dirs -> Dir]
    /\ res \in [Reservations -> NoFile..MaxSize]
    /\ stale \subseteq Dirs \cup Reservations
    /\ held \in [Publishers -> Reservations \cup {"none"}]
    /\ op \in Op
    /\ crashes \in 0..MaxCrashes

Init ==
    /\ dir = [d \in Dirs |-> NoDir]
    /\ res = [r \in Reservations |-> NoFile]
    /\ stale = {}
    /\ held = [p \in Publishers |-> "none"]
    /\ op = NoOp
    /\ crashes = 0

Artifact(d) == dir[d].place = "objects" /\ dir[d].json = "metadata"
Upload(d)   == dir[d].place = "uploads" /\ dir[d].json = "upload"

\* The sum of the values of f, none above MaxSize, as the number of units they are made of.
Total(f) == Cardinality({u \in (DOMAIN f) \X (1..MaxSize) : u[2] <= f[u[1]]})

\* _usage(), usage(): artifacts, uploads and reservations by what they declare.
Kept == [d \in Dirs |-> IF Artifact(d) \/ Upload(d) THEN dir[d].declared ELSE 0]
Usage_NoReservations == Total(Kept)
Usage == Total(Kept) + Total(res)

Doing(kind, step) == op.kind = kind /\ op.step = step
Step(step) == op' = [op EXCEPT !.step = step]
Unlock     == op' = NoOp
Change(d, rec) == dir' = [dir EXCEPT ![d] = rec]

-----------------------------------------------------------------------------
(* shutil.rmtree of the directories of todo: the two files go in either    *)
(* order, the directory last.                                              *)

RemoveFile ==
    /\ \E d \in op.todo :
          /\ dir[d].json # "none" /\ dir[d].size # NoFile
          /\ \/ Change(d, [dir[d] EXCEPT !.json = "none"])
             \/ Change(d, [dir[d] EXCEPT !.size = NoFile])
    /\ UNCHANGED <<res, stale, held, op, crashes>>

RemoveRest ==
    /\ \E d \in op.todo :
          /\ dir[d].json = "none" \/ dir[d].size = NoFile
          /\ Change(d, NoDir)
          /\ stale' = stale \ {d}
          /\ op' = [op EXCEPT !.todo = @ \ {d}]
    /\ UNCHANGED <<res, held, crashes>>

-----------------------------------------------------------------------------
(* _gc_locked(), run by the timer thread and at the start of begin().      *)

Expired == {d \in Dirs : Artifact(d) /\ dir[d].life = 0}

GcStart(kind) ==
    /\ op = NoOp
    /\ op' = [NoOp EXCEPT !.who = "broker", !.kind = kind, !.step = "objects", !.todo = Expired]
    /\ UNCHANGED <<dir, res, stale, held, crashes>>

Sweeping(step) == op.kind \in {"gc", "begin"} /\ op.step = step

StaleUploads == {d \in Dirs : Upload(d) /\ d \in stale}

\* _upload_dir rejects a name that is no upload identifier, outside the try of the loop:
\* the pass ends there, after the uploads listed before it, and so does the begin() that
\* runs it.
Wedged == \E d \in Dirs : dir[d].place = "staging"

GcUploads_Incomplete ==
    /\ Sweeping("objects") /\ op.todo = {}
    /\ op' = [op EXCEPT !.step = "uploads",
                        !.todo = {d \in StaleUploads : dir[d].received < dir[d].declared}]
    /\ UNCHANGED <<dir, res, stale, held, crashes>>
GcUploads ==
    /\ Sweeping("objects") /\ op.todo = {}
    /\ \E todo \in SUBSET StaleUploads :
          /\ Wedged \/ todo = StaleUploads
          /\ op' = [op EXCEPT !.step = "uploads", !.todo = todo]
    /\ UNCHANGED <<dir, res, stale, held, crashes>>

GcRaises ==
    /\ Sweeping("uploads") /\ op.todo = {} /\ Wedged
    /\ Unlock
    /\ UNCHANGED <<dir, res, stale, held, crashes>>

\* One unlink each; a pass that dies among them leaves the rest to the next.
GcReservations ==
    /\ Sweeping("uploads") /\ op.todo = {} /\ ~Wedged
    /\ res' = [r \in Reservations |-> IF r \in stale THEN NoFile ELSE res[r]]
    /\ stale' = stale \ Reservations
    /\ IF op.kind = "begin" THEN Step("admit") ELSE Unlock
    /\ UNCHANGED <<dir, held, crashes>>

-----------------------------------------------------------------------------
(* begin() after the collection.                                           *)

BeginRefused ==
    /\ Doing("begin", "admit")
    /\ Unlock
    /\ UNCHANGED <<dir, res, stale, held, crashes>>

MakeUpload ==
    /\ Doing("begin", "admit")
    /\ \E d \in Dirs, size \in 0..MaxSize :
          /\ dir[d] = NoDir
          /\ Usage + size <= Quota
          /\ Change(d, [NoDir EXCEPT !.place = "uploads", !.declared = size, !.size = 0])
          /\ op' = [op EXCEPT !.step = "made", !.target = d]
    /\ UNCHANGED <<res, stale, held, crashes>>

DescribeUpload ==
    /\ Doing("begin", "made")
    /\ Change(op.target, [dir[op.target] EXCEPT !.json = "upload"])
    /\ Unlock
    /\ UNCHANGED <<res, stale, held, crashes>>

-----------------------------------------------------------------------------
(* append() of one chunk: the content grows first, then receivedBytes.     *)

AppendContent_Unlimited(d) ==
    /\ op = NoOp
    /\ Upload(d) /\ dir[d].size # NoFile
    /\ Change(d, [dir[d] EXCEPT !.size = IF @ <= MaxSize THEN @ + 1 ELSE @])
    /\ op' = [NoOp EXCEPT !.who = "broker", !.kind = "append", !.step = "written", !.target = d]
    /\ UNCHANGED <<res, stale, held, crashes>>
AppendContent(d) ==
    /\ op = NoOp
    /\ Upload(d) /\ dir[d].size # NoFile /\ dir[d].received < dir[d].declared
    /\ Change(d, [dir[d] EXCEPT !.size = IF @ <= MaxSize THEN @ + 1 ELSE @])
    /\ op' = [NoOp EXCEPT !.who = "broker", !.kind = "append", !.step = "written", !.target = d]
    /\ UNCHANGED <<res, stale, held, crashes>>

AppendRecord ==
    /\ Doing("append", "written")
    /\ Change(op.target, [dir[op.target] EXCEPT !.received = @ + 1])
    /\ stale' = stale \ {op.target}
    /\ Unlock
    /\ UNCHANGED <<res, held, crashes>>

-----------------------------------------------------------------------------
(* commit(): unlink upload.json, write metadata.json, move the directory.  *)

Complete_ByCount(d) == dir[d].received = dir[d].declared
Complete(d) == dir[d].received = dir[d].declared /\ dir[d].size = dir[d].declared

CommitUnlink(d) ==
    /\ op = NoOp
    /\ Upload(d) /\ Complete(d)
    /\ Change(d, [dir[d] EXCEPT !.json = "none"])
    /\ op' = [NoOp EXCEPT !.who = "broker", !.kind = "commit", !.step = "unlinked", !.target = d]
    /\ UNCHANGED <<res, stale, held, crashes>>

CommitDescribe ==
    /\ Doing("commit", "unlinked")
    /\ \E days \in 1..MaxDays :
          Change(op.target, [dir[op.target] EXCEPT !.json = "metadata", !.life = days, !.cap = MaxDays])
    /\ Step("described")
    /\ UNCHANGED <<res, stale, held, crashes>>

CommitMove ==
    /\ Doing("commit", "described")
    /\ Change(op.target, [dir[op.target] EXCEPT !.place = "objects"])
    /\ stale' = stale \ {op.target}
    /\ Unlock
    /\ UNCHANGED <<res, held, crashes>>

-----------------------------------------------------------------------------
(* abort() of an upload, whatever is left of it; delete() of an artifact.  *)

Remove(d) ==
    /\ op = NoOp
    /\ dir[d].place = "uploads" \/ Artifact(d)
    /\ op' = [NoOp EXCEPT !.who = "broker", !.kind = "remove", !.step = "next", !.todo = {d}]
    /\ UNCHANGED <<dir, res, stale, held, crashes>>

RemoveEnds ==
    /\ op.kind = "remove" /\ op.todo = {}
    /\ Unlock
    /\ UNCHANGED <<dir, res, stale, held, crashes>>

\* update(): only of an artifact that has not expired, and never past its maximal expiry.
Update_Uncapped(d) ==
    /\ op = NoOp
    /\ Artifact(d) /\ dir[d].size # NoFile /\ dir[d].life > 0
    /\ \E days \in 1..MaxDays : Change(d, [dir[d] EXCEPT !.life = days])
    /\ UNCHANGED <<res, stale, held, op, crashes>>
Update(d) ==
    /\ op = NoOp
    /\ Artifact(d) /\ dir[d].size # NoFile /\ dir[d].life > 0
    /\ \E days \in 1..MaxDays :
          Change(d, [dir[d] EXCEPT !.life = IF days <= dir[d].cap THEN days ELSE dir[d].cap])
    /\ UNCHANGED <<res, stale, held, op, crashes>>

-----------------------------------------------------------------------------
(* Publishers: reserve, work, publish or release.                          *)

Reserve(p, r) ==
    /\ op = NoOp
    /\ held[p] = "none" /\ res[r] = NoFile /\ \A q \in Publishers : held[q] # r
    /\ \E size \in 0..MaxSize :
          /\ Usage + size <= Quota
          /\ res' = [res EXCEPT ![r] = size]
    /\ held' = [held EXCEPT ![p] = r]
    /\ UNCHANGED <<dir, stale, op, crashes>>

\* The finally clause of the callers.  A reservation that is gone is harmless.
Release(p) ==
    /\ op = NoOp
    /\ held[p] # "none"
    /\ res' = [res EXCEPT ![held[p]] = NoFile]
    /\ stale' = stale \ {held[p]}
    /\ held' = [held EXCEPT ![p] = "none"]
    /\ UNCHANGED <<dir, op, crashes>>

\* publish_reserved(): the budget is what the reservation file says, if it is still there.
PublishReserved(p) ==
    /\ op = NoOp
    /\ held[p] # "none" /\ res[held[p]] # NoFile
    /\ op' = [NoOp EXCEPT !.who = p, !.kind = "publish", !.step = "next", !.left = res[held[p]]]
    /\ UNCHANGED <<dir, res, stale, held, crashes>>

\* publish_unreserved(): quota check and publication under one lock.
PublishUnreserved(p) ==
    /\ op = NoOp
    /\ held[p] = "none"
    /\ \E size \in 0..MaxSize :
          /\ Usage + size <= Quota
          /\ op' = [NoOp EXCEPT !.who = p, !.kind = "publish", !.step = "next", !.left = size]
    /\ UNCHANGED <<dir, res, stale, held, crashes>>

\* _publish_locked(): one item after the other.  mkdir and the copy of the content.
StageItem ==
    /\ Doing("publish", "next")
    /\ \E d \in Dirs, size \in 0..op.left :
          /\ dir[d] = NoDir
          /\ Change(d, [NoDir EXCEPT !.place = "staging", !.declared = size, !.received = size, !.size = size])
          /\ op' = [op EXCEPT !.step = "staged", !.target = d, !.made = @ \cup {d}, !.left = @ - size]
    /\ UNCHANGED <<res, stale, held, crashes>>

DescribeItem ==
    /\ Doing("publish", "staged")
    /\ \E days \in 1..MaxDays :
          Change(op.target, [dir[op.target] EXCEPT !.json = "metadata", !.life = days, !.cap = MaxDays])
    /\ Step("described")
    /\ UNCHANGED <<res, stale, held, crashes>>

MoveItem ==
    /\ Doing("publish", "described")
    /\ Change(op.target, [dir[op.target] EXCEPT !.place = "objects"])
    /\ Step("next")
    /\ UNCHANGED <<res, stale, held, crashes>>

\* The reservation is consumed.
PublishDone ==
    /\ Doing("publish", "next")
    /\ LET r == held[op.who]
       IN  IF r = "none" THEN UNCHANGED <<res, stale, held>>
           ELSE /\ res' = [res EXCEPT ![r] = NoFile]
                /\ stale' = stale \ {r}
                /\ held' = [held EXCEPT ![op.who] = "none"]
    /\ Unlock
    /\ UNCHANGED <<dir, crashes>>

\* An exception: staging and published directories are removed, the reservation stays.
PublishFails_StagingOnly ==
    /\ op.kind = "publish" /\ op.step # "undo"
    /\ op' = [op EXCEPT !.step = "undo", !.todo = {d \in op.made : dir[d].place = "staging"}]
    /\ UNCHANGED <<dir, res, stale, held, crashes>>
PublishFails ==
    /\ op.kind = "publish" /\ op.step # "undo"
    /\ op' = [op EXCEPT !.step = "undo", !.todo = op.made]
    /\ UNCHANGED <<dir, res, stale, held, crashes>>

UndoEnds ==
    /\ Doing("publish", "undo") /\ op.todo = {}
    /\ Unlock
    /\ UNCHANGED <<dir, res, stale, held, crashes>>

-----------------------------------------------------------------------------
(* Time and crashes.                                                       *)

\* UPLOAD_TTL_SECONDS pass without an update.
Age(x) ==
    /\ x \notin stale
    /\ \/ x \in Dirs /\ Upload(x)
       \/ x \in Reservations /\ res[x] # NoFile
    /\ stale' = stale \cup {x}
    /\ UNCHANGED <<dir, res, held, op, crashes>>

Day ==
    /\ \E d \in Dirs : dir[d].cap > 0
    /\ dir' = [d \in Dirs |-> [dir[d] EXCEPT !.life = IF @ > 0 THEN @ - 1 ELSE 0,
                                            !.cap = IF @ > 0 THEN @ - 1 ELSE 0]]
    /\ UNCHANGED <<res, stale, held, op, crashes>>

\* The lock goes with the process; a publisher forgets its reservation.
Crash(who) ==
    /\ crashes < MaxCrashes
    /\ op.who = who \/ (who \in Publishers /\ held[who] # "none")
    /\ crashes' = crashes + 1
    /\ op' = IF op.who = who THEN NoOp ELSE op
    /\ held' = IF who \in Publishers THEN [held EXCEPT ![who] = "none"] ELSE held
    /\ UNCHANGED <<dir, res, stale>>

\* The holder of the lock goes on.
Proceed ==
    \/ RemoveFile \/ RemoveRest \/ RemoveEnds
    \/ GcUploads \/ GcRaises \/ GcReservations
    \/ BeginRefused \/ MakeUpload \/ DescribeUpload
    \/ AppendRecord \/ CommitDescribe \/ CommitMove
    \/ StageItem \/ DescribeItem \/ MoveItem \/ PublishDone \/ PublishFails \/ UndoEnds

Next ==
    \/ \E kind \in {"gc", "begin"} : GcStart(kind)
    \/ \E d \in Dirs : AppendContent(d) \/ CommitUnlink(d) \/ Remove(d) \/ Update(d)
    \/ \E p \in Publishers, r \in Reservations : Reserve(p, r)
    \/ \E p \in Publishers : Release(p) \/ PublishReserved(p) \/ PublishUnreserved(p)
    \/ Proceed
    \/ \E x \in Dirs \cup Reservations : Age(x)
    \/ Day
    \/ \E who \in Publishers \cup {"broker"} : Crash(who)

Spec == Init /\ [][Next]_vars

\* A lock holder goes on, time passes, and the collector gets the lock now and then.
Fairness == WF_vars(Proceed) /\ WF_vars(Day) /\ SF_vars(GcStart("gc"))

FairSpec == Spec /\ Fairness

-----------------------------------------------------------------------------
(* Properties.                                                             *)

\* Whatever a reader finds under objects, at any moment and after any crash, is the whole
\* content: as long as metadata.json and all acknowledged chunks say.
ReadableIsWhole ==
    \A d \in Dirs :
        Artifact(d) /\ dir[d].size # NoFile =>
            dir[d].size = dir[d].declared /\ dir[d].received = dir[d].declared

\* What a live publisher may still add to the store under its reservation.
StillDue(p) ==
    IF op.kind = "publish" /\ op.who = p THEN op.left
    ELSE IF held[p] # "none" /\ res[held[p]] # NoFile THEN res[held[p]]
    ELSE 0

\* Directories that are uploads or artifacts, or on their way to be.
InUse(d) ==
    \/ Artifact(d) \/ Upload(d)
    \/ op.step \in {"made", "unlinked", "described"} /\ op.target = d
    \/ op.kind = "publish" /\ op.step # "undo" /\ d \in op.made

\* The quota: committed artifacts, uploads that may still be committed and what publishers
\* may still publish never exceed it together, whatever crashed in between.
QuotaHeld ==
    Total([d \in Dirs |-> IF InUse(d) THEN dir[d].declared ELSE 0])
    + Total([p \in Publishers |-> StillDue(p)]) <= Quota

\* _publish_locked: a failed publication leaves nothing of its batch in the store, when it
\* did not die while cleaning up.
FailedBatchLeavesNothing ==
    [][op.kind = "publish" /\ op.step = "undo" /\ op' = NoOp /\ crashes' = crashes
           => \A d \in op.made : dir[d] = NoDir]_vars

\* update() and the collector: no artifact stays for ever, however often its retention is
\* updated and whatever crashes.
ArtifactsExpire == \A d \in Dirs : Artifact(d) ~> ~Artifact(d)

\* The collector: an upload nobody continues goes, unless a collection cannot be completed
\* because of what a dead publisher left.
StaleUploadsGo == \A d \in Dirs : (Upload(d) /\ d \in stale) ~> (~(Upload(d) /\ d \in stale) \/ Wedged)

\* "Restarting the broker is safe after interruption: ... stale work is eventually
\* collected."
StaleIsCollected ==
    \A r \in Reservations :
        (r \in stale /\ \A p \in Publishers : held[p] # r) ~> (r \notin stale)

\* "... complete uploads can still be committed": a commit that dies leaves an artifact or
\* an upload that can be committed.
CommitSurvivesCrash ==
    [][op.kind = "commit" /\ op' = NoOp
           => \A d \in {op.target} : (Artifact(d) \/ (Upload(d) /\ Complete(d)))']_vars
=============================================================================
