------------------------ MODULE ArtifactStoreProofs ------------------------
(***************************************************************************)
(* Proofs about ArtifactStore for every set of directories, reservations   *)
(* and publishers, every quota and size, and every number of crashes.      *)
(***************************************************************************)
EXTENDS ArtifactStore, FiniteSetTheorems, TLAPS

-----------------------------------------------------------------------------
(* The inductive invariant.                                                *)

\* All declared content is there and recorded.
Whole(d) == dir[d].size = dir[d].declared /\ dir[d].received = dir[d].declared

\* A section that works on one directory has it, and removes none meanwhile.
SectionInv ==
    /\ op.step \in {"made", "written", "unlinked", "staged", "described"} =>
          op.target \in Dirs /\ op.todo = {}
    /\ op.step = "made" => op.kind = "begin"
    /\ op.step = "written" => op.kind = "append"
    /\ op.step = "unlinked" => op.kind = "commit"
    /\ op.step = "staged" => op.kind = "publish"
    /\ op.step = "described" => op.kind \in {"commit", "publish"}
    /\ op.step = "admit" => op.todo = {}
    /\ op.kind = "publish" => op.who \in Publishers
    /\ Doing("publish", "next") => op.todo = {}

\* What is true of that directory between two effects.
TargetInv ==
    /\ op.step = "made" => dir[op.target].place = "uploads"
    /\ op.step = "written" => /\ dir[op.target].place = "uploads"
                              /\ dir[op.target].received < dir[op.target].declared
    /\ op.step = "unlinked" => dir[op.target].place = "uploads" /\ Whole(op.target)
    /\ op.step = "staged" => dir[op.target].place = "staging" /\ Whole(op.target)
    /\ op.step = "described" => dir[op.target].place # "objects" /\ Whole(op.target)

\* What a failed publication has not removed yet is still to be removed.
UndoInv == Doing("publish", "undo") => \A d \in op.made \ op.todo : dir[d] = NoDir

IInv == TypeOK /\ SectionInv /\ TargetInv /\ ReadableIsWhole /\ UndoInv

-----------------------------------------------------------------------------
(* How a step changes the directories and the section under way.           *)

LEMMA NoDirType == /\ NoDir \in Dir /\ NoDir.place = "none" /\ NoDir.json = "none"
                   /\ NoDir.declared = 0 /\ NoDir.received = 0 /\ NoDir.size = NoFile
                   /\ NoDir.life = 0 /\ NoDir.cap = 0
BY SizeAssumption, DaysAssumption DEF NoDir, Dir, NoFile

LEMMA NoOpType == /\ NoOp \in Op /\ NoOp.who = "nobody" /\ NoOp.kind = "none" /\ NoOp.step = "none"
                  /\ NoOp.target = "none" /\ NoOp.todo = {} /\ NoOp.made = {} /\ NoOp.left = 0
BY SizeAssumption DEF NoOp, Op

\* One directory becomes rec, the others stay.
LEMMA ChangeStep ==
    ASSUME TypeOK, NEW d \in Dirs, NEW rec \in Dir, Change(d, rec)
    PROVE  /\ dir' \in [Dirs -> Dir]
           /\ dir'[d] = rec
           /\ \A e \in Dirs \ {d} : dir'[e] = dir[e]
BY DEF TypeOK, Change

-----------------------------------------------------------------------------
(* Types.                                                                  *)

LEMMA DirTypeStep ==
    ASSUME TypeOK, SectionInv, TargetInv, Next
    PROVE  dir' \in [Dirs -> Dir]
<1> USE SizeAssumption, DaysAssumption
<1>1. CASE UNCHANGED dir
  BY <1>1 DEF TypeOK
<1>2. ASSUME NEW d \in Dirs, AppendContent(d)
      PROVE  dir' \in [Dirs -> Dir]
  BY <1>2 DEF AppendContent, Change, TypeOK, Dir, NoFile
<1>3. ASSUME NEW d \in Dirs, CommitUnlink(d)
      PROVE  dir' \in [Dirs -> Dir]
  BY <1>3 DEF CommitUnlink, Change, TypeOK, Dir
<1>4. ASSUME NEW d \in Dirs, Update(d)
      PROVE  dir' \in [Dirs -> Dir]
  BY <1>4 DEF Update, Change, TypeOK, Dir
<1>5. CASE RemoveFile
  <2>1. \A d \in op.todo : d \in Dirs
    BY DEF TypeOK, Op
  <2> QED
    BY <1>5, <2>1 DEF RemoveFile, Change, TypeOK, Dir, NoFile
<1>6. CASE RemoveRest
  BY <1>6, NoDirType DEF RemoveRest, Change, TypeOK
<1>7. CASE MakeUpload
  <2>1. PICK d \in Dirs, size \in 0..MaxSize :
          Change(d, [NoDir EXCEPT !.place = "uploads", !.declared = size, !.size = 0])
    BY <1>7 DEF MakeUpload
  <2>2. [NoDir EXCEPT !.place = "uploads", !.declared = size, !.size = 0] \in Dir
    <3>1. size \in 0..MaxSize /\ 0 \in 0..MaxSize /\ 0 \in 0..MaxDays /\ 0 \in NoFile..MaxSize + 1
      BY DEF NoFile
    <3> QED
      BY <3>1 DEF Dir, NoDir
  <2> QED
    BY <2>1, <2>2, ChangeStep
<1>8. CASE DescribeUpload
  <2>1. op.target \in Dirs /\ Change(op.target, [dir[op.target] EXCEPT !.json = "upload"])
    BY <1>8 DEF DescribeUpload, Doing, SectionInv
  <2>2. [dir[op.target] EXCEPT !.json = "upload"] \in Dir
    BY <2>1 DEF TypeOK, Dir
  <2> QED
    BY <2>1, <2>2, ChangeStep
<1>9. CASE AppendRecord
  BY <1>9 DEF AppendRecord, Doing, SectionInv, TargetInv, Change, TypeOK, Dir
<1>10. CASE CommitDescribe \/ DescribeItem
  <2>1. PICK days \in 1..MaxDays :
          Change(op.target, [dir[op.target] EXCEPT !.json = "metadata", !.life = days, !.cap = MaxDays])
    BY <1>10 DEF CommitDescribe, DescribeItem
  <2>2. op.target \in Dirs
    BY <1>10 DEF CommitDescribe, DescribeItem, Doing, SectionInv
  <2>3. [dir[op.target] EXCEPT !.json = "metadata", !.life = days, !.cap = MaxDays] \in Dir
    <3>1. dir[op.target] \in Dir /\ days \in 0..MaxDays /\ MaxDays \in 0..MaxDays
      BY <2>2 DEF TypeOK
    <3> QED
      BY <3>1 DEF Dir
  <2> QED
    BY <2>1, <2>2, <2>3, ChangeStep
<1>11. CASE CommitMove \/ MoveItem
  BY <1>11 DEF CommitMove, MoveItem, Change, TypeOK, Dir
<1>12. CASE StageItem
  <2>1. op.left \in 0..MaxSize
    BY DEF TypeOK, Op
  <2>2. PICK d \in Dirs, size \in 0..op.left :
          Change(d, [NoDir EXCEPT !.place = "staging", !.declared = size, !.received = size, !.size = size])
    BY <1>12 DEF StageItem
  <2>3. [NoDir EXCEPT !.place = "staging", !.declared = size, !.received = size, !.size = size] \in Dir
    <3>1. size \in 0..MaxSize /\ size \in NoFile..MaxSize + 1 /\ 0 \in 0..MaxDays
      BY <2>1 DEF NoFile
    <3> QED
      BY <3>1 DEF Dir, NoDir
  <2> QED
    BY <2>2, <2>3, ChangeStep
<1>13. CASE Day
  <2>1. ASSUME NEW d \in Dirs
        PROVE  dir'[d] \in Dir
    <3>1. dir[d] \in Dir
      BY DEF TypeOK
    <3>2. dir'[d] = [dir[d] EXCEPT !.life = IF @ > 0 THEN @ - 1 ELSE 0,
                                   !.cap = IF @ > 0 THEN @ - 1 ELSE 0]
      BY <1>13 DEF Day
    <3>3. (IF dir[d].life > 0 THEN dir[d].life - 1 ELSE 0) \in 0..MaxDays
      BY <3>1 DEF Dir
    <3>4. (IF dir[d].cap > 0 THEN dir[d].cap - 1 ELSE 0) \in 0..MaxDays
      BY <3>1 DEF Dir
    <3> QED
      BY <3>1, <3>2, <3>3, <3>4 DEF Dir
  <2> QED
    BY <1>13, <2>1 DEF Day
<1> QED
  BY <1>1, <1>2, <1>3, <1>4, <1>5, <1>6, <1>7, <1>8, <1>9, <1>10, <1>11, <1>12, <1>13
  DEF Next, Proceed, GcStart, Remove, Reserve, Release, PublishReserved, PublishUnreserved,
      RemoveEnds, GcUploads, GcRaises, GcReservations, BeginRefused, PublishDone, PublishFails,
      UndoEnds, Age, Crash

LEMMA OpTypeStep ==
    ASSUME TypeOK, SectionInv, Next
    PROVE  op' \in Op
<1>1. CASE UNCHANGED op \/ Unlock
  BY <1>1, NoOpType DEF TypeOK, Unlock
<1>2. ASSUME NEW kind \in {"gc", "begin"}, GcStart(kind)
      PROVE  op' \in Op
  BY <1>2, NoOpType DEF GcStart, Expired, Op
<1>3. ASSUME NEW d \in Dirs, AppendContent(d) \/ CommitUnlink(d) \/ Remove(d)
      PROVE  op' \in Op
  <2>1. CASE AppendContent(d)
    BY <2>1, NoOpType DEF AppendContent, Op
  <2>2. CASE CommitUnlink(d)
    BY <2>2, NoOpType DEF CommitUnlink, Op
  <2>3. CASE Remove(d)
    BY <2>3, NoOpType DEF Remove, Op
  <2> QED
    BY <1>3, <2>1, <2>2, <2>3
<1>4. ASSUME NEW p \in Publishers, PublishReserved(p) \/ PublishUnreserved(p)
      PROVE  op' \in Op
  <2>1. res \in [Reservations -> NoFile..MaxSize] /\ held[p] \in Reservations \cup {"none"}
    BY DEF TypeOK
  <2>2. PublishReserved(p) => res[held[p]] \in 0..MaxSize
    BY <2>1, SizeAssumption DEF PublishReserved, NoFile
  <2> QED
    BY <1>4, <2>2, NoOpType DEF PublishReserved, PublishUnreserved, Op
<1>5. CASE RemoveRest
  BY <1>5 DEF RemoveRest, TypeOK, Op
<1>6. CASE GcUploads
  BY <1>6 DEF GcUploads, StaleUploads, TypeOK, Op
<1>7. CASE Step("admit") \/ Step("described") \/ Step("next")
  BY <1>7 DEF Step, TypeOK, Op
<1>8. CASE MakeUpload
  BY <1>8 DEF MakeUpload, TypeOK, Op
<1>9. CASE StageItem
  <2>1. PICK d \in Dirs, size \in 0..op.left :
          op' = [op EXCEPT !.step = "staged", !.target = d, !.made = @ \cup {d}, !.left = @ - size]
    BY <1>9 DEF StageItem
  <2>2. op \in Op /\ op.left - size \in 0..MaxSize /\ op.made \cup {d} \in SUBSET Dirs
    BY SizeAssumption DEF TypeOK, Op
  <2> QED
    BY <2>1, <2>2 DEF Op
<1>10. CASE PublishFails
  BY <1>10 DEF PublishFails, TypeOK, Op
<1>11. ASSUME NEW who, Crash(who)
       PROVE  op' \in Op
  BY <1>11, NoOpType DEF Crash, TypeOK
<1> QED
  BY <1>1, <1>2, <1>3, <1>4, <1>5, <1>6, <1>7, <1>8, <1>9, <1>10, <1>11
  DEF Next, Proceed, Update, Reserve, Release, RemoveFile, RemoveEnds, GcRaises, GcReservations,
      BeginRefused, DescribeUpload, AppendRecord, CommitDescribe, CommitMove, DescribeItem,
      MoveItem, PublishDone, UndoEnds, Age, Day

LEMMA RestTypeStep ==
    ASSUME TypeOK, SectionInv, Next
    PROVE  /\ res' \in [Reservations -> NoFile..MaxSize]
           /\ stale' \subseteq Dirs \cup Reservations
           /\ held' \in [Publishers -> Reservations \cup {"none"}]
           /\ crashes' \in 0..MaxCrashes
<1> DEFINE Typed == /\ res' \in [Reservations -> NoFile..MaxSize]
                    /\ stale' \subseteq Dirs \cup Reservations
                    /\ held' \in [Publishers -> Reservations \cup {"none"}]
                    /\ crashes' \in 0..MaxCrashes
<1> USE SizeAssumption, CrashesAssumption DEF NoFile
<1>1. CASE UNCHANGED <<res, held, crashes>> /\ stale' \subseteq stale
  BY <1>1 DEF TypeOK
<1>2. CASE GcReservations
  BY <1>2 DEF GcReservations, TypeOK
<1>3. ASSUME NEW p \in Publishers, NEW r \in Reservations, Reserve(p, r)
      PROVE  Typed
  BY <1>3 DEF Reserve, TypeOK
<1>4. ASSUME NEW p \in Publishers, Release(p)
      PROVE  Typed
  BY <1>4 DEF Release, TypeOK
<1>5. CASE PublishDone
  BY <1>5 DEF PublishDone, Doing, SectionInv, TypeOK
<1>6. ASSUME NEW x \in Dirs \cup Reservations, Age(x)
      PROVE  Typed
  BY <1>6 DEF Age, TypeOK
<1>7. ASSUME NEW who, Crash(who)
      PROVE  Typed
  BY <1>7 DEF Crash, TypeOK
<1> QED
  BY <1>1, <1>2, <1>3, <1>4, <1>5, <1>6, <1>7
  DEF Next, Proceed, GcStart, AppendContent, CommitUnlink, Remove, Update, PublishReserved,
      PublishUnreserved, RemoveFile, RemoveRest, RemoveEnds, GcUploads, GcRaises, BeginRefused,
      MakeUpload, DescribeUpload, AppendRecord, CommitDescribe, CommitMove, StageItem,
      DescribeItem, MoveItem, PublishFails, UndoEnds, Day

LEMMA TypeStep ==
    ASSUME TypeOK, SectionInv, TargetInv, [Next]_vars
    PROVE  TypeOK'
<1>1. CASE UNCHANGED vars
  BY <1>1 DEF vars, TypeOK
<1>2. CASE Next
  BY <1>2, DirTypeStep, OpTypeStep, RestTypeStep DEF TypeOK
<1> QED
  BY <1>1, <1>2

-----------------------------------------------------------------------------
(* The locked section.                                                     *)

LEMMA SectionStep ==
    ASSUME TypeOK, SectionInv, [Next]_vars
    PROVE  SectionInv'
<1>0. op \in Op
  BY DEF TypeOK
<1>1. CASE UNCHANGED op \/ Unlock
  BY <1>1, NoOpType DEF SectionInv, Doing, Unlock
<1>2. ASSUME NEW kind \in {"gc", "begin"}, GcStart(kind)
      PROVE  SectionInv'
  BY <1>2, NoOpType DEF GcStart, SectionInv, Doing, Op
<1>3. ASSUME NEW d \in Dirs, AppendContent(d)
      PROVE  SectionInv'
  BY <1>3, NoOpType DEF AppendContent, SectionInv, Doing, Op
<1>4. ASSUME NEW d \in Dirs, CommitUnlink(d)
      PROVE  SectionInv'
  BY <1>4, NoOpType DEF CommitUnlink, SectionInv, Doing, Op
<1>5. ASSUME NEW d \in Dirs, Remove(d)
      PROVE  SectionInv'
  BY <1>5, NoOpType DEF Remove, SectionInv, Doing, Op
<1>6. ASSUME NEW p \in Publishers, PublishReserved(p) \/ PublishUnreserved(p)
      PROVE  SectionInv'
  <2>1. PICK size : op' = [NoOp EXCEPT !.who = p, !.kind = "publish", !.step = "next", !.left = size]
    BY <1>6 DEF PublishReserved, PublishUnreserved
  <2> QED
    BY <2>1, NoOpType DEF SectionInv, Doing, Op
<1>7. CASE RemoveRest
  <2>1. PICK d \in op.todo : op' = [op EXCEPT !.todo = @ \ {d}]
    BY <1>7 DEF RemoveRest
  <2> QED
    BY <1>0, <2>1 DEF SectionInv, Doing, Op
<1>8. CASE GcUploads
  <2>1. PICK todo : op' = [op EXCEPT !.step = "uploads", !.todo = todo]
    BY <1>8 DEF GcUploads
  <2> QED
    BY <1>0, <1>8, <2>1 DEF GcUploads, Sweeping, SectionInv, Doing, Op
<1>9. CASE GcReservations
  BY <1>0, <1>9, <1>1 DEF GcReservations, Sweeping, Step, SectionInv, Doing, Op
<1>10. CASE MakeUpload
  <2>1. PICK d \in Dirs : op' = [op EXCEPT !.step = "made", !.target = d]
    BY <1>10 DEF MakeUpload
  <2> QED
    BY <1>0, <1>10, <2>1 DEF MakeUpload, SectionInv, Doing, Op
<1>11. CASE CommitDescribe \/ DescribeItem \/ MoveItem
  BY <1>0, <1>11 DEF CommitDescribe, DescribeItem, MoveItem, Step, SectionInv, Doing, Op
<1>12. CASE StageItem
  <2>1. PICK d \in Dirs, size \in 0..op.left :
          op' = [op EXCEPT !.step = "staged", !.target = d, !.made = @ \cup {d}, !.left = @ - size]
    BY <1>12 DEF StageItem
  <2> QED
    BY <1>0, <1>12, <2>1 DEF StageItem, SectionInv, Doing, Op
<1>13. CASE PublishFails
  BY <1>0, <1>13 DEF PublishFails, SectionInv, Doing, Op
<1>14. ASSUME NEW who, Crash(who)
       PROVE  SectionInv'
  BY <1>1, <1>14 DEF Crash, Unlock
<1> QED
  BY <1>1, <1>2, <1>3, <1>4, <1>5, <1>6, <1>7, <1>8, <1>9, <1>10, <1>11, <1>12, <1>13, <1>14
  DEF vars, Next, Proceed, Update, Reserve, Release, RemoveFile, RemoveEnds, GcRaises,
      BeginRefused, DescribeUpload, AppendRecord, CommitMove, PublishDone, UndoEnds, Age, Day

-----------------------------------------------------------------------------
(* The directories.                                                        *)

Contents == TargetInv /\ ReadableIsWhole /\ UndoInv

\* No directory is halfway through a section.
AtRest(step) == step \in {"none", "objects", "uploads", "admit", "next"}

LEMMA RestStep ==
    ASSUME ReadableIsWhole, AtRest(op'.step), UNCHANGED dir
    PROVE  Contents'
BY DEF Contents, AtRest, TargetInv, UndoInv, Doing, ReadableIsWhole, Artifact

\* One directory changes and no section goes on with one.
LEMMA RestChange ==
    ASSUME TypeOK, Contents, AtRest(op'.step),
           NEW d \in Dirs, NEW rec \in Dir, Change(d, rec),
           rec.place = "objects" /\ rec.json = "metadata" /\ rec.size # NoFile =>
               rec.size = rec.declared /\ rec.received = rec.declared
    PROVE  Contents'
BY ChangeStep DEF Contents, AtRest, TargetInv, UndoInv, Doing, ReadableIsWhole, Artifact

\* One directory changes, and the section goes on with it.
LEMMA TargetChange ==
    ASSUME TypeOK, Contents, NEW d \in Dirs, NEW rec \in Dir, Change(d, rec),
           rec.place # "objects", op'.target = d,
           op'.step \in {"made", "written", "unlinked", "staged", "described"},
           op'.step = "made" => rec.place = "uploads",
           op'.step = "written" => rec.place = "uploads" /\ rec.received < rec.declared,
           op'.step = "unlinked" => rec.place = "uploads",
           op'.step = "staged" => rec.place = "staging",
           op'.step \in {"unlinked", "staged", "described"} =>
               rec.size = rec.declared /\ rec.received = rec.declared
    PROVE  Contents'
BY ChangeStep DEF Contents, TargetInv, Whole, UndoInv, Doing, ReadableIsWhole, Artifact

LEMMA ContentsStep ==
    ASSUME TypeOK, SectionInv, Contents, [Next]_vars
    PROVE  Contents'
<1> USE SizeAssumption, DaysAssumption
<1>0. op \in Op /\ dir \in [Dirs -> Dir] /\ op.todo \subseteq Dirs /\ op.made \subseteq Dirs
  BY DEF TypeOK, Op
<1>1. CASE UNCHANGED <<dir, op>>
  BY <1>1 DEF Contents, TargetInv, Whole, ReadableIsWhole, Artifact, UndoInv, Doing
<1>2. CASE UNCHANGED dir /\ Unlock
  BY <1>2, NoOpType, RestStep DEF Contents, Unlock, AtRest
<1>3. ASSUME NEW kind \in {"gc", "begin"}, GcStart(kind)
      PROVE  Contents'
  BY <1>3, NoOpType, RestStep DEF Contents, GcStart, AtRest, Op
<1>4. ASSUME NEW d \in Dirs, AppendContent(d)
      PROVE  Contents'
  <2> DEFINE rec == [dir[d] EXCEPT !.size = IF @ <= MaxSize THEN @ + 1 ELSE @]
  <2>1. /\ Change(d, rec) /\ dir[d].place = "uploads" /\ dir[d].received < dir[d].declared
        /\ dir[d].size # NoFile
        /\ op'.step = "written" /\ op'.target = d
    BY <1>4, NoOpType DEF AppendContent, Upload, Op
  <2>2. rec \in Dir /\ rec.place = "uploads" /\ rec.received < rec.declared
    BY <1>0, <2>1 DEF Dir, NoFile
  <2> HIDE DEF rec
  <2> QED
    BY <2>1, <2>2, TargetChange
<1>5. ASSUME NEW d \in Dirs, CommitUnlink(d)
      PROVE  Contents'
  <2> DEFINE rec == [dir[d] EXCEPT !.json = "none"]
  <2>1. /\ Change(d, rec) /\ dir[d].place = "uploads" /\ Whole(d)
        /\ op'.step = "unlinked" /\ op'.target = d
    BY <1>5, NoOpType DEF CommitUnlink, Upload, Complete, Whole, Op
  <2>2. /\ rec \in Dir /\ rec.place = "uploads"
        /\ rec.size = rec.declared /\ rec.received = rec.declared
    BY <1>0, <2>1 DEF Dir, Whole
  <2> HIDE DEF rec
  <2> QED
    BY <2>1, <2>2, TargetChange
<1>6. ASSUME NEW d \in Dirs, Remove(d)
      PROVE  Contents'
  BY <1>6, NoOpType, RestStep DEF Contents, Remove, AtRest, Op
<1>7. ASSUME NEW d \in Dirs, Update(d)
      PROVE  Contents'
  <2>1. PICK life \in 0..MaxDays : Change(d, [dir[d] EXCEPT !.life = life])
    <3>1. PICK days \in 1..MaxDays :
            Change(d, [dir[d] EXCEPT !.life = IF days <= dir[d].cap THEN days ELSE dir[d].cap])
      BY <1>7 DEF Update
    <3>2. days \in 0..MaxDays /\ dir[d].cap \in 0..MaxDays
      BY <1>0 DEF Dir
    <3> QED
      BY <3>1, <3>2
  <2>2. [dir[d] EXCEPT !.life = life] \in Dir
    BY <1>0 DEF Dir
  <2>3. op = NoOp /\ op' = op
    BY <1>7 DEF Update
  <2> QED
    BY <1>0, <2>1, <2>2, <2>3, NoOpType, RestChange
    DEF AtRest, Contents, ReadableIsWhole, Artifact, Dir
<1>8. ASSUME NEW p \in Publishers, PublishReserved(p) \/ PublishUnreserved(p)
      PROVE  Contents'
  <2>1. PICK size : op' = [NoOp EXCEPT !.who = p, !.kind = "publish", !.step = "next", !.left = size]
    BY <1>8 DEF PublishReserved, PublishUnreserved
  <2>2. UNCHANGED dir
    BY <1>8 DEF PublishReserved, PublishUnreserved
  <2> QED
    BY <2>1, <2>2, NoOpType, RestStep DEF Contents, AtRest, Op
<1>9. CASE RemoveFile
  <2>1. PICK d \in op.todo :
          \/ Change(d, [dir[d] EXCEPT !.json = "none"])
          \/ Change(d, [dir[d] EXCEPT !.size = NoFile])
    BY <1>9 DEF RemoveFile
  <2>2. /\ dir' \in [Dirs -> Dir] /\ \A e \in Dirs \ {d} : dir'[e] = dir[e]
        /\ dir'[d].json = "none" \/ dir'[d].size = NoFile
    BY <1>0, <2>1 DEF Change, Dir, NoFile
  <2>3. op' = op /\ op.todo # {}
    BY <1>9 DEF RemoveFile
  <2>4. ReadableIsWhole'
    BY <2>2 DEF Contents, ReadableIsWhole, Artifact
  <2>5. TargetInv'
    BY <2>3 DEF SectionInv, TargetInv
  <2>6. UndoInv'
    BY <1>0, <2>1, <2>2, <2>3 DEF Contents, UndoInv, Doing
  <2> QED
    BY <2>4, <2>5, <2>6 DEF Contents
<1>10. CASE RemoveRest
  <2>1. PICK d \in op.todo : Change(d, NoDir) /\ op' = [op EXCEPT !.todo = @ \ {d}]
    BY <1>10 DEF RemoveRest
  <2>2. /\ dir' \in [Dirs -> Dir] /\ dir'[d] = NoDir /\ \A e \in Dirs \ {d} : dir'[e] = dir[e]
    BY <1>0, <2>1, NoDirType, ChangeStep
  <2>3. /\ op'.step = op.step /\ op'.kind = op.kind /\ op'.made = op.made
        /\ op'.todo = op.todo \ {d}
    BY <1>0, <2>1 DEF Op
  <2>4. ReadableIsWhole'
    BY <2>2, NoDirType DEF Contents, ReadableIsWhole, Artifact
  <2>5. TargetInv'
    BY <2>3 DEF SectionInv, TargetInv
  <2>6. UndoInv'
    BY <1>0, <2>2, <2>3 DEF Contents, UndoInv, Doing
  <2> QED
    BY <2>4, <2>5, <2>6 DEF Contents
<1>11. CASE GcUploads
  <2>1. PICK todo : op' = [op EXCEPT !.step = "uploads", !.todo = todo]
    BY <1>11 DEF GcUploads
  <2> QED
    BY <1>0, <1>11, <2>1, RestStep DEF GcUploads, Contents, AtRest, Op
<1>12. CASE GcReservations
  <2>1. CASE Unlock
    BY <1>2, <1>12, <2>1 DEF GcReservations
  <2>2. CASE Step("admit")
    BY <1>0, <1>12, <2>2, RestStep DEF GcReservations, Step, Contents, AtRest, Op
  <2> QED
    BY <1>12, <2>1, <2>2 DEF GcReservations
<1>13. CASE MakeUpload
  <2>1. PICK d \in Dirs, size \in 0..MaxSize :
          /\ Change(d, [NoDir EXCEPT !.place = "uploads", !.declared = size, !.size = 0])
          /\ op' = [op EXCEPT !.step = "made", !.target = d]
    BY <1>13 DEF MakeUpload
  <2> DEFINE rec == [NoDir EXCEPT !.place = "uploads", !.declared = size, !.size = 0]
  <2>2. rec.place = "uploads" /\ rec \in Dir
    <3>1. size \in 0..MaxSize /\ 0 \in 0..MaxSize /\ 0 \in 0..MaxDays /\ 0 \in NoFile..MaxSize + 1
      BY DEF NoFile
    <3> QED
      BY <3>1 DEF Dir, NoDir
  <2>3. op'.step = "made" /\ op'.target = d
    BY <1>0, <2>1 DEF Op
  <2>4. Change(d, rec)
    BY <2>1
  <2> HIDE DEF rec
  <2> QED
    BY <2>2, <2>3, <2>4, TargetChange
<1>14. CASE DescribeUpload
  <2> DEFINE rec == [dir[op.target] EXCEPT !.json = "upload"]
  <2>1. op.target \in Dirs /\ Change(op.target, rec) /\ op' = NoOp
    BY <1>14 DEF DescribeUpload, Doing, SectionInv, Unlock
  <2>2. rec \in Dir /\ rec.json = "upload"
    BY <1>0, <2>1 DEF Dir
  <2> HIDE DEF rec
  <2> QED
    BY <2>1, <2>2, NoOpType, RestChange DEF AtRest
<1>15. CASE AppendRecord
  <2> DEFINE rec == [dir[op.target] EXCEPT !.received = @ + 1]
  <2>1. /\ op.target \in Dirs /\ Change(op.target, rec) /\ op' = NoOp
        /\ dir[op.target].place = "uploads" /\ dir[op.target].received < dir[op.target].declared
    BY <1>15 DEF AppendRecord, Doing, SectionInv, Contents, TargetInv, Unlock
  <2>2. rec \in Dir /\ rec.place = "uploads"
    BY <1>0, <2>1 DEF Dir
  <2> HIDE DEF rec
  <2> QED
    BY <2>1, <2>2, NoOpType, RestChange DEF AtRest
<1>16. CASE CommitDescribe \/ DescribeItem
  <2>1. PICK days \in 1..MaxDays :
          Change(op.target, [dir[op.target] EXCEPT !.json = "metadata", !.life = days, !.cap = MaxDays])
    BY <1>16 DEF CommitDescribe, DescribeItem
  <2> DEFINE rec == [dir[op.target] EXCEPT !.json = "metadata", !.life = days, !.cap = MaxDays]
  <2>2. op.target \in Dirs /\ dir[op.target].place # "objects" /\ Whole(op.target)
    BY <1>16 DEF CommitDescribe, DescribeItem, Doing, SectionInv, Contents, TargetInv
  <2>3. /\ rec \in Dir /\ rec.place # "objects"
        /\ rec.size = rec.declared /\ rec.received = rec.declared
    <3>1. dir[op.target] \in Dir /\ days \in 0..MaxDays /\ MaxDays \in 0..MaxDays
      BY <1>0, <2>2
    <3> QED
      BY <2>2, <3>1 DEF Dir, Whole
  <2>4. op'.step = "described" /\ op'.target = op.target
    BY <1>0, <1>16 DEF CommitDescribe, DescribeItem, Step, Op
  <2>5. Change(op.target, rec)
    BY <2>1
  <2> HIDE DEF rec
  <2> QED
    BY <2>2, <2>3, <2>4, <2>5, TargetChange
<1>17. CASE CommitMove \/ MoveItem
  <2> DEFINE rec == [dir[op.target] EXCEPT !.place = "objects"]
  <2>1. op.target \in Dirs /\ Whole(op.target) /\ Change(op.target, rec)
    BY <1>17 DEF CommitMove, MoveItem, Doing, SectionInv, Contents, TargetInv
  <2>2. rec \in Dir /\ rec.size = rec.declared /\ rec.received = rec.declared
    BY <1>0, <2>1 DEF Dir, Whole
  <2>3. AtRest(op'.step)
    BY <1>0, <1>17, NoOpType DEF CommitMove, MoveItem, Unlock, Step, AtRest, Op
  <2> HIDE DEF rec
  <2> QED
    BY <2>1, <2>2, <2>3, RestChange
<1>18. CASE StageItem
  <2>1. PICK d \in Dirs, size \in 0..op.left :
          /\ Change(d, [NoDir EXCEPT !.place = "staging", !.declared = size, !.received = size, !.size = size])
          /\ op' = [op EXCEPT !.step = "staged", !.target = d, !.made = @ \cup {d}, !.left = @ - size]
    BY <1>18 DEF StageItem
  <2> DEFINE rec == [NoDir EXCEPT !.place = "staging", !.declared = size, !.received = size, !.size = size]
  <2>2. /\ rec \in Dir /\ rec.place = "staging"
        /\ rec.size = rec.declared /\ rec.received = rec.declared
    <3>1. op.left \in 0..MaxSize
      BY <1>0 DEF Op
    <3>2. size \in 0..MaxSize /\ size \in NoFile..MaxSize + 1 /\ 0 \in 0..MaxDays
      BY <3>1 DEF NoFile
    <3> QED
      BY <3>2 DEF Dir, NoDir
  <2>3. op'.step = "staged" /\ op'.target = d
    BY <1>0, <2>1 DEF Op
  <2>4. Change(d, rec)
    BY <2>1
  <2> HIDE DEF rec
  <2> QED
    BY <2>2, <2>3, <2>4, TargetChange
<1>19. CASE PublishFails
  BY <1>0, <1>19 DEF PublishFails, Contents, TargetInv, ReadableIsWhole, Artifact, UndoInv, Doing, Op
<1>20. CASE Day
  <2>1. ASSUME NEW d \in Dirs
        PROVE  /\ dir'[d].place = dir[d].place /\ dir'[d].json = dir[d].json
               /\ dir'[d].declared = dir[d].declared /\ dir'[d].received = dir[d].received
               /\ dir'[d].size = dir[d].size
    <3>1. dir[d] \in Dir
      BY <1>0
    <3>2. dir'[d] = [dir[d] EXCEPT !.life = IF @ > 0 THEN @ - 1 ELSE 0,
                                   !.cap = IF @ > 0 THEN @ - 1 ELSE 0]
      BY <1>20 DEF Day
    <3> QED
      BY <3>1, <3>2 DEF Dir
  <2>2. \A d \in Dirs : dir[d] = NoDir => dir'[d] = NoDir
    <3>1. ASSUME NEW d \in Dirs, dir[d] = NoDir
          PROVE  dir'[d] = NoDir
      <4>1. dir'[d] = [NoDir EXCEPT !.life = IF @ > 0 THEN @ - 1 ELSE 0,
                                    !.cap = IF @ > 0 THEN @ - 1 ELSE 0]
        BY <1>20, <3>1 DEF Day
      <4>2. dir'[d] = [NoDir EXCEPT !.life = 0, !.cap = 0]
        BY <4>1, NoDirType
      <4>3. [NoDir EXCEPT !.life = 0, !.cap = 0] = NoDir
        <5> DEFINE rec == [NoDir EXCEPT !.life = 0, !.cap = 0]
        <5>1. rec \in Dir /\ \A f \in DOMAIN NoDir : rec[f] = NoDir[f]
          BY NoDirType DEF Dir
        <5>2. DOMAIN rec = DOMAIN NoDir
          OBVIOUS
        <5> QED
          BY <5>1, <5>2, NoDirType DEF Dir
      <4> QED
        BY <4>2, <4>3
    <3> QED
      BY <3>1
  <2>3. op' = op
    BY <1>20 DEF Day
  <2>4. TargetInv'
    BY <2>1, <2>3 DEF SectionInv, Contents, TargetInv, Whole
  <2>5. ReadableIsWhole'
    BY <2>1 DEF Contents, ReadableIsWhole, Artifact
  <2>6. UndoInv'
    BY <1>0, <2>2, <2>3 DEF Contents, UndoInv, Doing
  <2> QED
    BY <2>4, <2>5, <2>6 DEF Contents
<1>21. ASSUME NEW who, Crash(who)
       PROVE  Contents'
  BY <1>1, <1>2, <1>21 DEF Crash, Unlock
<1> QED
  BY <1>1, <1>2, <1>3, <1>4, <1>5, <1>6, <1>7, <1>8, <1>9, <1>10, <1>11, <1>12, <1>13, <1>14,
     <1>15, <1>16, <1>17, <1>18, <1>19, <1>20, <1>21
  DEF vars, Next, Proceed, Reserve, Release, RemoveEnds, GcRaises, BeginRefused, PublishDone,
      UndoEnds, Age

-----------------------------------------------------------------------------
(* Sums.                                                                   *)

Sizes(S) == [S -> NoFile..MaxSize]

\* What Total counts: as many units of each element as f says.
Units(f) == {u \in (DOMAIN f) \X (1..MaxSize) : u[2] <= f[u[1]]}

LEMMA UnitOf ==
    ASSUME NEW S, NEW f \in Sizes(S)
    PROVE  /\ \A x, i : <<x, i>> \in Units(f) <=> x \in S /\ i \in 1..MaxSize /\ i <= f[x]
           /\ \A u \in Units(f) : u = <<u[1], u[2]>>
BY DEF Sizes, Units

\* The sum over a finite set is a number.
LEMMA TotalType ==
    ASSUME NEW S, IsFiniteSet(S), NEW f \in Sizes(S)
    PROVE  /\ IsFiniteSet(Units(f))
           /\ Total(f) = Cardinality(Units(f)) /\ Total(f) \in Nat
<1>1. IsFiniteSet(S \X (1..MaxSize))
  <2>1. IsFiniteSet(1..MaxSize)
    BY SizeAssumption, FS_Interval
  <2> QED
    BY <2>1, FS_Product
<1>2. Units(f) \in SUBSET (S \X (1..MaxSize))
  BY DEF Units, Sizes
<1>3. IsFiniteSet(Units(f))
  BY <1>1, <1>2, FS_Subset
<1> QED
  BY <1>3, FS_CardinalityType DEF Total, Units

\* It grows with its terms.
LEMMA TotalGrows ==
    ASSUME NEW S, IsFiniteSet(S), NEW f \in Sizes(S), NEW g \in Sizes(S),
           \A x \in S : f[x] <= g[x]
    PROVE  Total(f) <= Total(g)
<1>1. Units(f) \in SUBSET Units(g)
  <2>1. SUFFICES ASSUME NEW u \in Units(f)
                 PROVE  u \in Units(g)
    OBVIOUS
  <2>2. u \in S \X (1..MaxSize) /\ u[2] <= f[u[1]]
    BY DEF Units, Sizes
  <2>3. u[1] \in S /\ u[2] \in Int /\ f[u[1]] \in Int /\ g[u[1]] \in Int
    BY <2>2 DEF Sizes, NoFile
  <2> QED
    BY <2>2, <2>3 DEF Units, Sizes
<1> QED
  BY <1>1, TotalType, FS_Subset

\* A term that was none adds what it becomes.
LEMMA TotalAdds ==
    ASSUME NEW S, IsFiniteSet(S), NEW f \in Sizes(S), NEW g \in Sizes(S), NEW x \in S,
           f[x] <= 0, g[x] \in 0..MaxSize, \A y \in S \ {x} : g[y] = f[y]
    PROVE  Total(g) = Total(f) + g[x]
<1> DEFINE New == {x} \X (1..g[x])
<1>1. IsFiniteSet(New) /\ Cardinality(New) = g[x]
  <2>1. IsFiniteSet({x}) /\ Cardinality({x}) = 1
    BY FS_Singleton
  <2>2. IsFiniteSet(1..g[x]) /\ Cardinality(1..g[x]) = g[x]
    <3>1. 1 \in Int /\ g[x] \in Int /\ g[x] >= 0
      BY SizeAssumption
    <3>2. /\ IsFiniteSet(1..g[x])
          /\ Cardinality(1..g[x]) = IF 1 > g[x] THEN 0 ELSE g[x] - 1 + 1
      BY <3>1, FS_Interval
    <3> QED
      BY <3>1, <3>2
  <2>3. /\ IsFiniteSet(New)
        /\ Cardinality(New) = Cardinality({x}) * Cardinality(1..g[x])
    BY <2>1, <2>2, FS_Product
  <2> QED
    BY <2>1, <2>2, <2>3, SizeAssumption
<1>2. Units(g) = Units(f) \cup New
  <2>1. ASSUME NEW u \in Units(g)
        PROVE  u \in Units(f) \cup New
    <3>1. u = <<u[1], u[2]>> /\ u[1] \in S /\ u[2] \in 1..MaxSize /\ u[2] <= g[u[1]]
      BY UnitOf
    <3>2. CASE u[1] = x
      BY <3>1, <3>2
    <3>3. CASE u[1] # x
      BY <3>1, <3>3, UnitOf
    <3> QED
      BY <3>2, <3>3
  <2>2. ASSUME NEW u \in Units(f)
        PROVE  u \in Units(g)
    <3>1. u = <<u[1], u[2]>> /\ u[1] \in S /\ u[2] \in 1..MaxSize /\ u[2] <= f[u[1]]
      BY UnitOf
    <3>2. u[1] # x
      <4>1. f[u[1]] \in Int /\ ~(u[2] <= 0)
        BY <3>1 DEF Sizes, NoFile
      <4> QED
        BY <3>1, <4>1
    <3> QED
      BY <3>1, <3>2, UnitOf
  <2>3. ASSUME NEW u \in New
        PROVE  u \in Units(g)
    <3>1. u = <<x, u[2]>> /\ u[2] \in 1..MaxSize /\ u[2] <= g[x]
      BY <2>3, SizeAssumption
    <3> QED
      BY <3>1, UnitOf
  <2> QED
    BY <2>1, <2>2, <2>3
<1>3. Units(f) \cap New = {}
  <2>1. SUFFICES ASSUME NEW u \in Units(f), u \in New
                 PROVE  FALSE
    OBVIOUS
  <2>2. u = <<x, u[2]>> /\ u[2] \in 1..g[x]
    BY <2>1
  <2>3. u[2] <= f[x] /\ f[x] \in Int
    <3>1. <<x, u[2]>> \in Units(f)
      BY <2>2
    <3> QED
      BY <3>1, UnitOf DEF Sizes, NoFile
  <2> QED
    BY <2>2, <2>3, SizeAssumption
<1> HIDE DEF New
<1>4. Cardinality(Units(f) \cap New) = 0
  BY <1>3, FS_EmptySet
<1>5. IsFiniteSet(Units(f)) /\ Total(f) = Cardinality(Units(f)) /\ Total(f) \in Nat
  BY TotalType
<1>6. Total(g) = Cardinality(Units(g))
  BY TotalType
<1>7. Cardinality(Units(f) \cup New)
          = Cardinality(Units(f)) + Cardinality(New) - Cardinality(Units(f) \cap New)
  BY <1>1, <1>5, FS_Union
<1> QED
  BY <1>1, <1>2, <1>4, <1>5, <1>6, <1>7, SizeAssumption

\* One term changes.
LEMMA TotalChanges ==
    ASSUME NEW S, IsFiniteSet(S), NEW f \in Sizes(S), NEW g \in Sizes(S), NEW x \in S,
           f[x] \in 0..MaxSize, g[x] \in 0..MaxSize, \A y \in S \ {x} : g[y] = f[y]
    PROVE  Total(g) + f[x] = Total(f) + g[x]
<1> DEFINE z == [f EXCEPT ![x] = 0]
<1>1. z \in Sizes(S) /\ z[x] = 0 /\ \A y \in S \ {x} : f[y] = z[y] /\ g[y] = z[y]
  BY SizeAssumption DEF Sizes, NoFile
<1> HIDE DEF z
<1>2. Total(f) = Total(z) + f[x]
  BY <1>1, TotalAdds
<1>3. Total(g) = Total(z) + g[x]
  BY <1>1, TotalAdds
<1> QED
  BY <1>1, <1>2, <1>3, TotalType

\* Terms that each have one of their own in another sum.
LEMMA TotalInjects ==
    ASSUME NEW S, NEW T, IsFiniteSet(S), IsFiniteSet(T), NEW f \in Sizes(S), NEW g \in Sizes(T), NEW h,
           \A x \in S : f[x] > 0 => h[x] \in T /\ g[h[x]] = f[x],
           \A x, y \in S : f[x] > 0 /\ f[y] > 0 /\ h[x] = h[y] => x = y
    PROVE  Total(f) <= Total(g)
<1> DEFINE F == [u \in Units(f) |-> <<h[u[1]], u[2]>>]
<1>1. ASSUME NEW u \in Units(f)
      PROVE  /\ u = <<u[1], u[2]>> /\ u[1] \in S /\ f[u[1]] > 0
             /\ F[u] \in Units(g)
  <2>1. u = <<u[1], u[2]>> /\ u[1] \in S /\ u[2] \in 1..MaxSize /\ u[2] <= f[u[1]]
    BY UnitOf
  <2>2. f[u[1]] > 0 /\ h[u[1]] \in T /\ u[2] <= g[h[u[1]]]
    BY <2>1, SizeAssumption DEF Sizes, NoFile
  <2> QED
    BY <2>1, <2>2, UnitOf
<1>2. \A u, v \in Units(f) : F[u] = F[v] => u = v
  BY <1>1
<1>3. F \in Injection(Units(f), Units(g))
  BY <1>1, <1>2 DEF Injection, IsInjective
<1> QED
  BY <1>3, TotalType, FS_Injection

-----------------------------------------------------------------------------
(* The quota.                                                              *)

Used == [d \in Dirs |-> IF InUse(d) THEN dir[d].declared ELSE 0]
Due  == [p \in Publishers |-> StillDue(p)]

\* A reservation backs one publisher.
HeldOnce == \A p, q \in Publishers : held[p] # "none" /\ held[p] = held[q] => p = q

\* The directory a publication works on is one of those it would remove.
MadeInv == op.kind = "publish" /\ op.step \in {"staged", "described"} => op.target \in op.made

\* What is in the store without the publication under way, and what is reserved.
Before == [d \in Dirs |-> IF (Artifact(d) \/ Upload(d)) /\ d \notin op.made THEN dir[d].declared ELSE 0]
Backed == [p \in Publishers |-> IF held[p] # "none" /\ res[held[p]] # NoFile THEN res[held[p]] ELSE 0]

\* A publication can be undone, and its reservation be whole again, within the quota.
UndoFits == op.kind = "publish" => Total(Before) + Total(Backed) <= Quota

QuotaInv == QuotaHeld /\ HeldOnce /\ MadeInv /\ UndoFits

LEMMA QuotaSums ==
    /\ QuotaHeld <=> Total(Used) + Total(Due) <= Quota
    /\ QuotaHeld' <=> Total(Used') + Total(Due') <= Quota
BY DEF QuotaHeld, Used, Due

LEMMA SumTypes ==
    ASSUME TypeOK
    PROVE  /\ Used \in Sizes(Dirs) /\ Due \in Sizes(Publishers)
           /\ Before \in Sizes(Dirs) /\ Backed \in Sizes(Publishers)
           /\ Kept \in Sizes(Dirs) /\ res \in Sizes(Reservations)
<1> USE SizeAssumption DEF Sizes, NoFile
<1>1. \A d \in Dirs : dir[d].declared \in NoFile..MaxSize
  BY DEF TypeOK, Dir
<1>2. \A p \in Publishers : /\ held[p] \in Reservations \cup {"none"}
                            /\ held[p] # "none" => res[held[p]] \in NoFile..MaxSize
  BY DEF TypeOK
<1>3. op.left \in NoFile..MaxSize
  BY DEF TypeOK, Op
<1>4. Used \in Sizes(Dirs) /\ Before \in Sizes(Dirs) /\ Kept \in Sizes(Dirs)
  BY <1>1 DEF Used, Before, Kept
<1>5. Backed \in Sizes(Publishers)
  BY <1>2 DEF Backed
<1>6. Due \in Sizes(Publishers)
  BY <1>2, <1>3 DEF Due, StillDue
<1>7. res \in Sizes(Reservations)
  BY DEF TypeOK
<1> QED
  BY <1>4, <1>5, <1>6, <1>7

LEMMA SumTypesNext ==
    ASSUME TypeOK'
    PROVE  /\ Used' \in Sizes(Dirs) /\ Due' \in Sizes(Publishers)
           /\ Before' \in Sizes(Dirs) /\ Backed' \in Sizes(Publishers)
<1>1. (/\ Used \in Sizes(Dirs) /\ Due \in Sizes(Publishers)
       /\ Before \in Sizes(Dirs) /\ Backed \in Sizes(Publishers)
       /\ Kept \in Sizes(Dirs) /\ res \in Sizes(Reservations))'
  BY SumTypes, PTL
<1> QED
  BY <1>1 DEF Sizes

\* What publishers hold is in the reservation files.
LEMMA BackedFits ==
    ASSUME TypeOK, HeldOnce
    PROVE  Total(Backed) <= Total(res)
<1>1. \A p \in Publishers : Backed[p] > 0 =>
          held[p] # "none" /\ held[p] \in Reservations /\ res[held[p]] = Backed[p]
  BY DEF Backed, TypeOK
<1>2. \A p, q \in Publishers : Backed[p] > 0 /\ Backed[q] > 0 /\ held[p] = held[q] => p = q
  BY <1>1 DEF HeldOnce
<1> QED
  BY <1>1, <1>2, SumTypes, FiniteAssumption, TotalInjects

\* A step after which no directory and no publisher counts for more.
Shrinks == /\ \A d \in Dirs : Used'[d] <= Used[d]
           /\ \A p \in Publishers : Due'[p] <= Due[p]

LEMMA ShrinksHolds ==
    ASSUME TypeOK, TypeOK', QuotaHeld, Shrinks
    PROVE  QuotaHeld'
<1>1. /\ Used \in Sizes(Dirs) /\ Due \in Sizes(Publishers)
      /\ Used' \in Sizes(Dirs) /\ Due' \in Sizes(Publishers)
  BY SumTypes, SumTypesNext
<1>2. Total(Used') <= Total(Used) /\ Total(Due') <= Total(Due)
  BY <1>1, FiniteAssumption, TotalGrows DEF Shrinks
<1>3. /\ Total(Used) \in Nat /\ Total(Due) \in Nat
      /\ Total(Used') \in Nat /\ Total(Due') \in Nat
  BY <1>1, FiniteAssumption, TotalType
<1> QED
  BY <1>2, <1>3, QuotaSums, QuotaAssumption

\* What may be undone stays so.
Steady ==
    op'.kind = "publish" =>
        /\ op.kind = "publish"
        /\ \A d \in Dirs : Before'[d] <= Before[d]
        /\ \A p \in Publishers : Backed'[p] <= Backed[p]

LEMMA SteadyHolds ==
    ASSUME TypeOK, TypeOK', UndoFits, Steady
    PROVE  UndoFits'
<1>1. SUFFICES ASSUME op'.kind = "publish"
               PROVE  Total(Before') + Total(Backed') <= Quota
  BY DEF UndoFits
<1>2. /\ Before \in Sizes(Dirs) /\ Backed \in Sizes(Publishers)
      /\ Before' \in Sizes(Dirs) /\ Backed' \in Sizes(Publishers)
  BY SumTypes, SumTypesNext
<1>3. Total(Before') <= Total(Before) /\ Total(Backed') <= Total(Backed)
  BY <1>1, <1>2, FiniteAssumption, TotalGrows DEF Steady
<1>4. /\ Total(Before) \in Nat /\ Total(Backed) \in Nat
      /\ Total(Before') \in Nat /\ Total(Backed') \in Nat
  BY <1>2, FiniteAssumption, TotalType
<1>5. Total(Before) + Total(Backed) <= Quota
  BY <1>1 DEF Steady, UndoFits
<1> QED
  BY <1>3, <1>4, <1>5, QuotaAssumption

\* A step that makes nothing of a directory that was not in use, reserves nothing, and
\* leaves a publication with what it may still store, or without its reservation.
Frugal ==
    /\ \A d \in Dirs : dir'[d].declared <= dir[d].declared /\ (InUse(d)' => InUse(d))
    /\ \A r \in Reservations : res'[r] \in {res[r], NoFile}
    /\ \A p \in Publishers : held'[p] \in {held[p], "none"}
    /\ op'.kind = "publish" =>
          /\ op.kind = "publish" /\ op'.who = op.who /\ op'.left = op.left /\ op'.made = op.made
          /\ \A d \in Dirs \ op.made : (Artifact(d) \/ Upload(d))' => Artifact(d) \/ Upload(d)
    /\ op.kind = "publish" /\ op'.kind # "publish" => held'[op.who] = "none"

LEMMA FrugalHolds ==
    ASSUME TypeOK, TypeOK', SectionInv, Frugal
    PROVE  Shrinks /\ Steady
<1>1. \A d \in Dirs : dir[d].declared \in Nat /\ dir'[d].declared \in Nat
  BY SizeAssumption DEF TypeOK, Dir
<1>2. \A d \in Dirs : Used'[d] <= Used[d]
  <2>1. \A d \in Dirs : Used'[d] = IF InUse(d)' THEN dir'[d].declared ELSE 0
    BY DEF Used
  <2> QED
    BY <1>1, <2>1 DEF Used, Frugal
<1>3. ASSUME op'.kind = "publish"
      PROVE  \A d \in Dirs : Before'[d] <= Before[d]
  <2>1. \A d \in Dirs : Before'[d] = IF (Artifact(d) \/ Upload(d))' /\ d \notin op'.made
                                     THEN dir'[d].declared ELSE 0
    BY DEF Before
  <2> QED
    BY <1>1, <1>3, <2>1 DEF Before, Frugal
<1>4. ASSUME NEW p \in Publishers
      PROVE  Backed'[p] <= Backed[p] /\ Due'[p] <= Due[p]
  <2> USE SizeAssumption DEF NoFile
  <2>1. /\ held[p] # "none" => res[held[p]] \in NoFile..MaxSize
        /\ held'[p] # "none" => /\ held'[p] = held[p]
                                /\ res'[held'[p]] \in {res[held[p]], NoFile}
    BY DEF TypeOK, Frugal
  <2>2. Backed'[p] <= Backed[p]
    BY <2>1 DEF Backed
  <2>3. op.left \in Nat /\ op'.left \in Nat
    BY DEF TypeOK, Op
  <2>4. /\ op'.kind = "publish" => op.kind = "publish" /\ op'.who = op.who /\ op'.left = op.left
        /\ op.kind = "publish" /\ op.who = p /\ op'.kind # "publish" => held'[p] = "none"
    BY DEF Frugal
  <2>5. Due[p] = StillDue(p) /\ Due'[p] = StillDue(p)'
    BY DEF Due
  <2>6. StillDue(p)' <= StillDue(p)
    <3>1. CASE op.kind = "publish" /\ op.who = p
      BY <2>1, <2>3, <2>4, <3>1 DEF StillDue
    <3>2. CASE ~(op.kind = "publish" /\ op.who = p)
      BY <2>1, <2>3, <2>4, <3>2 DEF StillDue
    <3> QED
      BY <3>1, <3>2
  <2> QED
    BY <2>2, <2>5, <2>6
<1> QED
  BY <1>2, <1>3, <1>4 DEF Shrinks, Steady, Frugal

\* The section ends or goes on; the rest stays, or becomes less.
LEMMA SectionFrugal ==
    ASSUME TypeOK, UNCHANGED dir,
           \A r \in Reservations : res'[r] \in {res[r], NoFile},
           \A p \in Publishers : held'[p] \in {held[p], "none"},
           \/ op' = op
           \/ /\ op'.kind # "publish" /\ op'.step \notin {"made", "unlinked", "described"}
              /\ op.kind = "publish" => held'[op.who] = "none"
    PROVE  Frugal
BY DEF Frugal, InUse, Artifact, Upload, TypeOK, Dir

\* Directory d changes, and counts as it did.
LEMMA ContentFrugal ==
    ASSUME TypeOK, UNCHANGED <<res, held>>, NEW d \in Dirs, NEW rec \in Dir, Change(d, rec),
           rec.declared <= dir[d].declared,
           InUse(d)' => InUse(d),
           \/ op.kind # "publish" /\ op'.kind # "publish"
           \/ /\ op'.kind = op.kind /\ op'.who = op.who /\ op'.left = op.left /\ op'.made = op.made
              /\ op.step = "undo" => op'.step = "undo"
              /\ d \notin op.made => ((Artifact(d) \/ Upload(d))' => Artifact(d) \/ Upload(d)),
           op'.step \in {"made", "unlinked", "described"} =>
               op'.target = d \/ (op'.step = op.step /\ op'.target = op.target)
    PROVE  Frugal
<1>1. /\ dir'[d] = rec /\ \A e \in Dirs \ {d} : dir'[e] = dir[e]
  BY ChangeStep
<1>2. \A e \in Dirs : dir[e].declared \in Int
  BY DEF TypeOK, Dir
<1>3. \A e \in Dirs : dir'[e].declared <= dir[e].declared
  BY <1>1, <1>2
<1>4. ASSUME NEW e \in Dirs \ {d}, InUse(e)'
      PROVE  InUse(e)
  BY <1>1, <1>4 DEF InUse, Artifact, Upload
<1>5. \A e \in Dirs \ {d} : (Artifact(e) \/ Upload(e))' => Artifact(e) \/ Upload(e)
  BY <1>1 DEF Artifact, Upload
<1>6. \A e \in Dirs : InUse(e)' => InUse(e)
  BY <1>4
<1>7. op'.kind = "publish" =>
        \A e \in Dirs \ op.made : (Artifact(e) \/ Upload(e))' => Artifact(e) \/ Upload(e)
  BY <1>5
<1> QED
  BY <1>3, <1>6, <1>7 DEF Frugal

LEMMA DirChange ==
    ASSUME TypeOK, NEW d \in Dirs
    PROVE  /\ [dir[d] EXCEPT !.json = "none"] \in Dir
           /\ [dir[d] EXCEPT !.json = "none"].declared = dir[d].declared
           /\ [dir[d] EXCEPT !.json = "upload"] \in Dir
           /\ [dir[d] EXCEPT !.json = "upload"].declared = dir[d].declared
           /\ [dir[d] EXCEPT !.place = "objects"] \in Dir
           /\ [dir[d] EXCEPT !.place = "objects"].declared = dir[d].declared
           /\ \A days \in 1..MaxDays :
                 LET rec == [dir[d] EXCEPT !.json = "metadata", !.life = days, !.cap = MaxDays]
                 IN  rec \in Dir /\ rec.declared = dir[d].declared
<1>1. dir[d] \in Dir
  BY DEF TypeOK
<1>2. \A days \in 1..MaxDays : days \in 0..MaxDays /\ MaxDays \in 0..MaxDays
  BY DaysAssumption
<1> QED
  BY <1>1, <1>2 DEF Dir

\* The removal of a directory, the collector, append(), update() and commit().
LEMMA BrokerFrugal ==
    ASSUME IInv,
           \/ RemoveFile \/ RemoveRest \/ RemoveEnds
           \/ GcUploads \/ GcRaises \/ GcReservations \/ BeginRefused
           \/ DescribeUpload \/ AppendRecord \/ CommitDescribe \/ CommitMove
           \/ \E kind \in {"gc", "begin"} : GcStart(kind)
           \/ \E d \in Dirs : AppendContent(d) \/ CommitUnlink(d) \/ Remove(d) \/ Update(d)
    PROVE  Frugal
<1> USE SizeAssumption, DaysAssumption
<1>0. /\ TypeOK /\ SectionInv /\ TargetInv
      /\ op \in Op /\ dir \in [Dirs -> Dir] /\ op.todo \subseteq Dirs
  BY DEF IInv, TypeOK, Op
<1>1. CASE RemoveFile
  <2>1. PICK d \in op.todo :
          \/ Change(d, [dir[d] EXCEPT !.json = "none"])
          \/ Change(d, [dir[d] EXCEPT !.size = NoFile])
    BY <1>1 DEF RemoveFile
  <2>2. PICK rec \in Dir : /\ Change(d, rec) /\ rec.declared = dir[d].declared
                           /\ rec.place = dir[d].place /\ rec.json \in {dir[d].json, "none"}
    BY <1>0, <2>1 DEF Dir, NoFile
  <2>3. dir'[d] = rec /\ op' = op /\ UNCHANGED <<res, held>>
    BY <1>0, <1>1, <2>2, ChangeStep DEF RemoveFile
  <2>4. (Artifact(d) \/ Upload(d))' => Artifact(d) \/ Upload(d)
    BY <2>2, <2>3 DEF Artifact, Upload
  <2>5. InUse(d)' => InUse(d)
    BY <2>3, <2>4 DEF InUse
  <2>6. rec.declared <= dir[d].declared
    BY <1>0, <2>2 DEF Dir
  <2> QED
    BY <1>0, <2>2, <2>3, <2>4, <2>5, <2>6, ContentFrugal
<1>2. CASE RemoveRest
  <2>1. PICK d \in op.todo : Change(d, NoDir) /\ op' = [op EXCEPT !.todo = @ \ {d}]
    BY <1>2 DEF RemoveRest
  <2>2. dir'[d] = NoDir /\ d \in Dirs /\ UNCHANGED <<res, held>>
    BY <1>0, <1>2, <2>1, NoDirType, ChangeStep DEF RemoveRest
  <2>3. /\ op'.kind = op.kind /\ op'.who = op.who /\ op'.left = op.left /\ op'.made = op.made
        /\ op'.step = op.step /\ op'.target = op.target
    BY <1>0, <2>1 DEF Op
  <2>4. ~(Artifact(d) \/ Upload(d))'
    BY <2>2, NoDirType DEF Artifact, Upload
  <2>5. InUse(d)' => InUse(d)
    BY <2>3, <2>4 DEF InUse
  <2>6. NoDir.declared <= dir[d].declared
    BY <1>0, <2>2, NoDirType DEF Dir
  <2> QED
    BY <1>0, <2>1, <2>2, <2>3, <2>4, <2>5, <2>6, NoDirType, ContentFrugal
<1>3. CASE RemoveEnds \/ GcRaises \/ BeginRefused
  BY <1>0, <1>3, NoOpType, SectionFrugal
  DEF RemoveEnds, GcRaises, BeginRefused, Sweeping, Doing, Unlock
<1>4. CASE GcUploads
  <2>1. PICK todo : op' = [op EXCEPT !.step = "uploads", !.todo = todo]
    BY <1>4 DEF GcUploads
  <2>2. op'.kind = op.kind /\ op'.step = "uploads" /\ op.kind # "publish"
    BY <1>0, <1>4, <2>1 DEF GcUploads, Sweeping, Op
  <2> QED
    BY <1>0, <1>4, <2>2, SectionFrugal DEF GcUploads
<1>5. CASE GcReservations
  <2>1. op'.kind # "publish" /\ op'.step \in {"none", "admit"} /\ op.kind # "publish"
    BY <1>0, <1>5, NoOpType DEF GcReservations, Sweeping, Step, Unlock, Op
  <2> QED
    BY <1>0, <1>5, <2>1, SectionFrugal DEF GcReservations
<1>6. CASE DescribeUpload \/ CommitDescribe \/ CommitMove
  <2>1. PICK rec \in Dir : Change(op.target, rec) /\ rec.declared = dir[op.target].declared
    BY <1>0, <1>6, DirChange DEF DescribeUpload, CommitDescribe, CommitMove, Doing, SectionInv
  <2>2. /\ op.target \in Dirs /\ op.kind # "publish" /\ op'.kind # "publish"
        /\ UNCHANGED <<res, held>> /\ InUse(op.target)
    BY <1>0, <1>6, NoOpType
    DEF DescribeUpload, CommitDescribe, CommitMove, Doing, Step, Unlock, SectionInv, Op, InUse
  <2>3. op'.target = op.target \/ op'.step = "none"
    BY <1>0, <1>6, NoOpType DEF DescribeUpload, CommitDescribe, CommitMove, Step, Unlock, Op
  <2>4. rec.declared <= dir[op.target].declared
    BY <2>1, <2>2 DEF Dir
  <2> QED
    BY <1>0, <2>1, <2>2, <2>3, <2>4, ContentFrugal
<1>7. CASE AppendRecord
  <2>1. PICK d \in Dirs : d = op.target
    BY <1>0, <1>7 DEF AppendRecord, Doing, SectionInv
  <2>2. PICK rec \in Dir : /\ Change(d, rec) /\ rec.declared = dir[d].declared
                           /\ rec.place = dir[d].place /\ rec.json = dir[d].json
    BY <1>0, <1>7, <2>1 DEF AppendRecord, Doing, TargetInv, Dir
  <2>3. op.kind # "publish" /\ op' = NoOp /\ UNCHANGED <<res, held>>
    BY <1>7 DEF AppendRecord, Doing, Unlock
  <2>4. dir'[d] = rec
    BY <1>0, <2>2, ChangeStep
  <2>5. InUse(d)' => InUse(d)
    BY <2>2, <2>3, <2>4, NoOpType DEF InUse, Artifact, Upload
  <2>6. rec.declared <= dir[d].declared
    BY <2>2 DEF Dir
  <2> QED
    BY <1>0, <2>2, <2>3, <2>5, <2>6, NoOpType, ContentFrugal
<1>8. ASSUME NEW kind \in {"gc", "begin"}, GcStart(kind)
      PROVE  Frugal
  BY <1>0, <1>8, NoOpType, SectionFrugal DEF GcStart, Op
<1>9. ASSUME NEW d \in Dirs, Remove(d)
      PROVE  Frugal
  BY <1>0, <1>9, NoOpType, SectionFrugal DEF Remove, Op
<1>10. ASSUME NEW d \in Dirs, AppendContent(d) \/ CommitUnlink(d)
       PROVE  Frugal
  <2>1. PICK rec \in Dir : Change(d, rec) /\ rec.declared = dir[d].declared
    <3>1. CASE AppendContent(d)
      <4>1. [dir[d] EXCEPT !.size = IF @ <= MaxSize THEN @ + 1 ELSE @] \in Dir
        BY <1>0 DEF Dir, NoFile
      <4> QED
        BY <1>0, <3>1, <4>1 DEF AppendContent, Dir
    <3>2. CASE CommitUnlink(d)
      BY <1>0, <3>2, DirChange DEF CommitUnlink
    <3> QED
      BY <1>10, <3>1, <3>2
  <2>2. /\ op.kind # "publish" /\ op'.kind # "publish" /\ op'.target = d
        /\ UNCHANGED <<res, held>> /\ InUse(d)
    BY <1>10, NoOpType DEF AppendContent, CommitUnlink, Op, InUse
  <2>3. rec.declared <= dir[d].declared
    BY <2>1 DEF Dir
  <2> QED
    BY <1>0, <2>1, <2>2, <2>3, ContentFrugal
<1>11. ASSUME NEW d \in Dirs, Update(d)
       PROVE  Frugal
  <2>1. PICK rec \in Dir : Change(d, rec) /\ rec.declared = dir[d].declared
    BY <1>0, <1>11 DEF Update, Dir
  <2>2. op' = op /\ op = NoOp /\ UNCHANGED <<res, held>> /\ InUse(d)
    BY <1>11 DEF Update, InUse
  <2>3. rec.declared <= dir[d].declared
    BY <2>1 DEF Dir
  <2> QED
    BY <1>0, <2>1, <2>2, <2>3, NoOpType, ContentFrugal
<1> QED
  BY <1>1, <1>2, <1>3, <1>4, <1>5, <1>6, <1>7, <1>8, <1>9, <1>10, <1>11

\* Publishers, time and crashes.
LEMMA PublisherFrugal ==
    ASSUME IInv, QuotaInv,
           \/ \E p \in Publishers : Release(p)
           \/ DescribeItem \/ MoveItem \/ PublishDone \/ PublishFails
           \/ \E x \in Dirs \cup Reservations : Age(x)
           \/ Day
           \/ \E who \in Publishers \cup {"broker"} : Crash(who)
    PROVE  Frugal
<1>0. /\ TypeOK /\ SectionInv /\ TargetInv /\ MadeInv
      /\ op \in Op /\ dir \in [Dirs -> Dir] /\ held \in [Publishers -> Reservations \cup {"none"}]
  BY DEF IInv, QuotaInv, TypeOK
<1>1. ASSUME NEW p \in Publishers, Release(p)
      PROVE  Frugal
  BY <1>0, <1>1, NoOpType, SectionFrugal DEF Release, TypeOK
<1>2. CASE DescribeItem \/ MoveItem
  <2>1. PICK d \in Dirs : d = op.target /\ d \in op.made
    BY <1>0, <1>2 DEF DescribeItem, MoveItem, Doing, SectionInv, MadeInv
  <2>2. PICK rec \in Dir : Change(d, rec) /\ rec.declared = dir[d].declared
    <3>1. CASE DescribeItem
      <4>1. PICK days \in 1..MaxDays :
              Change(d, [dir[d] EXCEPT !.json = "metadata", !.life = days, !.cap = MaxDays])
        BY <2>1, <3>1 DEF DescribeItem
      <4> QED
        BY <1>0, <4>1, DirChange
    <3>2. CASE MoveItem
      BY <1>0, <2>1, <3>2, DirChange DEF MoveItem
    <3> QED
      BY <1>2, <3>1, <3>2
  <2>3. /\ op'.kind = op.kind /\ op'.who = op.who /\ op'.left = op.left /\ op'.made = op.made
        /\ op'.target = d /\ op.kind = "publish" /\ op.step # "undo"
        /\ UNCHANGED <<res, held>>
    BY <1>0, <1>2, <2>1 DEF DescribeItem, MoveItem, Doing, Step, Op
  <2>4. InUse(d)
    BY <2>1, <2>3 DEF InUse
  <2>5. rec.declared <= dir[d].declared
    BY <2>2 DEF Dir
  <2> QED
    BY <1>0, <2>1, <2>2, <2>3, <2>4, <2>5, ContentFrugal
<1>3. CASE PublishDone
  <2>1. /\ op.kind = "publish" /\ op' = NoOp /\ UNCHANGED dir /\ op.who \in Publishers
        /\ \/ UNCHANGED <<res, held>> /\ held[op.who] = "none"
           \/ /\ res' = [res EXCEPT ![held[op.who]] = NoFile]
              /\ held' = [held EXCEPT ![op.who] = "none"]
    BY <1>0, <1>3 DEF PublishDone, Doing, Unlock, SectionInv
  <2>2. /\ \A r \in Reservations : res'[r] \in {res[r], NoFile}
        /\ \A p \in Publishers : held'[p] \in {held[p], "none"}
        /\ held'[op.who] = "none"
    BY <1>0, <2>1 DEF TypeOK
  <2> QED
    BY <1>0, <2>1, <2>2, NoOpType, SectionFrugal
<1>4. CASE PublishFails
  <2>1. /\ UNCHANGED <<dir, res, held>>
        /\ op'.kind = op.kind /\ op'.who = op.who /\ op'.left = op.left /\ op'.made = op.made
        /\ op'.step = "undo"
    BY <1>0, <1>4 DEF PublishFails, Op
  <2>2. \A d \in Dirs : InUse(d)' => InUse(d)
    BY <2>1 DEF InUse, Artifact, Upload
  <2>3. \A d \in Dirs : dir'[d].declared <= dir[d].declared
    BY <1>0, <2>1 DEF Dir
  <2> QED
    BY <1>0, <2>1, <2>2, <2>3 DEF Frugal, Artifact, Upload, PublishFails, TypeOK
<1>5. ASSUME NEW x \in Dirs \cup Reservations, Age(x)
      PROVE  Frugal
  BY <1>0, <1>5, SectionFrugal DEF Age
<1>6. CASE Day
  <2>1. ASSUME NEW d \in Dirs
        PROVE  /\ dir'[d].place = dir[d].place /\ dir'[d].json = dir[d].json
               /\ dir'[d].declared = dir[d].declared /\ dir[d].declared \in Nat
    <3>1. dir[d] \in Dir
      BY <1>0
    <3>2. dir'[d] = [dir[d] EXCEPT !.life = IF @ > 0 THEN @ - 1 ELSE 0,
                                   !.cap = IF @ > 0 THEN @ - 1 ELSE 0]
      BY <1>6 DEF Day
    <3> QED
      BY <3>1, <3>2, SizeAssumption DEF Dir
  <2>2. UNCHANGED <<res, held, op>>
    BY <1>6 DEF Day
  <2>3. \A d \in Dirs : /\ (Artifact(d) \/ Upload(d))' => Artifact(d) \/ Upload(d)
                        /\ InUse(d)' => InUse(d)
    BY <2>1, <2>2 DEF InUse, Artifact, Upload
  <2> QED
    BY <1>0, <2>1, <2>2, <2>3 DEF Frugal
<1>7. ASSUME NEW who \in Publishers \cup {"broker"}, Crash(who)
      PROVE  Frugal
  <2>1. /\ UNCHANGED <<dir, res>>
        /\ \A p \in Publishers : held'[p] \in {held[p], "none"}
        /\ who \in Publishers => held'[who] = "none"
        /\ op' = op \/ (op' = NoOp /\ op.who = who)
    BY <1>0, <1>7 DEF Crash
  <2>2. op' # op => op' = NoOp /\ (op.kind = "publish" => held'[op.who] = "none")
    BY <1>0, <2>1 DEF SectionInv
  <2> QED
    BY <1>0, <2>1, <2>2, NoOpType, SectionFrugal
<1> QED
  BY <1>1, <1>2, <1>3, <1>4, <1>5, <1>6, <1>7

\* While nobody has the lock, directories count as in _usage(), and publishers by their
\* reservations.
LEMMA IdleSums == op = NoOp => Used = Kept /\ Before = Kept /\ Due = Backed
<1> SUFFICES ASSUME op = NoOp
             PROVE  Used = Kept /\ Before = Kept /\ Due = Backed
  OBVIOUS
<1>1. \A d \in Dirs : InUse(d) <=> Artifact(d) \/ Upload(d)
  BY NoOpType DEF InUse
<1>2. \A p \in Publishers :
        StillDue(p) = IF held[p] # "none" /\ res[held[p]] # NoFile THEN res[held[p]] ELSE 0
  BY NoOpType DEF StillDue
<1> QED
  BY <1>1, <1>2, NoOpType DEF Used, Before, Kept, Due, Backed

LEMMA IdleSumsNext ==
    ASSUME op' = NoOp
    PROVE  Used' = Kept' /\ Before' = Kept' /\ Due' = Backed'
<1>1. (op = NoOp => Used = Kept /\ Before = Kept /\ Due = Backed)'
  BY IdleSums, PTL
<1> QED
  BY <1>1, NoOpType DEF NoOp

\* What the state before a quota check and the check have to say of the sums.
LEMMA UsageFits ==
    ASSUME TypeOK, HeldOnce, NEW size \in 0..MaxSize, Usage + size <= Quota
    PROVE  /\ Total(Kept) \in Nat /\ Total(Backed) \in Nat
           /\ Total(Kept) + Total(Backed) + size <= Quota
<1>1. Total(Kept) \in Nat /\ Total(Backed) \in Nat /\ Total(res) \in Nat
  BY SumTypes, FiniteAssumption, TotalType
<1> QED
  BY <1>1, BackedFits, SizeAssumption, QuotaAssumption DEF Usage

LEMMA MakeUploadFits ==
    ASSUME IInv, IInv', QuotaInv, MakeUpload
    PROVE  QuotaHeld' /\ UndoFits'
<1>0. TypeOK /\ TypeOK' /\ HeldOnce /\ op \in Op
  BY DEF IInv, QuotaInv, TypeOK
<1>1. PICK d \in Dirs, size \in 0..MaxSize :
        /\ dir[d] = NoDir /\ Usage + size <= Quota
        /\ Change(d, [NoDir EXCEPT !.place = "uploads", !.declared = size, !.size = 0])
        /\ op' = [op EXCEPT !.step = "made", !.target = d]
  BY DEF MakeUpload
<1>2. op'.kind = "begin" /\ op'.step = "made" /\ op'.target = d /\ UNCHANGED <<res, held>>
  BY <1>0, <1>1 DEF MakeUpload, Doing, Op
<1>3. /\ dir'[d].declared = size /\ \A e \in Dirs \ {d} : dir'[e] = dir[e]
  BY <1>0, <1>1, NoDirType DEF Change, TypeOK, Dir
<1>4. Kept[d] = 0 /\ Used'[d] = size
  BY <1>1, <1>2, <1>3, NoDirType DEF Kept, Used, Artifact, Upload, InUse
<1>5. \A e \in Dirs \ {d} : Used'[e] = Kept[e]
  BY <1>2, <1>3 DEF Kept, Used, Artifact, Upload, InUse
<1>6. Total(Used') = Total(Kept) + size
  BY <1>0, <1>4, <1>5, SumTypes, SumTypesNext, FiniteAssumption, TotalAdds, SizeAssumption
<1>7. Due' = Backed
  BY <1>2 DEF Due, Backed, StillDue
<1>8. QuotaHeld'
  BY <1>0, <1>1, <1>6, <1>7, UsageFits, QuotaSums, QuotaAssumption, SizeAssumption
<1> QED
  BY <1>2, <1>8 DEF UndoFits

LEMMA ReserveFits ==
    ASSUME IInv, IInv', QuotaInv, NEW p \in Publishers, NEW r \in Reservations, Reserve(p, r)
    PROVE  QuotaHeld' /\ UndoFits'
<1>0. TypeOK /\ TypeOK' /\ HeldOnce
  BY DEF IInv, QuotaInv
<1>1. PICK size \in 0..MaxSize : Usage + size <= Quota /\ res' = [res EXCEPT ![r] = size]
  BY DEF Reserve
<1>2. /\ op = NoOp /\ op' = NoOp /\ held[p] = "none" /\ held' = [held EXCEPT ![p] = r]
      /\ \A q \in Publishers : held[q] # r
      /\ UNCHANGED dir
  BY DEF Reserve
<1>3. Used' = Kept
  BY <1>2, IdleSumsNext DEF Kept, Artifact, Upload
<1> DEFINE g == [Backed EXCEPT ![p] = size]
<1>4. g \in Sizes(Publishers) /\ g[p] = size /\ \A q \in Publishers \ {p} : g[q] = Backed[q]
  BY <1>0, SumTypes, SizeAssumption DEF Sizes, NoFile
<1>5. Backed[p] = 0
  BY <1>2 DEF Backed
<1> HIDE DEF g
<1>6. Total(g) = Total(Backed) + size
  BY <1>0, <1>4, <1>5, SumTypes, FiniteAssumption, TotalAdds
<1>7. \A q \in Publishers : Due'[q] <= g[q]
  <2>1. Backed'[p] <= size
    BY <1>0, <1>1, <1>2, SizeAssumption DEF Backed, TypeOK
  <2>2. \A q \in Publishers \ {p} : Backed'[q] = Backed[q]
    BY <1>0, <1>1, <1>2 DEF Backed, TypeOK
  <2>3. \A q \in Publishers : Backed[q] \in Int
    BY <1>0, SumTypes DEF Sizes, NoFile
  <2>4. Due' = Backed'
    BY <1>2, IdleSumsNext
  <2> QED
    BY <1>4, <2>1, <2>2, <2>3, <2>4
<1>8. Total(Due') <= Total(g)
  BY <1>0, <1>4, <1>7, SumTypesNext, FiniteAssumption, TotalGrows
<1>9. Total(Due') \in Nat
  BY <1>0, SumTypesNext, FiniteAssumption, TotalType
<1>10. QuotaHeld'
  BY <1>0, <1>1, <1>3, <1>6, <1>8, <1>9, UsageFits, QuotaSums, QuotaAssumption, SizeAssumption
<1> QED
  BY <1>2, <1>10, NoOpType DEF UndoFits

\* A publication begins: so far there is nothing to undo.
LEMMA PublishFits ==
    ASSUME IInv, IInv', QuotaInv, NEW p \in Publishers, PublishReserved(p) \/ PublishUnreserved(p)
    PROVE  QuotaHeld' /\ UndoFits'
<1>0. TypeOK /\ TypeOK' /\ HeldOnce /\ QuotaHeld
  BY DEF IInv, QuotaInv
<1>1. PICK left : op' = [NoOp EXCEPT !.who = p, !.kind = "publish", !.step = "next", !.left = left]
  BY DEF PublishReserved, PublishUnreserved
<1>2. /\ op = NoOp /\ UNCHANGED <<dir, res, held>>
      /\ op'.who = p /\ op'.kind = "publish" /\ op'.step = "next" /\ op'.made = {} /\ op'.left = left
  BY <1>1, NoOpType DEF PublishReserved, PublishUnreserved, Op
<1>3. Used = Kept /\ Due = Backed
  BY <1>2, IdleSums
<1>4. Used' = Kept /\ Before' = Kept /\ Backed' = Backed
  BY <1>2 DEF Used, Before, Kept, Backed, InUse, Artifact, Upload
<1>5. UndoFits'
  BY <1>0, <1>3, <1>4, QuotaSums DEF UndoFits
<1>6. Due'[p] = left /\ \A q \in Publishers \ {p} : Due'[q] = Backed[q]
  BY <1>2 DEF Due, Backed, StillDue
<1>7. CASE PublishReserved(p)
  <2>1. Backed[p] = left
    BY <1>1, <1>2, <1>7, NoOpType DEF PublishReserved, Backed, Op
  <2>2. \A q \in Publishers : Due'[q] = Backed[q]
    BY <1>6, <2>1
  <2>3. Due' = Backed
    BY <2>2 DEF Due, Backed
  <2> QED
    BY <1>0, <1>3, <1>4, <1>5, <2>3, QuotaSums
<1>8. CASE PublishUnreserved(p)
  <2>1. left \in 0..MaxSize /\ Usage + left <= Quota /\ held[p] = "none"
    BY <1>1, <1>2, <1>8, NoOpType DEF PublishUnreserved, Op
  <2>2. Backed[p] = 0
    BY <2>1 DEF Backed
  <2>3. Total(Due') = Total(Backed) + left
    BY <1>0, <1>6, <2>1, <2>2, SumTypes, SumTypesNext, FiniteAssumption, TotalAdds
  <2>4. QuotaHeld'
    BY <1>0, <1>4, <2>1, <2>3, UsageFits, QuotaSums, QuotaAssumption, SizeAssumption
  <2> QED
    BY <1>5, <2>4
<1> QED
  BY <1>7, <1>8

\* What an item takes of the store it takes of the publication's budget.
LEMMA StageItemFits ==
    ASSUME IInv, IInv', QuotaInv, StageItem
    PROVE  QuotaHeld' /\ UndoFits'
<1>0. TypeOK /\ TypeOK' /\ QuotaHeld /\ UndoFits /\ op \in Op /\ dir \in [Dirs -> Dir]
  BY DEF IInv, QuotaInv, TypeOK
<1>1. PICK d \in Dirs, size \in 0..op.left :
        /\ dir[d] = NoDir
        /\ Change(d, [NoDir EXCEPT !.place = "staging", !.declared = size, !.received = size, !.size = size])
        /\ op' = [op EXCEPT !.step = "staged", !.target = d, !.made = @ \cup {d}, !.left = @ - size]
  BY DEF StageItem
<1>2. /\ op.kind = "publish" /\ op.step = "next" /\ UNCHANGED <<res, held>>
      /\ op'.kind = "publish" /\ op'.step = "staged" /\ op'.who = op.who
      /\ op'.made = op.made \cup {d} /\ op'.left = op.left - size
  BY <1>0, <1>1 DEF StageItem, Doing, Op
<1>3. op.left \in 0..MaxSize /\ size \in 0..MaxSize /\ op.who \in Publishers
  BY <1>0, <1>1, <1>2, SizeAssumption DEF IInv, SectionInv, Op
<1>4. dir'[d].declared = size /\ \A e \in Dirs \ {d} : dir'[e] = dir[e]
  BY <1>0, <1>1, NoDirType DEF Change, Dir
<1>5. Used[d] = 0 /\ Used'[d] = size
  BY <1>1, <1>2, <1>4, NoDirType DEF Used, InUse
<1>6. \A e \in Dirs \ {d} : Used'[e] = Used[e]
  BY <1>2, <1>4 DEF Used, InUse, Artifact, Upload
<1>7. Total(Used') = Total(Used) + size
  BY <1>0, <1>3, <1>5, <1>6, SumTypes, SumTypesNext, FiniteAssumption, TotalAdds, SizeAssumption
<1>8. PICK w \in Publishers : w = op.who
  BY <1>3
<1>9. /\ Due[w] = op.left /\ Due'[w] = op.left - size
      /\ \A q \in Publishers \ {w} : Due'[q] = Due[q]
  BY <1>2, <1>8 DEF Due, StillDue
<1>10. Due[w] \in 0..MaxSize /\ Due'[w] \in 0..MaxSize
  BY <1>1, <1>3, <1>9, SizeAssumption
<1>11. Total(Due') + Due[w] = Total(Due) + Due'[w]
  BY <1>0, <1>9, <1>10, SumTypes, SumTypesNext, FiniteAssumption, TotalChanges
<1>12. /\ Total(Used) \in Nat /\ Total(Due) \in Nat
       /\ Total(Used') \in Nat /\ Total(Due') \in Nat
  BY <1>0, SumTypes, SumTypesNext, FiniteAssumption, TotalType
<1>13. QuotaHeld'
  <2>1. Total(Used) + Total(Due) <= Quota
    BY <1>0, QuotaSums
  <2>2. Total(Used') + Total(Due') = Total(Used) + Total(Due)
    BY <1>3, <1>7, <1>9, <1>11, <1>12, SizeAssumption
  <2> QED
    BY <2>1, <2>2, QuotaSums
<1>14. Steady
  <2>1. \A e \in Dirs : Before'[e] \in {Before[e], 0}
    BY <1>2, <1>4 DEF Before, Artifact, Upload
  <2>2. \A e \in Dirs : Before[e] \in Int /\ Before[e] >= 0
    BY <1>0, SizeAssumption DEF Before, Dir
  <2>3. Backed' = Backed /\ \A q \in Publishers : Backed[q] \in Int
    BY <1>0, <1>2, SumTypes DEF Backed, Sizes, NoFile
  <2> QED
    BY <1>2, <2>1, <2>2, <2>3 DEF Steady
<1> QED
  BY <1>0, <1>13, <1>14, SteadyHolds

\* The reservation of a publication that was undone is whole again.
LEMMA UndoEndsFits ==
    ASSUME IInv, IInv', QuotaInv, UndoEnds
    PROVE  QuotaHeld' /\ UndoFits'
<1>0. TypeOK /\ TypeOK' /\ UndoFits /\ UndoInv /\ op \in Op
  BY DEF IInv, QuotaInv, TypeOK
<1>1. /\ op.kind = "publish" /\ op.step = "undo" /\ op.todo = {} /\ op' = NoOp
      /\ UNCHANGED <<dir, res, held>>
  BY DEF UndoEnds, Doing, Unlock
<1>2. \A d \in op.made : dir[d] = NoDir
  BY <1>0, <1>1 DEF UndoInv, Doing
<1>3. Before = Kept
  BY <1>2, NoDirType DEF Before, Kept, Artifact, Upload
<1>4. Used' = Kept /\ Due' = Backed
  <2>1. Kept' = Kept /\ Backed' = Backed
    BY <1>1 DEF Kept, Backed, Artifact, Upload
  <2> QED
    BY <1>1, <2>1, IdleSumsNext
<1>5. QuotaHeld'
  BY <1>0, <1>1, <1>3, <1>4, QuotaSums DEF UndoFits
<1> QED
  BY <1>1, <1>5, NoOpType DEF UndoFits

LEMMA QuotaStep ==
    ASSUME IInv, IInv', QuotaInv, [Next]_vars
    PROVE  QuotaInv'
<1>0. TypeOK /\ TypeOK' /\ SectionInv /\ HeldOnce /\ MadeInv /\ op \in Op
  BY DEF IInv, QuotaInv, TypeOK
<1>1. QuotaHeld' /\ UndoFits'
  <2>1. CASE Frugal
    BY <1>0, <2>1, FrugalHolds, ShrinksHolds, SteadyHolds DEF QuotaInv
  <2>2. CASE UNCHANGED vars
    BY <2>2 DEF vars, QuotaInv, QuotaHeld, UndoFits, Before, Backed, InUse, StillDue, Artifact, Upload
  <2>3. CASE MakeUpload
    BY <2>3, MakeUploadFits
  <2>4. ASSUME NEW p \in Publishers, NEW r \in Reservations, Reserve(p, r)
        PROVE  QuotaHeld' /\ UndoFits'
    BY <2>4, ReserveFits
  <2>5. ASSUME NEW p \in Publishers, PublishReserved(p) \/ PublishUnreserved(p)
        PROVE  QuotaHeld' /\ UndoFits'
    BY <2>5, PublishFits
  <2>6. CASE StageItem
    BY <2>6, StageItemFits
  <2>7. CASE UndoEnds
    BY <2>7, UndoEndsFits
  <2> QED
    BY <2>1, <2>2, <2>3, <2>4, <2>5, <2>6, <2>7, BrokerFrugal, PublisherFrugal DEF Next, Proceed
<1>2. HeldOnce'
  <2>1. CASE \A p \in Publishers : held'[p] \in {held[p], "none"}
    BY <1>0, <2>1 DEF HeldOnce
  <2>2. ASSUME NEW p \in Publishers, NEW r \in Reservations, Reserve(p, r)
        PROVE  HeldOnce'
    BY <1>0, <2>2 DEF Reserve, HeldOnce, TypeOK
  <2>3. CASE UNCHANGED held
    BY <1>0, <2>3 DEF HeldOnce
  <2> QED
    BY <2>1, <2>2, <2>3, BrokerFrugal, PublisherFrugal
    DEF vars, Next, Proceed, Frugal, MakeUpload, PublishReserved, PublishUnreserved, StageItem, UndoEnds
<1>3. MadeInv'
  <2>1. CASE op'.step \notin {"staged", "described"} \/ op'.kind # "publish"
    BY <2>1 DEF MadeInv
  <2>2. CASE op'.step = op.step /\ op'.kind = op.kind /\ op'.target = op.target /\ op'.made = op.made
    BY <1>0, <2>2 DEF MadeInv
  <2>3. CASE StageItem
    BY <1>0, <2>3 DEF StageItem, MadeInv, Op
  <2>4. CASE DescribeItem
    BY <1>0, <2>4 DEF DescribeItem, Doing, Step, MadeInv, Op
  <2>5. CASE UNCHANGED op \/ RemoveRest
    BY <1>0, <2>2, <2>5 DEF RemoveRest, Op
  <2>6. CASE CommitDescribe
    BY <1>0, <2>1, <2>6 DEF CommitDescribe, Doing, Step, Op
  <2>7. CASE Unlock \/ GcUploads \/ GcReservations \/ MakeUpload \/ MoveItem \/ PublishFails
    BY <1>0, <2>1, <2>7, NoOpType
    DEF Unlock, GcUploads, GcReservations, MakeUpload, MoveItem, PublishFails, Doing, Step, Op
  <2>8. ASSUME NEW kind \in {"gc", "begin"}, GcStart(kind)
        PROVE  MadeInv'
    BY <2>1, <2>8, NoOpType DEF GcStart, Op
  <2>9. ASSUME NEW d \in Dirs, AppendContent(d) \/ CommitUnlink(d) \/ Remove(d)
        PROVE  MadeInv'
    BY <2>1, <2>9, NoOpType DEF AppendContent, CommitUnlink, Remove, Op
  <2>10. ASSUME NEW p \in Publishers, PublishReserved(p) \/ PublishUnreserved(p)
         PROVE  MadeInv'
    <3>1. PICK left : op' = [NoOp EXCEPT !.who = p, !.kind = "publish", !.step = "next", !.left = left]
      BY <2>10 DEF PublishReserved, PublishUnreserved
    <3> QED
      BY <2>1, <3>1, NoOpType DEF Op
  <2>11. ASSUME NEW who, Crash(who)
         PROVE  MadeInv'
    BY <2>5, <2>7, <2>11 DEF Crash, Unlock
  <2> QED
    BY <2>3, <2>4, <2>5, <2>6, <2>7, <2>8, <2>9, <2>10, <2>11
    DEF vars, Next, Proceed, Update, Reserve, Release, RemoveFile, RemoveEnds, GcRaises,
        BeginRefused, DescribeUpload, AppendRecord, CommitMove, PublishDone, UndoEnds, Age, Day
<1> QED
  BY <1>1, <1>2, <1>3 DEF QuotaInv

-----------------------------------------------------------------------------
(* The theorems.                                                           *)

LEMMA InitInv == Init => IInv
BY NoDirType, NoOpType, SizeAssumption, CrashesAssumption
DEF Init, IInv, TypeOK, NoFile, SectionInv, TargetInv, ReadableIsWhole, Artifact, UndoInv, Doing

LEMMA QuotaInit == Init => QuotaInv
<1> SUFFICES ASSUME Init
             PROVE  QuotaInv
  OBVIOUS
<1>1. IInv /\ TypeOK /\ op = NoOp
  BY InitInv DEF Init, IInv
<1>2. Kept = [d \in Dirs |-> 0] /\ Backed = [p \in Publishers |-> 0]
  BY NoDirType DEF Init, Kept, Backed, Artifact, Upload
<1>3. Units(Kept) = {} /\ Units(Backed) = {}
  BY <1>2, SizeAssumption DEF Units
<1>4. Total(Kept) = 0 /\ Total(Backed) = 0
  BY <1>1, <1>3, SumTypes, FiniteAssumption, TotalType, FS_EmptySet
<1>5. QuotaHeld
  BY <1>1, <1>4, IdleSums, QuotaSums, QuotaAssumption
<1> QED
  BY <1>1, <1>5, NoOpType DEF QuotaInv, HeldOnce, MadeInv, UndoFits, Init

LEMMA InvKept == IInv /\ [Next]_vars => IInv'
BY TypeStep, SectionStep, ContentsStep DEF IInv, Contents

\* The inductive invariant: every locked section, and whatever a crash leaves of one, keeps
\* contents and descriptions in step.
THEOREM Invariance == Spec => []IInv
BY InitInv, InvKept, PTL DEF Spec

\* The state of the store keeps its type.
THEOREM TypeCorrect == Spec => []TypeOK
<1>1. IInv => TypeOK
  BY DEF IInv
<1> QED
  BY <1>1, Invariance, PTL

\* Readers, who take no lock, find whole artifacts only.
THEOREM ReadersFindWhole == Spec => []ReadableIsWhole
<1>1. IInv => ReadableIsWhole
  BY DEF IInv
<1> QED
  BY <1>1, Invariance, PTL

\* The quota: what is committed, may still be committed or may still be published never
\* exceeds it, though checks and what they promise are locked sections apart and any
\* process may die or fail between them.
THEOREM QuotaNeverExceeded == Spec => []QuotaHeld
<1>1. Init => IInv /\ QuotaInv
  BY InitInv, QuotaInit
<1>2. (IInv /\ QuotaInv) /\ [Next]_vars => (IInv /\ QuotaInv)'
  BY InvKept, QuotaStep
<1>3. IInv /\ QuotaInv => QuotaHeld
  BY DEF QuotaInv
<1> QED
  BY <1>1, <1>2, <1>3, PTL DEF Spec

\* _publish_locked: a failed publication leaves nothing of its batch in the store.
THEOREM FailedBatchLeavesNothingHolds == Spec => FailedBatchLeavesNothing
<1> DEFINE NothingLeft == op.kind = "publish" /\ op.step = "undo" /\ op' = NoOp /\ crashes' = crashes
                        => \A d \in op.made : dir[d] = NoDir
<1>1. IInv /\ [Next]_vars => [NothingLeft]_vars
  <2> SUFFICES ASSUME IInv, Next, op.kind = "publish", op.step = "undo", op' = NoOp,
                      crashes' = crashes
               PROVE  \A d \in op.made : dir[d] = NoDir
    BY DEF vars
  <2>1. op \in Op /\ op # NoOp /\ crashes \in Nat
    BY NoOpType, CrashesAssumption DEF IInv, TypeOK
  <2>2. ~RemoveFile /\ ~RemoveRest
    BY <2>1, NoOpType DEF RemoveFile, RemoveRest, Op
  <2>3. ASSUME NEW who PROVE ~Crash(who)
    BY <2>1 DEF Crash
  <2>4. UndoEnds
    BY <2>1, <2>2, <2>3
    DEF Next, Proceed, GcStart, AppendContent, CommitUnlink, Remove, Update, Reserve, Release,
        PublishReserved, PublishUnreserved, RemoveEnds, GcUploads, GcRaises, GcReservations,
        Sweeping, BeginRefused, MakeUpload, DescribeUpload, AppendRecord, CommitDescribe,
        CommitMove, StageItem, DescribeItem, MoveItem, PublishDone, PublishFails, Doing, Age, Day
  <2> QED
    BY <2>4 DEF UndoEnds, IInv, UndoInv, Doing
<1> QED
  BY <1>1, Invariance, PTL DEF Spec, FailedBatchLeavesNothing
=============================================================================
