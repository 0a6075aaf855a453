---------------------------- MODULE CorpusProofs ----------------------------
(***************************************************************************)
(* Proofs about Corpus for any sources, batches, topics, releases, days    *)
(* and kills: readers are served whole sources, and no record of the feed  *)
(* falls between two catch-ups.  The invariant ties the checkpoint to the  *)
(* file it describes: the file may be ahead of it, and is never behind.    *)
(***************************************************************************)
EXTENDS Corpus, TLAPS

-----------------------------------------------------------------------------
(* The inductive invariant: types.                                         *)

\* What the theorems assume of the constants.
Sizes ==
    /\ Feed \in Sources
    /\ Batches \in Nat \ {0} /\ Topics \in Nat /\ MaxRelease \in Nat \ {0}
    /\ MaxDay \in Nat /\ MaxKills \in Nat

Acquired == UNION {[W -> 1..MaxRelease] : W \in SUBSET Sources}
Offsets == UNION {[W -> 0..Batches] : W \in SUBSET Sources}
Cutoffs == UNION {[W -> Days] : W \in SUBSET Sources}

Checkpoints ==
    [want : SUBSET Sources, ids : Acquired, current : SUBSET Sources, pruned : BOOLEAN,
     at : Offsets, topic : 1..(Topics + 1), token : SUBSET Records, began : {-1} \cup Days]

\* A provisioning, up to the swap of the databases.
Harvesting == {"harvest", "harvested", "caught"}
Ingesting == {"ingest", "ingested"}
Finished == {"verify", "retire", "activate"}
Filling == {"next"} \cup Ingesting \cup Harvesting \cup Finished
Open == {"prune", "pruned"} \cup Filling
Started == {"seeded", "done"} \cup Open
Stages == {"none", "plan"} \cup Started

Runs ==
    [op : {"none", "provision", "refresh"}, pc : Stages,
     want : SUBSET Sources, ids : Acquired,
     until : {-1} \cup Days, from : {-1} \cup Days, cuts : Cutoffs, src : Sources \cup {"none"},
     todo : SUBSET Sources, cp : Checkpoints]

Types ==
    /\ day \in Days /\ release \in [Sources -> 1..MaxRelease] /\ feed \in SUBSET Records
    /\ active \in Db \cup {NoDb} /\ working \in Db \cup {NoDb}
    /\ wal \in BOOLEAN /\ hot \in {"none", "own", "foreign"}
    /\ checkpoint \in Checkpoints /\ run \in Runs
    /\ kills \in 0..MaxKills

At(P) == run.op = "provision" /\ run.pc \in P

-----------------------------------------------------------------------------
(* The inductive invariant: the job and its checkpoint.                    *)

\* A checkpoint's fields fit one another.
CpTyped(cp) ==
    /\ cp.ids \in [cp.want -> 1..MaxRelease] /\ cp.at \in [cp.want -> 0..Batches]
    /\ cp.current \subseteq cp.want
    /\ cp.began <= day

\* Nothing is fetched before a catch-up begins, and nothing stored before the pruning.
CpOrdered(cp) ==
    /\ cp.began = -1 => cp.topic = 1 /\ cp.token = {}
    /\ cp.topic > Topics => cp.token = {}
    /\ ~cp.pruned => cp.began = -1 /\ \A s \in cp.want : cp.at[s] = 0

CheckpointsOK ==
    CpTyped(checkpoint) /\ CpOrdered(checkpoint) /\ CpTyped(run.cp)

CutsPast ==
    \A db \in {active, working} : \A s \in Has(db) : db.of[s].cut <= day

\* What a job knows from its beginning.
JobOK ==
    /\ run.op = "none" => run = NoRun
    /\ run.until <= day
    /\ run.op # "none" => run.until # -1
    /\ run.op = "refresh" =>
        /\ run.pc = "harvest" /\ Feed \in Has(active) /\ run.from = active.of[Feed].cut
        /\ run.from <= run.until
        /\ run.cp.want = {} /\ ~run.cp.pruned
    /\ run.op = "provision" =>
        /\ run.pc # "none" /\ run.want # {} /\ run.todo \subseteq run.want
        /\ run.ids \in [run.want -> 1..MaxRelease]
    /\ At({"plan"}) => run.cp = NoCheckpoint

\* The cutoffs a provisioning has read are those of the active database.
CutsOf(cuts, A) == DOMAIN cuts \subseteq Has(A) /\ \A s \in DOMAIN cuts : cuts[s] = A.of[s].cut

\* The job's checkpoint is of its sources, and is saved where no save is due.
CpOfRun ==
    /\ At(Started) =>
        /\ run.cp.want = run.want /\ run.cp.ids = run.ids /\ CpOrdered(run.cp)
        /\ run.pc \notin {"seeded", "pruned", "ingested", "harvested", "caught"} => checkpoint = run.cp
        /\ run.pc = "seeded" => ~run.cp.pruned /\ (working = NoDb => run.cp.current = {})
        /\ run.pc \notin {"seeded", "prune"} => run.cp.pruned
        /\ run.pc \in Open => working # NoDb
    /\ At({"plan"} \cup (Started \ {"activate", "done"})) =>
        CutsOf(run.cuts, active)

\* What a job does for one source, and that the sources behind it are ingested.
Ingests(s) == At(Ingesting) /\ run.src = s

StepsOK ==
    /\ At(Ingesting) => run.src \in run.want \ (run.cp.current \cup run.todo) /\ run.from = 0
    /\ At(Harvesting) =>
        /\ Feed \in run.want \ run.todo
        /\ run.from = IF Feed \in run.cp.current THEN active.of[Feed].cut ELSE 0
        /\ Feed \in run.cp.current => Feed \in Has(active)
    /\ At(Filling) =>
        \A s \in run.want \ (run.cp.current \cup run.todo) : Ingests(s) \/ run.cp.at[s] = Batches
    /\ At(Finished) => run.todo = {}

-----------------------------------------------------------------------------
(* The inductive invariant: what the databases hold.                       *)

\* No foreign log, journal or checkpoint was taken for this file's own.
Sound(db) == db.flaws \cap {"log", "journal", "checkpoint"} = {}

Complete(db, s) ==
    /\ db.of[s].rows = 1..Batches
    /\ db.of[s].indexed
    /\ s = Feed => db.ixGot = db.got

Only(db, S) ==
    /\ \A s \in Sources \ S : db.of[s] = Nothing
    /\ Feed \notin S => db.got = {}

\* What readers may be served.
Served(db) == (\A s \in Has(db) : Complete(db, s)) /\ Only(db, Has(db))

\* The file is at least as far as a checkpoint of it says: what it retains is complete,
\* after the pruning nothing else is there, and the batches before an offset are stored.
Fits(db, cp) ==
    Sound(db) =>
        /\ \A s \in cp.current :
               s \in Has(db) /\ db.of[s].rel = cp.ids[s] /\ Complete(db, s)
        /\ cp.pruned => Only(db, cp.want)
        /\ \A s \in cp.want \ cp.current :
               /\ 1..cp.at[s] \subseteq db.of[s].rows
               /\ cp.at[s] > 0 => db.of[s].rel = cp.ids[s]

\* Every record the feed brought before `until` is there.
Covers(db, F, until) == \A r \in F : r[2] < until => r \in db.got

\* No gap before the cutoff of the feed's row.
Gapless(db, F) ==
    db.flaws = {} /\ Feed \in Has(db) =>
        Covers(db, F, db.of[Feed].cut)

\* A catch-up under way has fetched the topics before its own, and of its own what the
\* token does not stand for.
Fetched(db, F, cp, until) ==
    \A r \in F : r[2] < until =>
        /\ r[1] < cp.topic => r \in db.got
        /\ r[1] = cp.topic /\ cp.token # {} => r \in db.got \cup cp.token

\* A catch-up of a retained feed goes on from the cutoff of the active database, which
\* leaves no gap while this is not beyond the file's own.
Follows(db, A, cp) ==
    Feed \in cp.current =>
        /\ Feed \in Has(A)
        /\ A.of[Feed].cut <= 0 \/ A.of[Feed].cut <= db.of[Feed].cut

CatchesUp(db, F, A, cp) ==
    db.flaws = {} /\ Follows(db, A, cp) => Fetched(db, F, cp, cp.began)

\* The file as Finish leaves it.
Ready(db, W, ids) ==
    Sound(db) =>
        /\ Has(db) = W /\ Served(db)
        /\ \A s \in W : db.of[s].rel = ids[s]

\* The feed has had its turn in this run.
CaughtUp ==
    /\ At({"next"} \cup Ingesting \cup {"caught"} \cup Finished)
    /\ Feed \in run.want \ run.todo /\ ~Ingests(Feed)

ActiveOK == active # NoDb => Gapless(active, feed) /\ (Sound(active) => Served(active))

\* checkpoint.json is of the file, except while a new file waits for its own.
WorkingOK ==
    working # NoDb =>
        /\ Gapless(working, feed)
        /\ ~At({"seeded"}) => Fits(working, checkpoint) /\ CatchesUp(working, feed, active, checkpoint)
        /\ At(Started) => Fits(working, run.cp) /\ CatchesUp(working, feed, active, run.cp)

ReadyOK ==
    /\ At(Finished) => Ready(working, run.want, run.ids)
    /\ At({"done"}) => active # NoDb /\ Ready(active, run.want, run.ids) /\ working = NoDb

CaughtUpOK ==
    CaughtUp =>
        /\ run.cp.began = -1
        /\ working.flaws = {} => Covers(working, feed, run.until)

RefreshOK ==
    run.op = "refresh" /\ active.flaws = {} => Fetched(active, feed, run.cp, run.until)

\* A catch-up began when its run did, or earlier.
BeganOK ==
    run.op = "provision" => checkpoint.began <= run.until /\ run.cp.began <= run.until

Rest == BeganOK /\ CheckpointsOK /\ CutsPast /\ JobOK /\ CpOfRun /\ StepsOK
Content == ActiveOK /\ WorkingOK /\ ReadyOK /\ CaughtUpOK /\ RefreshOK

IInv == Types /\ Rest /\ Content

-----------------------------------------------------------------------------
(* What the adapters do to a database.                                     *)

\* No database has the value that stands for none.
LEMMA NoDbIsNone ==
    ASSUME Sources # {}
    PROVE  NoDb \notin Db /\ Empty # NoDb
<1>1. DOMAIN NoDb.of = {}
  BY DEF NoDb
<1>2. \A db \in Db : DOMAIN db.of = Sources
  BY DEF Db
<1>3. DOMAIN Empty.of = Sources
  BY DEF Empty
<1> QED
  BY <1>1, <1>2, <1>3

\* What an initialized file holds.
LEMMA EmptyIsDb ==
    ASSUME Sizes
    PROVE
    /\ Empty \in Db /\ Empty.got = {} /\ Empty.ixGot = {} /\ Empty.flaws = {}
    /\ \A s \in Sources : Empty.of[s] = Nothing
    /\ Nothing \in Held
<1>1. Nothing \in Held
  BY DEF Nothing, Held, Releases, Sizes
<1> QED
  BY <1>1 DEF Empty, Db

\* upsert_papers() of a batch.
LEMMA UpsertedIs ==
    ASSUME Sizes, NEW db \in Db, NEW s \in Sources, NEW id \in 1..MaxRelease, NEW b \in 1..Batches
    PROVE  LET new == Upserted(db, s, id, b)
           IN  /\ new \in Db
               /\ new.got = db.got /\ new.ixGot = db.ixGot /\ new.flaws = db.flaws
               /\ \A t \in Sources \ {s} : new.of[t] = db.of[t]
               /\ new.of[s].rel = id /\ new.of[s].rows = db.of[s].rows \cup {b}
               /\ new.of[s].indexed = db.of[s].indexed /\ new.of[s].cut = db.of[s].cut
<1> DEFINE new == Upserted(db, s, id, b)
           h == [db.of[s] EXCEPT !.rel = id, !.rows = @ \cup {b}]
           of == [db.of EXCEPT ![s] = h]
<1>1. db.of[s] \in Held /\ db.of \in [Sources -> Held]
  BY DEF Db
<1>2. /\ h \in Held /\ h.rel = id /\ h.rows = db.of[s].rows \cup {b}
      /\ h.indexed = db.of[s].indexed /\ h.cut = db.of[s].cut
  <2>1. PICK x \in Held : x = db.of[s]
    BY <1>1
  <2>2. id \in Releases
    BY DEF Releases, Sizes
  <2>3. [x EXCEPT !.rel = id, !.rows = @ \cup {b}] \in Held
    BY <2>2 DEF Held
  <2> QED
    BY <2>1, <2>3 DEF Held
<1>3. new = [db EXCEPT !.of = of]
  BY <1>1 DEF Upserted, Db, Held
<1> HIDE DEF h
<1>4. of \in [Sources -> Held] /\ of[s] = h /\ \A t \in Sources \ {s} : of[t] = db.of[t]
  BY <1>1, <1>2
<1> HIDE DEF new, of
<1>5. /\ new \in Db /\ new.of = of
      /\ new.got = db.got /\ new.ixGot = db.ixGot /\ new.flaws = db.flaws
  BY <1>3, <1>4 DEF Db
<1>6. LET x == new
      IN  /\ x \in Db
          /\ x.got = db.got /\ x.ixGot = db.ixGot /\ x.flaws = db.flaws
          /\ \A t \in Sources \ {s} : x.of[t] = db.of[t]
          /\ x.of[s].rel = id /\ x.of[s].rows = db.of[s].rows \cup {b}
          /\ x.of[s].indexed = db.of[s].indexed /\ x.of[s].cut = db.of[s].cut
  BY <1>2, <1>4, <1>5
<1> QED
  BY <1>6 DEF new

\* A page of the feed.
LEMMA HarvestedIs ==
    ASSUME NEW db \in Db, NEW recs \in SUBSET Records, NEW index \in BOOLEAN
    PROVE  LET new == Harvested(db, recs, index)
           IN  /\ new \in Db /\ new.of = db.of /\ new.flaws = db.flaws
               /\ new.got = db.got \cup recs
               /\ new.ixGot = IF index THEN db.ixGot \cup recs ELSE db.ixGot
BY DEF Harvested, Db

\* drop_source().
LEMMA DroppedIs ==
    ASSUME Sizes, NEW db \in Db, NEW S \in SUBSET Sources
    PROVE  LET new == Dropped(db, S)
           IN  /\ new \in Db /\ new.flaws = db.flaws
               /\ \A s \in Sources : new.of[s] = IF s \in S THEN Nothing ELSE db.of[s]
               /\ new.got = IF Feed \in S THEN {} ELSE db.got
               /\ new.ixGot = IF Feed \in S THEN {} ELSE db.ixGot
<1>1. [s \in Sources |-> IF s \in S THEN Nothing ELSE db.of[s]] \in [Sources -> Held]
  BY EmptyIsDb DEF Db
<1> QED
  BY <1>1 DEF Dropped, Db

\* index_source().
LEMMA IndexedIs ==
    ASSUME NEW db \in Db, NEW S \in SUBSET Sources
    PROVE  LET new == Indexed(db, S)
           IN  /\ new \in Db /\ new.flaws = db.flaws /\ new.got = db.got
               /\ \A s \in Sources :
                      /\ new.of[s].rel = db.of[s].rel /\ new.of[s].rows = db.of[s].rows
                      /\ new.of[s].cut = db.of[s].cut
                      /\ new.of[s].indexed = (s \in S \/ db.of[s].indexed)
                      /\ s \notin S => new.of[s] = db.of[s]
               /\ new.ixGot = IF Feed \in S THEN db.got ELSE db.ixGot
<1> DEFINE of == [s \in Sources |-> IF s \in S THEN [db.of[s] EXCEPT !.indexed = TRUE] ELSE db.of[s]]
<1>1. \A s \in Sources : db.of[s] \in Held
  BY DEF Db
<1>2. \A s \in Sources :
          /\ of[s] \in Held
          /\ of[s].rel = db.of[s].rel /\ of[s].rows = db.of[s].rows
          /\ of[s].cut = db.of[s].cut
          /\ of[s].indexed = (s \in S \/ db.of[s].indexed)
          /\ s \notin S => of[s] = db.of[s]
  BY <1>1 DEF Held
<1>3. of \in [Sources -> Held]
  BY <1>2
<1>4. Indexed(db, S) = [db EXCEPT !.of = of, !.ixGot = IF Feed \in S THEN db.got ELSE @]
  BY DEF Indexed
<1> HIDE DEF of
<1>5. Indexed(db, S).of = of
  BY <1>3, <1>4 DEF Db
<1> QED
  BY <1>2, <1>3, <1>4, <1>5 DEF Db

\* put_source().
LEMMA RecordedIs ==
    ASSUME NEW db \in Db, NEW S \in SUBSET Sources, NEW until \in Days
    PROVE  LET new == Recorded(db, S, until)
           IN  /\ new \in Db /\ new.flaws = db.flaws /\ new.got = db.got /\ new.ixGot = db.ixGot
               /\ \A s \in Sources :
                      /\ new.of[s].rel = db.of[s].rel /\ new.of[s].rows = db.of[s].rows
                      /\ new.of[s].indexed = db.of[s].indexed
                      /\ new.of[s].cut = IF s \in S THEN until ELSE db.of[s].cut
                      /\ s \notin S => new.of[s] = db.of[s]
<1> DEFINE of == [s \in Sources |-> IF s \in S THEN [db.of[s] EXCEPT !.cut = until] ELSE db.of[s]]
<1>1. \A s \in Sources : db.of[s] \in Held
  BY DEF Db
<1>2. \A s \in Sources :
          /\ of[s] \in Held
          /\ of[s].rel = db.of[s].rel /\ of[s].rows = db.of[s].rows
          /\ of[s].indexed = db.of[s].indexed
          /\ of[s].cut = IF s \in S THEN until ELSE db.of[s].cut
          /\ s \notin S => of[s] = db.of[s]
  BY <1>1 DEF Held
<1>3. of \in [Sources -> Held]
  BY <1>2
<1>4. Recorded(db, S, until) = [db EXCEPT !.of = of]
  BY DEF Recorded
<1> HIDE DEF of
<1>5. Recorded(db, S, until).of = of
  BY <1>3, <1>4 DEF Db
<1> QED
  BY <1>2, <1>3, <1>4, <1>5 DEF Db

\* A database of which a flaw is recorded is otherwise as it was.
LEMMA FlawedIs ==
    ASSUME NEW db \in Db, NEW f \in Flaws
    PROVE  LET new == [db EXCEPT !.flaws = @ \cup {f}]
           IN  /\ new \in Db /\ new.of = db.of /\ new.got = db.got /\ new.ixGot = db.ixGot
               /\ new.flaws = db.flaws \cup {f}
BY DEF Db

-----------------------------------------------------------------------------
(* A job's steps that leave the databases alone.                           *)

\* What there is between runs.
LEMMA NoRunIs ==
    ASSUME Sizes
    PROVE  /\ NoCheckpoint \in Checkpoints /\ NoRun \in Runs
           /\ CpTyped(NoCheckpoint) <=> day >= -1
<1>1. <<>> \in [{} -> 1..MaxRelease] /\ <<>> \in [{} -> 0..Batches] /\ <<>> \in [{} -> Days]
  OBVIOUS
<1>2. <<>> \in Acquired /\ <<>> \in Offsets /\ <<>> \in Cutoffs
  BY <1>1 DEF Acquired, Offsets, Cutoffs
<1>3. NoCheckpoint \in Checkpoints
  BY <1>2 DEF NoCheckpoint, Checkpoints, Sizes
<1>4. NoRun \in Runs
  BY <1>2, <1>3 DEF NoRun, Runs, Stages
<1>5. CpTyped(NoCheckpoint) <=> day >= -1
  BY <1>1 DEF NoCheckpoint, CpTyped
<1> QED
  BY <1>3, <1>4, <1>5


\* save(): the checkpoint on the disk is that of the run again.
LEMMA SaveKeeps ==
    ASSUME Sizes, IInv,
           SavePruned \/ SaveOffset \/ SavePage \/ SaveCaught
    PROVE  IInv'
<1> DEFINE before == run.pc
<1>0. /\ run \in Runs /\ At({"pruned", "ingested", "harvested", "caught"})
      /\ run.want \in SUBSET Sources /\ run.todo \in SUBSET Sources
  BY DEF SavePruned, SaveOffset, SavePage, SaveCaught, Save, Working, At, IInv, Types, Runs
<1>1. PICK todo \in {run.todo, run.want}, after \in {"next", "ingest", "harvest"} :
          /\ run' = [run EXCEPT !.pc = after, !.todo = todo]
          /\ \/ run.pc = "pruned" /\ after = "next" /\ todo = run.want
             \/ run.pc = "ingested" /\ after = "ingest" /\ todo = run.todo
             \/ run.pc = "harvested" /\ after = "harvest" /\ todo = run.todo
             \/ run.pc = "caught" /\ after = "next" /\ todo = run.todo
  BY DEF SavePruned, SaveOffset, SavePage, SaveCaught, Save, Working
<1>2. checkpoint' = run.cp /\ UNCHANGED <<day, release, feed, active, working, wal, hot, kills>>
  BY DEF SavePruned, SaveOffset, SavePage, SaveCaught, Save
<1>3. /\ run' \in Runs /\ run'.op = run.op /\ run'.pc = after /\ run'.want = run.want
      /\ run'.ids = run.ids /\ run'.until = run.until /\ run'.from = run.from
      /\ run'.cuts = run.cuts /\ run'.src = run.src /\ run'.todo = todo /\ run'.cp = run.cp
  <2>1. after \in Stages /\ todo \in SUBSET Sources
    BY <1>0, <1>1 DEF Stages, Started, Open, Filling, Ingesting, Harvesting
  <2> QED
    BY <1>0, <1>1, <2>1 DEF Runs
<1>4. Types'
  BY <1>2, <1>3 DEF IInv, Types, Runs
<1>5. CheckpointsOK'
  BY <1>0, <1>2, <1>3 DEF IInv, Rest, CheckpointsOK, CpTyped, CpOfRun, CpOrdered, At, Started, Open, Filling, Ingesting, Harvesting
<1>6. CutsPast'
  BY <1>2 DEF IInv, Rest, CutsPast
<1>7. JobOK'
  BY <1>0, <1>1, <1>2, <1>3 DEF IInv, Rest, JobOK, At
<1>8. CpOfRun'
  BY <1>0, <1>1, <1>2, <1>3 DEF IInv, Rest, CpOfRun, CpOrdered, At, Started, Open, Filling, Ingesting, Harvesting, Finished
<1>9. StepsOK'
  BY <1>0, <1>1, <1>2, <1>3 DEF IInv, Rest, StepsOK, Ingests, At, Filling, Ingesting, Harvesting, Finished
<1>10. ActiveOK'
  BY <1>2 DEF IInv, Content, ActiveOK
<1>11. WorkingOK'
  BY <1>0, <1>1, <1>2, <1>3 DEF IInv, Content, WorkingOK, At, Started, Open, Filling, Ingesting, Harvesting, Finished
<1>12. ReadyOK'
  BY <1>0, <1>1, <1>2, <1>3 DEF ReadyOK, At, Finished
<1>13. CaughtUpOK'
  BY <1>0, <1>1, <1>2, <1>3 DEF IInv, Content, CaughtUpOK, CaughtUp, Ingests, At, Ingesting, Finished, Harvesting, Rest, StepsOK
<1>14. RefreshOK'
  BY <1>0, <1>3 DEF RefreshOK, At
<1>15. BeganOK'
  BY <1>0, <1>2, <1>3 DEF IInv, Rest, BeganOK, At
<1> QED
  BY <1>15, <1>4, <1>5, <1>6, <1>7, <1>8, <1>9, <1>10, <1>11, <1>12, <1>13, <1>14 DEF IInv, Rest, Content

\* A run that finds its own checkpoint takes it over.
LEMMA ResumeKeeps ==
    ASSUME Sizes, IInv, Resume
    PROVE  IInv'
<1>0. /\ run \in Runs /\ run.op = "provision" /\ run.pc = "plan"
      /\ working # NoDb /\ checkpoint.want = run.want /\ checkpoint.ids = run.ids
      /\ checkpoint \in Checkpoints
  BY DEF Resume, Working, Matches, IInv, Types
<1>1. /\ UNCHANGED <<day, release, feed, active, working, checkpoint, hot, kills>>
      /\ wal' \in BOOLEAN
  BY DEF Resume
<1>2. /\ run' \in Runs /\ run'.op = "provision" /\ run'.pc = "prune" /\ run'.want = run.want
      /\ run'.ids = run.ids /\ run'.until = run.until /\ run'.from = run.from
      /\ run'.cuts = run.cuts /\ run'.todo = run.todo /\ run'.cp = checkpoint
  BY <1>0 DEF Resume, Runs, Stages, Started, Open
<1>3. Types'
  BY <1>1, <1>2 DEF IInv, Types
<1>4. CheckpointsOK'
  BY <1>1, <1>2 DEF IInv, Rest, CheckpointsOK, CpTyped, CpOrdered
<1>5. CutsPast'
  BY <1>1 DEF IInv, Rest, CutsPast
<1>6. JobOK'
  BY <1>0, <1>1, <1>2 DEF IInv, Rest, JobOK, At
<1>7. CpOfRun'
  BY <1>0, <1>1, <1>2 DEF IInv, Rest, CpOfRun, CheckpointsOK, At, Started, Open, Filling, Ingesting, Harvesting, Finished
<1>8. StepsOK'
  BY <1>2 DEF StepsOK, Ingests, At, Filling, Ingesting, Harvesting, Finished
<1>9. ActiveOK'
  BY <1>1 DEF IInv, Content, ActiveOK
<1>10. WorkingOK'
  BY <1>0, <1>1, <1>2 DEF IInv, Content, WorkingOK, At
<1>11. ReadyOK'
  BY <1>2 DEF ReadyOK, At, Finished
<1>12. CaughtUpOK'
  BY <1>2 DEF CaughtUpOK, CaughtUp, At, Ingesting, Finished
<1>13. RefreshOK'
  BY <1>2 DEF RefreshOK
<1>14. BeganOK'
  BY <1>0, <1>1, <1>2 DEF IInv, Rest, BeganOK
<1> QED
  BY <1>14, <1>3, <1>4, <1>5, <1>6, <1>7, <1>8, <1>9, <1>10, <1>11, <1>12, <1>13 DEF IInv, Rest, Content

\* The rows of the active database.
LEMMA HasIs ==
    ASSUME Sizes, IInv
    PROVE  /\ Has(active) \in SUBSET Sources
           /\ \A s \in Has(active) : active.of[s].cut \in Days
           /\ [s \in Legible |-> active.of[s].cut] \in Cutoffs
           /\ Legible \subseteq Has(active)
           /\ active # NoDb => active \in Db
           /\ working # NoDb => working \in Db
<1>1. Has(active) \in SUBSET Sources
  BY DEF Has
<1>2. \A s \in Has(active) : active.of[s].cut \in Days
  BY DEF Has, IInv, Types, Db, Held
<1>3. Legible \subseteq Has(active)
  BY DEF Legible
<1>4. [s \in Legible |-> active.of[s].cut] \in [Legible -> Days]
  BY <1>2, <1>3
<1> QED
  BY <1>1, <1>2, <1>3, <1>4 DEF Cutoffs, IInv, Types

\* A provisioning begins; an earlier checkpoint and file stay.
LEMMA StartKeeps ==
    ASSUME Sizes, IInv, NEW W \in (SUBSET Sources) \ {{}}, ProvisionStart(W)
    PROVE  IInv'
<1> DEFINE ids == [s \in W |-> release[s]]
           cuts == [s \in Legible |-> active.of[s].cut]
<1>1. /\ UNCHANGED <<day, release, feed, active, working, wal, checkpoint, hot, kills>>
      /\ run.op = "none"
  BY DEF ProvisionStart
<1>2. /\ ids \in [W -> 1..MaxRelease] /\ ids \in Acquired /\ cuts \in Cutoffs /\ day \in Days
  <2>1. ids \in [W -> 1..MaxRelease]
    BY DEF IInv, Types
  <2> QED
    BY <2>1, HasIs DEF Acquired, IInv, Types
<1>3. run' = [NoRun EXCEPT !.op = "provision", !.pc = "plan", !.want = W, !.ids = ids,
                           !.until = day, !.cuts = cuts]
  BY DEF ProvisionStart
<1>17. CutsOf(cuts, active)
  BY HasIs DEF CutsOf
<1> HIDE DEF ids, cuts
<1>4. /\ run' \in Runs /\ run'.op = "provision" /\ run'.pc = "plan" /\ run'.want = W
      /\ run'.ids = ids /\ run'.until = day /\ run'.cuts = cuts
      /\ run'.todo = {} /\ run'.cp = NoCheckpoint
  BY <1>2, <1>3, NoRunIs DEF NoRun, Runs, Stages
<1>5. Types'
  BY <1>1, <1>4 DEF IInv, Types
<1>6. CheckpointsOK'
  <2>1. CpTyped(NoCheckpoint)'
    BY <1>1, NoRunIs, <1>2 DEF CpTyped, Days, NoCheckpoint
  <2> QED
    BY <1>1, <1>4, <2>1 DEF IInv, Rest, CheckpointsOK, CpTyped, CpOrdered
<1>7. CutsPast'
  BY <1>1 DEF IInv, Rest, CutsPast
<1>8. JobOK'
  <2>1. day # -1 /\ day <= day
    BY <1>2 DEF Days, Sizes
  <2>2. ids \in [W -> 1..MaxRelease]'
    BY <1>2
  <2> QED
    BY <1>1, <1>4, <2>1, <2>2, <1>2 DEF JobOK, At
<1>9. CpOfRun'
  BY <1>1, <1>4, <1>17 DEF CpOfRun, At, Started, Open, Filling, Ingesting, Harvesting, Finished
<1>10. StepsOK'
  BY <1>4 DEF StepsOK, Ingests, At, Filling, Ingesting, Harvesting, Finished
<1>11. ActiveOK'
  BY <1>1 DEF IInv, Content, ActiveOK
<1>12. WorkingOK'
  BY <1>1, <1>4 DEF IInv, Content, WorkingOK, At, Started, Open, Filling, Ingesting, Harvesting, Finished
<1>13. ReadyOK'
  BY <1>4 DEF ReadyOK, At, Finished
<1>14. CaughtUpOK'
  BY <1>4 DEF CaughtUpOK, CaughtUp, At, Ingesting, Finished
<1>15. RefreshOK'
  BY <1>4 DEF RefreshOK
<1>16. BeganOK'
  BY <1>1, <1>2, <1>4 DEF IInv, Rest, BeganOK, CheckpointsOK, CpTyped, NoCheckpoint, Days, Sizes
<1> QED
  BY <1>16, <1>5, <1>6, <1>7, <1>8, <1>9, <1>10, <1>11, <1>12, <1>13, <1>14, <1>15 DEF IInv, Rest, Content

\* A run that ends, and what it leaves as it is.
LEMMA FailKeeps ==
    ASSUME Sizes, IInv, Fails, UNCHANGED <<day, release, feed, active, working, wal, checkpoint, hot, kills>>,
           ~At({"seeded"})
    PROVE  IInv'
<1>1. run' = NoRun /\ NoRun.op = "none" /\ NoRun.cp = NoCheckpoint /\ NoRun.until = -1
  BY DEF Fails, NoRun
<1>2. Types'
  BY <1>1, NoRunIs DEF IInv, Types
<1>3. CheckpointsOK'
  <2>1. CpTyped(NoCheckpoint)'
    BY NoRunIs DEF CpTyped, NoCheckpoint, IInv, Types, Days
  <2> QED
    BY <1>1, <2>1 DEF IInv, Rest, CheckpointsOK, CpTyped, CpOrdered
<1>4. CutsPast'
  BY DEF IInv, Rest, CutsPast
<1>5. JobOK'
  BY <1>1 DEF JobOK, At, IInv, Types, Days
<1>6. CpOfRun'
  BY <1>1 DEF CpOfRun, At
<1>7. StepsOK'
  BY <1>1 DEF StepsOK, At
<1>8. Content'
  BY <1>1 DEF IInv, Content, ActiveOK, WorkingOK, ReadyOK, CaughtUpOK, CaughtUp, RefreshOK, At
<1>9. BeganOK'
  BY <1>1 DEF BeganOK
<1> QED
  BY <1>9, <1>2, <1>3, <1>4, <1>5, <1>6, <1>7, <1>8 DEF IInv, Rest

\* A source has its turn, or its row is missing.
LEMMA NextSourceKeeps ==
    ASSUME Sizes, IInv, NEW s \in Sources, NextSource(s)
    PROVE  IInv'
<1>0. /\ UNCHANGED <<day, release, feed, active, working, wal, checkpoint, hot, kills>>
      /\ run \in Runs /\ run.op = "provision" /\ run.pc = "next" /\ s \in run.todo
      /\ run.todo \in SUBSET Sources /\ s \in run.want
      /\ CutsOf(run.cuts, active)
      /\ At({"next"}) /\ At(Started) /\ At(Filling) /\ ~At({"seeded"})
  BY DEF NextSource, Working, IInv, Types, Runs, Rest, JobOK, CpOfRun, At, Filling, Started, Open
<1>1. CASE Fails
  BY <1>0, <1>1, FailKeeps
<1>2. CASE ~Fails
  <2>1. PICK pc \in {"harvest", "next", "ingest"}, from \in Days, src \in {run.src, s} :
            /\ run' = [run EXCEPT !.pc = pc, !.src = src, !.from = from, !.todo = @ \ {s}]
            /\ \/ /\ s \in run.cp.current /\ s \in Has(active) /\ from = active.of[s].cut
                  /\ pc = IF s = Feed THEN "harvest" ELSE "next"
               \/ s \notin run.cp.current /\ pc = "ingest" /\ src = s /\ from = 0
    <3>1. CASE s \in run.cp.current /\ Retained(s)
      <4>1. s \in Has(active) /\ run.cuts[s] = active.of[s].cut
        BY <1>0, <1>2, <3>1 DEF Retained, CutsOf
      <4>2. active.of[s].cut \in Days
        BY <4>1, HasIs
      <4>3. run' = [run EXCEPT !.pc = IF s = Feed THEN "harvest" ELSE "next", !.from = active.of[s].cut,
                               !.todo = @ \ {s}]
        BY <1>2, <3>1, <4>1 DEF Retained, Fails
      <4>4. [run EXCEPT !.pc = IF s = Feed THEN "harvest" ELSE "next", !.from = active.of[s].cut,
                        !.todo = @ \ {s}]
            = [run EXCEPT !.pc = IF s = Feed THEN "harvest" ELSE "next", !.src = run.src,
                          !.from = active.of[s].cut, !.todo = @ \ {s}]
        BY <1>0 DEF Runs
      <4> QED
        BY <3>1, <4>1, <4>2, <4>3, <4>4
    <3>2. CASE /\ s \notin run.cp.current
               /\ run' = [run EXCEPT !.pc = "ingest", !.src = s, !.from = 0, !.todo = @ \ {s}]
      <4>1. 0 \in Days
        BY DEF Days, Sizes
      <4> QED
        BY <3>2, <4>1
    <3> QED
      BY <3>1, <3>2 DEF NextSource
  <2>2. /\ run' \in Runs /\ run'.op = "provision" /\ run'.pc = pc /\ run'.want = run.want
        /\ run'.ids = run.ids /\ run'.until = run.until /\ run'.from = from
        /\ run'.cuts = run.cuts /\ run'.src = src /\ run'.todo = run.todo \ {s} /\ run'.cp = run.cp
    BY <1>0, <2>1 DEF Runs, Stages, Started, Open, Filling, Ingesting, Harvesting
  <2>3. Types'
    BY <1>0, <2>2 DEF IInv, Types
  <2>4. CheckpointsOK'
    BY <1>0, <2>2 DEF IInv, Rest, CheckpointsOK, CpTyped, CpOrdered
  <2>5. CutsPast'
    BY <1>0 DEF IInv, Rest, CutsPast
  <2>6. JobOK'
    BY <1>0, <2>1, <2>2 DEF IInv, Rest, JobOK, At
  <2>7. CpOfRun'
    BY <1>0, <2>1, <2>2 DEF IInv, Rest, CpOfRun, CpOrdered, At, Started, Open, Filling, Ingesting, Harvesting, Finished
  <2>8. StepsOK'
    BY <1>0, <2>1, <2>2 DEF IInv, Rest, StepsOK, Ingests, At, Filling, Ingesting, Harvesting, Finished
  <2>9. ActiveOK'
    BY <1>0 DEF IInv, Content, ActiveOK
  <2>10. WorkingOK'
    BY <1>0, <2>1, <2>2 DEF IInv, Content, WorkingOK, At, Started, Open, Filling, Ingesting, Harvesting, Finished
  <2>11. ReadyOK'
    BY <2>1, <2>2 DEF ReadyOK, At, Finished
  <2>12. CaughtUpOK'
    BY <1>0, <2>1, <2>2 DEF IInv, Content, CaughtUpOK, CaughtUp, Ingests, At, Ingesting, Finished, Harvesting
  <2>13. RefreshOK'
    BY <2>2 DEF RefreshOK
  <2>14. BeganOK'
    BY <1>0, <2>2 DEF IInv, Rest, BeganOK
  <2> QED
    BY <2>14, <2>3, <2>4, <2>5, <2>6, <2>7, <2>8, <2>9, <2>10, <2>11, <2>12, <2>13 DEF IInv, Rest, Content
<1> QED
  BY <1>1, <1>2

\* The last batch of a source is in.
LEMMA IngestedKeeps ==
    ASSUME Sizes, IInv, Ingested
    PROVE  IInv'
<1>0. /\ UNCHANGED <<day, release, feed, active, working, wal, checkpoint, hot, kills>>
      /\ run \in Runs /\ run.op = "provision" /\ run.pc = "ingest"
      /\ run.cp.at[run.src] = Batches
      /\ At({"ingest"}) /\ At(Ingesting) /\ At(Started) /\ At(Filling) /\ ~At({"seeded"})
      /\ run.src \in run.want \ (run.cp.current \cup run.todo) /\ run.from = 0
  BY DEF Ingested, Working, IInv, Types, Rest, StepsOK, At, Ingesting, Filling, Started, Open
<1>1. PICK pc \in {"harvest", "next"} :
          /\ run' = [run EXCEPT !.pc = pc, !.src = "none"]
          /\ pc = IF run.src = Feed THEN "harvest" ELSE "next"
  BY DEF Ingested
<1>2. /\ run' \in Runs /\ run'.op = "provision" /\ run'.pc = pc /\ run'.want = run.want
      /\ run'.ids = run.ids /\ run'.until = run.until /\ run'.from = 0
      /\ run'.cuts = run.cuts /\ run'.todo = run.todo /\ run'.cp = run.cp
  BY <1>0, <1>1 DEF Runs, Stages, Started, Open, Filling, Ingesting, Harvesting
<1>3. Types'
  BY <1>0, <1>2 DEF IInv, Types
<1>4. CheckpointsOK'
  BY <1>0, <1>2 DEF IInv, Rest, CheckpointsOK, CpTyped, CpOrdered
<1>5. CutsPast'
  BY <1>0 DEF IInv, Rest, CutsPast
<1>6. JobOK'
  BY <1>0, <1>1, <1>2 DEF IInv, Rest, JobOK, At
<1>7. CpOfRun'
  BY <1>0, <1>1, <1>2 DEF IInv, Rest, CpOfRun, CpOrdered, At, Started, Open, Filling, Ingesting, Harvesting, Finished
<1>8. StepsOK'
  BY <1>0, <1>1, <1>2 DEF IInv, Rest, StepsOK, Ingests, At, Filling, Ingesting, Harvesting, Finished
<1>9. ActiveOK'
  BY <1>0 DEF IInv, Content, ActiveOK
<1>10. WorkingOK'
  BY <1>0, <1>1, <1>2 DEF IInv, Content, WorkingOK, At, Started, Open, Filling, Ingesting, Harvesting, Finished
<1>11. ReadyOK'
  BY <1>1, <1>2 DEF ReadyOK, At, Finished
<1>12. CaughtUpOK'
  BY <1>0, <1>1, <1>2 DEF IInv, Content, CaughtUpOK, CaughtUp, Ingests, At, Ingesting, Finished, Harvesting
<1>13. RefreshOK'
  BY <1>2 DEF RefreshOK
<1>14. BeganOK'
  BY <1>0, <1>2 DEF IInv, Rest, BeganOK
<1> QED
  BY <1>14, <1>3, <1>4, <1>5, <1>6, <1>7, <1>8, <1>9, <1>10, <1>11, <1>12, <1>13 DEF IInv, Rest, Content

\* quick_check.
LEMMA VerifyKeeps ==
    ASSUME Sizes, IInv, Verify
    PROVE  IInv'
<1>0. /\ UNCHANGED <<day, release, feed, active, working, wal, checkpoint, hot, kills>>
      /\ run \in Runs /\ run.op = "provision" /\ run.pc = "verify"
      /\ At({"verify"}) /\ At(Finished) /\ At(Started) /\ At(Filling) /\ ~At({"seeded"})
  BY DEF Verify, Working, IInv, Types, At, Finished, Filling, Started, Open
<1>1. CASE Fails
  BY <1>0, <1>1, FailKeeps
<1>2. CASE run' = [run EXCEPT !.pc = "retire"]
  <2>2. /\ run' \in Runs /\ run'.op = "provision" /\ run'.pc = "retire" /\ run'.want = run.want
        /\ run'.ids = run.ids /\ run'.until = run.until /\ run'.from = run.from
        /\ run'.cuts = run.cuts /\ run'.src = run.src /\ run'.todo = run.todo /\ run'.cp = run.cp
    BY <1>0, <1>2 DEF Runs, Stages, Started, Open, Filling, Finished
  <2>3. Types'
    BY <1>0, <2>2 DEF IInv, Types
  <2>4. CheckpointsOK'
    BY <1>0, <2>2 DEF IInv, Rest, CheckpointsOK, CpTyped, CpOrdered
  <2>5. CutsPast'
    BY <1>0 DEF IInv, Rest, CutsPast
  <2>6. JobOK'
    BY <1>0, <2>2 DEF IInv, Rest, JobOK, At
  <2>7. CpOfRun'
    BY <1>0, <2>2 DEF IInv, Rest, CpOfRun, CpOrdered, At, Started, Open, Filling, Ingesting, Harvesting, Finished
  <2>8. StepsOK'
    BY <1>0, <2>2 DEF IInv, Rest, StepsOK, Ingests, At, Filling, Ingesting, Harvesting, Finished
  <2>9. ActiveOK'
    BY <1>0 DEF IInv, Content, ActiveOK
  <2>10. WorkingOK'
    BY <1>0, <2>2 DEF IInv, Content, WorkingOK, At, Started, Open, Filling, Ingesting, Harvesting, Finished
  <2>11. ReadyOK'
    BY <1>0, <2>2 DEF IInv, Content, ReadyOK, At, Finished
  <2>12. CaughtUpOK'
    BY <1>0, <2>2 DEF IInv, Content, CaughtUpOK, CaughtUp, Ingests, At, Ingesting, Finished, Harvesting
  <2>13. RefreshOK'
    BY <2>2 DEF RefreshOK
  <2>14. BeganOK'
    BY <1>0, <2>2 DEF IInv, Rest, BeganOK
  <2> QED
    BY <2>14, <2>3, <2>4, <2>5, <2>6, <2>7, <2>8, <2>9, <2>10, <2>11, <2>12, <2>13 DEF IInv, Rest, Content
<1> QED
  BY <1>1, <1>2 DEF Verify

\* A request or a check raises.
LEMMA RaisesKeeps ==
    ASSUME Sizes, IInv, Raises
    PROVE  IInv'
<1>1. ~At({"seeded"})
  BY DEF Raises, At
<1> QED
  BY <1>1, FailKeeps DEF Raises

\* A job that ends at its last step, the checkpoint gone.
LEMMA DoneKeeps ==
    ASSUME Sizes, IInv, Done
    PROVE  IInv'
<1>1. /\ UNCHANGED <<day, release, feed, active, working, wal, hot, kills>>
      /\ run.op = "provision" /\ run.pc = "done" /\ checkpoint' = NoCheckpoint
      /\ run' = NoRun /\ NoRun.op = "none" /\ NoRun.cp = NoCheckpoint /\ NoRun.until = -1
  BY DEF Done, Working, NoRun
<1>2. Types'
  BY <1>1, NoRunIs DEF IInv, Types
<1>3. CheckpointsOK'
  <2>1. CpTyped(NoCheckpoint)'
    BY <1>1, NoRunIs DEF CpTyped, NoCheckpoint, IInv, Types, Days
  <2>2. CpOrdered(NoCheckpoint)
    BY DEF CpOrdered, NoCheckpoint
  <2> QED
    BY <1>1, <2>1, <2>2 DEF CheckpointsOK, CpTyped
<1>4. CutsPast'
  BY <1>1 DEF IInv, Rest, CutsPast
<1>5. JobOK'
  BY <1>1 DEF JobOK, At, IInv, Types, Days
<1>6. CpOfRun'
  BY <1>1 DEF CpOfRun, At
<1>7. StepsOK'
  BY <1>1 DEF StepsOK, At
<1>8. working = NoDb
  BY <1>1 DEF IInv, Content, ReadyOK, At
<1>9. Content'
  BY <1>1, <1>8 DEF IInv, Content, ActiveOK, WorkingOK, ReadyOK, CaughtUpOK, CaughtUp, RefreshOK, At
<1>10. BeganOK'
  BY <1>1 DEF BeganOK
<1> QED
  BY <1>10, <1>2, <1>3, <1>4, <1>5, <1>6, <1>7, <1>9 DEF IInv, Rest

\* A new release is no concern of what is stored.
LEMMA RepublishKeeps ==
    ASSUME Sizes, IInv, NEW s \in Sources, Republish(s)
    PROVE  IInv'
<1>1. /\ UNCHANGED <<day, feed, active, working, wal, checkpoint, run, hot, kills>>
      /\ release' = [release EXCEPT ![s] = @ + 1] /\ release[s] < MaxRelease
  BY DEF Republish
<1>2. Types'
  BY <1>1 DEF IInv, Types, Sizes
<1>3. Rest'
  BY <1>1 DEF IInv, Rest, BeganOK, CheckpointsOK, CpTyped, CpOrdered, CutsPast, JobOK, CpOfRun, StepsOK, Ingests, At
<1>4. Content'
  BY <1>1 DEF IInv, Content, ActiveOK, WorkingOK, ReadyOK, CaughtUpOK, CaughtUp, Ingests, RefreshOK, At
<1> QED
  BY <1>2, <1>3, <1>4 DEF IInv

\* A day passes.
LEMMA NextDayKeeps ==
    ASSUME Sizes, IInv, NextDay
    PROVE  IInv'
<1>1. /\ UNCHANGED <<release, feed, active, working, wal, checkpoint, run, hot, kills>>
      /\ day' = day + 1 /\ day < MaxDay /\ day \in Days
  BY DEF NextDay, IInv, Types
<1>2. Types'
  BY <1>1 DEF IInv, Types, Sizes, Days
<1>3. CheckpointsOK'
  <2>1. checkpoint.began <= day + 1 /\ run.cp.began <= day + 1
    BY <1>1 DEF IInv, Types, Rest, CheckpointsOK, CpTyped, Checkpoints, Runs, Days, Sizes
  <2> QED
    BY <1>1, <2>1 DEF IInv, Rest, CheckpointsOK, CpTyped, CpOrdered
<1>4. CutsPast'
  <2>1. \A db \in {active, working} : \A s \in Has(db) : db.of[s].cut \in Int
    BY DEF IInv, Types, Has, Db, Held, Days, Sizes
  <2> QED
    BY <1>1, <2>1 DEF IInv, Rest, CutsPast, Days, Sizes
<1>5. JobOK'
  BY <1>1 DEF IInv, Types, Runs, Rest, JobOK, At, Days, Sizes
<1>6. CpOfRun' /\ StepsOK'
  BY <1>1 DEF IInv, Rest, CpOfRun, CpOrdered, StepsOK, Ingests, At
<1>7. Content'
  BY <1>1 DEF IInv, Content, ActiveOK, WorkingOK, ReadyOK, CaughtUpOK, CaughtUp, Ingests, RefreshOK, At
<1>8. BeganOK'
  BY <1>1 DEF IInv, Rest, BeganOK
<1> QED
  BY <1>8, <1>2, <1>3, <1>4, <1>5, <1>6, <1>7 DEF IInv, Rest

\* What the feed brings today is beyond the cutoffs there are.
LEMMA TodayIsBeyond ==
    ASSUME NEW db, NEW F, NEW A, NEW cp, NEW t, NEW today \in Int, NEW until \in Int, until <= today
    PROVE  LET G == F \cup {<<t, today>>}
           IN  /\ Covers(db, F, until) => Covers(db, G, until)
               /\ Fetched(db, F, cp, until) => Fetched(db, G, cp, until)
BY DEF Covers, Fetched

\* A new record is not before any cutoff.
LEMMA PublishKeeps ==
    ASSUME Sizes, IInv, NEW t \in 1..Topics, Publish(t)
    PROVE  IInv'
<1>1. /\ UNCHANGED <<day, release, active, working, wal, checkpoint, run, hot, kills>>
      /\ day \in Days /\ day \in Int /\ feed' = feed \cup {<<t, day>>}
  BY DEF Publish, IInv, Types, Days, Sizes
<1>2. Types'
  BY <1>1 DEF IInv, Types, Records
<1>3. Rest'
  BY <1>1 DEF IInv, Rest, BeganOK, CheckpointsOK, CpTyped, CpOrdered, CutsPast, JobOK, CpOfRun, StepsOK, Ingests, At
<1>4. ASSUME NEW db \in {active, working}, db # NoDb, Gapless(db, feed)
      PROVE  Gapless(db, feed')
  <2>1. CASE Feed \in Has(db)
    <3>1. db.of[Feed].cut \in Int /\ db.of[Feed].cut <= day
      BY <1>4, <2>1 DEF IInv, Types, Has, Db, Held, Days, Rest, CutsPast, Sizes
    <3> QED
      BY <1>1, <1>4, <3>1, TodayIsBeyond DEF Gapless
  <2> QED
    BY <2>1 DEF Gapless
<1>5. ASSUME NEW cp \in Checkpoints, cp.began <= day, CatchesUp(working, feed, active, cp)
      PROVE  CatchesUp(working, feed', active, cp)
  <2>1. cp.began \in Int
    BY <1>5 DEF Checkpoints, Days, Sizes
  <2> QED
    BY <1>1, <1>5, <2>1, TodayIsBeyond DEF CatchesUp
<1>6. /\ checkpoint \in Checkpoints /\ run.cp \in Checkpoints /\ checkpoint.began <= day
      /\ run.cp.began <= day
      /\ run.until \in Int /\ run.until <= day
  BY <1>1 DEF IInv, Types, Runs, Days, Sizes, Rest, CheckpointsOK, CpTyped, JobOK
<1>7. ActiveOK'
  BY <1>1, <1>4 DEF IInv, Content, ActiveOK
<1>8. WorkingOK'
  BY <1>1, <1>4, <1>5, <1>6 DEF IInv, Content, WorkingOK, At
<1>9. ReadyOK'
  BY <1>1 DEF IInv, Content, ReadyOK, At
<1>10. CaughtUpOK'
  <2>1. Covers(working, feed, run.until) => Covers(working, feed', run.until)
    BY <1>1, <1>6, TodayIsBeyond
  <2> QED
    BY <1>1, <2>1 DEF IInv, Content, CaughtUpOK, CaughtUp, Ingests, At
<1>11. RefreshOK'
  <2>1. Fetched(active, feed, run.cp, run.until) => Fetched(active, feed', run.cp, run.until)
    BY <1>1, <1>6, TodayIsBeyond
  <2> QED
    BY <1>1, <2>1 DEF IInv, Content, RefreshOK
<1> QED
  BY <1>2, <1>3, <1>7, <1>8, <1>9, <1>10, <1>11 DEF IInv, Content

\* A refresh opens the database, and goes on from the cutoff of the active row.
LEMMA RefreshStartKeeps ==
    ASSUME Sizes, IInv, RefreshStart
    PROVE  IInv'
<1> DEFINE from == active.of[Feed].cut
<1>0. /\ UNCHANGED <<day, release, feed, working, wal, checkpoint, kills>>
      /\ run.op = "none" /\ run = NoRun /\ active # NoDb /\ active \in Db /\ hot' = "none"
  BY HasIs DEF RefreshStart, IInv, Rest, JobOK
<1>1. /\ active' \in Db /\ active' # NoDb /\ active'.of = active.of /\ active'.got = active.got
      /\ active'.ixGot = active.ixGot /\ active.flaws \subseteq active'.flaws
  <2>1. active' = active \/ active' = [active EXCEPT !.flaws = @ \cup {"journal"}]
    BY DEF RefreshStart
  <2>2. "journal" \in Flaws /\ Sources # {}
    BY DEF Flaws, Sizes
  <2>3. [active EXCEPT !.flaws = @ \cup {"journal"}] # NoDb
    BY <1>0, <2>2, FlawedIs, NoDbIsNone
  <2>4. CASE active' = active
    BY <1>0, <2>4
  <2>5. CASE active' = [active EXCEPT !.flaws = @ \cup {"journal"}]
    <3>1. /\ active' \in Db /\ active'.of = active.of /\ active'.got = active.got
          /\ active'.ixGot = active.ixGot /\ active'.flaws = active.flaws \cup {"journal"}
      BY <1>0, <2>2, <2>5, FlawedIs
    <3> QED
      BY <2>3, <2>5, <3>1
  <2> QED
    BY <2>1, <2>4, <2>5
<1>2. Has(active') = Has(active)
  BY <1>0, <1>1 DEF Has
<1>3. run' \in Runs /\ run'.cp = NoCheckpoint
      /\ \/ run' = NoRun /\ run'.op = "none"
         \/ /\ run'.op = "refresh" /\ Feed \in Has(active) /\ run'.pc = "harvest"
            /\ run'.until = day /\ run'.from = from
  <2>1. CASE run' = run
    BY <1>0, <2>1, NoRunIs DEF NoRun
  <2>2. CASE Feed \in Has(active) /\ run' = [NoRun EXCEPT !.op = "refresh", !.pc = "harvest",
                                                       !.until = day, !.from = from]
    <3>1. from \in Days /\ day \in Days
      BY <2>2, HasIs DEF IInv, Types
    <3> HIDE DEF from
    <3> QED
      BY <2>2, <3>1, NoRunIs DEF NoRun, Runs, Stages, Started, Open, Filling, Harvesting
  <2> QED
    BY <2>1, <2>2 DEF RefreshStart
<1>4. Feed \in Has(active) => from <= day
  BY <1>0 DEF IInv, Rest, CutsPast
<1> HIDE DEF from
<1>5. /\ NoCheckpoint.want = {} /\ NoCheckpoint.pruned = FALSE /\ NoCheckpoint.topic = 1
      /\ NoCheckpoint.token = {} /\ day # -1 /\ day \in Days /\ day >= -1
      /\ NoRun.until = -1
  BY DEF NoCheckpoint, NoRun, Days, Sizes, IInv, Types
<1>6. Types'
  BY <1>0, <1>1, <1>3 DEF IInv, Types
<1>7. CheckpointsOK'
  <2>1. CpTyped(NoCheckpoint)'
    BY <1>0, <1>5, NoRunIs DEF CpTyped, NoCheckpoint
  <2> QED
    BY <1>0, <1>3, <2>1 DEF IInv, Rest, CheckpointsOK, CpTyped, CpOrdered
<1>8. CutsPast'
  BY <1>0, <1>1, <1>2 DEF IInv, Rest, CutsPast, Has
<1>9. JobOK'
  BY <1>0, <1>1, <1>2, <1>3, <1>4, <1>5 DEF JobOK, At, Days, Sizes, from
<1>10. CpOfRun' /\ StepsOK' /\ BeganOK'
  BY <1>3 DEF CpOfRun, StepsOK, BeganOK, At
<1>11. ActiveOK'
  <2>1. Gapless(active, feed) => Gapless(active', feed)
    BY <1>1, <1>2 DEF Gapless, Covers
  <2>2. Sound(active') => Sound(active)
    BY <1>1 DEF Sound
  <2>3. Served(active) => Served(active')
    BY <1>1, <1>2 DEF Served, Complete, Only
  <2> QED
    BY <1>0, <2>1, <2>2, <2>3 DEF IInv, Content, ActiveOK
<1>12. WorkingOK'
  <2>1. ASSUME CatchesUp(working, feed, active, checkpoint)
        PROVE  CatchesUp(working, feed, active', checkpoint)
    BY <1>1, <1>2, <2>1 DEF CatchesUp, Follows
  <2> QED
    BY <1>0, <1>3, <2>1 DEF IInv, Content, WorkingOK, At
<1>13. ReadyOK' /\ CaughtUpOK'
  BY <1>3 DEF ReadyOK, CaughtUpOK, CaughtUp, At
<1>14. RefreshOK'
  <2>1. \A r \in feed : ~(r[1] < 1)
    BY DEF IInv, Types, Records, Sizes
  <2>2. Fetched(active', feed, NoCheckpoint, day)
    BY <1>5, <2>1 DEF Fetched
  <2> QED
    BY <1>0, <1>3, <2>2 DEF RefreshOK
<1> QED
  BY <1>6, <1>7, <1>8, <1>9, <1>10, <1>11, <1>12, <1>13, <1>14 DEF IInv, Rest, Content

\* The active database is renamed away.
LEMMA RetireKeeps ==
    ASSUME Sizes, IInv, Retire
    PROVE  IInv'
<1>0. /\ UNCHANGED <<day, release, feed, working, wal, checkpoint, kills>>
      /\ run \in Runs /\ run.op = "provision" /\ run.pc = "retire" /\ active' = NoDb
      /\ hot' \in {"none", "own", "foreign"}
      /\ At({"retire"}) /\ At(Finished) /\ At(Started) /\ At(Filling) /\ ~At({"seeded"})
      /\ run' = [run EXCEPT !.pc = "activate"]
  BY DEF Retire, Working, IInv, Types, At, Finished, Filling, Started, Open
<1>2. /\ run' \in Runs /\ run'.op = "provision" /\ run'.pc = "activate" /\ run'.want = run.want
      /\ run'.ids = run.ids /\ run'.until = run.until /\ run'.from = run.from
      /\ run'.cuts = run.cuts /\ run'.src = run.src /\ run'.todo = run.todo /\ run'.cp = run.cp
  BY <1>0 DEF Runs, Stages, Started, Open, Filling, Finished
<1>3. Types'
  BY <1>0, <1>2 DEF IInv, Types
<1>4. CheckpointsOK'
  BY <1>0, <1>2 DEF IInv, Rest, CheckpointsOK, CpTyped, CpOrdered
<1>5. CutsPast'
  BY <1>0 DEF IInv, Rest, CutsPast, Has
<1>6. JobOK'
  BY <1>0, <1>2 DEF IInv, Rest, JobOK, At
<1>7. CpOfRun'
  BY <1>0, <1>2 DEF IInv, Rest, CpOfRun, CpOrdered, At, Started, Open, Filling, Ingesting, Harvesting, Finished
<1>8. StepsOK'
  BY <1>0, <1>2 DEF IInv, Rest, StepsOK, Ingests, At, Filling, Ingesting, Harvesting, Finished
<1>9. ActiveOK'
  BY <1>0 DEF ActiveOK
<1>10. WorkingOK'
  <2>1. /\ working # NoDb => /\ Gapless(working, feed) /\ Fits(working, checkpoint) /\ Fits(working, run.cp)
        /\ checkpoint = run.cp
    BY <1>0 DEF IInv, Content, WorkingOK, At, Started, Rest, CpOfRun, Open, Filling, Finished
  <2>2. ASSUME NEW cp, CatchesUp(working, feed, active, cp), Feed \notin cp.current
        PROVE  CatchesUp(working, feed, NoDb, cp)
    BY <2>2 DEF CatchesUp, Follows
  <2>3. ASSUME NEW cp, Feed \in cp.current
        PROVE  CatchesUp(working, feed, NoDb, cp)
    BY <2>3 DEF CatchesUp, Follows, Has
  <2>4. working # NoDb => CatchesUp(working, feed, NoDb, run.cp)
    BY <1>0, <2>2, <2>3 DEF IInv, Content, WorkingOK
  <2> QED
    BY <1>0, <1>2, <2>1, <2>4 DEF WorkingOK, At
<1>11. ReadyOK'
  BY <1>0, <1>2 DEF IInv, Content, ReadyOK, At, Finished
<1>12. CaughtUpOK'
  BY <1>0, <1>2 DEF IInv, Content, CaughtUpOK, CaughtUp, Ingests, At, Ingesting, Finished, Harvesting
<1>13. RefreshOK'
  BY <1>2 DEF RefreshOK
<1>14. BeganOK'
  BY <1>0, <1>2 DEF IInv, Rest, BeganOK
<1> QED
  BY <1>14, <1>3, <1>4, <1>5, <1>6, <1>7, <1>8, <1>9, <1>10, <1>11, <1>12, <1>13 DEF IInv, Rest, Content

\* A process is killed: where it leaves a file beside a foreign checkpoint, the file is flawed.
LEMMA KilledKeeps ==
    ASSUME Sizes, IInv, Killed
    PROVE  IInv'
<1> DEFINE overtaken == Working("seeded") /\ working # NoDb /\ checkpoint # NoCheckpoint
<1>1. /\ UNCHANGED <<day, release, feed, active, checkpoint>>
      /\ kills' = kills + 1 /\ kills < MaxKills
      /\ hot' \in {"none", "own", "foreign"}
      /\ working' = IF overtaken THEN [working EXCEPT !.flaws = @ \cup {"checkpoint"}] ELSE working
      /\ wal' \in BOOLEAN
      /\ run' = NoRun /\ NoRun.op = "none" /\ NoRun.cp = NoCheckpoint /\ NoRun.until = -1
  BY DEF Killed, NoRun, IInv, Types
<1>2. /\ working' # NoDb => working' \in Db /\ working # NoDb
      /\ working = NoDb => working' = NoDb
      /\ working # NoDb => /\ working'.of = working.of /\ working'.got = working.got
                           /\ working'.flaws \in {working.flaws, working.flaws \cup {"checkpoint"}}
  BY <1>1, HasIs, FlawedIs DEF Flaws
<1>3. Types'
  <2>1. working' \in Db \cup {NoDb}
    BY <1>1, HasIs, FlawedIs DEF Flaws, IInv, Types
  <2> QED
    BY <1>1, <2>1, NoRunIs DEF IInv, Types, Sizes
<1>4. CheckpointsOK'
  <2>1. CpTyped(NoCheckpoint)'
    BY <1>1, NoRunIs DEF CpTyped, NoCheckpoint, IInv, Types, Days
  <2> QED
    BY <1>1, <2>1 DEF IInv, Rest, CheckpointsOK, CpTyped, CpOrdered
<1>5. CutsPast'
  BY <1>1, <1>2 DEF IInv, Rest, CutsPast, Has
<1>6. JobOK' /\ CpOfRun' /\ StepsOK'
  BY <1>1 DEF JobOK, CpOfRun, StepsOK, At, IInv, Types, Days
<1>7. ActiveOK'
  BY <1>1 DEF IInv, Content, ActiveOK
<1>8. WorkingOK'
  <2>1. CASE overtaken
    <3>1. working # NoDb /\ "checkpoint" \in working'.flaws /\ working'.flaws # {}
      BY <1>1, <2>1, HasIs, FlawedIs DEF Flaws
    <3> QED
      BY <1>1, <3>1 DEF WorkingOK, At, Gapless, Fits, CatchesUp, Sound
  <2>2. CASE ~overtaken /\ working # NoDb
    <3>1. Fits(working, NoCheckpoint) /\ CatchesUp(working, feed, active, NoCheckpoint)
      <4>1. \A r \in feed : ~(r[2] < -1)
        BY DEF IInv, Types, Records, Days, Sizes
      <4> QED
        BY <4>1 DEF Fits, CatchesUp, NoCheckpoint, Fetched
    <3> QED
      BY <1>1, <2>2, <3>1 DEF IInv, Content, WorkingOK, At, Working
  <2>3. CASE working = NoDb
    BY <1>1, <2>3 DEF WorkingOK
  <2> QED
    BY <2>1, <2>2, <2>3
<1>9. ReadyOK' /\ CaughtUpOK' /\ RefreshOK'
  BY <1>1 DEF ReadyOK, CaughtUpOK, CaughtUp, RefreshOK, At
<1>10. BeganOK'
  BY <1>1 DEF BeganOK
<1> QED
  BY <1>10, <1>3, <1>4, <1>5, <1>6, <1>7, <1>8, <1>9 DEF IInv, Rest, Content

-----------------------------------------------------------------------------
(* Pruning, and a new file.                                                *)

\* The run goes on with the sources in turn, its checkpoint pruned already.
LEMMA PrunedAlready ==
    ASSUME Sizes, IInv, At({"prune"}), run.cp.pruned,
           run' = [run EXCEPT !.pc = "next", !.todo = run.want],
           UNCHANGED <<day, release, feed, active, working, wal, checkpoint, hot, kills>>
    PROVE  IInv'
<1>0. /\ run \in Runs /\ run.op = "provision" /\ run.pc = "prune" /\ run.want \in SUBSET Sources
      /\ At(Started) /\ ~At({"seeded"})
  BY DEF IInv, Types, Runs, At, Started, Open
<1>2. /\ run' \in Runs /\ run'.op = "provision" /\ run'.pc = "next" /\ run'.want = run.want
      /\ run'.ids = run.ids /\ run'.until = run.until /\ run'.from = run.from
      /\ run'.cuts = run.cuts /\ run'.src = run.src /\ run'.todo = run.want /\ run'.cp = run.cp
  BY <1>0 DEF Runs, Stages, Started, Open, Filling
<1>3. Types'
  BY <1>0, <1>2 DEF IInv, Types
<1>4. CheckpointsOK'
  BY <1>0, <1>2 DEF IInv, Rest, CheckpointsOK, CpTyped, CpOrdered
<1>5. CutsPast'
  BY <1>0 DEF IInv, Rest, CutsPast
<1>6. JobOK'
  BY <1>0, <1>2 DEF IInv, Rest, JobOK, At
<1>7. CpOfRun'
  BY <1>0, <1>2 DEF IInv, Rest, CpOfRun, CpOrdered, At, Started, Open, Filling, Ingesting, Harvesting, Finished
<1>8. StepsOK'
  BY <1>0, <1>2 DEF StepsOK, Ingests, At, Filling, Ingesting, Harvesting, Finished
<1>9. ActiveOK'
  BY <1>0 DEF IInv, Content, ActiveOK
<1>10. WorkingOK'
  BY <1>0, <1>2 DEF IInv, Content, WorkingOK, At, Started, Open, Filling, Ingesting, Harvesting, Finished
<1>11. ReadyOK'
  BY <1>2 DEF ReadyOK, At, Finished
<1>12. CaughtUpOK'
  BY <1>2 DEF CaughtUpOK, CaughtUp, At
<1>13. RefreshOK'
  BY <1>2 DEF RefreshOK
<1>14. BeganOK'
  BY <1>0, <1>2 DEF IInv, Rest, BeganOK
<1> QED
  BY <1>14, <1>3, <1>4, <1>5, <1>6, <1>7, <1>8, <1>9, <1>10, <1>11, <1>12, <1>13 DEF IInv, Rest, Content

\* drop_source() of what is not current: what a checkpoint retains stays.
LEMMA DroppedFits ==
    ASSUME Sizes, NEW db \in Db, NEW cp \in Checkpoints, ~cp.pruned, CpOrdered(cp), cp.current \subseteq cp.want,
           Fits(db, cp)
    PROVE  LET new == Dropped(db, Sources \ cp.current)
           IN  Fits(new, cp) /\ Fits(new, [cp EXCEPT !.pruned = TRUE])
<1> DEFINE S == Sources \ cp.current
           new == Dropped(db, S)
           cq == [cp EXCEPT !.pruned = TRUE]
<1> SUFFICES Fits(new, cp) /\ Fits(new, cq)
  OBVIOUS
<1>1. /\ S \in SUBSET Sources /\ cp.current \in SUBSET Sources /\ \A s \in S : s \in Sources /\ s \notin cp.current
      /\ \A s \in cp.current : s \in Sources /\ s \notin S
      /\ \A s \in Sources : s \notin cp.current => s \in S
  BY DEF Checkpoints
<1> HIDE DEF S
<1>2. /\ new \in Db /\ new.flaws = db.flaws
      /\ \A s \in Sources : new.of[s] = IF s \in S THEN Nothing ELSE db.of[s]
      /\ new.got = IF Feed \in S THEN {} ELSE db.got
      /\ new.ixGot = IF Feed \in S THEN {} ELSE db.ixGot
  BY <1>1, DroppedIs
<1> HIDE DEF new
<1>3. /\ cq.want = cp.want /\ cq.ids = cp.ids /\ cq.current = cp.current /\ cq.at = cp.at
  BY DEF Checkpoints
<1>4. \A s \in cp.want : cp.at[s] = 0
  BY DEF CpOrdered
<1> HIDE DEF cq
<1>5. new # NoDb \/ Sources = {}
  BY <1>2, NoDbIsNone
<1>6. CASE Sound(db)
  <2>1. ASSUME NEW s \in cp.current
        PROVE  s \in Has(new) /\ new.of[s].rel = cp.ids[s] /\ Complete(new, s)
    <3>1. s \in Has(db) /\ db.of[s].rel = cp.ids[s] /\ Complete(db, s)
      BY <1>6, <2>1 DEF Fits
    <3>2. new.of[s] = db.of[s] /\ (s = Feed => new.got = db.got /\ new.ixGot = db.ixGot)
      BY <1>1, <1>2, <2>1
    <3> QED
      BY <1>1, <1>5, <2>1, <3>1, <3>2 DEF Has, Complete
  <2>2. Only(new, cp.want)
    BY <1>1, <1>2 DEF Only, Sizes
  <2>3. ASSUME NEW s \in cp.want \ cp.current
        PROVE  1..cp.at[s] \subseteq new.of[s].rows /\ ~(cp.at[s] > 0)
    BY <1>4
  <2> QED
    BY <1>3, <2>1, <2>2, <2>3 DEF Fits
<1>7. CASE ~Sound(db)
  BY <1>2, <1>7 DEF Fits, Sound
<1> QED
  BY <1>6, <1>7

\* What a step on the file must keep of the catch-up: when its records, cutoff and flaws
\* stay, or only grow.
LEMMA CatchUpGrows ==
    ASSUME NEW db, NEW new, NEW F, NEW A, NEW cp,
           db.flaws \subseteq new.flaws, db.got \subseteq new.got, new.of[Feed].cut = db.of[Feed].cut
    PROVE  CatchesUp(db, F, A, cp) => CatchesUp(new, F, A, cp)
BY DEF CatchesUp, Follows, Fetched

\* The same of what is before the cutoff of the row.
LEMMA GaplessGrows ==
    ASSUME NEW db, NEW new, NEW F,
           db # NoDb, db.flaws \subseteq new.flaws, db.got \subseteq new.got,
           Feed \in Sources => new.of[Feed].cut = db.of[Feed].cut
    PROVE  Gapless(db, F) => Gapless(new, F)
BY DEF Gapless, Covers, Has

\* A catch-up that has not begun owes nothing.
LEMMA NoneFetched ==
    ASSUME Sizes, NEW db, NEW A, NEW cp, cp.began = -1, IInv
    PROVE  CatchesUp(db, feed, A, cp)
BY DEF CatchesUp, Fetched, IInv, Types, Records, Days

\* The pruning, once per checkpoint.
LEMMA PruneKeeps ==
    ASSUME Sizes, IInv, Prune
    PROVE  IInv'
<1> DEFINE new == Dropped(working, Sources \ run.cp.current)
           cq == [run.cp EXCEPT !.pruned = TRUE]
<1>0. /\ UNCHANGED <<day, release, feed, active, wal, checkpoint, hot, kills>>
      /\ run \in Runs /\ run.op = "provision" /\ run.pc = "prune"
      /\ At({"prune"}) /\ At(Started) /\ ~At({"seeded"}) /\ working # NoDb /\ working \in Db
      /\ checkpoint = run.cp /\ run.cp \in Checkpoints
  BY DEF Prune, Working, IInv, Types, Runs, At, Started, Open, Rest, CpOfRun
<1>1. CASE run.cp.pruned
  BY <1>0, <1>1, PrunedAlready DEF Prune
<1>2. CASE ~run.cp.pruned
  <2>1. working' = new /\ run' = [run EXCEPT !.pc = "pruned", !.cp.pruned = TRUE]
    BY <1>2 DEF Prune
  <2>2. /\ new \in Db /\ new.flaws = working.flaws
        /\ \A s \in Sources :
             new.of[s] = IF s \in Sources \ run.cp.current THEN Nothing ELSE working.of[s]
        /\ new.got = IF Feed \in Sources \ run.cp.current THEN {} ELSE working.got
    BY <1>0, DroppedIs
  <2>3. Fits(new, run.cp) /\ Fits(new, cq)
    <3>1. CpOrdered(run.cp) /\ run.cp.current \subseteq run.cp.want /\ Fits(working, run.cp)
      BY <1>0 DEF IInv, Rest, CpOfRun, CheckpointsOK, CpTyped, Content, WorkingOK
    <3> QED
      BY <1>0, <1>2, <3>1, DroppedFits
  <2>4. /\ cq \in Checkpoints /\ cq.pruned /\ cq.want = run.cp.want /\ cq.ids = run.cp.ids
        /\ cq.current = run.cp.current /\ cq.at = run.cp.at /\ cq.topic = run.cp.topic
        /\ cq.token = run.cp.token /\ cq.began = run.cp.began
    BY <1>0 DEF Checkpoints
  <2>5. run' = [run EXCEPT !.pc = "pruned", !.cp = cq]
    BY <1>0, <2>1 DEF Runs
  <2> HIDE DEF new, cq
  <2>6. /\ run' \in Runs /\ run'.op = "provision" /\ run'.pc = "pruned" /\ run'.want = run.want
        /\ run'.ids = run.ids /\ run'.until = run.until /\ run'.from = run.from
        /\ run'.cuts = run.cuts /\ run'.todo = run.todo /\ run'.cp = cq
    BY <1>0, <2>4, <2>5 DEF Runs, Stages, Started, Open
  <2>7. CpOrdered(run.cp) /\ run.cp.began = -1
    BY <1>0, <1>2 DEF IInv, Rest, CpOfRun, CpOrdered
  <2>8. new # NoDb
    BY <2>2, NoDbIsNone DEF Sizes
  <2>9. Types'
    BY <1>0, <2>1, <2>2, <2>6 DEF IInv, Types
  <2>10. CheckpointsOK'
    BY <1>0, <2>4, <2>6 DEF IInv, Rest, CheckpointsOK, CpTyped, CpOrdered
  <2>11. CutsPast'
    <3>1. \A s \in Has(new) : s \in Has(working) /\ new.of[s].cut = working.of[s].cut
      BY <1>0, <2>2, <2>8 DEF Has, Nothing
    <3> QED
      BY <1>0, <2>1, <3>1 DEF IInv, Rest, CutsPast
  <2>12. JobOK'
    BY <1>0, <2>6 DEF IInv, Rest, JobOK, At
  <2>13. CpOfRun'
    BY <1>0, <2>1, <2>4, <2>6, <2>7, <2>8 DEF IInv, Rest, CpOfRun, CpOrdered, At, Started, Open, Filling, Ingesting, Harvesting, Finished
  <2>14. StepsOK'
    BY <2>6 DEF StepsOK, Ingests, At, Filling, Ingesting, Harvesting, Finished
  <2>15. ActiveOK'
    BY <1>0 DEF IInv, Content, ActiveOK
  <2>16. WorkingOK'
    <3>1. Gapless(new, feed)
      <4>1. CASE Feed \in run.cp.current
        BY <1>0, <2>2, <4>1, GaplessGrows DEF IInv, Content, WorkingOK
      <4>2. CASE Feed \notin run.cp.current
        BY <2>2, <4>2 DEF Gapless, Has, Nothing
      <4> QED
        BY <4>1, <4>2
    <3>2. CatchesUp(new, feed, active, run.cp) /\ CatchesUp(new, feed, active, cq)
      BY <2>4, <2>7, NoneFetched
    <3> QED
      BY <1>0, <2>1, <2>3, <2>6, <3>1, <3>2 DEF WorkingOK, At
  <2>17. ReadyOK' /\ CaughtUpOK' /\ RefreshOK'
    BY <2>6 DEF ReadyOK, At, Finished, CaughtUpOK, CaughtUp, Ingesting, RefreshOK
  <2>18. BeganOK'
    BY <1>0, <2>4, <2>6 DEF IInv, Rest, BeganOK
  <2> QED
    BY <2>18, <2>9, <2>10, <2>11, <2>12, <2>13, <2>14, <2>15, <2>16, <2>17 DEF IInv, Rest, Content
<1> QED
  BY <1>1, <1>2

\* The new file is a copy of the active database, or none.
LEMMA DiscardKeeps ==
    ASSUME Sizes, IInv, Discard
    PROVE  IInv'
<1> DEFINE cp == NewCheckpoint
           copy == [active EXCEPT !.flaws = IF wal THEN @ \cup {"log"} ELSE @]
<1>0. /\ UNCHANGED <<day, release, feed, active, checkpoint, hot, kills>> /\ wal' = FALSE
      /\ run \in Runs /\ run.op = "provision" /\ run.pc = "plan" /\ run.want \in SUBSET Sources
      /\ run.ids \in [run.want -> 1..MaxRelease] /\ run.ids \in Acquired
      /\ working' = IF Current = {} THEN NoDb ELSE copy
      /\ run' = [run EXCEPT !.pc = "seeded", !.cp = cp]
      /\ CutsOf(run.cuts, active)
      /\ At({"plan"})
  BY DEF Discard, Working, IInv, Types, Runs, At, Rest, JobOK, CpOfRun
<1>1. /\ Current \in SUBSET Sources /\ Current \subseteq run.want
      /\ \A s \in Current : s \in Has(active) /\ active.of[s].rel = run.ids[s]
  BY <1>0, HasIs DEF Current
<1>2. /\ cp \in Checkpoints /\ cp.want = run.want /\ cp.ids = run.ids /\ cp.current = Current
      /\ ~cp.pruned /\ cp.at = [s \in run.want |-> 0] /\ cp.at \in [run.want -> 0..Batches]
      /\ cp.topic = 1 /\ cp.token = {} /\ cp.began = -1
  <2>1. /\ [s \in run.want |-> 0] \in [run.want -> 0..Batches]
        /\ [s \in run.want |-> 0] \in Offsets
    <3>1. [s \in run.want |-> 0] \in [run.want -> 0..Batches]
      BY DEF Sizes
    <3> QED
      BY <1>0, <3>1 DEF Offsets
  <2> QED
    BY <1>0, <1>1, <2>1 DEF NewCheckpoint, Checkpoints, Sizes
<1> HIDE DEF cp
<1>3. /\ run' \in Runs /\ run'.op = "provision" /\ run'.pc = "seeded" /\ run'.want = run.want
      /\ run'.ids = run.ids /\ run'.until = run.until /\ run'.from = run.from
      /\ run'.cuts = run.cuts /\ run'.todo = run.todo /\ run'.cp = cp
  BY <1>0, <1>2 DEF Runs, Stages, Started
<1>4. working' # NoDb =>
          /\ active # NoDb /\ active \in Db /\ working' \in Db
          /\ working'.of = active.of /\ working'.got = active.got /\ working'.ixGot = active.ixGot
          /\ active.flaws \subseteq working'.flaws
          /\ Has(working') = Has(active)
  <2>1. Current # {} => active # NoDb
    BY <1>1 DEF Has
  <2>2. CASE Current # {}
    <3>1. active \in Db
      BY <2>1, <2>2, HasIs
    <3>2. \/ wal /\ copy = [active EXCEPT !.flaws = @ \cup {"log"}]
          \/ ~wal /\ copy = active
      <4>1. CASE wal
        BY <4>1
      <4>2. CASE ~wal
        BY <3>1, <4>2 DEF Db
      <4> QED
        BY <4>1, <4>2
    <3>3. /\ copy \in Db /\ copy.of = active.of /\ copy.got = active.got /\ copy.ixGot = active.ixGot
          /\ active.flaws \subseteq copy.flaws
      BY <3>1, <3>2, FlawedIs DEF Flaws
    <3>4. copy # NoDb
      BY <3>3, NoDbIsNone DEF Sizes
    <3> QED
      BY <1>0, <2>1, <2>2, <3>1, <3>3, <3>4 DEF Has
  <2> QED
    BY <1>0, <2>2
<1> HIDE DEF copy
<1>5. working' = NoDb => Current = {}
  <2>1. CASE Current # {}
    <3>1. active # NoDb /\ active \in Db
      BY <1>1, <2>1, HasIs DEF Has
    <3>2. copy \in Db
      BY <3>1 DEF copy, Db, Flaws
    <3> QED
      BY <1>0, <2>1, <3>2, NoDbIsNone DEF Sizes
  <2> QED
    BY <2>1
<1>6. Types'
  BY <1>0, <1>3, <1>4 DEF IInv, Types
<1>7. CheckpointsOK'
  <2>1. CpTyped(cp)
    BY <1>0, <1>1, <1>2 DEF CpTyped, IInv, Types, Days, Sizes
  <2>2. CpTyped(run.cp)'
    BY <1>0, <1>3, <2>1 DEF CpTyped
  <2> QED
    BY <1>0, <2>2 DEF IInv, Rest, CheckpointsOK, CpTyped, CpOrdered
<1>8. CutsPast'
  BY <1>0, <1>4 DEF IInv, Rest, CutsPast, Has
<1>9. JobOK'
  BY <1>0, <1>3 DEF IInv, Rest, JobOK, At
<1>10. CpOfRun'
  BY <1>0, <1>2, <1>3, <1>5 DEF CpOfRun, CpOrdered, At, Started, Open, Filling, Ingesting, Harvesting, Finished
<1>11. StepsOK'
  BY <1>3 DEF StepsOK, Ingests, At, Filling, Ingesting, Harvesting, Finished
<1>12. ActiveOK'
  BY <1>0 DEF IInv, Content, ActiveOK
<1>13. WorkingOK'
  <2> SUFFICES ASSUME working' # NoDb
               PROVE  Gapless(working', feed) /\ Fits(working', cp) /\ CatchesUp(working', feed, active, cp)
    BY <1>0, <1>3 DEF WorkingOK, At
  <2>1. Gapless(working', feed)
    BY <1>4 DEF IInv, Content, ActiveOK, Gapless, Covers
  <2>2. Fits(working', cp)
    <3> SUFFICES ASSUME Sound(working')
                 PROVE  /\ \A s \in Current :
                               s \in Has(working') /\ working'.of[s].rel = run.ids[s] /\ Complete(working', s)
                        /\ \A s \in run.want : 1..cp.at[s] = {} /\ cp.at[s] = 0
      BY <1>2 DEF Fits
    <3>1. Served(active)
      BY <1>4 DEF IInv, Content, ActiveOK, Sound
    <3> QED
      BY <1>1, <1>2, <1>4, <3>1 DEF Served, Complete
  <2>3. CatchesUp(working', feed, active, cp)
    BY <1>2, NoneFetched
  <2> QED
    BY <2>1, <2>2, <2>3
<1>14. ReadyOK' /\ CaughtUpOK' /\ RefreshOK'
  BY <1>3 DEF ReadyOK, At, Finished, CaughtUpOK, CaughtUp, Ingesting, RefreshOK
<1>15. -1 <= run.until
  BY <1>0 DEF Runs, Days, Sizes
<1>16. BeganOK'
  BY <1>0, <1>2, <1>3, <1>15 DEF IInv, Rest, BeganOK
<1> QED
  BY <1>16, <1>6, <1>7, <1>8, <1>9, <1>10, <1>11, <1>12, <1>13, <1>14 DEF IInv, Rest, Content

\* From here the checkpoint on the disk is of the new file.
LEMMA SaveCheckpointKeeps ==
    ASSUME Sizes, IInv, SaveCheckpoint
    PROVE  IInv'
<1>0. /\ UNCHANGED <<day, release, feed, active, wal, hot, kills>> /\ checkpoint' = run.cp
      /\ run \in Runs /\ run.op = "provision" /\ run.pc = "seeded" /\ At(Started) /\ At({"seeded"})
      /\ run.cp \in Checkpoints /\ CpOrdered(run.cp) /\ ~run.cp.pruned
      /\ working = NoDb => run.cp.current = {}
      /\ working' = (IF working = NoDb THEN Empty ELSE working)
      /\ run' = [run EXCEPT !.pc = "prune"]
  BY DEF SaveCheckpoint, Working, IInv, Types, Runs, At, Rest, CpOfRun, Started
<1>1. /\ run' \in Runs /\ run'.op = "provision" /\ run'.pc = "prune" /\ run'.want = run.want
      /\ run'.ids = run.ids /\ run'.until = run.until /\ run'.from = run.from
      /\ run'.cuts = run.cuts /\ run'.todo = run.todo /\ run'.cp = run.cp
  BY <1>0 DEF Runs, Stages, Started, Open
<1>2. Empty \in Db /\ Empty # NoDb /\ Has(Empty) = {}
  BY EmptyIsDb, NoDbIsNone DEF Has, Nothing, Sizes
<1>3. working' # NoDb /\ working' \in Db
  BY <1>0, <1>2, HasIs
<1>4. Types'
  BY <1>0, <1>1, <1>3 DEF IInv, Types
<1>5. CheckpointsOK'
  BY <1>0, <1>1 DEF IInv, Rest, CheckpointsOK, CpTyped, CpOrdered
<1>6. CutsPast'
  BY <1>0, <1>2 DEF IInv, Rest, CutsPast
<1>7. JobOK'
  BY <1>0, <1>1 DEF IInv, Rest, JobOK, At
<1>8. CpOfRun'
  BY <1>0, <1>1, <1>3 DEF IInv, Rest, CpOfRun, CpOrdered, At, Started, Open, Filling, Ingesting, Harvesting, Finished
<1>9. StepsOK'
  BY <1>1 DEF StepsOK, Ingests, At, Filling, Ingesting, Harvesting, Finished
<1>10. ActiveOK'
  BY <1>0 DEF IInv, Content, ActiveOK
<1>11. WorkingOK'
  <2>1. CASE working = NoDb
    <3>1. Gapless(Empty, feed)
      BY <1>2 DEF Gapless
    <3>2. Fits(Empty, run.cp)
      BY <1>0, <2>1 DEF Fits, CpOrdered
    <3>3. CatchesUp(Empty, feed, active, run.cp)
      BY <1>0, NoneFetched DEF CpOrdered
    <3> QED
      BY <1>0, <1>1, <2>1, <3>1, <3>2, <3>3 DEF WorkingOK, At
  <2>2. CASE working # NoDb
    BY <1>0, <1>1, <2>2 DEF IInv, Content, WorkingOK, At
  <2> QED
    BY <2>1, <2>2
<1>12. ReadyOK' /\ CaughtUpOK' /\ RefreshOK'
  BY <1>1 DEF ReadyOK, At, Finished, CaughtUpOK, CaughtUp, Ingesting, RefreshOK
<1>13. BeganOK'
  BY <1>0, <1>1 DEF IInv, Rest, BeganOK
<1> QED
  BY <1>13, <1>4, <1>5, <1>6, <1>7, <1>8, <1>9, <1>10, <1>11, <1>12 DEF IInv, Rest, Content

-----------------------------------------------------------------------------
(* Ingestion and the catch-up.                                             *)

\* A checkpoint whose offset of one source is the next one.
Advanced(cp, s, cq) ==
    /\ cq \in Checkpoints /\ cq.want = cp.want /\ cq.ids = cp.ids /\ cq.current = cp.current
    /\ cq.pruned = cp.pruned /\ cq.topic = cp.topic /\ cq.token = cp.token /\ cq.began = cp.began
    /\ cq.at \in [cp.want -> 0..Batches] /\ cq.at[s] = cp.at[s] + 1
    /\ \A t \in cp.want \ {s} : cq.at[t] = cp.at[t]

\* The commit of a batch goes ahead of its checkpoint, and the next checkpoint follows.
LEMMA UpsertedFits ==
    ASSUME Sizes, NEW db \in Db, NEW cp \in Checkpoints, NEW cq, NEW s \in cp.want \ cp.current,
           cp.ids \in [cp.want -> 1..MaxRelease], cp.at \in [cp.want -> 0..Batches],
           cp.at[s] < Batches, Advanced(cp, s, cq), Fits(db, cp)
    PROVE  LET new == Upserted(db, s, cp.ids[s], cp.at[s] + 1)
           IN  Fits(new, cp) /\ Fits(new, cq)
<1> DEFINE new == Upserted(db, s, cp.ids[s], cp.at[s] + 1)
<1> SUFFICES Fits(new, cp) /\ Fits(new, cq)
  OBVIOUS
<1>1. /\ s \in Sources /\ cp.want \in SUBSET Sources /\ cp.current \in SUBSET Sources
      /\ cp.ids[s] \in 1..MaxRelease /\ cp.at[s] + 1 \in 1..Batches /\ cp.at[s] \in Nat
  BY DEF Checkpoints, Sizes
<1>2. /\ new \in Db
      /\ new.got = db.got /\ new.ixGot = db.ixGot /\ new.flaws = db.flaws
      /\ \A t \in Sources \ {s} : new.of[t] = db.of[t]
      /\ new.of[s].rel = cp.ids[s] /\ new.of[s].rows = db.of[s].rows \cup {cp.at[s] + 1}
      /\ new.of[s].indexed = db.of[s].indexed /\ new.of[s].cut = db.of[s].cut
  BY <1>1, UpsertedIs
<1> HIDE DEF new
<1>3. new # NoDb /\ db # NoDb
  BY <1>2, NoDbIsNone DEF Sizes
<1>4. CASE Sound(db)
  <2>1. ASSUME NEW t \in cp.current
        PROVE  t \in Has(new) /\ new.of[t].rel = cp.ids[t] /\ Complete(new, t)
    <3>1. t \in Has(db) /\ db.of[t].rel = cp.ids[t] /\ Complete(db, t)
      BY <1>4, <2>1 DEF Fits
    <3>2. new.of[t] = db.of[t]
      BY <1>1, <1>2, <2>1
    <3> QED
      BY <1>2, <1>3, <3>1, <3>2 DEF Has, Complete
  <2>2. cp.pruned => Only(new, cp.want)
    BY <1>1, <1>2, <1>4 DEF Fits, Only
  <2>3. ASSUME NEW t \in cp.want \ cp.current
        PROVE  /\ 1..cp.at[t] \subseteq new.of[t].rows
               /\ cp.at[t] > 0 => new.of[t].rel = cp.ids[t]
               /\ 1..cq.at[t] \subseteq new.of[t].rows
               /\ cq.at[t] > 0 => new.of[t].rel = cp.ids[t]
    <3>1. 1..cp.at[t] \subseteq db.of[t].rows /\ (cp.at[t] > 0 => db.of[t].rel = cp.ids[t])
      BY <1>4, <2>3 DEF Fits
    <3>2. CASE t # s
      BY <1>1, <1>2, <3>1, <3>2, <2>3 DEF Advanced
    <3>3. CASE t = s
      BY <1>1, <1>2, <3>1, <3>3, <2>3 DEF Advanced
    <3> QED
      BY <3>2, <3>3
  <2> QED
    BY <2>1, <2>2, <2>3 DEF Fits, Advanced
<1>5. CASE ~Sound(db)
  BY <1>2, <1>5 DEF Fits, Sound
<1> QED
  BY <1>4, <1>5

\* A batch and its offset.
LEMMA IngestKeeps ==
    ASSUME Sizes, IInv, Ingest
    PROVE  IInv'
<1> DEFINE s == run.src
           cp == run.cp
           new == Upserted(working, s, run.ids[s], cp.at[s] + 1)
           cq == [cp EXCEPT !.at[s] = @ + 1]
<1>0. /\ UNCHANGED <<day, release, feed, active, wal, checkpoint, hot, kills>>
      /\ run \in Runs /\ run.op = "provision" /\ run.pc = "ingest"
      /\ At({"ingest"}) /\ At(Ingesting) /\ At(Filling) /\ At(Started) /\ ~At({"seeded"})
      /\ working # NoDb /\ working \in Db /\ run.from = 0
      /\ checkpoint = cp /\ cp \in Checkpoints /\ cp.pruned /\ CpOrdered(cp)
      /\ cp.want = run.want /\ cp.ids = run.ids
      /\ s \in cp.want \ (cp.current \cup run.todo) /\ cp.want \in SUBSET Sources
      /\ cp.ids \in [cp.want -> 1..MaxRelease] /\ cp.at \in [cp.want -> 0..Batches]
      /\ cp.at[s] < Batches /\ cp.at[s] \in 0..Batches
      /\ working' = new
  <2>1. /\ UNCHANGED <<day, release, feed, active, wal, checkpoint, hot, kills>>
        /\ run \in Runs /\ run.op = "provision" /\ run.pc = "ingest"
        /\ At({"ingest"}) /\ At(Ingesting) /\ At(Filling) /\ At(Started) /\ ~At({"seeded"})
        /\ cp.at[s] < Batches /\ working' = new
    BY DEF Ingest, Working, IInv, Types, Runs, At, Ingesting, Filling, Started, Open
  <2>2. /\ working # NoDb /\ checkpoint = cp /\ cp.pruned /\ CpOrdered(cp)
        /\ cp.want = run.want /\ cp.ids = run.ids
    BY <2>1 DEF IInv, Rest, CpOfRun, Open, Filling, Ingesting
  <2>3. /\ working \in Db /\ cp \in Checkpoints /\ cp.want \in SUBSET Sources
    BY <2>1, <2>2, HasIs DEF Runs, Checkpoints
  <2>4. /\ s \in cp.want \ (cp.current \cup run.todo) /\ run.from = 0
        /\ cp.ids \in [cp.want -> 1..MaxRelease] /\ cp.at \in [cp.want -> 0..Batches]
    BY <2>1, <2>2 DEF IInv, Rest, StepsOK, CheckpointsOK, CpTyped
  <2> QED
    BY <2>1, <2>2, <2>3, <2>4
<1>1. Advanced(cp, s, cq) /\ cq.at = [cp.at EXCEPT ![s] = @ + 1]
  <2>1. /\ [cp.at EXCEPT ![s] = @ + 1] \in [cp.want -> 0..Batches]
        /\ [cp.at EXCEPT ![s] = @ + 1][s] = cp.at[s] + 1
        /\ \A t \in cp.want \ {s} : [cp.at EXCEPT ![s] = @ + 1][t] = cp.at[t]
    BY <1>0 DEF Sizes
  <2>2. [cp.at EXCEPT ![s] = @ + 1] \in Offsets
    BY <1>0, <2>1 DEF Offsets
  <2>3. cq = [cp EXCEPT !.at = [cp.at EXCEPT ![s] = @ + 1]]
    BY <1>0 DEF Checkpoints
  <2> HIDE DEF cp, cq
  <2> DEFINE at == [cp.at EXCEPT ![s] = @ + 1]
  <2> HIDE DEF at
  <2>4. /\ cq \in Checkpoints /\ cq.want = cp.want /\ cq.ids = cp.ids /\ cq.current = cp.current
        /\ cq.pruned = cp.pruned /\ cq.topic = cp.topic /\ cq.token = cp.token /\ cq.began = cp.began
        /\ cq.at = at
    BY <1>0, <2>2, <2>3 DEF Checkpoints, at
  <2> QED
    BY <2>1, <2>4 DEF Advanced, at
<1>2. Fits(new, cp) /\ Fits(new, cq)
  <2>1. Fits(working, cp)
    BY <1>0 DEF IInv, Content, WorkingOK
  <2> QED
    BY <1>0, <1>1, <2>1, UpsertedFits
<1>3. /\ new \in Db /\ new # NoDb
      /\ new.got = working.got /\ new.flaws = working.flaws
      /\ \A t \in Sources : new.of[t].cut = working.of[t].cut
  <2>1. cp.ids[s] \in 1..MaxRelease /\ cp.at[s] + 1 \in 1..Batches /\ s \in Sources
    BY <1>0 DEF Sizes
  <2>2. /\ new \in Db /\ new.got = working.got /\ new.flaws = working.flaws
        /\ \A t \in Sources \ {s} : new.of[t] = working.of[t]
        /\ new.of[s].cut = working.of[s].cut
    <3>1. run.ids[s] \in 1..MaxRelease
      BY <1>0, <2>1
    <3>2. \A t \in Sources, id \in 1..MaxRelease, b \in 1..Batches :
              LET u == Upserted(working, t, id, b)
              IN  /\ u \in Db /\ u.got = working.got /\ u.flaws = working.flaws
                  /\ \A x \in Sources \ {t} : u.of[x] = working.of[x]
                  /\ u.of[t].cut = working.of[t].cut
      BY <1>0, UpsertedIs
    <3> QED
      BY <2>1, <3>1, <3>2
  <2> HIDE DEF new
  <2> QED
    BY <2>2, NoDbIsNone DEF Sizes
<1>4. run' = [run EXCEPT !.pc = "ingested", !.cp = cq]
  BY <1>0 DEF Ingest, Runs
<1> HIDE DEF new, cq
<1>5. /\ run' \in Runs /\ run'.op = "provision" /\ run'.pc = "ingested" /\ run'.want = run.want
      /\ run'.ids = run.ids /\ run'.until = run.until /\ run'.from = run.from /\ run'.src = run.src
      /\ run'.cuts = run.cuts /\ run'.todo = run.todo /\ run'.cp = cq
  BY <1>0, <1>1, <1>4 DEF Advanced, Runs, Stages, Started, Open, Filling, Ingesting
<1>6. Types'
  BY <1>0, <1>3, <1>5 DEF IInv, Types
<1>7. CheckpointsOK'
  BY <1>0, <1>1, <1>5 DEF IInv, Rest, CheckpointsOK, CpTyped, CpOrdered, Advanced
<1>8. CutsPast'
  BY <1>0, <1>3 DEF IInv, Rest, CutsPast, Has
<1>9. JobOK'
  BY <1>0, <1>5 DEF IInv, Rest, JobOK, At
<1>10. CpOfRun'
  <2>1. CpOrdered(cq) /\ cq.pruned /\ cq.want = run.want /\ cq.ids = run.ids
    BY <1>0, <1>1 DEF CpOrdered, Advanced
  <2>2. CutsOf(run.cuts, active)
    BY <1>0 DEF IInv, Rest, CpOfRun, At, Started, Open, Filling, Ingesting
  <2> QED
    BY <1>0, <1>3, <1>5, <2>1, <2>2 DEF CpOfRun, CpOrdered, At
<1>11. StepsOK'
  BY <1>0, <1>1, <1>5 DEF IInv, Rest, StepsOK, Ingests, Advanced, At, Filling, Ingesting, Harvesting, Finished
<1>12. ActiveOK'
  BY <1>0 DEF IInv, Content, ActiveOK
<1>13. WorkingOK'
  <2>1. Gapless(new, feed)
    BY <1>0, <1>3, GaplessGrows DEF IInv, Content, WorkingOK
  <2>2. CatchesUp(new, feed, active, cp)
    BY <1>0, <1>3, CatchUpGrows DEF IInv, Content, WorkingOK, Sizes
  <2>3. CatchesUp(new, feed, active, cq)
    BY <1>1, <2>2 DEF CatchesUp, Follows, Fetched, Advanced
  <2> QED
    BY <1>0, <1>2, <1>5, <2>1, <2>2, <2>3 DEF WorkingOK, At
<1>14. ReadyOK'
  BY <1>5 DEF ReadyOK, At, Finished
<1>15. CaughtUpOK'
  BY <1>0, <1>1, <1>3, <1>5 DEF IInv, Content, CaughtUpOK, CaughtUp, Covers, Ingests, Advanced, At, Ingesting, Finished
<1>16. RefreshOK'
  BY <1>5 DEF RefreshOK
<1>17. BeganOK'
  BY <1>0, <1>1, <1>5 DEF IInv, Rest, BeganOK, Advanced
<1> QED
  BY <1>17, <1>6, <1>7, <1>8, <1>9, <1>10, <1>11, <1>12, <1>13, <1>14, <1>15, <1>16 DEF IInv, Rest, Content

\* What one request asks for: the rest of a list, or a new list.
Asked(cp, F, from, until) ==
    IF cp.token # {} THEN cp.token
    ELSE {r \in F : r[1] = cp.topic /\ r[2] >= from /\ r[2] <= until}

\* A request moves a catch-up on: what it brought is stored, and the token or the next
\* topic stands for the rest.
LEMMA PageFetches ==
    ASSUME Sizes, NEW db, NEW new, NEW F \in SUBSET Records, NEW cp \in Checkpoints, NEW cq, NEW more,
           NEW from \in Int, NEW until \in Int, NEW upto \in Int, upto <= until,
           \A r \in F : r[2] < from => r \in db.got,
           (cp.topic = 1 /\ cp.token = {}) \/ Fetched(db, F, cp, upto),
           new.got = db.got \cup (Asked(cp, F, from, until) \ more),
           cq.token = more, cq.topic = IF more = {} THEN cp.topic + 1 ELSE cp.topic
    PROVE  Fetched(new, F, cq, upto)
<1> DEFINE due == Asked(cp, F, from, until)
<1> SUFFICES ASSUME NEW r \in F, r[2] < upto
             PROVE  /\ r[1] < cq.topic => r \in new.got
                    /\ r[1] = cq.topic /\ cq.token # {} => r \in new.got \cup cq.token
  BY DEF Fetched
<1>1. /\ r[1] \in Int /\ r[1] >= 1 /\ r[2] \in Int /\ cp.topic \in Int
  BY DEF Records, Days, Checkpoints, Sizes
<1>2. r[1] < cp.topic => r \in new.got
  BY <1>1 DEF Fetched
<1>3. r[1] = cp.topic => r \in db.got \/ r \in due
  <2>1. CASE cp.token # {}
    BY <2>1 DEF Fetched, Asked
  <2>2. CASE cp.token = {}
    BY <1>1, <2>2 DEF Asked
  <2> QED
    BY <2>1, <2>2
<1>4. r[1] = cp.topic => r \in new.got \/ r \in more
  BY <1>3
<1> QED
  BY <1>1, <1>2, <1>4

\* What a catch-up asks for, it has up to its cutoff.
LEMMA CutoffCovers ==
    ASSUME Sizes, IInv, NEW db \in Db, NEW A, NEW cp, NEW from \in Int,
           from = IF Feed \in cp.current THEN A.of[Feed].cut ELSE 0,
           Gapless(db, feed), db.flaws = {}, Follows(db, A, cp)
    PROVE  Covers(db, feed, from)
<1>1. \A r \in feed : r[2] \in Int /\ r[2] >= 0
  BY DEF IInv, Types, Records, Days, Sizes
<1>2. db.of[Feed].cut \in Int /\ db # NoDb
  BY NoDbIsNone DEF Db, Held, Days, Sizes
<1>3. CASE from <= 0
  BY <1>1, <1>3 DEF Covers
<1>4. CASE from > 0
  <2>1. from <= db.of[Feed].cut
    BY <1>2, <1>4 DEF Follows
  <2>2. Feed \in Has(db)
    BY <1>2, <1>4, <2>1 DEF Has, Sizes
  <2> QED
    BY <1>1, <1>2, <2>1, <2>2 DEF Gapless, Covers
<1> QED
  BY <1>3, <1>4

\* A page changes nothing a checkpoint says of the sources.
LEMMA PageFits ==
    ASSUME Sizes, NEW db \in Db, NEW new \in Db, NEW cp \in Checkpoints, Feed \in cp.want,
           new.of = db.of, new.flaws = db.flaws, db.got \subseteq new.got,
           Feed \in cp.current /\ db.ixGot = db.got => new.ixGot = new.got,
           Fits(db, cp)
    PROVE  Fits(new, cp)
BY NoDbIsNone DEF Fits, Sound, Only, Complete, Has, Sizes

\* A page and its token.
LEMMA HarvestKeeps ==
    ASSUME Sizes, IInv, NEW more \in SUBSET feed, Harvest(more)
    PROVE  IInv'
<1> DEFINE cp == run.cp
           due == Asked(cp, feed, run.from, run.until)
           new == Harvested(working, due \ more, Feed \in cp.current)
           topic == IF more = {} THEN cp.topic + 1 ELSE cp.topic
           began == IF cp.began = -1 THEN run.until ELSE cp.began
           cq == [cp EXCEPT !.token = more, !.topic = topic, !.began = began]
<1>0. /\ UNCHANGED <<day, release, feed, active, wal, checkpoint, hot, kills>>
      /\ run \in Runs /\ run.op = "provision" /\ run.pc = "harvest" /\ cp.topic <= Topics
      /\ At({"harvest"}) /\ At(Harvesting) /\ At(Filling) /\ At(Started) /\ ~At({"seeded"})
      /\ working' = new /\ more \in SUBSET Records
  BY DEF Harvest, Asked, Due, Working, IInv, Types, Runs, At, Harvesting, Filling, Started, Open
<1>1. /\ working # NoDb /\ working \in Db
      /\ checkpoint = cp /\ cp \in Checkpoints /\ cp.pruned /\ CpOrdered(cp)
      /\ cp.want = run.want /\ cp.ids = run.ids
  BY <1>0, HasIs DEF IInv, Types, Runs, Rest, CpOfRun, Open, Filling, Harvesting
<1>2. /\ Feed \in run.want \ run.todo /\ Feed \in Sources
      /\ run.from = IF Feed \in cp.current THEN active.of[Feed].cut ELSE 0
      /\ Feed \in cp.current => Feed \in Has(active)
      /\ run.from \in Int /\ run.until \in Days /\ run.until \in Int /\ run.until <= day /\ run.until # -1
      /\ cp.began \in Int /\ cp.began <= run.until
  BY <1>0, <1>1 DEF IInv, Types, Runs, Checkpoints, Days, Sizes, Rest, StepsOK, JobOK, BeganOK
<1>3. due \in SUBSET Records
  BY <1>1 DEF Asked, Checkpoints, IInv, Types
<1> HIDE DEF due
<1>4. /\ new \in Db /\ new # NoDb /\ new.of = working.of /\ new.flaws = working.flaws
      /\ new.got = working.got \cup (due \ more)
      /\ new.ixGot = IF Feed \in cp.current THEN working.ixGot \cup (due \ more) ELSE working.ixGot
  <2>1. due \ more \in SUBSET Records /\ (Feed \in cp.current) \in BOOLEAN
    BY <1>3
  <2>2. /\ new \in Db /\ new.of = working.of /\ new.flaws = working.flaws
        /\ new.got = working.got \cup (due \ more)
        /\ new.ixGot = IF Feed \in cp.current THEN working.ixGot \cup (due \ more) ELSE working.ixGot
    <3>1. \A recs \in SUBSET Records, index \in BOOLEAN :
              LET u == Harvested(working, recs, index)
              IN  /\ u \in Db /\ u.of = working.of /\ u.flaws = working.flaws
                  /\ u.got = working.got \cup recs
                  /\ u.ixGot = IF index THEN working.ixGot \cup recs ELSE working.ixGot
      BY <1>1, HarvestedIs
    <3> QED
      BY <2>1, <3>1
  <2> QED
    BY <2>2, NoDbIsNone DEF Sizes
<1>5. /\ cq \in Checkpoints /\ cq.want = cp.want /\ cq.ids = cp.ids /\ cq.current = cp.current
      /\ cq.at = cp.at /\ cq.pruned = cp.pruned /\ cq.token = more
      /\ cq.topic = topic /\ cq.began = began
      /\ began \in Int /\ began <= run.until /\ began # -1
  <2>1. topic \in 1..(Topics + 1) /\ began \in {-1} \cup Days
    BY <1>0, <1>1, <1>2 DEF Checkpoints, Sizes
  <2>2. began \in Int /\ began <= run.until /\ began # -1
    BY <1>2
  <2> HIDE DEF topic, began
  <2>3. PICK x \in Checkpoints : x = cp
    BY <1>1
  <2>4. [x EXCEPT !.token = more, !.topic = topic, !.began = began] \in Checkpoints
    BY <1>0, <2>1 DEF Checkpoints
  <2> QED
    BY <2>2, <2>3, <2>4 DEF Checkpoints
<1>6. run' = [run EXCEPT !.pc = "harvested", !.cp = cq]
  BY <1>0, <1>1 DEF Harvest, Runs, Checkpoints
<1> HIDE DEF new, cq
<1>7. /\ run' \in Runs /\ run'.op = "provision" /\ run'.pc = "harvested" /\ run'.want = run.want
      /\ run'.ids = run.ids /\ run'.until = run.until /\ run'.from = run.from /\ run'.src = run.src
      /\ run'.cuts = run.cuts /\ run'.todo = run.todo /\ run'.cp = cq
  BY <1>0, <1>5, <1>6 DEF Runs, Stages, Started, Open, Filling, Harvesting
<1>8. Types'
  BY <1>0, <1>4, <1>7 DEF IInv, Types
<1>9. BeganOK'
  BY <1>0, <1>5, <1>7 DEF IInv, Rest, BeganOK
<1>10. CheckpointsOK'
  <2>1. cq.began <= day
    BY <1>2, <1>5 DEF IInv, Types, Days, Sizes
  <2> QED
    BY <1>0, <1>5, <1>7, <2>1 DEF IInv, Rest, CheckpointsOK, CpTyped, CpOrdered
<1>11. CutsPast'
  BY <1>0, <1>1, <1>4 DEF IInv, Rest, CutsPast, Has
<1>12. JobOK'
  BY <1>0, <1>7 DEF IInv, Rest, JobOK, At
<1>13. CpOfRun'
  <2>1. CpOrdered(cq)
    BY <1>0, <1>1, <1>5 DEF CpOrdered, Checkpoints, Sizes
  <2>2. CutsOf(run.cuts, active)
    BY <1>0 DEF IInv, Rest, CpOfRun, At, Started, Open, Filling, Harvesting
  <2> QED
    BY <1>0, <1>1, <1>4, <1>5, <1>7, <2>1, <2>2 DEF CpOfRun, CpOrdered, At
<1>14. StepsOK'
  BY <1>0, <1>5, <1>7 DEF IInv, Rest, StepsOK, Ingests, At, Filling, Ingesting, Harvesting, Finished
<1>15. ActiveOK'
  BY <1>0 DEF IInv, Content, ActiveOK
<1>16. WorkingOK'
  <2>0. Gapless(working, feed) /\ Fits(working, cp) /\ CatchesUp(working, feed, active, cp)
    BY <1>0, <1>1 DEF IInv, Content, WorkingOK
  <2>1. Gapless(new, feed)
    BY <1>1, <1>4, <2>0, GaplessGrows
  <2>2. CatchesUp(new, feed, active, cp)
    BY <1>4, <2>0, CatchUpGrows
  <2>3. CatchesUp(new, feed, active, cq)
    <3> SUFFICES ASSUME new.flaws = {}, Follows(new, active, cq)
                 PROVE  Fetched(new, feed, cq, cq.began)
      BY DEF CatchesUp
    <3>1. Follows(working, active, cp) /\ working.flaws = {}
      BY <1>4, <1>5 DEF Follows
    <3>2. \A r \in feed : r[2] < run.from => r \in working.got
      BY <1>1, <1>2, <2>0, <3>1, CutoffCovers DEF Covers
    <3>3. (cp.topic = 1 /\ cp.token = {}) \/ Fetched(working, feed, cp, cq.began)
      BY <1>1, <1>5, <2>0, <3>1 DEF CatchesUp, CpOrdered
    <3>4. new.got = working.got \cup (Asked(cp, feed, run.from, run.until) \ more)
      BY <1>4 DEF due
    <3>5. feed \in SUBSET Records /\ cq.began \in Int /\ cq.began <= run.until
      BY <1>5 DEF IInv, Types
    <3>6. cq.token = more /\ cq.topic = IF more = {} THEN cp.topic + 1 ELSE cp.topic
      BY <1>5
    <3> QED
      BY <1>1, <1>2, <3>2, <3>3, <3>4, <3>5, <3>6, PageFetches
  <2>4. Fits(new, cp) /\ Fits(new, cq)
    <3>1. Fits(new, cp)
      BY <1>1, <1>2, <1>4, <2>0, PageFits
    <3> QED
      BY <1>5, <3>1 DEF Fits
  <2> QED
    BY <1>0, <1>1, <1>7, <2>1, <2>2, <2>3, <2>4 DEF WorkingOK, At
<1>17. ReadyOK' /\ CaughtUpOK' /\ RefreshOK'
  BY <1>7 DEF ReadyOK, At, Finished, CaughtUpOK, CaughtUp, Ingesting, RefreshOK
<1> QED
  BY <1>8, <1>9, <1>10, <1>11, <1>12, <1>13, <1>14, <1>15, <1>16, <1>17 DEF IInv, Rest, Content

\* A catch-up is over: without a gap, everything before the run's day is there.
LEMMA HarvestDoneKeeps ==
    ASSUME Sizes, IInv, HarvestDone
    PROVE  IInv'
<1> DEFINE cp == run.cp
           gap == \/ cp.began \notin {-1, run.until}
                  \/ run.from > 0 /\ run.from > working.of[Feed].cut
           new == IF gap THEN [working EXCEPT !.flaws = @ \cup {"gap"}] ELSE working
           cq == [cp EXCEPT !.topic = 1, !.began = -1]
<1>0. /\ UNCHANGED <<day, release, feed, active, wal, checkpoint, hot, kills>>
      /\ run \in Runs /\ run.op = "provision" /\ run.pc = "harvest" /\ cp.topic > Topics
      /\ At({"harvest"}) /\ At(Harvesting) /\ At(Filling) /\ At(Started) /\ ~At({"seeded"})
      /\ working' = new
  BY DEF HarvestDone, Working, IInv, Types, Runs, At, Harvesting, Filling, Started, Open
<1>1. /\ working # NoDb /\ working \in Db
      /\ checkpoint = cp /\ cp \in Checkpoints /\ cp.pruned /\ CpOrdered(cp)
      /\ cp.want = run.want /\ cp.ids = run.ids
  BY <1>0, HasIs DEF IInv, Types, Runs, Rest, CpOfRun, Open, Filling, Harvesting
<1>2. /\ Feed \in run.want \ run.todo /\ Feed \in Sources
      /\ run.from = IF Feed \in cp.current THEN active.of[Feed].cut ELSE 0
      /\ Feed \in cp.current => Feed \in Has(active)
      /\ run.from \in Int /\ run.until \in Int /\ run.until # -1
      /\ -1 <= run.until /\ -1 <= day
  BY <1>0, <1>1 DEF IInv, Types, Runs, Days, Sizes, Rest, StepsOK, JobOK
<1>3. /\ new \in Db /\ new # NoDb /\ new.of = working.of /\ new.got = working.got /\ new.ixGot = working.ixGot
      /\ working.flaws \subseteq new.flaws
      /\ new.flaws = {} => ~gap
  <2>1. CASE gap
    <3>1. /\ new = [working EXCEPT !.flaws = @ \cup {"gap"}] /\ "gap" \in Flaws
      BY <2>1 DEF Flaws
    <3> QED
      BY <1>1, <2>1, <3>1, FlawedIs, NoDbIsNone DEF Sizes
  <2>2. CASE ~gap
    BY <1>1, <2>2
  <2> QED
    BY <2>1, <2>2
<1>4. /\ cq \in Checkpoints /\ cq.want = cp.want /\ cq.ids = cp.ids /\ cq.current = cp.current
      /\ cq.at = cp.at /\ cq.pruned = cp.pruned /\ cq.token = cp.token
      /\ cq.topic = 1 /\ cq.began = -1
  <2>1. 1 \in 1..(Topics + 1)
    BY DEF Sizes
  <2> QED
    BY <1>1, <2>1 DEF Checkpoints
<1>5. run' = [run EXCEPT !.pc = "caught", !.cp = cq]
  BY <1>0, <1>1 DEF HarvestDone, Runs, Checkpoints
<1> HIDE DEF new, cq
<1>6. /\ run' \in Runs /\ run'.op = "provision" /\ run'.pc = "caught" /\ run'.want = run.want
      /\ run'.ids = run.ids /\ run'.until = run.until /\ run'.from = run.from /\ run'.src = run.src
      /\ run'.cuts = run.cuts /\ run'.todo = run.todo /\ run'.cp = cq
  BY <1>0, <1>4, <1>5 DEF Runs, Stages, Started, Open, Filling, Harvesting
<1>8. Types'
  BY <1>0, <1>3, <1>6 DEF IInv, Types
<1>9. BeganOK'
  BY <1>0, <1>2, <1>4, <1>6 DEF IInv, Rest, BeganOK
<1>10. CheckpointsOK'
  BY <1>0, <1>2, <1>4, <1>6 DEF IInv, Rest, CheckpointsOK, CpTyped, CpOrdered
<1>11. CutsPast'
  BY <1>0, <1>1, <1>3 DEF IInv, Rest, CutsPast, Has
<1>12. JobOK'
  BY <1>0, <1>6 DEF IInv, Rest, JobOK, At
<1>13. CpOfRun'
  <2>1. CpOrdered(cq)
    BY <1>0, <1>1, <1>4 DEF CpOrdered
  <2>2. CutsOf(run.cuts, active)
    BY <1>0 DEF IInv, Rest, CpOfRun, At, Started, Open, Filling, Harvesting
  <2> QED
    BY <1>0, <1>1, <1>3, <1>4, <1>6, <2>1, <2>2 DEF CpOfRun, CpOrdered, At
<1>14. StepsOK'
  BY <1>0, <1>4, <1>6 DEF IInv, Rest, StepsOK, Ingests, At, Filling, Ingesting, Harvesting, Finished
<1>15. ActiveOK'
  BY <1>0 DEF IInv, Content, ActiveOK
<1>16. Gapless(working, feed) /\ Fits(working, cp) /\ CatchesUp(working, feed, active, cp)
  BY <1>0, <1>1 DEF IInv, Content, WorkingOK
<1>17. WorkingOK'
  <2>1. Gapless(new, feed)
    BY <1>1, <1>3, <1>16, GaplessGrows
  <2>2. CatchesUp(new, feed, active, cp)
    BY <1>3, <1>16, CatchUpGrows
  <2>3. CatchesUp(new, feed, active, cq)
    BY <1>4, NoneFetched
  <2>4. Fits(new, cp) /\ Fits(new, cq)
    <3>1. Fits(new, cp)
      BY <1>1, <1>3, <1>16 DEF Fits, Sound, Only, Complete, Has
    <3> QED
      BY <1>4, <3>1 DEF Fits
  <2> QED
    BY <1>0, <1>1, <1>6, <2>1, <2>2, <2>3, <2>4 DEF WorkingOK, At
<1>18. CaughtUpOK'
  <2> SUFFICES ASSUME new.flaws = {}
               PROVE  Covers(new, feed, run.until)
    BY <1>0, <1>4, <1>6 DEF CaughtUpOK
  <2>1. /\ working.flaws = {} /\ cp.began \in {-1, run.until}
        /\ ~(run.from > 0 /\ run.from > working.of[Feed].cut)
    BY <1>3
  <2>2. Follows(working, active, cp)
    <3>1. working.of[Feed].cut \in Int
      BY <1>1, <1>2 DEF Db, Held, Days, Sizes
    <3> QED
      BY <1>2, <2>1, <3>1 DEF Follows
  <2>3. Fetched(working, feed, cp, cp.began)
    BY <1>16, <2>1, <2>2 DEF CatchesUp
  <2>4. \A r \in feed : r[1] \in Int /\ r[1] <= Topics /\ r[1] >= 1
    BY DEF IInv, Types, Records, Sizes
  <2>5. \A r \in feed : r[1] < cp.topic
    BY <1>0, <1>1, <2>4 DEF Checkpoints, Sizes
  <2>6. CASE cp.began = run.until
    BY <1>3, <2>3, <2>5, <2>6 DEF Fetched, Covers
  <2>7. CASE cp.began = -1
    <3>1. feed = {}
      BY <1>0, <1>1, <2>4, <2>7 DEF CpOrdered, Sizes
    <3> QED
      BY <3>1 DEF Covers
  <2> QED
    BY <2>1, <2>6, <2>7
<1>19. ReadyOK' /\ RefreshOK'
  BY <1>6 DEF ReadyOK, At, Finished, RefreshOK
<1> QED
  BY <1>8, <1>9, <1>10, <1>11, <1>12, <1>13, <1>14, <1>15, <1>17, <1>18, <1>19 DEF IInv, Rest, Content

-----------------------------------------------------------------------------
(* The last transaction and the swap.                                      *)

\* Index and rows of one transaction.
FinishedIs(db, new, S, W, until) ==
    /\ new \in Db /\ new # NoDb /\ new.flaws = db.flaws /\ new.got = db.got
    /\ new.ixGot = IF Feed \in S THEN db.got ELSE db.ixGot
    /\ \A s \in Sources :
           /\ new.of[s].rel = db.of[s].rel /\ new.of[s].rows = db.of[s].rows
           /\ s \in S \/ db.of[s].indexed => new.of[s].indexed
           /\ new.of[s].cut = IF s \in W THEN until ELSE db.of[s].cut
           /\ s \notin W => new.of[s] = db.of[s]

\* index_source() and put_source() together.
LEMMA FinishIs ==
    ASSUME Sizes, NEW db \in Db, NEW W \in SUBSET Sources, NEW S \in SUBSET W, NEW until \in Days
    PROVE  FinishedIs(db, Recorded(Indexed(db, S), W, until), S, W, until)
<1> DEFINE mid == Indexed(db, S)
           new == Recorded(mid, W, until)
<1>1. S \in SUBSET Sources
  OBVIOUS
<1>2. /\ mid \in Db /\ mid.flaws = db.flaws /\ mid.got = db.got
      /\ \A s \in Sources :
             /\ mid.of[s].rel = db.of[s].rel /\ mid.of[s].rows = db.of[s].rows
             /\ mid.of[s].cut = db.of[s].cut
             /\ mid.of[s].indexed = (s \in S \/ db.of[s].indexed)
             /\ s \notin S => mid.of[s] = db.of[s]
      /\ mid.ixGot = IF Feed \in S THEN db.got ELSE db.ixGot
  BY <1>1, IndexedIs
<1> HIDE DEF mid
<1>3. /\ new \in Db /\ new.flaws = mid.flaws /\ new.got = mid.got /\ new.ixGot = mid.ixGot
      /\ \A s \in Sources :
             /\ new.of[s].rel = mid.of[s].rel /\ new.of[s].rows = mid.of[s].rows
             /\ new.of[s].indexed = mid.of[s].indexed
             /\ new.of[s].cut = IF s \in W THEN until ELSE mid.of[s].cut
             /\ s \notin W => new.of[s] = mid.of[s]
  <2>1. \A u \in Db :
            LET r == Recorded(u, W, until)
            IN  /\ r \in Db /\ r.flaws = u.flaws /\ r.got = u.got /\ r.ixGot = u.ixGot
                /\ \A s \in Sources :
                       /\ r.of[s].rel = u.of[s].rel /\ r.of[s].rows = u.of[s].rows
                       /\ r.of[s].indexed = u.of[s].indexed
                       /\ r.of[s].cut = IF s \in W THEN until ELSE u.of[s].cut
                       /\ s \notin W => r.of[s] = u.of[s]
    BY RecordedIs
  <2> QED
    BY <1>2, <2>1
<1> HIDE DEF new
<1>4. FinishedIs(db, new, S, W, until)
  BY <1>2, <1>3, NoDbIsNone DEF FinishedIs, Sizes
<1> QED
  BY <1>4 DEF new, mid

\* What Finish makes of a file whose sources are all ingested.
LEMMA FinishedReady ==
    ASSUME Sizes, NEW db \in Db, NEW new, NEW cp \in Checkpoints, NEW until \in Days,
           cp.ids \in [cp.want -> 1..MaxRelease], cp.current \subseteq cp.want,
           FinishedIs(db, new, cp.want \ cp.current, cp.want, until),
           cp.pruned, Fits(db, cp), \A s \in cp.want \ cp.current : cp.at[s] = Batches
    PROVE  Ready(new, cp.want, cp.ids) /\ Fits(new, cp)
<1>1. /\ cp.want \in SUBSET Sources /\ until # -1 /\ db # NoDb
  BY NoDbIsNone DEF Checkpoints, Days, Sizes
<1>2. CASE Sound(db)
  <2>1. /\ \A s \in cp.current : s \in Has(db) /\ db.of[s].rel = cp.ids[s] /\ Complete(db, s)
        /\ Only(db, cp.want)
        /\ \A s \in cp.want \ cp.current : 1..Batches \subseteq db.of[s].rows /\ db.of[s].rel = cp.ids[s]
    BY <1>2 DEF Fits, Sizes
  <2>2. \A s \in cp.want \ cp.current : new.of[s].rows = 1..Batches
    BY <1>1, <2>1 DEF FinishedIs, Db, Held
  <2>3. \A s \in cp.want : Complete(new, s) /\ new.of[s].rel = cp.ids[s]
    <3>1. ASSUME NEW s \in cp.current
          PROVE  Complete(new, s) /\ new.of[s].rel = cp.ids[s]
      BY <1>1, <2>1 DEF Complete, FinishedIs
    <3>2. ASSUME NEW s \in cp.want \ cp.current
          PROVE  Complete(new, s) /\ new.of[s].rel = cp.ids[s]
      BY <1>1, <2>1, <2>2 DEF Complete, FinishedIs
    <3> QED
      BY <3>1, <3>2
  <2>4. Has(new) = cp.want
    <3>1. ASSUME NEW s \in Sources \ cp.want
          PROVE  new.of[s].cut = -1
      BY <2>1, <3>1 DEF Only, Nothing, FinishedIs
    <3> QED
      BY <1>1, <3>1 DEF Has, FinishedIs
  <2>5. Only(new, cp.want)
    BY <2>1 DEF Only, FinishedIs
  <2>6. \A s \in cp.want \ cp.current : 1..cp.at[s] \subseteq new.of[s].rows
    BY <2>2
  <2> QED
    BY <2>3, <2>4, <2>5, <2>6 DEF Ready, Served, Fits
<1>3. CASE ~Sound(db)
  BY <1>3 DEF FinishedIs, Fits, Ready, Sound
<1> QED
  BY <1>2, <1>3

\* The last transaction.
LEMMA FinishKeeps ==
    ASSUME Sizes, IInv, Finish
    PROVE  IInv'
<1> DEFINE cp == run.cp
           new == Recorded(Indexed(working, run.want \ cp.current), run.want, run.until)
<1>0. /\ UNCHANGED <<day, release, feed, active, wal, checkpoint, hot, kills>>
      /\ run \in Runs /\ run.op = "provision" /\ run.pc = "next" /\ run.todo = {}
      /\ At({"next"}) /\ At(Filling) /\ At(Started) /\ ~At({"seeded"})
      /\ CaughtUp <=> Feed \in run.want
  BY DEF Finish, Working, IInv, Types, Runs, At, Filling, Started, Open, CaughtUp, Ingests, Ingesting
<1>1. CASE Fails /\ UNCHANGED working
  BY <1>0, <1>1, FailKeeps
<1>2. CASE working' = new /\ run' = [run EXCEPT !.pc = "verify"]
  <2>1. /\ working # NoDb /\ working \in Db
        /\ checkpoint = cp /\ cp \in Checkpoints /\ cp.pruned /\ CpOrdered(cp)
        /\ cp.want = run.want /\ cp.ids = run.ids /\ run.want \in SUBSET Sources
        /\ run.until \in Days /\ run.until <= day /\ run.until # -1
        /\ cp.ids \in [cp.want -> 1..MaxRelease] /\ cp.current \subseteq cp.want
        /\ \A s \in cp.want \ cp.current : cp.at[s] = Batches
    <3>1. /\ working # NoDb /\ checkpoint = cp /\ cp.pruned /\ CpOrdered(cp)
          /\ cp.want = run.want /\ cp.ids = run.ids
      BY <1>0 DEF IInv, Rest, CpOfRun, Open, Filling
    <3>2. /\ working \in Db /\ cp \in Checkpoints /\ run.want \in SUBSET Sources
          /\ run.until \in Days /\ run.until <= day /\ run.until # -1
      BY <1>0, <3>1, HasIs DEF IInv, Types, Runs, Rest, JobOK
    <3>3. cp.ids \in [cp.want -> 1..MaxRelease] /\ cp.current \subseteq cp.want
      BY DEF IInv, Rest, CheckpointsOK, CpTyped
    <3>4. \A s \in cp.want \ cp.current : cp.at[s] = Batches
      BY <1>0, <3>1 DEF IInv, Rest, StepsOK, Ingests, At, Ingesting
    <3> QED
      BY <3>1, <3>2, <3>3, <3>4
  <2>2. FinishedIs(working, new, cp.want \ cp.current, run.want, run.until)
    BY <2>1, FinishIs
  <2> HIDE DEF new
  <2>3. Gapless(working, feed) /\ Fits(working, cp) /\ CatchesUp(working, feed, active, cp)
    BY <1>0, <2>1 DEF IInv, Content, WorkingOK
  <2>4. Ready(new, run.want, run.ids) /\ Fits(new, cp)
    BY <2>1, <2>2, <2>3, FinishedReady
  <2>5. /\ run' \in Runs /\ run'.op = "provision" /\ run'.pc = "verify" /\ run'.want = run.want
        /\ run'.ids = run.ids /\ run'.until = run.until /\ run'.from = run.from
        /\ run'.cuts = run.cuts /\ run'.src = run.src /\ run'.todo = run.todo /\ run'.cp = cp
    BY <1>0, <1>2 DEF Runs, Stages, Started, Open, Filling, Finished
  <2>6. new \in Db /\ new # NoDb /\ new.flaws = working.flaws /\ new.got = working.got
    BY <2>2 DEF FinishedIs
  <2>7. Feed \in run.want =>
            cp.began = -1 /\ (working.flaws = {} => Covers(working, feed, run.until))
    BY <1>0 DEF IInv, Content, CaughtUpOK
  <2>8. Types'
    BY <1>0, <1>2, <2>5, <2>6 DEF IInv, Types
  <2>9. BeganOK'
    BY <1>0, <2>5 DEF IInv, Rest, BeganOK
  <2>10. CheckpointsOK'
    BY <1>0, <2>5 DEF IInv, Rest, CheckpointsOK, CpTyped, CpOrdered
  <2>11. CutsPast'
    <3>1. \A s \in Has(new) : new.of[s].cut <= day
      BY <2>1, <2>2 DEF FinishedIs, IInv, Rest, CutsPast, Has
    <3> QED
      BY <1>0, <1>2, <3>1 DEF IInv, Rest, CutsPast
  <2>12. JobOK'
    BY <1>0, <2>5 DEF IInv, Rest, JobOK, At
  <2>13. CpOfRun'
    BY <1>0, <1>2, <2>5, <2>6 DEF IInv, Rest, CpOfRun, CpOrdered, At, Started, Open, Filling, Ingesting, Harvesting, Finished
  <2>14. StepsOK'
    BY <1>0, <2>5 DEF IInv, Rest, StepsOK, Ingests, At, Filling, Ingesting, Harvesting, Finished
  <2>15. ActiveOK'
    BY <1>0 DEF IInv, Content, ActiveOK
  <2>16. WorkingOK'
    <3>1. CASE Feed \in run.want
      <4>1. Gapless(new, feed)
        BY <2>2, <2>6, <2>7, <3>1 DEF Gapless, Covers, FinishedIs, Sizes
      <4>2. CatchesUp(new, feed, active, cp)
        BY <2>7, <3>1, NoneFetched
      <4> QED
        BY <1>0, <1>2, <2>1, <2>4, <2>5, <4>1, <4>2 DEF WorkingOK, At
    <3>2. CASE Feed \notin run.want
      <4>1. new.of[Feed].cut = working.of[Feed].cut
        BY <2>2, <3>2 DEF FinishedIs, Sizes
      <4>2. Gapless(new, feed)
        BY <2>1, <2>3, <2>6, <4>1, GaplessGrows
      <4>3. CatchesUp(new, feed, active, cp)
        BY <2>3, <2>6, <4>1, CatchUpGrows
      <4> QED
        BY <1>0, <1>2, <2>1, <2>4, <2>5, <4>2, <4>3 DEF WorkingOK, At
    <3> QED
      BY <3>1, <3>2
  <2>17. ReadyOK'
    BY <1>2, <2>4, <2>5 DEF ReadyOK, At
  <2>18. CaughtUpOK'
    BY <1>0, <1>2, <2>5, <2>6, <2>7 DEF CaughtUpOK, CaughtUp, Covers
  <2>19. RefreshOK'
    BY <2>5 DEF RefreshOK
  <2> QED
    BY <2>8, <2>9, <2>10, <2>11, <2>12, <2>13, <2>14, <2>15, <2>16, <2>17, <2>18, <2>19 DEF IInv, Rest, Content
<1> QED
  BY <1>1, <1>2 DEF Finish, Reingested

\* The new file is served.
LEMMA ActivateKeeps ==
    ASSUME Sizes, IInv, Activate
    PROVE  IInv'
<1>0. /\ UNCHANGED <<day, release, feed, wal, checkpoint, hot, kills>>
      /\ run \in Runs /\ run.op = "provision" /\ run.pc = "activate"
      /\ active' = working /\ working' = NoDb
      /\ At({"activate"}) /\ At(Finished) /\ At(Filling) /\ At(Started) /\ ~At({"seeded"})
      /\ run' = [run EXCEPT !.pc = "done"]
  BY DEF Activate, Working, IInv, Types, At, Finished, Filling, Started, Open
<1>1. /\ run' \in Runs /\ run'.op = "provision" /\ run'.pc = "done" /\ run'.want = run.want
      /\ run'.ids = run.ids /\ run'.until = run.until /\ run'.from = run.from
      /\ run'.cuts = run.cuts /\ run'.src = run.src /\ run'.todo = run.todo /\ run'.cp = run.cp
  BY <1>0 DEF Runs, Stages, Started
<1>2. working # NoDb
  BY <1>0 DEF IInv, Rest, CpOfRun, Open, Filling, Finished
<1>3. Types'
  BY <1>0, <1>1 DEF IInv, Types
<1>4. BeganOK'
  BY <1>0, <1>1 DEF IInv, Rest, BeganOK
<1>5. CheckpointsOK'
  BY <1>0, <1>1 DEF IInv, Rest, CheckpointsOK, CpTyped, CpOrdered
<1>6. CutsPast'
  BY <1>0 DEF IInv, Rest, CutsPast, Has
<1>7. JobOK'
  BY <1>0, <1>1 DEF IInv, Rest, JobOK, At
<1>8. CpOfRun'
  BY <1>0, <1>1 DEF IInv, Rest, CpOfRun, CpOrdered, At, Started, Open, Filling, Ingesting, Harvesting, Finished
<1>9. StepsOK'
  BY <1>1 DEF StepsOK, At, Filling, Ingesting, Harvesting, Finished
<1>10. ActiveOK'
  <2>1. Ready(working, run.want, run.ids) /\ Gapless(working, feed)
    BY <1>0, <1>2 DEF IInv, Content, ReadyOK, WorkingOK
  <2> QED
    BY <1>0, <2>1 DEF ActiveOK, Ready
<1>11. WorkingOK'
  BY <1>0 DEF WorkingOK
<1>12. ReadyOK'
  BY <1>0, <1>1, <1>2 DEF IInv, Content, ReadyOK, At, Finished
<1>13. CaughtUpOK' /\ RefreshOK'
  BY <1>1 DEF CaughtUpOK, CaughtUp, RefreshOK, At, Ingesting, Finished
<1> QED
  BY <1>3, <1>4, <1>5, <1>6, <1>7, <1>8, <1>9, <1>10, <1>11, <1>12, <1>13 DEF IInv, Rest, Content

-----------------------------------------------------------------------------
(* The refresh in place, and the theorems.                                 *)

\* A page of a refresh, stored and indexed at once.
LEMMA RefreshPageKeeps ==
    ASSUME Sizes, IInv, NEW more \in SUBSET feed, RefreshPage(more)
    PROVE  IInv'
<1> DEFINE cp == run.cp
           due == Asked(cp, feed, run.from, run.until)
           new == Harvested(active, due \ more, TRUE)
           topic == IF more = {} THEN cp.topic + 1 ELSE cp.topic
           cq == [cp EXCEPT !.token = more, !.topic = topic]
<1>0. /\ UNCHANGED <<day, release, feed, working, wal, checkpoint, hot, kills>>
      /\ run \in Runs /\ cp \in Checkpoints /\ run.op = "refresh" /\ cp.topic <= Topics
      /\ active' = new /\ more \in SUBSET Records
  BY DEF RefreshPage, Asked, Due, IInv, Types, Runs
<1>1. /\ run.pc = "harvest" /\ Feed \in Has(active) /\ run.from = active.of[Feed].cut
      /\ cp.want = {} /\ ~cp.pruned /\ active # NoDb /\ active \in Db
      /\ run.from \in Int /\ run.until \in Int
  BY <1>0, HasIs DEF IInv, Types, Runs, Days, Sizes, Rest, JobOK, Has
<1>2. due \in SUBSET Records
  BY <1>0 DEF Asked, Checkpoints, IInv, Types
<1> HIDE DEF due
<1>3. /\ new \in Db /\ new # NoDb /\ new.of = active.of /\ new.flaws = active.flaws
      /\ new.got = active.got \cup (due \ more) /\ new.ixGot = active.ixGot \cup (due \ more)
  <2>1. \A recs \in SUBSET Records :
            LET u == Harvested(active, recs, TRUE)
            IN  /\ u \in Db /\ u.of = active.of /\ u.flaws = active.flaws
                /\ u.got = active.got \cup recs /\ u.ixGot = active.ixGot \cup recs
    BY <1>1, HarvestedIs
  <2> QED
    BY <1>2, <2>1, NoDbIsNone DEF Sizes
<1>4. /\ cq \in Checkpoints /\ cq.want = cp.want /\ cq.ids = cp.ids /\ cq.current = cp.current
      /\ cq.at = cp.at /\ cq.pruned = cp.pruned /\ cq.token = more /\ cq.topic = topic
      /\ cq.began = cp.began
  <2>1. topic \in 1..(Topics + 1)
    BY <1>0 DEF Checkpoints, Sizes
  <2> HIDE DEF topic
  <2> QED
    BY <1>0, <2>1 DEF Checkpoints
<1>5. run' = [run EXCEPT !.cp = cq]
  BY <1>0 DEF RefreshPage, Runs, Checkpoints
<1> HIDE DEF new, cq
<1>6. /\ run' \in Runs /\ run'.op = "refresh" /\ run'.pc = "harvest" /\ run'.want = run.want
      /\ run'.until = run.until /\ run'.from = run.from /\ run'.cp = cq
  BY <1>0, <1>1, <1>4, <1>5 DEF Runs
<1>7. Has(new) = Has(active)
  BY <1>1, <1>3 DEF Has
<1>8. Types'
  BY <1>0, <1>3, <1>6 DEF IInv, Types
<1>9. BeganOK'
  BY <1>6 DEF BeganOK
<1>10. CheckpointsOK'
  BY <1>0, <1>4, <1>6 DEF IInv, Rest, CheckpointsOK, CpTyped, CpOrdered
<1>11. CutsPast'
  BY <1>0, <1>3, <1>7 DEF IInv, Rest, CutsPast
<1>12. JobOK'
  BY <1>0, <1>1, <1>3, <1>4, <1>6, <1>7 DEF IInv, Rest, JobOK, At
<1>13. CpOfRun' /\ StepsOK'
  BY <1>6 DEF CpOfRun, StepsOK, At
<1>14. ActiveOK'
  <2>1. Gapless(active, feed) /\ (Sound(active) => Served(active))
    BY <1>1 DEF IInv, Content, ActiveOK
  <2>2. Gapless(new, feed)
    BY <1>1, <1>3, <2>1, GaplessGrows
  <2>3. Sound(new) => Served(new)
    BY <1>1, <1>3, <1>7, <2>1 DEF Sound, Served, Complete, Only
  <2> QED
    BY <1>0, <2>2, <2>3 DEF ActiveOK
<1>15. WorkingOK'
  <2>1. \A db, c : CatchesUp(db, feed, active, c) <=> CatchesUp(db, feed, new, c)
    BY <1>3, <1>7 DEF CatchesUp, Follows
  <2> QED
    BY <1>0, <1>6, <2>1 DEF IInv, Content, WorkingOK, At
<1>16. ReadyOK' /\ CaughtUpOK'
  BY <1>6 DEF ReadyOK, CaughtUpOK, CaughtUp, At
<1>17. RefreshOK'
  <2> SUFFICES ASSUME active.flaws = {}
               PROVE  Fetched(new, feed, cq, run.until)
    BY <1>0, <1>3, <1>6 DEF RefreshOK
  <2>1. \A r \in feed : r[2] < run.from => r \in active.got
    BY <1>1 DEF IInv, Content, ActiveOK, Gapless, Covers
  <2>2. Fetched(active, feed, cp, run.until)
    BY <1>0 DEF IInv, Content, RefreshOK
  <2>3. new.got = active.got \cup (Asked(cp, feed, run.from, run.until) \ more)
    BY <1>3 DEF due
  <2>4. feed \in SUBSET Records /\ run.until <= run.until
    BY <1>1 DEF IInv, Types
  <2>5. cq.token = more /\ cq.topic = IF more = {} THEN cp.topic + 1 ELSE cp.topic
    BY <1>4
  <2> QED
    BY <1>0, <1>1, <2>1, <2>2, <2>3, <2>4, <2>5, PageFetches
<1> QED
  BY <1>8, <1>9, <1>10, <1>11, <1>12, <1>13, <1>14, <1>15, <1>16, <1>17 DEF IInv, Rest, Content

\* A refresh writes its cutoff.
LEMMA RefreshDoneKeeps ==
    ASSUME Sizes, IInv, RefreshDone
    PROVE  IInv'
<1> DEFINE new == Recorded(active, {Feed}, run.until)
<1>0. /\ UNCHANGED <<day, release, feed, working, wal, checkpoint, hot, kills>>
      /\ run \in Runs /\ run.cp \in Checkpoints /\ run.op = "refresh" /\ run.cp.topic > Topics
      /\ active' = new
      /\ run' = NoRun /\ NoRun.op = "none" /\ NoRun.cp = NoCheckpoint /\ NoRun.until = -1
  BY DEF RefreshDone, Fails, NoRun, IInv, Types, Runs
<1>1. /\ Feed \in Has(active) /\ active # NoDb /\ active \in Db
      /\ run.until \in Days /\ run.until \in Int /\ run.until # -1 /\ run.until <= day
      /\ run.until >= 0
  BY <1>0, HasIs DEF IInv, Types, Runs, Days, Sizes, Rest, JobOK, Has
<1>2. /\ new \in Db /\ new # NoDb /\ new.flaws = active.flaws /\ new.got = active.got
      /\ new.ixGot = active.ixGot
      /\ \A s \in Sources :
             /\ new.of[s].rel = active.of[s].rel /\ new.of[s].rows = active.of[s].rows
             /\ new.of[s].indexed = active.of[s].indexed
             /\ new.of[s].cut = IF s = Feed THEN run.until ELSE active.of[s].cut
             /\ s # Feed => new.of[s] = active.of[s]
  <2>1. \A S \in SUBSET Sources, until \in Days :
            LET r == Recorded(active, S, until)
            IN  /\ r \in Db /\ r.flaws = active.flaws /\ r.got = active.got /\ r.ixGot = active.ixGot
                /\ \A s \in Sources :
                       /\ r.of[s].rel = active.of[s].rel /\ r.of[s].rows = active.of[s].rows
                       /\ r.of[s].indexed = active.of[s].indexed
                       /\ r.of[s].cut = IF s \in S THEN until ELSE active.of[s].cut
                       /\ s \notin S => r.of[s] = active.of[s]
    BY <1>1, RecordedIs
  <2>2. {Feed} \in SUBSET Sources /\ \A s : s \in {Feed} <=> s = Feed
    BY DEF Sizes
  <2> DEFINE S == {Feed}
  <2> HIDE DEF S
  <2>3. S \in SUBSET Sources /\ \A s : s \in S <=> s = Feed
    BY <2>2 DEF S
  <2>4. new = Recorded(active, S, run.until)
    BY DEF S
  <2>5. LET r == Recorded(active, S, run.until)
        IN  /\ r \in Db /\ r.flaws = active.flaws /\ r.got = active.got /\ r.ixGot = active.ixGot
            /\ \A s \in Sources :
                   /\ r.of[s].rel = active.of[s].rel /\ r.of[s].rows = active.of[s].rows
                   /\ r.of[s].indexed = active.of[s].indexed
                   /\ r.of[s].cut = IF s \in S THEN run.until ELSE active.of[s].cut
                   /\ s \notin S => r.of[s] = active.of[s]
    BY <1>1, <2>1, <2>3
  <2> HIDE DEF new
  <2>6. new # NoDb
    BY <2>4, <2>5, NoDbIsNone DEF Sizes
  <2> QED
    BY <2>3, <2>4, <2>5, <2>6
<1> HIDE DEF new
<1>3. Has(new) = Has(active)
  BY <1>1, <1>2 DEF Has
<1>4. Types'
  BY <1>0, <1>2, NoRunIs DEF IInv, Types
<1>5. CheckpointsOK'
  <2>1. CpTyped(NoCheckpoint)'
    BY <1>0, NoRunIs DEF CpTyped, NoCheckpoint, IInv, Types, Days
  <2> QED
    BY <1>0, <2>1 DEF IInv, Rest, CheckpointsOK, CpTyped, CpOrdered
<1>6. CutsPast'
  <2>1. \A s \in Has(new) : new.of[s].cut <= day
    BY <1>1, <1>2, <1>3 DEF Has, IInv, Rest, CutsPast
  <2> QED
    BY <1>0, <2>1 DEF IInv, Rest, CutsPast
<1>7. JobOK' /\ CpOfRun' /\ StepsOK' /\ BeganOK'
  BY <1>0 DEF JobOK, CpOfRun, StepsOK, BeganOK, At, IInv, Types, Days
<1>8. ActiveOK'
  <2>1. Sound(new) => Served(new)
    BY <1>1, <1>2, <1>3 DEF IInv, Content, ActiveOK, Sound, Served, Complete, Only, Has
  <2>2. Gapless(new, feed)
    <3> SUFFICES ASSUME new.flaws = {}, NEW r \in feed, r[2] < run.until
                 PROVE  r \in active.got
      BY <1>2 DEF Gapless, Covers, Sizes
    <3>1. Fetched(active, feed, run.cp, run.until)
      BY <1>0, <1>2 DEF IInv, Content, RefreshOK
    <3>2. r[1] < run.cp.topic
      BY <1>0 DEF IInv, Types, Records, Checkpoints, Sizes
    <3> QED
      BY <3>1, <3>2 DEF Fetched
  <2> QED
    BY <1>0, <2>1, <2>2 DEF ActiveOK
<1>9. WorkingOK'
  <2> SUFFICES ASSUME working # NoDb
               PROVE  Gapless(working, feed) /\ Fits(working, checkpoint)
                      /\ CatchesUp(working, feed, new, checkpoint)
    BY <1>0 DEF WorkingOK, At
  <2>1. Gapless(working, feed) /\ Fits(working, checkpoint) /\ CatchesUp(working, feed, active, checkpoint)
    BY <1>0 DEF IInv, Content, WorkingOK, At
  <2>2. active.of[Feed].cut \in Int /\ active.of[Feed].cut <= new.of[Feed].cut
    <3>1. active.of[Feed].cut \in Days /\ active.of[Feed].cut = run.from
      BY <1>0, <1>1, HasIs DEF IInv, Rest, JobOK
    <3>2. active.of[Feed].cut <= run.until
      BY <1>0, <3>1 DEF IInv, Rest, JobOK
    <3> QED
      BY <1>1, <1>2, <3>1, <3>2 DEF Days, Sizes
  <2>3. Follows(working, new, checkpoint) => Follows(working, active, checkpoint)
    <3>1. working.of[Feed].cut \in Int /\ new.of[Feed].cut \in Int
      BY <1>1, <1>2, HasIs DEF Db, Held, Days, Sizes
    <3> QED
      BY <1>3, <2>2, <3>1 DEF Follows
  <2> QED
    BY <2>1, <2>3 DEF CatchesUp
<1>10. ReadyOK' /\ CaughtUpOK' /\ RefreshOK'
  BY <1>0 DEF ReadyOK, CaughtUpOK, CaughtUp, RefreshOK, At
<1> QED
  BY <1>4, <1>5, <1>6, <1>7, <1>8, <1>9, <1>10 DEF IInv, Rest, Content

\* Nothing is stored at first.
LEMMA InitInv ==
    ASSUME Sizes, Init
    PROVE  IInv
<1>1. /\ day = 0 /\ release = [s \in Sources |-> 1] /\ feed = {}
      /\ active = NoDb /\ working = NoDb /\ wal = FALSE /\ hot = "none"
      /\ checkpoint = NoCheckpoint /\ run = NoRun /\ kills = 0
      /\ NoRun.op = "none" /\ NoRun.cp = NoCheckpoint /\ NoRun.until = -1
  BY DEF Init, NoRun
<1>2. Types
  <2>1. 0 \in Days /\ 0 \in 0..MaxKills /\ [s \in Sources |-> 1] \in [Sources -> 1..MaxRelease]
    BY DEF Days, Sizes
  <2> QED
    BY <1>1, <2>1, NoRunIs DEF Types
<1>3. CheckpointsOK
  <2>1. CpOrdered(NoCheckpoint)
    BY DEF CpOrdered, NoCheckpoint
  <2> QED
    BY <1>1, <2>1, NoRunIs DEF CheckpointsOK, CpTyped, NoCheckpoint
<1>4. Rest
  BY <1>1, <1>3 DEF Rest, BeganOK, CutsPast, Has, JobOK, CpOfRun, StepsOK, At
<1>5. Content
  BY <1>1 DEF Content, ActiveOK, WorkingOK, ReadyOK, CaughtUpOK, CaughtUp, RefreshOK, At
<1> QED
  BY <1>2, <1>4, <1>5 DEF IInv

\* Every step keeps the invariant.
LEMMA NextInv ==
    ASSUME Sizes, IInv, [Next]_vars
    PROVE  IInv'
<1>1. CASE Provision
  BY <1>1, StartKeeps, ResumeKeeps, DiscardKeeps, SaveCheckpointKeeps, PruneKeeps, SaveKeeps,
     NextSourceKeeps, IngestKeeps, IngestedKeeps, HarvestKeeps, HarvestDoneKeeps, FinishKeeps,
     VerifyKeeps, RetireKeeps, ActivateKeeps, DoneKeeps DEF Provision
<1>2. CASE Refresh
  BY <1>2, RefreshStartKeeps, RefreshPageKeeps, RefreshDoneKeeps DEF Refresh
<1>3. CASE World
  BY <1>3, KilledKeeps, RaisesKeeps, NextDayKeeps, PublishKeeps, RepublishKeeps DEF World
<1>4. CASE UNCHANGED vars
  <2>1. Types'
    BY <1>4 DEF vars, IInv, Types
  <2>2. Rest'
    BY <1>4 DEF vars, IInv, Rest, BeganOK, CheckpointsOK, CpTyped, CpOrdered, CutsPast, JobOK,
                CpOfRun, StepsOK, Ingests, At
  <2>3. Content'
    BY <1>4 DEF vars, IInv, Content, ActiveOK, WorkingOK, ReadyOK, CaughtUpOK, CaughtUp, Ingests,
                RefreshOK, At
  <2> QED
    BY <2>1, <2>2, <2>3 DEF IInv
<1> QED
  BY <1>1, <1>2, <1>3, <1>4 DEF Next

\* What a checkpoint says of its file, what the files hold, and how the job stands to both,
\* hold in every reachable state, for any sources, batches, releases, days and kills.
THEOREM Invariance ==
    ASSUME Sizes
    PROVE  Spec => []IInv
<1>1. Init => IInv
  BY InitInv
<1>2. IInv /\ [Next]_vars => IInv'
  BY NextInv
<1> QED
  BY <1>1, <1>2, PTL DEF Spec

\* The types of the databases, of the checkpoints and of the job.
THEOREM TypeCorrect ==
    ASSUME Sizes
    PROVE  Spec => []TypeOK
<1>1. IInv => TypeOK
  <2> SUFFICES ASSUME IInv PROVE TypeOK
    OBVIOUS
  <2>1. ASSUME NEW cp \in Checkpoints, CpTyped(cp)
        PROVE  /\ cp.want \subseteq Sources /\ cp.ids \in [cp.want -> 1..MaxRelease]
               /\ cp.current \subseteq cp.want /\ cp.at \in [cp.want -> 0..Batches]
               /\ cp.topic \in 1..(Topics + 1) /\ cp.token \subseteq Records
    BY <2>1 DEF Checkpoints, CpTyped
  <2>2. checkpoint \in Checkpoints /\ run.cp \in Checkpoints
    BY DEF IInv, Types, Runs
  <2>3. \A cp \in {checkpoint, run.cp} :
            /\ cp.want \subseteq Sources /\ cp.ids \in [cp.want -> 1..MaxRelease]
            /\ cp.current \subseteq cp.want /\ cp.at \in [cp.want -> 0..Batches]
            /\ cp.topic \in 1..(Topics + 1) /\ cp.token \subseteq Records
    BY <2>1, <2>2 DEF IInv, Rest, CheckpointsOK
  <2>4. run.op = "refresh" => active # NoDb
    BY DEF IInv, Rest, JobOK, Has
  <2>5. run.op = "provision" => run.want # {} /\ run.todo \subseteq run.want
    BY DEF IInv, Rest, JobOK
  <2> QED
    BY <2>3, <2>4, <2>5 DEF IInv, Types, TypeOK
<1> QED
  BY <1>1, Invariance, PTL

\* What readers are served is what the rows of the database say, whichever processes were
\* killed in between and however often, unless a foreign log, checkpoint or journal (that of
\* a killed refresh, beside the corpus activated after it) got into the file.
THEOREM ServesTheWhole ==
    ASSUME Sizes
    PROVE  Spec => []ActivatedIsWhole
<1>1. IInv => ActivatedIsWhole
  <2> SUFFICES ASSUME IInv, active # NoDb, Sound(active)
               PROVE  /\ Whole(active)
                      /\ \A s \in Sources \ Has(active) : active.of[s] = Nothing
                      /\ Feed \notin Has(active) => active.got = {}
                      /\ Working("done") => [s \in Has(active) |-> active.of[s].rel] = run.ids
    BY DEF ActivatedIsWhole, Sound
  <2>1. Served(active)
    BY DEF IInv, Content, ActiveOK
  <2>2. ASSUME Working("done")
        PROVE  [s \in Has(active) |-> active.of[s].rel] = run.ids
    <3>1. /\ Has(active) = run.want /\ \A s \in run.want : active.of[s].rel = run.ids[s]
      BY <2>2 DEF Working, IInv, Content, ReadyOK, At, Ready
    <3>2. run.ids \in [run.want -> 1..MaxRelease]
      BY <2>2 DEF Working, IInv, Rest, JobOK
    <3> QED
      BY <3>1, <3>2
  <2> QED
    BY <2>1, <2>2 DEF Served, Complete, Only, Whole
<1> QED
  BY <1>1, Invariance, PTL

\* The cutoff of the feed's row leaves no record behind, however catch-ups, resumed runs and
\* refreshes follow one another, unless a resumed catch-up was marked as one that does.
THEOREM NothingFallsBetween ==
    ASSUME Sizes
    PROVE  Spec => []NoGap
<1>1. IInv => NoGap
  BY DEF IInv, Content, ActiveOK, Gapless, Covers, NoGap
<1> QED
  BY <1>1, Invariance, PTL
=============================================================================
