------------------------------- MODULE Corpus -------------------------------
(***************************************************************************)
(* corpus-search's database.  provision() builds corpus.next.db from       *)
(* several sources under a checkpoint and swaps it for corpus.db;          *)
(* refresh() catches corpus.db up in place.  The job of an installation    *)
(* and of a refresh hold the same resource key, so one runs at a time; it  *)
(* is killed anywhere, and an installation starts over, perhaps with other *)
(* profiles, on another day, or after a source was republished.            *)
(*                                                                         *)
(* A database is what the properties tell apart: the release and the       *)
(* batches each source has, the feed's records, which of them are in the    *)
(* full-text index, and the row written about each source.  SQLite commits *)
(* a transaction whole or not at all, if the log or the journal beside the *)
(* file is that of the file.                                               *)
(***************************************************************************)
EXTENDS Integers

CONSTANTS
    Sources,      \* adapters' identifiers; "arxiv" alone has a feed
    Batches,      \* batches of records in a release
    Topics,       \* topics an arXiv profile names
    MaxRelease,   \* bound: the newest release there is, and only one source publishes it
    MaxDay,       \* bound: the last day
    MaxKills      \* bound: processes killed

VARIABLES
    day,          \* today
    release,      \* release[s]: the release a source offers
    feed,         \* <<topic, day>> of the records the feed has
    active,       \* corpus.db
    working,      \* corpus.next.db
    wal,          \* working's log outlived the process that wrote it
    hot,          \* corpus.db-journal: none, that of active, or of the database before it
    checkpoint,   \* checkpoint.json
    run,          \* the running job
    kills

vars == <<day, release, feed, active, working, wal, hot, checkpoint, run, kills>>

Feed == "arxiv"
Days == 0..MaxDay
Records == (1..Topics) \X Days
Releases == 0..MaxRelease

\* rel = 0: no records and no row.  indexed: the batches are in the full-text index.
\* cut: the row's catch-up cutoff, -1 without a row.
Held == [rel : Releases, rows : SUBSET (1..Batches), indexed : BOOLEAN, cut : {-1} \cup Days]
Nothing == [rel |-> 0, rows |-> {}, indexed |-> FALSE, cut |-> -1]

\* flaws, kept for the properties: what befell the file and the code does not notice.  A log
\* of another database was replayed into it ("log"), a journal of another was rolled back
\* into it ("journal"), a checkpoint of another run is taken for its own ("checkpoint"), or
\* a catch-up was resumed on another day, or with a cutoff
\* of a file that was refreshed meanwhile ("gap").
Flaws == {"log", "journal", "checkpoint", "gap"}
Db == [of : [Sources -> Held], got : SUBSET Records, ixGot : SUBSET Records, flaws : SUBSET Flaws]
NoDb == [of |-> <<>>, got |-> {}, ixGot |-> {}, flaws |-> {}]
Empty == [of |-> [s \in Sources |-> Nothing], got |-> {}, ixGot |-> {}, flaws |-> {}]

\* began: the day the first request of the catch-up under way was made, for the properties.
NoCheckpoint == [want |-> {}, ids |-> <<>>, current |-> {}, pruned |-> FALSE, at |-> <<>>,
                 topic |-> 1, token |-> {}, began |-> -1]

NoRun == [op |-> "none", pc |-> "none", want |-> {}, ids |-> <<>>, until |-> -1, from |-> -1,
          cuts |-> <<>>, src |-> "none", todo |-> {}, cp |-> NoCheckpoint]

TypeOK ==
    /\ day \in Days /\ release \in [Sources -> 1..MaxRelease] /\ feed \subseteq Records
    /\ active \in Db \cup {NoDb} /\ working \in Db \cup {NoDb}
    /\ wal \in BOOLEAN /\ hot \in {"none", "own", "foreign"}
    /\ \A cp \in {checkpoint, run.cp} :
        cp # NoCheckpoint =>
            /\ cp.want \subseteq Sources /\ cp.ids \in [cp.want -> 1..MaxRelease]
            /\ cp.current \subseteq cp.want /\ cp.at \in [cp.want -> 0..Batches]
            /\ cp.topic \in 1..(Topics + 1) /\ cp.token \subseteq Records
    /\ run.op = "provision" => run.want # {} /\ run.todo \subseteq run.want
    /\ run.op = "refresh" => active # NoDb
    /\ kills \in 0..MaxKills

Init ==
    /\ day = 0 /\ release = [s \in Sources |-> 1] /\ feed = {}
    /\ active = NoDb /\ working = NoDb /\ wal = FALSE /\ hot = "none"
    /\ checkpoint = NoCheckpoint /\ run = NoRun /\ kills = 0

Fails == run' = NoRun

---------------------------------------------------------------------------
(* What source adapters do to a database. *)

\* upsert_papers() of one batch; a batch stored before is stored over.
Upserted(db, s, id, b) ==
    [db EXCEPT !.of[s].rel = id, !.of[s].rows = @ \cup {b}]

Harvested(db, recs, index) ==
    [db EXCEPT !.got = @ \cup recs, !.ixGot = IF index THEN @ \cup recs ELSE @]

\* drop_source(): its records, their index entries and its row.
Dropped(db, S) ==
    [db EXCEPT !.of = [s \in Sources |-> IF s \in S THEN Nothing ELSE db.of[s]],
               !.got = IF Feed \in S THEN {} ELSE @,
               !.ixGot = IF Feed \in S THEN {} ELSE @]

\* index_source(): adds entries and deletes none.
Indexed(db, S) ==
    [db EXCEPT !.of = [s \in Sources |-> IF s \in S THEN [db.of[s] EXCEPT !.indexed = TRUE] ELSE db.of[s]],
               !.ixGot = IF Feed \in S THEN db.got ELSE @]

\* put_source() for the sources in S, caught up to `until`.
Recorded(db, S, until) ==
    [db EXCEPT !.of = [s \in Sources |-> IF s \in S THEN [db.of[s] EXCEPT !.cut = until] ELSE db.of[s]]]

Has(db) == {s \in Sources : db # NoDb /\ db.of[s].cut # -1}

\* The records of `topic` a request of today names.
Due(topic, from, until) ==
    {r \in feed : r[1] = topic /\ r[2] >= from /\ r[2] <= until}

---------------------------------------------------------------------------
(* provision() *)

Working(pc) == run.op = "provision" /\ run.pc = pc

\* The sources a read-only opening of corpus.db finds (inspect_database, active_sources): it
\* cannot roll a journal back and fails, which counts as no database.
Legible == IF hot = "none" THEN Has(active) ELSE {}

\* Acquires every source and reads the active database's rows.
ProvisionStart(W) ==
    /\ run.op = "none"
    /\ run' = [NoRun EXCEPT !.op = "provision", !.pc = "plan", !.want = W,
                            !.ids = [s \in W |-> release[s]], !.until = day,
                            !.cuts = [s \in Legible |-> active.of[s].cut]]
    /\ UNCHANGED <<day, release, feed, active, working, wal, checkpoint, hot, kills>>

\* source_is_current(), for the profiles of this run.
Current == {s \in run.want \cap Legible : active.of[s].rel = run.ids[s]}

Matches_AnyRelease == working # NoDb /\ checkpoint.want = run.want
Matches == working # NoDb /\ checkpoint.want = run.want /\ checkpoint.ids = run.ids

NewCheckpoint ==
    [want |-> run.want, ids |-> run.ids, current |-> Current, pruned |-> FALSE,
     at |-> [s \in run.want |-> 0], topic |-> 1, token |-> {}, began |-> -1]

Resume ==
    /\ Working("plan") /\ Matches
    /\ run' = [run EXCEPT !.pc = "prune", !.cp = checkpoint]
    /\ wal' = FALSE
    /\ UNCHANGED <<day, release, feed, active, working, checkpoint, hot, kills>>

\* working.unlink(), and copy_file() when a source survives.  The old checkpoint stays, and
\* so does a log an earlier process left beside the file.
Discard ==
    /\ Working("plan") /\ ~Matches
    /\ working' = IF Current = {} THEN NoDb
                  ELSE [active EXCEPT !.flaws = IF wal THEN @ \cup {"log"} ELSE @]
    /\ wal' = FALSE
    /\ run' = [run EXCEPT !.pc = "seeded", !.cp = NewCheckpoint]
    /\ UNCHANGED <<day, release, feed, active, checkpoint, hot, kills>>

\* Writes the new checkpoint, then opens and initializes the file.
SaveCheckpoint ==
    /\ Working("seeded")
    /\ checkpoint' = run.cp
    /\ working' = IF working = NoDb THEN Empty ELSE working
    /\ run' = [run EXCEPT !.pc = "prune"]
    /\ UNCHANGED <<day, release, feed, active, wal, hot, kills>>

\* Drops what is not current, once per checkpoint; a kill before the save drops again.
Prune ==
    /\ Working("prune")
    /\ \/ /\ ~run.cp.pruned
          /\ working' = Dropped(working, Sources \ run.cp.current)
          /\ run' = [run EXCEPT !.pc = "pruned", !.cp.pruned = TRUE]
       \/ /\ run.cp.pruned
          /\ run' = [run EXCEPT !.pc = "next", !.todo = run.want]
          /\ UNCHANGED working
    /\ UNCHANGED <<day, release, feed, active, wal, checkpoint, hot, kills>>

\* save(): the checkpoint after a commit.
Save(before, after, todo) ==
    /\ Working(before)
    /\ checkpoint' = run.cp
    /\ run' = [run EXCEPT !.pc = after, !.todo = todo]
    /\ UNCHANGED <<day, release, feed, active, working, wal, hot, kills>>

SavePruned == Save("pruned", "next", run.want)

\* A retained source goes on from the cutoff of its row; without one, ValueError.
Retained(s) ==
    IF s \notin DOMAIN run.cuts THEN Fails
    ELSE run' = [run EXCEPT !.pc = IF s = Feed THEN "harvest" ELSE "next", !.from = run.cuts[s],
                            !.todo = @ \ {s}]

\* The adapters in turn: a retained source is left as it is, another one ingested.
NextSource(s) ==
    /\ Working("next") /\ s \in run.todo
    /\ \/ s \in run.cp.current /\ Retained(s)
       \/ /\ s \notin run.cp.current
          /\ run' = [run EXCEPT !.pc = "ingest", !.src = s, !.from = 0, !.todo = @ \ {s}]
    /\ UNCHANGED <<day, release, feed, active, working, wal, checkpoint, hot, kills>>

Ingest_PastTheEnd ==
    /\ Working("ingest") /\ run.cp.at[run.src] <= Batches
    /\ working' = Upserted(working, run.src, run.ids[run.src], run.cp.at[run.src] + 1)
    /\ run' = [run EXCEPT !.pc = "ingested", !.cp.at[run.src] = @ + 1]
    /\ UNCHANGED <<day, release, feed, active, wal, checkpoint, hot, kills>>
\* One batch, committed.  The checkpoint names the next one, and is saved afterwards.
Ingest ==
    /\ Working("ingest") /\ run.cp.at[run.src] < Batches
    /\ working' = Upserted(working, run.src, run.ids[run.src], run.cp.at[run.src] + 1)
    /\ run' = [run EXCEPT !.pc = "ingested", !.cp.at[run.src] = @ + 1]
    /\ UNCHANGED <<day, release, feed, active, wal, checkpoint, hot, kills>>

SaveOffset == Save("ingested", "ingest", run.todo)

\* The feed follows the snapshot; the other sources have none.
Ingested ==
    /\ Working("ingest") /\ run.cp.at[run.src] = Batches
    /\ run' = [run EXCEPT !.pc = IF run.src = Feed THEN "harvest" ELSE "next", !.src = "none"]
    /\ UNCHANGED <<day, release, feed, active, working, wal, checkpoint, hot, kills>>

\* One request: a new list, or the rest of the list the token stands for; `more` stays for
\* another request, and what came is stored and committed.
Harvest(more) ==
    /\ Working("harvest") /\ run.cp.topic <= Topics
    /\ LET due == IF run.cp.token # {} THEN run.cp.token
                  ELSE Due(run.cp.topic, run.from, run.until)
       IN  /\ more \subseteq due /\ (due # {} => more # due)
           /\ working' = Harvested(working, due \ more, Feed \in run.cp.current)
    /\ run' = [run EXCEPT !.pc = "harvested", !.cp.token = more,
                          !.cp.topic = IF more = {} THEN @ + 1 ELSE @,
                          !.cp.began = IF @ = -1 THEN run.until ELSE @]
    /\ UNCHANGED <<day, release, feed, active, wal, checkpoint, hot, kills>>

SavePage == Save("harvested", "harvest", run.todo)

\* state.pop("catchup"): a later run begins the catch-up anew.
HarvestDone ==
    /\ Working("harvest") /\ run.cp.topic > Topics
    /\ run' = [run EXCEPT !.pc = "caught", !.cp.topic = 1, !.cp.began = -1]
    /\ working' = IF \/ run.cp.began \notin {-1, run.until}
                     \/ run.from > 0 /\ run.from > working.of[Feed].cut
                  THEN [working EXCEPT !.flaws = @ \cup {"gap"}] ELSE working
    /\ UNCHANGED <<day, release, feed, active, wal, checkpoint, hot, kills>>

SaveCaught == Save("caught", "next", run.todo)

\* Index, rows and metadata are one transaction.  Entries that are there already make the
\* insertion fail.
Reingested == run.want \ run.cp.current

Finish_Today ==
    /\ Working("next") /\ run.todo = {}
    /\ \/ /\ \E s \in Reingested : working.of[s].indexed
          /\ Fails /\ UNCHANGED working
       \/ /\ \A s \in Reingested : ~working.of[s].indexed
          /\ working' = Recorded(Indexed(working, Reingested), run.want, day)
          /\ run' = [run EXCEPT !.pc = "verify"]
    /\ UNCHANGED <<day, release, feed, active, wal, checkpoint, hot, kills>>
Finish ==
    /\ Working("next") /\ run.todo = {}
    /\ \/ /\ \E s \in Reingested : working.of[s].indexed
          /\ Fails /\ UNCHANGED working
       \/ /\ \A s \in Reingested : ~working.of[s].indexed
          /\ working' = Recorded(Indexed(working, Reingested), run.want, run.until)
          /\ run' = [run EXCEPT !.pc = "verify"]
    /\ UNCHANGED <<day, release, feed, active, wal, checkpoint, hot, kills>>

\* A log or a journal that spoiled the file is noticed by quick_check, or is not.
Verify ==
    /\ Working("verify")
    /\ \/ {"log", "journal"} \cap working.flaws # {} /\ Fails
       \/ run' = [run EXCEPT !.pc = "retire"]
    /\ UNCHANGED <<day, release, feed, active, working, wal, checkpoint, hot, kills>>

\* The two renames, and the end of the checkpoint.  A journal stays where it is, beside the
\* name corpus.db.
Retire ==
    /\ Working("retire")
    /\ active' = NoDb /\ hot' = IF hot = "own" THEN "foreign" ELSE hot
    /\ run' = [run EXCEPT !.pc = "activate"]
    /\ UNCHANGED <<day, release, feed, working, wal, checkpoint, kills>>

Activate ==
    /\ Working("activate")
    /\ active' = working /\ working' = NoDb
    /\ run' = [run EXCEPT !.pc = "done"]
    /\ UNCHANGED <<day, release, feed, wal, checkpoint, hot, kills>>

Done ==
    /\ Working("done")
    /\ checkpoint' = NoCheckpoint
    /\ run' = NoRun
    /\ UNCHANGED <<day, release, feed, active, working, wal, hot, kills>>

---------------------------------------------------------------------------
(* refresh(), on the database readers have open. *)

\* The first opening of corpus.db for writing rolls back the journal beside it, whatever
\* database that was of.  A refresh without a feed is over at once, and so may be one that
\* finds the file spoiled.
RefreshStart ==
    /\ run.op = "none" /\ active # NoDb
    /\ active' = IF hot = "foreign" THEN [active EXCEPT !.flaws = @ \cup {"journal"}] ELSE active
    /\ hot' = "none"
    /\ \/ /\ Feed \in Has(active)
          /\ run' = [NoRun EXCEPT !.op = "refresh", !.pc = "harvest", !.until = day,
                                  !.from = active.of[Feed].cut]
       \/ (Feed \notin Has(active) \/ hot = "foreign") /\ UNCHANGED run
    /\ UNCHANGED <<day, release, feed, working, wal, checkpoint, kills>>

RefreshPage(more) ==
    /\ run.op = "refresh" /\ run.cp.topic <= Topics
    /\ LET due == IF run.cp.token # {} THEN run.cp.token ELSE Due(run.cp.topic, run.from, run.until)
       IN  /\ more \subseteq due /\ (due # {} => more # due)
           /\ active' = Harvested(active, due \ more, TRUE)
    /\ run' = [run EXCEPT !.cp.token = more, !.cp.topic = IF more = {} THEN @ + 1 ELSE @]
    /\ UNCHANGED <<day, release, feed, working, wal, checkpoint, hot, kills>>

RefreshDone ==
    /\ run.op = "refresh" /\ run.cp.topic > Topics
    /\ active' = Recorded(active, {Feed}, run.until)
    /\ run' = NoRun
    /\ UNCHANGED <<day, release, feed, working, wal, checkpoint, hot, kills>>

---------------------------------------------------------------------------
(* The job is killed, a request or a check raises, and the world goes on. *)

\* A killed process leaves the log of the file it had open, a copy as far as it got, and a
\* refresh in the middle of a transaction its journal.
Killed ==
    /\ run.op # "none" /\ kills < MaxKills
    /\ kills' = kills + 1
    /\ run' = NoRun
    /\ hot' \in {hot} \cup (IF run.op = "refresh" THEN {"own"} ELSE {})
    /\ wal' = (wal \/ (working # NoDb /\ run.op = "provision" /\ run.pc \notin {"plan", "seeded", "retire", "activate"}))
    /\ working' = IF Working("seeded") /\ working # NoDb /\ checkpoint # NoCheckpoint
                  THEN [working EXCEPT !.flaws = @ \cup {"checkpoint"}] ELSE working
    /\ UNCHANGED <<day, release, feed, active, checkpoint>>

\* (Nothing fails any more after the last kill.)
Raises ==
    /\ run.pc \in {"ingest", "harvest", "verify"} /\ kills < MaxKills /\ Fails
    /\ UNCHANGED <<day, release, feed, active, working, wal, checkpoint, hot, kills>>

NextDay ==
    /\ day < MaxDay /\ day' = day + 1
    /\ UNCHANGED <<release, feed, active, working, wal, checkpoint, run, hot, kills>>

\* What the last day brings is beyond every cutoff.
Publish(t) ==
    /\ day < MaxDay /\ <<t, day>> \notin feed /\ feed' = feed \cup {<<t, day>>}
    /\ UNCHANGED <<day, release, active, working, wal, checkpoint, run, hot, kills>>

\* Between runs: a run asks for the releases once, when it starts.
Republish(s) ==
    /\ run.op = "none"
    /\ \A t \in Sources \ {s} : release[t] = 1
    /\ release[s] < MaxRelease /\ release' = [release EXCEPT ![s] = @ + 1]
    /\ UNCHANGED <<day, feed, active, working, wal, checkpoint, run, hot, kills>>

Provision ==
    \/ \E W \in (SUBSET Sources) \ {{}} : ProvisionStart(W)
    \/ Resume \/ Discard \/ SaveCheckpoint \/ Prune \/ SavePruned
    \/ \E s \in Sources : NextSource(s)
    \/ Ingest \/ SaveOffset \/ Ingested
    \/ \E more \in SUBSET feed : Harvest(more)
    \/ SavePage \/ HarvestDone \/ SaveCaught \/ Finish \/ Verify \/ Retire \/ Activate \/ Done

Refresh == RefreshStart \/ (\E more \in SUBSET feed : RefreshPage(more)) \/ RefreshDone

World ==
    \/ Killed \/ Raises \/ NextDay
    \/ \E t \in 1..Topics : Publish(t)
    \/ \E s \in Sources : Republish(s)

Next == Provision \/ Refresh \/ World

Spec == Init /\ [][Next]_vars
---------------------------------------------------------------------------
(* Properties *)

Whole(db) ==
    \A s \in Has(db) :
        /\ db.of[s].rows = 1..Batches
        /\ db.of[s].indexed
        /\ s = Feed => db.ixGot = db.got

\* What readers are served is what the rows say: every batch of a recorded source and every
\* harvested record is there and in the index, whichever processes were killed in between,
\* the sources are those the installation named, at the releases it acquired, and nothing is
\* left of another one (unless a foreign log, checkpoint or journal got into the file, of
\* which the code notices none for certain).
ActivatedIsWhole ==
    active # NoDb /\ active.flaws \cap {"log", "journal", "checkpoint"} = {} =>
        /\ Whole(active)
        /\ \A s \in Sources \ Has(active) : active.of[s] = Nothing
        /\ Feed \notin Has(active) => active.got = {}
        /\ Working("done") => [s \in Has(active) |-> active.of[s].rel] = run.ids

\* No record falls between two catch-ups: what the feed published before the day of the
\* cutoff is in the database (unless a catch-up was resumed on another day, or with the
\* cutoff of a database refreshed meanwhile, or one of the three got into the file).
NoGap ==
    active # NoDb /\ active.flaws = {} /\ Feed \in Has(active) =>
        {r \in feed : r[2] < active.of[Feed].cut} \subseteq active.got

\* A provisioning that resumes finishes: the cutoff of each retained source is known, and
\* no record it is to index is in the index.
ResumeCanFinish ==
    Working("next") =>
        /\ run.todo \cap run.cp.current \subseteq DOMAIN run.cuts
        /\ \A s \in Reingested : ~working.of[s].indexed
=============================================================================
