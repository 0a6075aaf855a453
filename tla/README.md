# VantaMCPd: a verification project

TLA+ models of VantaMCPd, the TLC runs that check them on small instances, and TLAPS proofs that
carry the most important results to every instance. Paths below are relative to the repository.

VantaMCPd is an MCP server (TypeScript, `src/`) that administers a handful of Linux nodes over SSH.
Long operations run on a node as durable jobs under systemd; node modules (Python, `modules/`) run
there as brokers or as one process per call, and exchange files through a shared artifact store.

## 1. The system

| Component | Code | State it keeps | Hard behaviour | Modules |
|---|---|---|---|---|
| Job runner | `src/jobs/remote-runner.py` | `state.json` per job, lock files, its command | dies anywhere, is restarted by systemd, shares `state.json` with `--cancel` and `--fail` without a lock | `JobExecution`, `JobStatus`, `JobRunner` |
| Job manager | `src/jobs/manager.ts` | cache of job states, a chain of submissions per node, listeners | overlapping async calls, replies applied late, failed listings, timeouts whose scripts go on, restart | `JobManager` over `JobStatus` |
| Module manager | `src/modules/manager.ts` | a gate per module in memory; receipt, link and version directories on nodes | mutations against calls, scripts cut off, activation that fails half way, updates by job | `ModuleManager` |
| Module call helper | `src/jobs/module-call.py`, the `server.py` of each module | two pipes, a queue of lines, deadlines | an adapter that floods, hangs, dies, answers late | `ModuleCall` |
| Module brokers | `service.py`, `sandbox.py` of python-compute, image-render and image-processing; document-ocr | semaphores, rate window, call directories, reservations | callers that leave, crashes, failure after part of the output was stored | `Broker` |
| browser-retrieval | `browser.py`, `download.py`, `service.py` | slots, one Chromium per call, cooldowns, recent downloads | retries, redirects, ranged resumption, a resource replaced meanwhile | `Browser` |
| corpus-search | `provision.py`, `corpus.py`, `query.py`, `sources/` | two databases, a checkpoint | deaths during provisioning and activation, refresh, resumption on another day; a query language | `Corpus`, `CorpusQuery` |
| Artifact store and publication protocol | `modules/artifact-storage/store.py`, `modules/artifact_protocol.py` | directories below `.uploads` and `objects`, reservation files | crash between file system steps, readers without a lock, a quota shared by processes | `ArtifactStore` |
| Requests of the computing modules | their `schemas.py`, `artifact_io.py`, `scene.py`, `polyhaven.py` | a call directory being staged | name clashes, budgets, references, limits at their edges | `Requests` |
| Image operations | `image-processing/processing.py` | none | two engines that must agree | `Imaging` |
| Asset library | `image-render/assets.py`, `library.py` | files, manifest, index | downloads that fail one by one, files taken over | `RenderLibrary` |
| Text operations | `text-tools/operations_*.py` | none, but a child process per pattern | edges of values, texts, dates; a child that hangs | `JsonTools`, `TextTools`, `TimeTools`, `RegexWorker` |
| SSH pool, SMB sources, audit log, artifact transfer | `src/ssh.ts`, `src/sources*.ts`, `src/audit.ts`, `src/artifact-*.ts` | connections, a busy flag, a ring, a session | lost replies, late close events | - |
| Catalog, config, security, hardware, GPU, tools, web, formatting | the rest of `src/` | files read once, inventories | little control of their own | - |

How they interact: a tool call reaches a manager; a manager sends one script over the SSH pool; a
submission script writes a job directory and a unit and starts it; systemd runs the runner; the
manager learns what became of a job only by listing `state.json` files. A background module call is
such a job: its command is the module call helper, which talks to the module's adapter, which asks its
broker. Installations and updates are scripts over SSH or, when long, jobs. Brokers meet in the
artifact store, through its broker or through the publication protocol, under one file lock.

What makes the components correct: jobs that share a resource never run together and a job that must
not be repeated is not; recorded outcomes are true, and nothing but a failure replaces them; every job and every call settles;
admission respects the limit; the cache tells the truth in the end; mutations of a module exclude each
other and a running call keeps its version; what is taken for a call is given back and a call that
fails has stored nothing; artifacts are whole, of one version, within quota, and go when they expire; a
corpus that is served is complete; and operations on data mean what they say at every edge.
`PROJECT.json` lists the hazards behind these, each at its line.

## 2. Modules

The control plane and the jobs:

* `JobExecution` - what the node side of durable jobs promises, in three actions: grant, execute,
  withdraw.
* `JobStatus` - what can become of the status in `state.json`, all the control plane ever learns of a job.
  `JobRunner` implements it, and `JobManager` is built on it, in the place of the node: it is where the two
  meet. A job is `contested` when `--fail` has failed it although its runner is past its first look at
  `state.json`, or a `--cancel` is: it shows as failed, and can still run, succeed or be canceled.
* `JobRunner` - one node in detail. Each step of `run()` between two effects that somebody else can see
  is an action (`ReadState`, `TakeLock`, `MarkRunning`, `StartCommand`, `Heartbeat`, `Finish`, ...; `pc`
  names the place in the code). `CancelStop`..`CancelWrite` are the script of `cancel()`,
  `FailCheck`..`FailWrite` the one of `reconcile()`: the helpers read `state.json` in one step and write
  it in a later one. `Submit` is the end of the submission script, `SubmitPartly` the script that stops
  before its last command, `Expire` the removal after retention. systemd is external: `StartUnit`,
  `RestartUnit`, `CleanUp`, `StopDone`, `StopKill`. Faults are `RunnerDies` and `NodeRestarts`.
* `JobManager` - the control plane for one node. `call` holds the calls in progress; the steps of a call
  are separated exactly where the code awaits: a listing is sent, served by the node, and applied to the
  cache (`ListReply`), then the same synchronous step decides what the call does next (`Continue`). The
  node is reduced to the status in `state.json`, which `StateWritten` moves as `JobStatus` allows.
  `late` holds the submissions that were given up while their script may still run, `revived` the jobs
  that went on after a `--fail`.
* `ModuleManager` - one module on several nodes. `op` holds the operations in progress, each an install,
  an update, an uninstall, a purge or a background call, with a program counter for the awaits of its
  method (`pc`) and one for the script or job it has started on the node (`work`). `tail` and `prev` are
  the promise chain of `withModuleMutation()`; `waitForModuleMutation()` is `Select`. A lifecycle script is
  several steps (`Start`, the two of `Copy`, for install.sh removes the version's directory and then moves the
  new one to its place, `Describe`, `Activate`, `RollBack`), so that other operations can find the node in
  between. A roll-back between the two steps of `Copy` cannot bring back what was removed: when that was the
  installed version the node is marked `amiss`, as it is by scripts that are cut off or started blindly. `Cut` is the script that dies, `GivenUp` the one that goes on
  after its timeout.
* `ModuleCall` - the wrapper of a background call, its reader thread (`lines`), its deadlines, and the
  adapters of the eight modules, which differ in what they report as failures.

The modules on the nodes:

* `Broker` - python-compute, image-render, image-processing and document-ocr; `service` says which. A
  thread per connection admits the call (`*Admit`, `TakeSlot`, `RenderRate`), stages its inputs, reserves,
  launches the sandbox, delivers what it made and cleans up, each step as the module's own code orders it.
  Callers leave, processes end, hang, fill their workspace; `Crash`, `Boot` and `Killed` end everything at once.
  document-ocr is a process per call: SIGTERM becomes a KeyboardInterrupt that may come at any point, before,
  in and after the publication (`Interrupted`) and in the `finally` blocks (`InterruptedLate`).
* `Browser` - the calls of browser-retrieval: slots, the life of a Chromium (`Launch`, `Handshake`,
  `Navigate`, `Extract`, `Exit`), and downloads (`Look`, `Redirect`, `TryLater`, `Whole`, `Partial`, `Broken`,
  `Finish`) against a resource that is replaced from time to time.
* `Corpus` - `provision()` and `refresh()`: planning, seeding the new database from the active one,
  checkpoints, ingestion by batches, catch-up by pages, index, verification, the renames of the activation.
  SQLite keeps a log beside the file that is provisioned (`wal`) and a rollback journal beside the active one
  (`hot`): both outlive a killed process, and are applied to whatever file is under that name at the next opening.
  While a journal is hot a read-only opening fails, and planning takes the corpus for absent (`Legible`).
  A run is killed anywhere (`Killed`) or raises, and is repeated with the same or other profiles on the same
  or another day, before or after a source was republished.
* `CorpusQuery` - the query parser against what a query says token by token, the bounded edit distance
  against the words one and two edits make, and a caller who asks for one page after the other.
* `ArtifactStore` - the store, its broker and the publishers. The file lock makes one locked section at
  a time; `op` is the section under way and each of its steps is a file system effect that a reader or a
  crash can tell from the next. `shutil.rmtree` removes the files in either order and the directory last.
* `Requests` - validation of the requests of python-compute and image-render and the staging of their inputs,
  against a file system that does and one that does not tell case apart.
* `Imaging` - geometry of edits, overlays and montages, once as Pillow and once as ImageMagick do them.
  `gravity` is what ImageMagick's argument list has last set: a fill and a pad set it, and a crop after them counts
  from it.
* `RenderLibrary` - the installation of assets file by file, then reading of what is there.
* `RegexWorker` - the parent and the child of `run_regex_worker()`, and the pipe between them: one action per call
  on the `Process` and the pipe (`Ready`, `Receive`, `Kill`, `Close`, `IsAlive`, `Grant`, which is `join(0.1)`, and
  `Join`), a message that goes in one or two parts, and a child that dies between any two of these.
* `JsonTools`, `TextTools`, `TimeTools` - the operations of text-tools as operators, each checked against a
  definition of another shape: flatten against unflatten, diff against patch, an inferred schema against
  the samples, sections against lines, durations against their parts, conversions against instants.

Proofs: `JobRunnerProofs`, `JobManagerProofs`, `ArtifactStoreProofs`, `ModuleManagerProofs`.

Instances for TLC: `MCJobRunner`, `MCJobManager`, `MCArtifactStore`, and four that hold several modules side
by side: `MCRequests`, `MCModules`, `MCServices`, `MCLiveness`. Each of the four has a variable `part` that is
chosen in `MCInit`; the module of that part takes steps, the variables of the others stay as they begin. A run
thus checks the sum of its parts, not their product: the parts share no state in the code either.

Definitions named `X_Something` directly above a definition `X` are mutants: the same definition with a
plausible mistake. No specification uses them; each shows that a property can fail.

## 3. Runs

| Run | Shows | Instance |
|---|---|---|
| `runner` | types, `ExclusiveCommands`, `NoMutualRefusal`, `AtMostOnce`, `CanceledIsQuiet`, `SucceededIsQuiet`, and that `JobRunner` implements `JobExecution` and `JobStatus` | two jobs with the same two keys, one not rerunnable, one fault |
| `cache` | types, `AnnouncedIsFinished`, `CacheIsNotAhead`, `CacheCatchesUp` | one job, two calls of any kind, one restart |
| `requests` | `LimitHeld`; `RequestsHold`; `ToolsHold` | two jobs with keys of their own, two calls, limit one; requests of two files; values of two levels; texts of up to four lines; queries of three tokens over words of three letters; a pack of one map with its details and one model |
| `store` | types, `ReadableIsWhole`, `QuotaHeld`, `FailedBatchLeavesNothing` | two directories, two reservations, two publishers, quota 3, sizes up to 2, one crash |
| `modules` | types, `MutationsExclusive`, `ReceiptIsTrue`, `CallsKeepTheirVersion`; `KeysAreHeld`; `ActivatedIsWhole`, `NoGap` | one node, three operations of any kind, every declaration of a module that is not a singleton, one script cut off; two jobs of one key, two calls, limit two; two sources, one batch, one topic, two releases, two days, one death |
| `services` | types, `SlotsExact`, `NothingLeft`, `ErrorStoresNothing`; `ArtifactIsOneVersion`, `BrowserEndsWithCall`; `EnginesAgree`; `WorkerIsReaped` | two connections to each kind of broker, one slot of each class; two attempts, one redirect, two chunks, two versions of the resource; images up to 4x4 and 12 pixels, two edits, montages of up to five cells; one pattern |
| `liveness` | `EveryJobSettles`; `ArtifactsExpire`, `StaleUploadsGo`; `AbandonedEnds`; `WrapperSettles`, `ResultIsTrue` | one rerunnable job and three faults; two directories, two days, one crash; one connection; one call and two waiting lines |
| `settles_once`, `failed_is_failed`, `limit_exact`, `store_wedge`, `store_commit` | what the code does not do although it is promised (section 6) | the smallest instance that shows it |

Why these bounds are enough. Conflicts between jobs are pairwise (a lock is refused because of one other
holder; two keys are the least that can be taken in the wrong order; a limit of one is passed by two
submissions), so two jobs show them; more jobs only repeat them, and for the runner, the manager and the gate
the theorems remove the bound altogether. A stale reply needs two overlapping calls. One crash is enough to
leave every kind of debris in the store, for a section starts from debris as well as from a clean store; the
runner's liveness is checked with three faults so that a restart can meet a restart. Quota 3 with sizes up to
2 lets two items meet the quota exactly, exceed it, or stay below. Three operations are what the gate needs: one
inside, one that waits for it, and one that arrives when the first has cleared the chain. One connection holds
a slot while the other one waits. A download of two chunks breaks off with one behind and one before it. A
corpus of two sources has one that is kept and one that is fetched anew. The bounds of the operations on data
are where their cases end: each pair of neighbouring lines, keys, tokens or edits occurs.

`MaxFaults`, `MaxRestarts`, `MaxCrashes`, `MaxCuts`, `MaxKills`, `MaxDays`, `MaxDay`, `MaxRelease`, `MaxVersion`,
`MaxLines` and `MaxSize` bound counters; `settled` counts to two, which is what `SettlesOnce` has to tell apart.
In `Corpus` a source is republished between runs only (a run asks for the releases once, when it starts) and
nothing raises after the last kill. Deadlock is not checked: with faults used up and requests answered each of
these systems may rightly stop.

Symmetry is used in safety runs only. Jobs, calls, connections, directories, reservations
and publishers may each be exchanged where the instance treats them alike. The operations of `modules` may be
as well, which the constraint `NamedInTurn` uses: they get their names in the order they arrive in. `PartView` of `MCRequests` and
`MCModules` leaves out what decides nothing in admission, and neither `LimitHeld` (checked in the one) nor
`KeysAreHeld` (in the other) reads: the cache and the announcements, which outcome a job came to and whether it
was removed since, the history of a job that has ended, what a plain list has seen, of a submission's
listing everything but which jobs were active, of a cancellation's everything but whether its own job was,
and of a reconciliation's what it has already gone through. `LifecycleView` leaves out everything of an operation
that is over but whether it was an uninstallation that began, and which of those before it a waiting operation
found over already. `BrowserView` leaves out strays, what kind of call gives its slot back, and which file is
remembered that the store no longer has. `CacheView` leaves out `blind` and how often, beyond whether, a job was
announced, which no action and none of the properties of `cache` reads and no step changes alone. In `requests` and `modules` the control plane does not restart; in
`cache` it does, and the theorems allow it.

## 4. Fairness

* Runner: systemd carries out what it has begun, a process that can take a step takes it, a command ends
  or meets its deadline, and the reconcile timer comes again (`setInterval` in `start()`). Nothing is
  assumed about submissions, cancellations, expiry or faults.
* Manager: every await ends (each `exec` has a timeout), the timer keeps firing, and a node that is asked
  again and again answers now and then. The last is strong fairness, and without it no cache could catch up.
* Store: the holder of the lock goes on, days pass, and the collector gets the lock now and then (the timer
  thread of the broker).
* Broker: its threads run and the thread that watches a sandbox wakes up (`Thread`, `Watch`). Nothing is
  assumed of the sandboxed process, of its deadline or of the caller: the process may well hang.
* Module call: the wrapper runs and its deadlines pass (`Wrap`, `Timeout`). Nothing is assumed of the adapter.

## 5. Proofs

`JobRunnerProofs` proves, for every set of jobs, every assignment of keys and any number of faults, each
safety property of the run `runner` and both refinements, of `JobExecution` and of `JobStatus`. Assumptions: a job has at least
one resource key and keys are numbers (`KeysAssumption`; the schema of job specifications asks for at least
one, and numbers stand for the order in which the code sorts their names), rerunnable jobs are jobs
(`RerunAssumption`), and the bound on faults is a natural number.

None of the properties is inductive by itself. `IInv` adds:

* `PlaceInv`: a runner exists only in a unit that systemd considers up, a running command only below its
  runner or in a control group that is about to be killed, and a cancel script past its stop only over a unit
  that is down. This is why a cancellation cannot meet a live runner: the pending start that a runner would
  come from is gone as well.
* `LockInv`: nobody holds another's lock, a runner holds all its keys from `MarkRunning` to the end, and while
  it collects them it holds the smallest ones. With the order, two runners cannot refuse each other; with the
  completeness, exclusion of locks is exclusion of commands, orphans apart.
* `OnceInv`: a job that must not be rerun has not been started whenever it can still be. The step that
  matters is that `MarkRunning` writes `running` before `StartCommand`, and that no helper can take that back.
* `QuietInv`: what a runner and a cancel script that are about to write can find in `state.json`.

`TypeStep`, `PlaceStep`, `LockStep`, `OnceStep` and `QuietStep` show that each action keeps each part;
`StepInv` puts them together. `Implements` maps `granted` to the jobs whose runner holds all their keys and
`executions` to the starts: taking the last lock is `Grant`, `StartCommand` is `Execute`, every other step
gives locks up or is invisible. `StatusRefined` maps each job to its status, or to `contested`: ten actions write
`state.json`, and each replaces what it may find there (by `PlaceInv` and `QuietInv`: nothing but `queued`,
`running` or a failure once a runner is past its first look) as `JobStatus` allows; all others can at most end a
contest, for they let somebody forget what he had read (`ContestEnds`).

`JobManagerProofs` proves, for any jobs (even infinitely many), keys, call slots, limit and number of restarts,
`TypeOK`, `LimitHeld`, `ResourcesHeld`, `AnnouncedIsFinished` and `CacheIsNotAhead`. Assumptions: the limit is
at least one (`LimitAssumption`) and the bound on restarts is a natural number (`RestartsAssumption`). `IInv` adds:

* `JobInv`: a call that needs a job has one.
* `FreshInv`: the job of a submission that has not reached the node is unknown there, and nobody else submits it.
* `SeenInv`: a job that a listing shows finished has come to an end, and a success or a cancellation is what it
  came to, unless `--fail` overwrote it, however old the listing is. This carries `CacheIsNotAhead` and `AnnouncedIsFinished` over replies that are applied in any order.
* `SerialInv`: submissions take turns (the promise chain of `submit()`).
* `ListingInv`: the listing that admission rests on shows every unfinished job but the late ones, for nobody
  has submitted since it was asked for.
* `AdmitInv`: a job whose script is under way still fits, in number and in keys, so that its start keeps `CountInv`.

`TypeStep`, `TruthStep` and `AdmissionStep` show that each action keeps the three parts. `NodeMovesAsJobStatus`
closes the circle with `StatusRefined`: whatever the control plane's own scripts and the writers it assumes do
to `state.json` is among what `JobStatus` allows (a submission needs `FreshInv` for that: it finds no job of its
name), and `JobStatus` is what the node implements. A simpler idea of the node, in which a status only moves
forward, would have been wrong: `--fail` races with a runner that is just starting, which is what `contested`
and `revived` are for.

`ArtifactStoreProofs` proves, for any finite sets of directories, reservations and publishers, any quota, sizes
and number of crashes,
`TypeOK`, `ReadableIsWhole`, `QuotaHeld` and `FailedBatchLeavesNothing`, from `FiniteAssumption` (directories and
processes are finitely many), `QuotaAssumption`, `SizeAssumption`, `DaysAssumption` and `CrashesAssumption`
(natural numbers, a size and a retention at least one).
`IInv` adds `SectionInv` (a section that works on one directory removes none meanwhile, and each step belongs to
one kind of section), `TargetInv` (what is true of that directory between two effects: it is whole before
`metadata.json` is written and stays out of `objects` until the last rename) and `UndoInv` (what a failed
publication has not removed is still to be removed). `RestChange` and `TargetChange` are the two ways a directory
changes; `ContentsStep` goes through the actions with them.

The quota relates sums, which the model takes as numbers of units (`Total`), so that facts about cardinalities
carry them: a sum grows with its terms (`TotalGrows`), changes by what one term changes (`TotalChanges`), and is
no more than one into which its terms go one to one (`TotalInjects`). `QuotaInv` adds to `QuotaHeld` what a
check relies on: a reservation backs one publisher (`HeldOnce`), so that what publishers may still store is in
the usage that `begin()` and `reserve()` read; and what is in the store without the publication under way fits
together with all reservations (`UndoFits`), because a publication that fails gives its reservation back whole.
Most actions only take (`Frugal`, by `BrokerFrugal` and `PublisherFrugal`); the others (`MakeUploadFits`,
`ReserveFits`, `PublishFits`, `StageItemFits`, `UndoEndsFits`) have a lemma each.

`ModuleManagerProofs` proves, for any nodes, operations, declarations of the module and number of faults,
`TypeOK`, `MutationsExclusive` and `CallsKeepTheirVersion`. Assumptions: no operation is called "none" and the
bound on faults is a natural number. `IInv` adds:

* `GateInv`: of the mutations that were queued at most one finds its predecessor done (`OneReady`), each is
  waited for by at most one (`OneSuccessor`), the tail is waited for by none (`TailIsLast`), and one that waits
  waits for a mutation. Exclusion is `OneReady`; it survives that the last of a chain clears the entry because
  by then nobody waits.
* `Located` and `OneAtWork`: a script runs at the node its operation names, and no two run there together but a
  script that was given up.
* `CallInv` with `Prepared`: the directory of a call at work is there, and a script that would remove or replace
  it holds the lock of the resource key that the call needs. A call that is still queued may find its directory
  gone (an installation is between removal and move); it then fails when it starts.

`GateStep` and `Effects` are the lemmas every action is reduced to: what it does to the gate, and what to nodes
and scripts.

Its second half proves `ReceiptIsTrue` of the lifecycle scripts over that invariant: at a node where no script is
at work, the receipt, `current` and the directories agree. Between two steps of a script they do not, so
`ReceiptInv` says of every node what holds at each step (`NodesSane`) and of every operation in what order it
takes them (`Orderly`). The parts of `Sane`, which is claimed of a node until something is `amiss` there:
* `ReceiptFits`: they agree whenever no script is at work.
* `ScriptsFine`: at each step of an installation, `current` is where the script has put it, and what a roll-back
  would restore is what was there before. A directory counts as being there (`Stays`) while an installation has
  it between removal and move (`Swapping`): by then nobody but that script is at work, and it either moves the
  new one in or marks the node.
* `RemovalsFine`: a removal has the module to itself: no installation that has begun runs beside it.
* `StraysHarmless`: a script of a module without a lock goes on after a cut without the gate, but it meets a node
  at the catalog's version, where it changes nothing that matters.
* `OldUnused`: the clean-up of an update takes no version that `current` or a receipt names.

Every action is reduced to one of three: it leaves the node as it is (`UnmovedKeeps`), changes only what one
script has in hand (`LocalKeeps`), or is a step of an installation (`InstallsKeeps`).

`ServicesProofs` proves, for any connections, attempts, redirects, length of the resource and number of its
versions, `TypeOK`, `ArtifactIsOneVersion` and `BrowserEndsWithCall`, from `BrowserAssumption` (these bounds are
natural numbers, at least one attempt and one version). `IInv` adds:

* `ContentInv`: while a validator is kept, everything in the content file was received with it, and a response
  that streams appends the version the file has. This is what a resumption rests on: `Partial` may go on only
  under the validator it has asked with, and every other way restarts the file.
* `FilesInv`: what was remembered for reuse, or is answered, is one version, and as long as was declared.
* `SlotInv` and `PagesInv`: a slot that is taken has one holder, a Chromium belongs to a call that holds the
  interactive slot and has not passed `Exit`.

`BrokerProofs` proves, for each of the four services, `SlotsExact`, `NothingLeft` and `ErrorStoresNothing`. The
theorems assume `Sizes`: finitely many connections (their number is counted against the semaphores) and natural
numbers of slots and of calls per minute. `IInv` adds `CallsFine` (what a call may own at each stage) and `Purged`
(nothing of dead calls is left when a connection is accepted). Every step of a call is reduced to `Moves`: the
call's record stays fine and the semaphores follow its slot; `Counted` then needs one argument about cardinalities
instead of one per step.

`ModuleCallProofs` proves, for each adapter and any number of waiting lines, `ResultIsTrue`. `IInv` adds `Asked` and
`RanOnce` (the call is sent once and its tool has one outcome), `ResultsAreTrue` (a line in the queue that says
`result` for the call speaks of a tool that came back, whichever adapter wrote it) and `Ended`.

`CorpusProofs` proves, for any sources with the feed among them, any number of batches and releases (at least one),
topics, days and deaths (natural numbers), `TypeOK`, `ActivatedIsWhole` and `NoGap`. Neither property says anything
of the database that is being filled, of the checkpoint or of a run that died, and all three decide what is
activated later. The parts of `IInv` that carry the argument:

* `Fits`: the file is at least as far as `checkpoint.json` says, never behind it. Every step stores first and saves
  afterwards, so a death between the two leaves a file that is ahead, and what is done again (a batch, a page, an
  index) is done to the same effect. It is claimed of the run's own checkpoint and of the saved one, and suspended
  only where something foreign got into the file (the flaws `checkpoint`, `log` and `journal`).
* `Ready`: `Finish` has run for the whole list. From then on `Fits` is not enough: the list must be neither more
  nor less than what was asked for.
* `Gapless` and `Fetched`: before the cutoff in its row a file has every record of the feed; during a catch-up it
  has those of the topics already done, and of the topic at hand all but what the resumption token stands for.
* `Follows`: a catch-up of a retained feed asks from the cutoff of the active database, which is right as long as
  a refresh has not moved that cutoff beyond the copy's. This is the condition behind the flaw `gap`.
* `CaughtUpOK`, `RefreshOK`: when the run is through with the feed, its records up to `until` are there.

One lemma per step (`IngestKeeps`, `HarvestKeeps`, ...) takes it through all parts, and `NextInv` collects them; a step that only saves, dies or lets time pass leaves both
files alone, and for these the lemmas about `Fits` and `Fetched` need only that nobody takes records away.

`ServicesProofs` also proves `EnginesAgree` of `Imaging`, for any largest side, area, margin and number of edits
(`ImageAssumption`: natural numbers, a side of at least one). What has to be known at every step (`ImageInv`) is
that both engines hold well-formed images or have refused and, as long as every edit was portable, that neither has
refused and the size still fits (`Alike`): only then does the check that Pillow makes after each edit, and
ImageMagick leaves to its policy, decide nothing. The rest is arithmetic. `CropAgrees`: under a gravity that leaves the region
where it is, and inside the image, what ImageMagick clips is nothing. `FitAgrees`: the two roundings of a fit are
equal when the factor divides, and a fit that ImageMagick skips since nothing has to shrink is the identity in Pillow
as well. `PadAgrees`: half of an even difference is the difference of the halves. `OverlayAgrees`: the cut at zero
does nothing while the layer and its margin are inside. `MontageAgrees`: column and row of a cell are remainder and
quotient; that ImageMagick's rows, counted one after the other, come to the quotient takes a bijection
(`CountMultiples`); a last row that is full is not moved by being centred. `PillowType` and `MagickType` hold of every edit, portable or not.

For `RegexWorker` the invariant adds (`WorkerInv`) that the child has ended or was killed whenever the caller waits
without a limit, and that the pipe is closed from the `finally` on, whatever the child still tries to send.

The properties of `Broker`, `Imaging`, `RegexWorker` and `Corpus` are checked in the compositions `MCServices` and
`MCModules`, and `ResourcesHeld` of `JobManager`, for jobs of one key, in the latter; all under names of their own.
`ServicesProofs` and `ModuleManagerProofs` therefore extend these compositions: a step of the whole is a step of each
part or leaves its variables alone (`BrokerOfServices`, `JobsOfModules`, `CorpusOfModules` and their twins), so that
what `BrokerProofs`, `JobManagerProofs` and `CorpusProofs` prove, instantiated as the composition instantiates the
modules, holds in it. `SameNext` and the lemmas beside it say that two instances of a module under one substitution
have the same steps; the prover has to be told each definition of both. For `Corpus`, and for the keys and the limit
of `JobManager`, the composition fixes the constants, and the general statement is that of the module's own proofs.

Only model-checked: liveness (`EveryJobSettles`, `CacheCatchesUp`, `ArtifactsExpire`, `StaleUploadsGo`,
`AbandonedEnds`, `WrapperSettles`; temporal reasoning with fairness and ENABLED is beyond the prover) and the
properties of the modules of the run `requests` other than `JobManager`.

## 6. Where the code differs from its promises

Shown by a run that expects the violation:

* `settles_once`: a list reply that is applied after a newer one takes the cache back, and the job is
  announced twice (`src/jobs/manager.ts` 231, 240-260).
* `failed_is_failed`: `reconcile()` reports a job as failed that succeeded while it was being looked at
  (`src/jobs/manager.ts` 328-342); the success is then never announced.
* `limit_exact`: a failed listing or a submission that times out lets a node exceed its limit
  (`src/jobs/manager.ts` 133, 199, 246; `docs/Reference.md` 556).
* `store_wedge`: the staging directory of a dead publisher ends every later collection, and every
  `begin()`, with an exception (`modules/artifact-storage/store.py` 412).
* `store_commit`: a broker that dies inside `commit()` loses the upload, and its bytes are neither counted
  nor collected (`modules/artifact-storage/store.py` 317-321).

`LimitHeld`, `KeysAreHeld` and `StaleUploadsGo` are what remains true: they name the exception (`blind`,
`late`, `revived`, `Wedged`) instead of excluding it from the model. `CacheCatchesUp` assumes that jobs stop
going on after a failure at some point, without which no listing stays true.

Met while modelling and stated in the modules without a run of their own:

* A job that `reconcile()` fails while its runner is just starting runs to its end all the same: `fail()` and
  `run()` both read `state.json` before the other writes it (`src/jobs/remote-runner.py` 58-62, 160-191). Its
  place and its keys are given to others meanwhile, and it is announced again (`revived` of `JobManager`;
  `Contested` of `JobRunner`). Its locks still keep its command apart from theirs.
* A singleton module can be installed on two nodes: the second installation looks for receipts while the job of
  the first one has not written any (`src/modules/manager.ts` 954; `OneInstallation` of `ModuleManager`).
* `purgeData()` takes a node that did not answer for one without the module and wipes the data of an installed
  one (`src/modules/manager.ts` 576; `PurgeSparesInstalled`).
* A provisioning killed after its last commit and before its last checkpoint can never be finished
  (`modules/corpus-search/provision.py` 388, 445-460; `ResumeCanFinish` of `Corpus`), and a catch-up resumed on a
  later day records a cutoff for topics it has not asked again (374). `NoGap` excepts databases with such a flaw.
* A refresh that is killed in a transaction leaves `corpus.db-journal`. `provision()` renames a new database over
  `corpus.db` and removes `-wal` and `-shm` of the working file only; the next refresh opens the new file for
  writing, and SQLite rolls the old journal back into it (`modules/corpus-search/provision.py` 456-462, 496, whose
  comment says that this journal "keeps the activated file self-contained, so read-only callers are unaffected";
  they fail while it is hot). `Corpus` marks such a file (`journal` of its flaws), `ActivatedIsWhole` and `NoGap`
  except it; what is read from it until a check notices is taken to be what was there.
* A reinstallation that fails between install.sh's removal of the version's directory and the move of the new one
  leaves a receipt and a link without a directory (`modules/python-compute/install.sh` 170-171).
* A response beyond the limit turns a call that has stored artifacts into an error without their identifiers
  (`modules/python-compute/service.py` 261).
* A document-ocr adapter that is killed, or interrupted in a `finally` block, leaves its call directory for good
  (`modules/document-ocr/server.py` 130, 194). One that is interrupted in or after `publish_reserved()` (181) fails
  and has stored the artifact, for the publisher takes a batch back on `except Exception` only
  (`modules/artifact_protocol.py` 340) and a KeyboardInterrupt is none; so does one whose worker's result has no
  `model` (184). `ErrorStoresNothing` is therefore about the three brokers.
* The two image engines differ, although `modules/image-processing/ImageProcessing.md` 148 calls the edits "the
  portable, bounded intersection" of both: a `-gravity` that a fill or a pad has set holds for a later crop
  (`processing.py` 271, 275, 283), where Pillow counts from the corner; Pillow ignores the gravity of a pad (418)
  and enlarges the image to the box first; a montage's last row that is not full is centred by ImageMagick (532)
  and left-aligned by Pillow (498); overlays at the centre, upscaling fits and sizes beyond the area differ as well.
  `Portable` and the guards that set `exact` say on what they agree.
* A Chromium that starts and does not answer is left running (`modules/browser-retrieval/browser.py` 214).
* Of two overlapping matches `redact` drops the one that begins later although it may end later
  (`modules/text-tools/operations_data.py` 815); the overlap that `chunk` carries over can make a chunk longer
  than `maxCharacters` (`operations_text.py` 612-638), which `modules/text-tools/TextTools.md` 297 excludes ("`chunk`
  never exceeds `maxCharacters`").
* Of two versions whose pre-release identifiers are one number in two texts ("01" and "1", which `SEMVER_PATTERN`
  accepts) each is greater than the other (`modules/text-tools/operations_developer.py` 127, 147-148;
  `AllVersionsAreOrdered` of `JsonTools`).
* `difference` subtracts two moments of one zone as the clock shows them: across a change of the clocks the
  interval is an hour off (`operations_datetime.py` 153; `DifferenceIsAlwaysElapsed` of `TimeTools`).
* The pages after the first of a corrected query are those of the query as it was written, hence empty
  (`modules/corpus-search/corpus.py` 633; `CorrectedPagesComplete` of `CorpusQuery`).
* A model whose include file is torn by a failed write is reported as missing and indexed all the same
  (`modules/image-render/assets.py` 114, `library.py` 281; "torn" in `RenderLibrary`).

## 7. Not modelled

* Listings over several nodes (a slow node is an arbitrary delay of the reply), job states that do not parse,
  truncated listings, logs and progress; clocks, except that a start grace, an hour and a day pass at any
  moment.
* Images turned by other angles than quarter turns, and overlays and watermarks beyond where their corner is put.
* A document-ocr container that podman cannot stop: it runs on by itself, and the model lets it end with the call.
* What SQLite makes of a file into which a foreign journal was rolled back, beyond that a check may notice it.
* Quotas per producer, free space, digests, paging and the framing of sockets in the store.
* Immediate calls of a module: the choice among installations is a cursor, and the SSH transport keeps nothing
  between calls. The inventory cache, packages and mounts of the module manager appear as refusals.
* What a sandboxed program computes, recognition, rendering, colours and encodings, the text of pages and of
  records, ranking, formats that a library parses.
* The reuse of SSH connections: its outcomes are faults of the managers. SMB sources are one operation at a time
  over external programs. The audit log is a ring nothing depends on. Uploads and downloads are clients of the
  artifact store, which allows any sequence of their calls.
* Parsing, validation and presentation in the rest of `src/`: no state changes, or none that another component
  reads.

`PROJECT.json` gives the reason for each component.
