# Research Agent Reader: TLA+ models, checks and proofs

The repository is an Obsidian plugin (TypeScript) that brings papers into a vault:
it finds and confirms them, converts their PDFs, drafts notes with a language model, registers the
notes, and helps to read them. Much of it is layout, parsing and prompts. This directory models
the part that is concurrent, that may stop in the middle, and that writes to files the user cannot
easily restore. Paths below are relative to the repository's `src/` directory; `PROJECT.json`, where the repository
is checked out as `src`, calls them `src/src/...`.

`PROJECT.json` maps every definition to the lines it models, lists the hazards with the properties
that cover them, and for every property a plausible mistake in the code (a mutant) that breaks it.

## 1. Inventory

### What is modelled

| component | state it keeps | operations | what is hard | what makes it correct |
|---|---|---|---|---|
| **Task-run history** `plugin.ts`, `runtime/persistence.ts`, `runtime/task-output-persistence.ts` | `plugin.taskRuns`, the chain of `withTaskRunMutation`, the save queue, `data.json`, an output file per run | start, finish, limit, clear, progress of an ingestion, load | a two-phase deletion (mark, save, unlink, save) interleaved with saves requested by the rest of the plugin; failing writes; a stop at any await | `data.json` never points to an output that is gone; a durable outcome is not replaced or lost; outputs are deleted only on a durable order; one ingestion at a time |
| **External command runner** `runtime/mineru-process.ts`, `runtime/windows-job-runner.ts` | the closure of one command, the process tree | run, abort, timeout, the events of the child | two coroutines on one tree; late events; signals that are ignored, taskkill that fails | the promise settles, with no process left to write; a stop is reported as one |
| **Vault action processes** `runtime/process-execution.ts`, `runtime/lifecycle-state.ts` | the child in hand, its stop file, two timers | actions, code practice, queries, probes, stop, shutdown | a stop, the time limit, the grace period, the end of the program and the unload race for one callback | each call is answered once; no stop file that can be removed is left for the next action; the child one can stop is the one that runs |
| **Bounded agent loop** `agent/loop.ts`, `agent/tool-feedback.ts` | turn, budgets, failure counts, signal, deadline | turns, tools, stop | a provider or tool that hangs; four sources of an abort, each of which sets the status | limits hold, a stop is reported as one, no tool starts after it, the loop returns |
| **MinerU publication** `agent/mineru-publish.ts` | lock file, staging trees, hidden containers, the package directory | acquire and reclaim the lock, convert, copy, expose, clean up | several processes; a crash between any two system calls; stale locks and reused pids | a visible package is whole and never replaced; a live lock is kept |
| **Paper ingestion service** `agent/agent-loop-service.ts`, `agent/paper-ingest-flow.ts`, and the writing and identity tools of `agent/tools.ts` | the runs with their phases, snapshots and receipts; what the tools of the identity phase have seen | start, confirm, stop, unload; the five identity tools, the verdict | many awaits, early returns, retries; a user who never answers; another writer in the vault; a model that calls tools in any order and claims anything | nothing without confirmation; the result is true; one record per paper; a paper taken for new is new; the unload waits |
| **Ingest registration** `agent/ingest-registration.ts`, `agent/ingest-records.ts`, `views/ingest-registration.ts` | the registered files, the records, the writer's queue, the preview windows | preview, confirm, apply, recover | stale previews; failures and reloads between two files | what is half registered is recorded; no text of the vault is lost; the queue goes on |
| **Full-text acquisition** `fulltext/service.ts`, `fulltext/repository.ts` | jobs in memory, revisions with `.ready` markers, snapshots of files, one run at a time | start, retry, choose, link, preview, stop, deadlines, recovery, dispose | a stop, a deadline, a late result of an older attempt and a save that fails race for the phase of a job | a granted stop holds; what is called acquired has its snapshot; the journal stays readable; every phase ends |
| **Library records, knowledge drafts, topic routes, study events** `library/record-store.ts`, `curation/draft-store.ts`, `topic-learning/store.ts`, `topic-learning/study-store.ts` | append-only revisions with parents, each a body and a marker | read the history, save | devices that share the directory; a file that is created and not filled | a revision once whole stays; a fork or a damaged file is reported, not overwritten; drafts never fork |
| **Source intake** `papers/source-intake.ts`, `jats/intake.ts`, `library/metadata-intake.ts`, `papers/vault-catalog.ts` | plan journal, ownership record, files of a package, manifest, source index | prepare, commit, cancel, dispose | two services on one package; a stop between two exclusive writes; an index edited meanwhile | the package is the work of one plan; entries by others stay; a plan with a stale PDF stops |
| **Knowledge curation** `curation/writer.ts`, `curation/service.ts` | notes, indexes, log, the record of each revision, decisions | preview, apply, resume, undo | stale previews in two windows; failures between files; undo after later edits | a change is recorded before it is made; an item is applied once; no text is lost |
| **Guided reading, assistant cards** `reading/workspace.ts`, `reading/store.ts`, `reading/session.ts`, `reading/engine.ts`, `assistant/service.ts` | a tree of questions and answers per session, the queue of its edits, a generation per node, the saved cards | ask, go on, retry, stop, time out, load; prepare, open, link and refresh a card | a retry, a stop, a failing save and a late answer on one node; a crash between two files that name each other | an answer stays; a node is answered from finished ones; a card goes on once; every generation ends |
| **Knowledge index** `retrieval/service.ts`, `retrieval/store.ts`, `retrieval/vault.ts`, `retrieval/chunks.ts` | the index in memory and in its file, the status shown, one build, searches | load, update, stop, inspect, search | a stop or a crash between an answer of the model and the save of its batch; an inspection beside a build; edits during both and during a search | an index shown as complete is; no batch is paid twice; answers come from the text as it is |
| **Excerpts** `annotations/excerpt-library.ts`, `learning/answer-excerpts.ts`, `createExcerpt` of `annotations/annotation-service.ts` | one Markdown file per excerpt, what each window has read, the queue of the answers' service | save, read, note, revise by hand, restore, mark as done | a write that commits and whose answer is lost; windows, devices and editors on one file | only what was read is replaced; what is shown as saved is; a mark of completion is about one text |

How they interact. The dashboard starts an ingestion through `startTaskRun`, whose queue admits one at
a time (`SingleIngest`). The ingestion service runs bounded agent loops for the identity and the
draft, hands a conversion to the MinerU publication, which runs its two commands through
the external command runner, and writes the note itself. Its result is the outcome the history
stores and the plan the registration starts from. The other actions of the dashboard run agent CLIs as
child processes. The full-text acquisition fetches files whose import the source intake commits; the records
of the library, the curation and topic learning are append-only journals of the same kind, and the curation
writes the notes an ingestion created, and the knowledge index embeds them for the searches of the dialogues. All share the vault; the commands and the lock are
also shared with other processes, and the journals with other devices.

### What is not modelled

| component | state | why not |
|---|---|---|
| Queries `query/*` | none | prompts are pure; one call of a provider; the search it uses is in `RetrievalIndex` |
| Settings and their save | settings | normalisation is pure; the save is a step of the history |
| Full-text sources, providers | none | HTTP and parsing; in the models, calls that answer, fail or hang |
| Trusted vault files | none | path checks and verified reads, whose outcome the operating system decides |
| Library projection, JATS conversion, MinerU reader | none worth the name | pure functions of files: grouping, conversion, layout |
| Services, views and modals, scripts and tests | none | rendering and tooling; the windows a protocol depends on are in `PaperIngest`, `IngestRegistration` and `CurationRevision` |

Partly modelled, with the missing part named in `PROJECT.json`: the history (migration of data of earlier versions), the
publication (content of packages), the ingest tools (the reads of the draft phase are inputs the models choose), the registration
(the texts of a plan), the drafts (the staged creation of a page), topic learning (the calls of the model), the storage of sources
(the checks of packages), the source intake (the copy of a local PDF), the curation (how suggestions come about), the reading (texts, the export,
the relocation of a source, the unload), the assistant (its loop of model turns, which has the form of the bounded loop, and the cards that only open a window),
the index (how passages are cut and ranked), the excerpts (the quoted texts and the check of their sources), the annotations (those with a link in the source,
and their archive).

## 2. Modules

```
TaskRunLedger  <- implemented by -  TaskRunHistory  <- EXTENDS -  TaskRunHistoryProofs
                                    MineruProcess   <- EXTENDS -  MineruProcessProofs
AgentRun       <- implemented by -  AgentLoop
AgentRun       <- INSTANCE in    -  PaperIngest     <- EXTENDS -  PaperIngestProofs
RevisionLedger <- implemented by -  RevisionJournal <- EXTENDS -  RevisionJournalProofs
                                    MineruPublish   <- EXTENDS -  MineruPublishProofs
                                FullTextAcquisition <- EXTENDS -  FullTextProofs

MCServices     hosts  MineruProcess, CliProcess, GuidedReading     <- EXTENDS -  MineruProcessProofs
MCPaperIngest  hosts  AgentLoop, PaperIngest, IdentityGate         <- EXTENDS -  IngestProofs
MCStores       hosts  RevisionJournal, MineruPublish, IngestRegistration, SourceIntake, CurationRevision,
                      RetrievalIndex, Excerpts, GuidedReading      <- EXTENDS -  StoresProofs
```

A *host* runs several modules that share nothing, each by itself: a variable that never changes says which one
a behaviour is about, the others rest in an initial state. It keeps the number of runs small without
multiplying state spaces. A host extends one of its modules (the first) and instantiates the others. The proofs about a host take
over what is proved of a module by itself: `IngestProofs` instantiates `PaperIngestProofs`, and `StoresProofs` instantiates
`MineruPublishProofs` and `RevisionJournalProofs`, at the variables the host gives the module.

In all of them a step is what the code does between two awaits; a value that the code read before
an await is kept in the state until the code uses it. I/O may fail wherever the code handles a failure.
Variables whose comment says *ghost* are read by properties only. Constants named `Max...` bound the
model; `AgentLoop`'s `MaxSteps`, `MaxOutput` and `MaxResult` alone are options of the code itself.

**TaskRunHistory.** `mem` is `plugin.taskRuns`; `op` is the mutation that holds
`withTaskRunMutation` with the values its closure kept (`evict`, `orig`), `saveq` the promise chain
of `DashboardPersistence.save`, each element a snapshot taken when the save was requested; `disk` is
`data.json` and `sidecar` the output files. `Start`, `SetLimit`, `Clear`, `Finish`, `IngestProgress` begin a
mutation; `Accepted`/`Rejected`, `Unlink`, `Retire`, `Retired`, `Journalled` continue it; `LoadBegin` to
`LoadSaved` are `loadSettings` with its clean-up and the recovery of outcomes; `OtherSave` is
`saveSettings` of any other part of the plugin; `Crash` ends the plugin anywhere. A run is named by the
order of its start, so the array, newest first, is a function. `ordered` holds the runs whose deletion
was durably accepted, `asked` those that something else than a start wanted deleted.

**TaskRunLedger** is what the history promises: the outcome a reload would show of every run settles
once, is never replaced, and goes only by being retired. `TaskRunHistory!Ledger` computes that outcome
from `disk`, `sidecar` and `ordered`.

**MineruProcess.** One command. `tpc` is where the coroutine of `terminateTree` is, `cpc` where the one that
the close event started is; both may be under way. `platform` is chosen at the start and never changes,
so both platforms are checked together. Fork, exit and reaping of processes are the environment;
`LeaderExit` includes what the job object does on Windows when its wrapper ends.

**AgentLoop.** `runBoundedAgentLoop`. `Top` is the head of a turn, `Register` the cancel function of the
provider, the disjuncts of `Model` what a turn of the model yields after parsing, `Execute` and `Tool` the
call of a tool, `ExternalAbort` the caller's signal, `Watch` and `CancelWatch` the two interval timers.
`fed` counts the text of tools put in the transcript.

**AgentRun** is what the loop promises its callers: one result, eventually; after a stop neither
completion nor a plain failure. `AgentLoop` implements it; `PaperIngest` uses it as what its own loops do.

**MineruPublish.** Every publisher is an operating-system process, so every system call on the shared
directory is a step: the `open`, the write of the record, the reads of a found lock, the comparison of the inode,
the unlink, and so on. `inodes` is what each lock file ever created records; `lock` is the inode now at
the path. A publisher may crash before each of them and be started again as a new incarnation; whether the
dead one's pid can be told from a reused one is open (`Dead`).

**PaperIngest.** `pc` is the phase of a run, `job` what was asked, `id` what the run found out about the
paper, `got` the receipts it will report, `pkg` and `note` the files of the vault under each citekey, with the
paper they are of and the run that wrote them. Every early return and the catch and finally clauses of
`AgentLoopService` are there. The publication of a package is one create-only step, which
`MineruPublish!CreateOnly` and `PublishedWhole` justify.

**IdentityGate.** The identity phase of one run, which `PaperIngest` takes as one step that finds out what its gate asks (`Searched`).
`files` is what the vault says, which does not change; `listed`, `read`, `looked`, `checked`, `found` are what the calls of the model have returned, each tool an action with
the guards of its wrappers (`preflight`, `attempted`, `tries`). `Decide` is any claim of the model: `Selects` binds it to a record of Crossref,
`Supported` is `validateIdentityReceipts` and accepts it or not. The properties compare what was accepted with `files` and `Registry`, which the gate does not see.

**IngestRegistration.** `win` are the preview windows with the plan shown, `queue` and `task` the writer,
`record` the stored plans. A plan has, for each file, the text before and after. A text is abstracted to
the set of entries, a count of edits by others, and the date of its last log entry. `"index"` stands for both
indexes and `"bib"` for the table and the BibTeX file, which are treated alike.

**CliProcess.** `ProcessExecutionService` with calls that may overlap: an action of the dashboard (with its
stop file), a code practice, a query, or a probe. `child` is the process of each call, `known` the registered programs
(`activeProcesses`, `activePracticeRuns`), `clock` the timers, `stopFile` the calls whose stop file exists. Timers, the grace period, late
`error` and `close` events and the unload are steps; a program may ignore the stop file, and one that was killed may take its time.
`Settle` may fail to remove a stop file (`stuck`), which the code only warns about: `NoStopLeft` is about the others.

**GuidedReading.** One session and its assistant cards. `session` is the document in memory; its file holds the same, up to the marks a
load makes again. `queue` are the edits behind `ReadingRepository.transact`: each is applied to the session as it is when its turn comes, and
becomes the session when it is written. `gen` is where the generation of each node is (`opening`, `closing` and `failing` wait in the
queue, `working` calls models), `halted` the aborted controllers, `act` the saved cards, `advance` what
`dispatchAssistantAction` is doing for one. `Restart` is a crash at any point and the next load.

**FullTextAcquisition.** One job. `job` is the copy in memory, the journal a sequence of revisions of which some are marked
ready, `snap` the snapshots of fetched files. A failure ends a job with the `Outcome` its error carries: failed, no match,
conflict, or a configuration that is missing. The steps of a run take the stages in the order of the code; what a run took
from the job before an await is in its frame. `Pick`, `Link`, `Retry` and `Start` are what windows and commands ask, `Open` begins a preview,
whose last step writes back what the job was when it began. A save may fail or leave a body without a marker; a snapshot may be damaged; `Crash` and
`Load`, `Recover` are a restart. The code looks at `disposed` for its runs only: a service that is closing or closed still takes a stop, a link or a preview, and its
queue still writes the mark of a preview that comes late (`Loaded`).

**RevisionJournal, RevisionLedger.** One journal in one of four styles: `"record"` (bodies with parents and heads), `"draft"` (ids that are
digests, so that the same draft is the same file; a pending body blocks others), `"route"` and `"study"`. Only a record may have several heads.
A save reads the history, checks, creates the body empty, fills it, creates the marker and fills it, then reads again.
Windows of one device or of several do so at the same time, and may stop anywhere. `RevisionLedger` is what the stores promise: nothing
that was committed changes or goes, and of two saves that were reported as successful one knows the other.

**SourceIntake.** Two services that save sources of one paper: a PDF (`SourceIntakeService`), a JATS document (`JatsIntakeService`), and the bibliographic
record of `LibraryMetadataService`. `Prepare` is one step; `Begin` to `Enter` are `commit`: the checks of the plan, its journal, the ownership
record, every exclusive write, the manifest, the index.

**CurationRevision.** `CurationService` and its writer with two windows. A revision is a plan for a note, an index and the log; `rev` holds its record, `file`
the texts, abstracted as in the registration to what was put in and the edits by others. `Begin` and `Check` are the queue's start and
`execute`'s comparisons, `WriteFile` each file, `Complete` the last save, `Recover` its catch clause. `PreviewResume` takes any revision: one that is applied already
(the row of a list that was drawn earlier) is only finished, that is, its decisions are saved if they were not.

**RetrievalIndex.** `KnowledgeRetrievalService`, of which one instance serves the knowledge notes and another the learning records. `docs` are the notes,
`snap` is `this.snapshot`, `disk` its file (`there` if it can be read, which the file of an empty vault can, too), `build` what the closure of `build` holds, `status` what the settings show. `ReadNotes` to `Recheck` are
the build; a batch is one passage, so that `Embed` and `Save` alternate; a stop is seen wherever the code looks at its signal. `Inspect` to
`InspectShows` may overlap a build that begins later, as in the code. `Ask` to `Answer` are a search, whose ranking is any choice of passages.
`paid` holds the texts whose batch was answered and not lost to a failure or to the end of the plugin, `seen` the notes the status is about.

**Excerpts.** One file, with two windows. `style` says which of the two services it belongs to: only the one for answers has a queue (`turn`), revisions and a
credential that an edit by hand breaks (`Readable`). `shown` is the snapshot a window works on, `intended` what `mutate` has computed inside `Vault.process`.
`Apply` is that call, with an answer that may be lost whether or not it wrote; `Recover` is the catch clause, `Verify` the read after it, `Look` to `Confirm`
are the creation.

## 3. Runs

Every run that is expected to pass explores its state space completely.

| run | instance | distinct states | what it shows |
|---|---|---|---|
| `task_history` | 3 runs, two of them ingestions and one with a source, limits 1 and 2, 2 loads, 1 pending save, every file operation but the save of `data.json` may fail | 2,091,644 | `ImplementsLedger`; a recoverable journal stays referenced (`JournalRecoverable`); deletion only on a durable order (`UnlinkIsOrdered`) |
| `task_history_faults` | 2 runs, both ingestions, saves may fail as well | 113,049 | `CommittedOutputReadable`, `OutcomeAgrees`, `SingleIngest`, `QueueReleased` |
| `services` | a MinerU command on both platforms with up to 2 descendants; 2 calls of agent CLIs, of 4 kinds; a reading session with 2 nodes and a card | 26,819 | `StagingSafe`, `StopIsReported` of the command; `NothingLeft` of the calls; `CommandsEnd` of both; `GenerationEnds` of the reading |
| `paper_ingest` | four scenarios: 3 runs one after the other with 2 papers and 2 suffixes; 1 run of either identity mode with stop, budget, unload and one file by someone else; the bounded loop alone with 2 known requests and an unknown one, 5 turns and an output budget of 5 characters; an identity phase with 3 files, 2 titles, 2 DOIs and 3 records in Crossref | 557,823 | `RecordsApart`: retries complete a record and do not fork or mix it; `ReportsTrue`, `WritesBacked`, `BarrierHolds`, `NothingReplaced`, `RunsEnd`; `VerdictsHold` of the gate; of the loop `NoThirdTry`, `FedBounded`, `UserStopReported`, `NoToolAfterAbort`, `RunKeepsPromise` |
| `fulltext` | 1 job, 2 attempts, 1 failing save or 1 damaged snapshot, 1 restart, previews, retries, a stop | 1,488,798 | `StopHonoured`, `AcquiredBacked`, `RunnerOrSettled`, `HighestIsOne`, `Finishes` |
| `stores` | the eight modules of `MCStores`, each with two windows, services, processes or notes, or with a reading session of 3 nodes and a card; crashes, failures and edits by others | 816,844 | `ImplementsLedger` of the journals; `DoneOnce` of the journals and the curation; `PublicationSafe`, `CreateOnly` of the publication; `HalfDoneIsRecorded` of the registration and the curation, `VaultTextKept` of both and of the excerpts; `IntakeSafe` of the intake; `IndexTrue` of the index; `AnswersKept`, `ReadingTrue` of the reading |
| `start_save_fails`, `journal_lost` | 3 runs, failing saves | violated | findings 1 and 2 |
| `mineru_publish_stolen` | 2 publishers, 1 crash, 1 restart | violated | finding 3 |
| `registration_stuck` | 2 notes, 2 windows, no edits and no reload | violated | finding 4 |
| `fulltext_stale` | 1 job, 2 previews, 1 retry | violated | finding 5 |
| `intake_cancelled` | 1 service, 1 source | violated | finding 6 |

Some properties of the hosts are conjunctions of properties of their modules, each checked whole:
`RecordsApart` is `OneRecord` and `Unmixed` of `PaperIngest`; `ReportsTrue` is `CompletedTrue` and `Accounted`, `WritesBacked` is `ConfirmedFirst` and `NoteHasSource`;
`VerdictsHold` is `IdentityGrounded`, `NewIsNew` and `DuplicateIsOne` of `IdentityGate`;
`PublicationSafe` is `PublishedWhole`, `ReceiptTrue`, `StageNotPulled` and `LiveLockKept` of `MineruPublish`;
`HalfDoneIsRecorded` and `VaultTextKept` are those of `IngestRegistration` with `ChangeIsRecorded` and `TextKept` of `CurationRevision`,
the latter also with `NothingUnseen`, `ToldTrue` and `MarkStands` of `Excerpts`;
`DoneOnce` is `DraftNeverForks` of `RevisionJournal` and `AppliedOnce` of `CurationRevision`;
`IntakeSafe` is `PackageWhole`, `IndexKept` and `StalePlanStopped` of `SourceIntake`; `IndexTrue` is `UpToDate`, `SentOnce` and `HitsLive` of `RetrievalIndex`.
`NothingLeft` is `NoStopLeft` and `LeftInHand` of `CliProcess`; `CommandsEnd` is its `Answered` with `Settles` and `TreeReaped` of `MineruProcess`;
`ReadingTrue` is `ContextDone`, `OneAdvance` and `NoneAbandoned` of `GuidedReading`;
`RunKeepsPromise` is `AgentLoop!KeepsPromise` in the behaviours that are about the loop.

Why the bounds are enough to meet the interesting cases:

* The history needs a run beyond the limit, one at it, and one more to push it out: three runs with
  limits 1 and 2. A run with a source that starts first is one whose journal and outputs the later starts push out. (`JournalRecoverable` is false,
  even with no failing save, when such a run starts after ordinary ones: what is marked at its start is counted against a limit of at least all candidates,
  what is written against the configured one, `plugin.ts:2514` and `persistence.ts:161`. Its outcome is then lost as in finding 2,
  so the theorems about it assume `RoomForSource`, section 5.) Two loads are a crash with its recovery, and `LoadBegin` can be cut
  by a second crash. One pending save besides the one awaited is the unrelated save of finding 1. With
  failing saves two runs reach every roll-back; the two findings take a third run.
* A group of two descendants has one that outlives another; more repeat the same probes. Two calls of a CLI may
  overlap, and one must not meet the other's stop file or timers.
* Two nodes of a reading are enough for every way a generation ends, which is what `GenerationEnds` is about; for the safety properties
  three nodes are a line with a branch, or a line that the user takes further while a card waits; one card is enough,
  because what it races is the user.
* Five turns fit two failures of one request with a success or an unreadable turn between them, and what the
  guard does then; two unreadable turns in a row end a run. Results of 2 and 4 characters meet the cut of one
  result (3) and, in three calls, the budget of the run (5).
* Three runs make a failed run, its retry, and a run for another paper with the same citekey between or
  after them. `MaxActive = 1` because the history admits one ingestion (`TaskRunHistory!SingleIngest`).
* Two records of Crossref with one title and different DOIs, and one without a DOI, make a claim bound to another record than it meant; three files,
  of which a search lists two and one may be read, make a list that is cut off and files under different citekeys.
* Two attempts of a full-text job have a late result of the first in the second; a failing save or a damaged snapshot, one of the two, meets
  a restart in any order. For any number of both the theorems of section 5 hold.
* Two publishers and one crash give a stale lock with two reclaimers once the crashed one is started again.
* Two notes and two windows of the registration have a stale preview, two plans for one note, and a half-done registration
  that another one follows. Two windows of the curation do the same for apply, resume and undo; a third revision is there for a second undo of the first
  only, without failures (`CurationBound`), so that undoing twice is possible and `AppliedOnce` can fail. The proof of `NothingTwice` takes the steps of the curation without this bound.
* Two windows of a journal race for one parent; a window that stops leaves an empty body or an empty marker for the other and for its own restart.
* Two services of the intake meet in the index and in the package; one restart resumes a plan.
* Some things that happen to a part are not let happen together (`JournalBound` to `ReadingBound` of `MCStores`, `StopsBound` of `MCPaperIngest`): a failing save and
  a third revision of a journal; a crash and a cancelled publication; an edit and a second plan of a registration; a second plan of an intake with metadata edits;
  an edit beside a window that chooses the last suggestion; the abort of an answer and a mark that was not saved; an unload and a file of another writer. Each alone meets the
  steps of the other actors; the theorems about the publication, the journals and the ingestion by themselves (section 5) have no such bound.
* Two notes give the index a first batch that is saved and a second that is not. Of edits, failures and restarts two happen in all: an edit and its reversal,
  a failure and a restart, a restart in the middle of a build and an edit before the next. The host checks builds with inspections, and searches, in behaviours of their own,
  because a search waits for nothing of a build but the load, and what it takes from the index is any choice.
* Two windows of an excerpt with three requests have a stale snapshot, a mark that is set between two notes, and a history of revisions at its limit; one write that
  fails or loses its answer, or one edit by others, comes anywhere between.

`CHECK_DEADLOCK FALSE` is set because every one of these systems may come to rest: a command has settled, a
run has ended, no session, plan or crash of the bound is left. `MCStores` declares the windows symmetric: they are
interchangeable in every definition, and the run checks no liveness property. The publishers and the files of the index have the
names of the windows and the same symmetry; no part has two of these kinds.

## 4. Fairness

Fairness is assumed of the event loop and of bounded waits, never of a user, a model or a process.

* `TaskRunHistory`: `WF(Written)`, `WF(Resumed)`: a write of `data.json` is answered, with success or failure, and
  a mutation that awaits something resumes. The queue is chained past rejections (`plugin.ts:444`), so `QueueReleased` can fail only where a save
  is never answered to the one that awaits it, which is what its mutant does. Nothing makes a user start, finish or clear.
* `MineruProcess`: the events of the child, the timeout and the steps of the two coroutines, whose
  waits all have time limits in the code. `TreeReaped` alone adds, as its premise, that a killed process dies.
* `AgentLoop`: synchronous code, the timers, the clock. A provider is bound to answer only after its cancel
  was called, a tool only after its signal was aborted.
* `PaperIngest`: the work of a run and its budget timer, and an intake once it is aborted. Confirming is not
  fair: `RunsEnd` holds for a user who never answers, because the budget closes the window.
* `CliProcess`: the timers, and the events of a program that was killed. A program that was only asked to stop need not.
* `FullTextAcquisition`: the queue that takes the next job, the answers of writes and the deadlines. Neither the sources nor the
  user are fair: `Finishes` rests on the deadlines.
* `GuidedReading`: a write ends, with success or failure; the timer of a generation fires; an aborted generation throws. No model
  is bound to answer before it is aborted.
* The modules of `MCStores` are checked for safety only.

A host asks fairness of each of its modules only in the behaviours that are about it, or of steps that are never enabled in the others.

## 5. Proofs

They hold for every value of the constants. Where the last column is empty, what they assume is the `ASSUME`s of the modules they extend,
which the runs evaluate.

| theorem | states of every behaviour | also assumed |
|---|---|---|
| `TaskRunHistoryProofs!TypeCorrect` | `TypeOK` | |
| `TaskRunHistoryProofs!OutputsReadable` | `CommittedOutputReadable` | |
| `TaskRunHistoryProofs!IngestIsExclusive` | `SingleIngest` | |
| `TaskRunHistoryProofs!OutcomesAgree` | `OutcomeAgrees` | |
| `TaskRunHistoryProofs!UnlinksAreOrdered` | `UnlinkIsOrdered` (an action property) | `data.json` can be written |
| `TaskRunHistoryProofs!JournalsRecoverable` | `JournalRecoverable` | `data.json` can be written; a run bound to a source starts with room (`RoomForSource`) |
| `TaskRunHistoryProofs!HistoryKeepsLedger` | `ImplementsLedger`: the history implements `TaskRunLedger` | the same two |
| `MineruProcessProofs!StagingIsSafe`, `StopsAreReported` | `StagingSafe`, `StopIsReported` | |
| `MineruProcessProofs!NothingIsLeft` | `NothingLeft` (`CliProcess`, in its host) | |
| `IngestProofs!BudgetKept`, `PatienceBounded`, `StopReported` | `FedBounded`, `NoThirdTry`, `UserStopReported` (`AgentLoop`) | |
| `IngestProofs!ToolsStop`, `RunReportsTruly` | `NoToolAfterAbort`; `Promise!Safety`: the loop implements `AgentRun` but for its end | |
| `IngestProofs!LoopHolds` | the five of the loop, in its host | |
| `PaperIngestProofs!ReportsHold`, `WritesHold`, `BarrierStands`, `VaultOnlyGrows` | `CompletedTrue` and `Accounted`; `ConfirmedFirst` and `NoteHasSource`; `BarrierHolds`; `NothingReplaced` | |
| `PaperIngestProofs!RecordsStayApart` | `OneRecord` and `Unmixed` | one run at a time, of the legacy mode; nobody else writes |
| `PaperIngestProofs!VerdictsStand` | `IdentityGrounded`, `NewIsNew`, `DuplicateIsOne` (`IdentityGate`) | `GateAssumption` |
| `IngestProofs!ReportsHold`, `WritesHold`, `BarrierStands`, `VaultOnlyGrows`, `RecordsStayApart`, `VerdictsStand` | `ReportsTrue`, `WritesBacked`, `BarrierHolds`, `NothingReplaced`, `RecordsApart`, `VerdictsHold` of the host | |
| `MineruPublishProofs!PublishesSafely`, `NothingReplaced` | `PublicationSafe`; `CreateOnly` | |
| `RevisionJournalProofs!TypeCorrect`, `DraftsNeverFork` | `TypeOK`, `DraftNeverForks` | |
| `RevisionJournalProofs!JournalImplementsLedger` | `ImplementsLedger`: the files implement `RevisionLedger` | |
| `StoresProofs!PublicationHolds`, `PackagesStay`, `NothingTwice` | `PublicationSafe`, `CreateOnly`, `DoneOnce` of the host | |
| `StoresProofs!HalfDoneRecorded` | `HalfDoneIsRecorded` (registration and curation, in their host) | |
| `StoresProofs!TextOfOthersKept` | `VaultTextKept` (registration, curation and excerpts, in their host) | |
| `StoresProofs!IntakeStaysSafe`, `IndexStaysTrue`, `ReadingStaysTrue`, `AnswersStay` | `IntakeSafe`; `IndexTrue`; `ReadingTrue`; `AnswersKept` | |
| `StoresProofs!ExcerptsStand` | `NothingUnseen`, `ToldTrue`, `MarkStands` (`Excerpts`, in its host) | |
| `FullTextProofs!StopsHold`, `AcquiredIsBacked`, `RunsOrSettles` | `StopHonoured`, `AcquiredBacked`, `RunnerOrSettled` | |
| `FullTextProofs!ReadsBack` | `HighestIsOne` | the save of a link does not fail (as in the run, see the comment of the property) |

**The history.** `TypeOK` is not inductive: a mutation that awaits its sidecar names a run, and the
step that follows writes that run's status into the file. `Journalling` says that it is a run with a
terminal status; it is proved first, the two together are inductive.

`OutputsReadable` is the main result: whichever saves, writes and deletions fail and wherever the
plugin stops, an output that `data.json` lists without a deletion marker is on disk and is accepted when it is read.
`data.json` is written from snapshots that were taken earlier, so an invariant of `disk` alone says nothing
about the next write. `IInv == TypeOK /\ Journalling /\ Copies` speaks of all copies of the history at once,
in memory, in the queue, on disk and in the closure that a failed start restores:
`CopiesFit`, each copy fits the sidecars; `MarkedFirst`, from the first save of a deletion on, no newer
copy lists what is about to be deleted without a marker, and once that save is accepted no copy does;
`RestorePoint`, what a roll-back restores differs from memory in markers only;
`OneAwaited`, an operation awaits at most one of the queued saves; `LoadedMarks`, a load
deletes only what the file it read had marked. The proof has a lemma per action (`StartCopies`,
`WriteCopies`, `RetireCopies`, ...) that rests on lemmas about one copy (`FitMarked`, `FitUnlinked`,
`FitWritten`, ...).

`IngestIsExclusive` adds to it that no copy of the history lists two ingestions under way (`Exclusive`), `OutcomesAgree` that no copy shows
an outcome that a journal contradicts (`Outcomes`), `UnlinksAreOrdered` that what is about to be deleted has its order on the disk (`Ordering`).
The last needs saves that succeed: a save that fails leaves memory and disk apart, and a later operation deletes by what is in memory.

`JournalsRecoverable` and `HistoryKeepsLedger` need a second condition. The two exceptions are those of finding 2, and without either of them the
theorems are false: a save that fails, and a run with a source that starts over a full history, which marks nothing while `data.json` is cut all the same. `RoomForSource` says
of a step that it is not such a start; the run `task_history` has no other behaviours. Then no save drops a run that is not marked (`CopiesWhole`), and the copies of the history, from `data.json` through the
queue to memory, come one after the other (`InOrder`): a later one lists what an earlier one lists unless its deletion was ordered, lists nothing again that was retired, and shows the same outcome. With it go
`Listed`, a run in memory is on disk or in a save that is awaited; `NotYet`, a run that `data.json` has not had yet is running in every copy; `Evicting` and `Deletes`, what is evicted, marked or ordered to be deleted has settled;
and `Agrees`, no copy shows another outcome than the journal. A write of `data.json` replaces a copy by the next, and a finished run whose journal is written has been saved, since the finish awaits no other save.
So the outcome a load would show moves only from running to settled and from settled to retired (`StepOutcome`).

**The commands.** `Family` (descendants only of a spawned child; on Windows they die with the job) and `Closed`
(a close that was observed means that the child is gone) make `StagingSafe` inductive: where the code takes a
close or a failed probe as proof, these say what it proves. `StopHeld` does so for `StopIsReported`: the first coroutine that stops the command
decides what the other reports. `NothingIsLeft` rests on `Registered`: until the unload, a program that runs is in the registry, or was
signalled, or is a probe with its timer.

**The loop.** One invariant of three independent parts: text fed and budget left add up to
the limit until the budget is used up; no request has two failures while the loop goes on; after a user's
stop the status is `cancelled` and the signal aborted. The last one is why the order of the assignments in
the timers, the listener and the catch clause does not matter.
For `RunReportsTruly`, `Chosen` says that until the loop is left its status is "failed" exactly if the signal is not aborted; `StepKinds` sorts the steps into those that go on, abort, or return, and each kind is a step of `AgentRun` or a stutter.

**The ingestion.** What a run reports is about the vault, and other runs, other writers, a stop and an unload change both at any time. The invariant says of every run by
itself (`Fit`) what it relies on from one await to the next: it is active exactly from start to end (`Lives`); what it makes has a key and a
confirmation (`Keyed`), is of its paper (`Own`); what it has seen is still there (`Seen`), which holds because nobody removes; its receipts are the files it wrote,
but for the one of the step at hand, unless the user knows of an error or a stop (`Books`); a note is begun only when its text is there (`Sourced`); and the result is what
these say (`Told`). `Unloaded` is about the barrier.
That records stay apart is not true of runs that overlap, or with another writer in the vault: both searches may be over before either file
is made. For one run at a time `Apart` adds that a run which has found no record is right (`Sure`) and that the files of a paper are under one key (`Separate`).
`VerdictsStand` is about the gate alone: what the tools have returned is so (`Returned`, `Listing`, `Undecided`), hence what `Decide` accepts on their strength.

**The publication.** Nothing is assumed about who may reclaim a lock: `CreateOnly` and `PublishedWhole` follow from the copy being whole before the rename
(`Copied`) and the rename failing on what is there. `Staging` says that the tree of a live command is preserved. That a live lock is kept is proved as long as nobody crashed
(`Live`: nobody is proved dead, and a lock file is its creator's alone); after a crash it is false (finding 3).

**The journals.** `JournalImplementsLedger` maps the committed revisions to what they know. When a save is reported its revision was the only head, and `HeadKnowsAll`
says that an only head knows every committed revision: else a newest of those it does not know, which exists because ids are finite,
would be a head as well. `Ancestry` and `Known` keep the past of a revision closed and committed. For `DraftsNeverFork`, `Drafts` says that the windows between recheck
and marker are about one revision, which succeeds the only head.

**The revisions of notes.** `NothingTwice` is `DraftsNeverFork` and, for `CurationRevision`, this: what a window shows may be out of date, but a record is only made in
the step that compares it with the records there are, and later steps of the same turn change the state of that record only (`RecordSaved`, `OnceKept`). `Underway` says that the
writer, past its first check, is on a record that exists and is not yet completed.

`HalfDoneRecorded` and `TextOfOthersKept` say more of the texts (`ChangeInv`). A revision has the texts of before and after of each of its files; what it adds to its note are its suggestions, and an
undo writes what was there before (`RecordsKept`). Every suggestion found in a note is of a record that is being written or was (`NotesBacked`), and the files of a record that the writer has in hand have their new text unless
they are left (`Rewriting`). So one that is called applied is in the log and in the note, or undone (`AppliedStand`). No two applied revisions may claim one suggestion, or the undo of one would take the other's away: this is `DoneOnce` again.

**The registration.** `RegisterInv` says of a plan, in a window or in a record, that it enters its note in the files that did not have it and changes nothing else (`Plans`); that a file has a note only if there is a record,
and that one called applied is in all four (`Recorded`); and that what the writer has not left is entered (`Entering`). A window may show an old plan: what counts is that each file is compared again when it is written.

**The intake.** Two services, plans of earlier sessions and a third writer work on one paper, so what a save has found out must stay true while it waits. `Known` says that a plan
is of one service and that a saved one is in the journal as it is in memory. `Packed` and `Saves` describe a package: its files are begun in their order, each is whole before the next is begun, and the
plan at work in a directory is the one whose files are there (`Filling`). That no PDF is committed under another id rests on the ids of a paper never becoming fewer (`IdsGrow`): those there were
when the save began were asked again in `Same`, and from there on are the plan's own. `Authored` keeps the numbers of plans of the two services apart. Most steps write no file of a package; `MindKeeps` deals with
all of them at once.

**The index.** `Kept` says that what is in memory is what is in the file, or nothing, and `PaidKept` that a passage that was paid for and is still in the notes is in the file, in memory and in the build, but for the batch
that is about to be saved. A build that ends has compared the notes again (`Recheck`), so an index shown as up to date is that of the notes.

**The reading.** `ReadInv` says of a node that it has one edit at a time, of the stage its generation is in, and none once it is answered (`OneEdit`); of a card, from its opening to its link, whose turn it is and which node it owns
(`Turns`, `Owns`); that what an answer was made from is answered (`Context`); and that a node under way has a generation, an edit or a failed save (`Attended`). Nearly every step is on one node, and `NodeStep` says what such a step may do; `JobStep` and `NoNodeStep` are the others.

**The excerpts.** A window writes only over the file it has seen, in the same turn as it compares, so the proof is of single steps: `PatchContinues` says that each kind of edit extends the list of revisions and takes the mark of completion away when it changes anything.

**The full text.** `IInv` has six parts: types, names (which run, attempt and queued work belong together, and that an id about to be saved is nobody's yet), stops, course (where a run
is and what its job says go together), files (what a record names is a snapshot of that attempt) and sessions. `ReadsBack` needs that the revision in memory is the highest in the journal. When the save
of a link fails after its marker this is not so: the code keeps the old record, and the next save takes the same revision again.

**The hosts.** A behaviour of a host is, to the variables of one of its modules, a behaviour of that module: a step of another leaves them alone. `PublishesAlone`, `JournalsAlone`, `GateBehaves` and
the lemmas about `Retrying` and `Stopping` prove this, and the theorems of the module apply. `Retrying` runs one at a time with nobody else, which is what `RecordsStayApart` asks.

**Only model-checked.** Every liveness property (`QueueReleased`, `CommandsEnd`, `GenerationEnds`, `Finishes`, `RunsEnd`), and of `RunKeepsPromise` that the run returns: liveness under fairness is beyond the proof system's
backends here. Every other property that a passing run checks is proved.

## 6. Findings

1. `start_save_fails`. `plugin.ts:2510-2511` says that "a failed start save restores the previous history
   and leaves every old output". The start marks old runs in memory before it saves. A save requested by
   another part of the plugin meanwhile takes these markers along; if it succeeds where
   the start's failed and the plugin stops before the next save, the next load deletes the outputs.
   The output goes with the record that was marked, so `CommittedOutputReadable` is not affected.
2. `journal_lost`. `plugin.ts:2591-2592` says that after a failed save the outcome is recovered from the
   journal at the next load. If the run is beyond the limit and was kept only because it was running, the
   next save of anything drops it from `data.json`, and no load looks at its journal any more.
3. `mineru_publish_stolen`. `acquirePublishLock` compares the inode of a stale lock and then unlinks the
   path. A second reclaimer of the same lock may unlink the first one's new lock. `CreateOnly`
   holds all the same: the rename decides, not the lock.
4. `registration_stuck`. A registration that failed between two files is recorded with the full texts of
   before and after. Once another note is registered in the same index, no retry of the first can pass the check, and
   its window offers the stored plan only.
5. `fulltext_stale`. `docs/fulltext-acquisition-design.md:357` says that a late result of an older attempt is dropped. A
   preview reads the job, awaits the file and then saves that copy (`fulltext/service.ts:233`). If the job was retried in
   between, the old attempt is the newest revision again.
6. `intake_cancelled`. The design says (line 428) that a cancelled import leaves no committed source. `cancel` removes the plan from memory, and the
   writes under way look it up by its id before each file (`papers/source-intake.ts:129`); when the same source is prepared again meanwhile, it has the same id,
   and the cancelled save goes on and commits.

## 7. What the models leave out

* `TaskRunHistory`: the cut of `data.json` at 300 runs (the assumption stays below it) and inline outputs of
  earlier versions.
* `MineruProcess`: captured output, and the Windows path without a job object, which exists for tests.
* `AgentLoop`: what a turn says, beyond what parsing makes of it. A caller that passes no `isCancelled` can
  abort its signal only, which is the case `"budget"` here.
* `MineruPublish`: a papers directory that is exchanged under the publisher, a lock of one's own that
  cannot be unlinked, the content of packages. `Retain` is `FALSE` in the runs: with it the staging tree is kept, and
  no step is added.
* `PaperIngest`: others create files but do not delete them. The identity phase is one step here and
  `IdentityGate` there. A paper whose only source lies in Clippings has no
  citekey to adopt; `OneRecord` leaves it out, and two runs whose searches differ may give it two citekeys.
* `IdentityGate`: a title stands for all spellings that normalise to it. The search of the vault is taken at its promise, that it scores every file with a
  title of the query's terms; in the code this needs the metadata of the file to be in Obsidian's cache when the two seconds for reading bodies are over.
  A file of the same title can be missing only when the list is full, as `NewIsNew` says. A duplicate may be recognised by its title alone, with another DOI: what
  it is goes to the user. It is assumed that what Crossref gives for a DOI is a record with a DOI. When `vault_candidates` fails it cannot be called again, and no claim of that run is accepted.
* `IngestRegistration`: reading the files for a plan, and the check before a plan is applied, are one step each;
  others add text and do not remove it; one task per note; directories changed in the settings and tampered records, both of which the
  code refuses, are left out. Outside the vault the comparison and the replacement of a file are two steps
  and an edit between them is lost, as in the code; `VaultTextKept` is about the vault.
* `CliProcess`: what the programs print, and how it is parsed; the choice of the program.
* `GuidedReading`: texts, quotes, corrections and summaries; the usage entries around each model call, whose failing saves fail the
  generation; the demonstration sessions; the relocation of a source; the unload of the plugin while the program lives on.
* `FullTextAcquisition`: one device and the production mode; the progress in bytes, the content of requests and candidates; a late preview of a
  closed service beside the next one, each with a queue of its own, on the same files.
* `RevisionJournal`: what a revision says. A directory that a synchronisation service shows in another order is a device that
  acts later.
* `SourceIntake`: one paper and one device, one source per service; the copy of a local PDF before its plan, citekeys, pages and
  their confirmation are left out, and the files of a package are not changed by others.
* `CurationRevision`: a review comes into being in one step; the warnings about applied revisions are left out.
* `RetrievalIndex`: the notes are read in one step, a note has one passage, and the plugin ends with everything it was doing. In the code a write that was under way when the plugin was
  unloaded may still be going on when the next instance writes the same `.pending` file. The limits on notes, passages and bytes are failures of a read or a write.
* `Excerpts`: texts, quotes and times. A file that says the same again is taken for the same, which the code, whose records carry the time of their last change,
  refuses. A note of a paper's excerpt whose markers are damaged by hand is not read by the code; only the one of an answer has this here.

Risks of the code that no property states, because the code has no answer to them and no document promises one: a publisher that dies
between creating its lock file and writing it leaves a lock that is never proved stale (`mineru-publish.ts:1058`); an ingestion that starts
after the unload began is not waited for (`agent-loop-service.ts:640`); outside the vault the bibliography is compared and then replaced
(`views/ingest-registration.ts:45`); two drafts begun on two devices block each other until one is removed; a damaged undo record blocks a later undo; a JATS package may be
committed under an id that a newer record of the paper has replaced (`jats/intake.ts:44`); a suggestion of a half-written revision can be reworded, after which
no resume is accepted (`curation/writer.ts:71`). When the save of a failure fails as well (`reading/engine.ts:220`), the node stays "running", and the view
offers a stop that does nothing and no retry until the next load: `NoneAbandoned` names exactly this exception. A node that is being added
while the reading service is disposed gets its generation afterwards, with nobody left to abort it (`reading/workspace.ts:145`). An index that could not be read once is taken for none until
the plugin is started again, so that a build sends every passage and replaces the file (`retrieval/service.ts:22`); and after a restart an index that a stop had left
incomplete is shown with all of its passages done until somebody asks for changes, as opening the settings does (`retrieval/service.ts:21`). The archive of an annotation and a user's change of it each write a file they have read before, so the later replaces the
earlier (`updateAnnotation`, `updateArchiveState` of `annotations/annotation-service.ts`), and an archive that a restart interrupts stays "pending".

## 8. Plan

Done in this order: the history with its ledger and proofs, the command runner, the agent loop, the publication,
the ingestion that composes them, the registration; then the calls of the CLIs, the full-text acquisition, the journals with their ledger, the
source intake and the curation; then the guided reading, the gate of the identity phase, the index of the notes, and the excerpts. Next:

1. The unload of the reading service with a second instance on the same files.
2. The annotations with links (`annotations/annotation-service.ts`): the record that is written before its link, and the state of an archive that a stop leaves pending.

Theorems to prove next: the history over more than 300 runs, where `data.json` is cut once more (section 7); the conditions under which a lock is kept after a crash (finding 3).

## 9. Running

`tlc -config <file>.cfg <module>.tla` for a run (the longest takes a few minutes), `tlapm <module>Proofs.tla`
for the proofs.
