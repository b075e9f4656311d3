------------------------------- MODULE MCStores ------------------------------
(***************************************************************************)
(* The parts that keep files for the user, checked side by side: the       *)
(* journals of decisions, the publication of MinerU packages, the          *)
(* registration of notes, the intake of sources, the revisions of notes,   *)
(* the index of notes, the excerpts and the reading sessions.  A behaviour *)
(* is about one of them, and the others stay in an initial state.          *)
(***************************************************************************)
EXTENDS RevisionJournal, TLC

CONSTANTS Publishers, MaxCrashes, MaxRestarts, Retain,
          Notes, Edited, MaxPlans,
          Services, MaxMeta, MaxEvents,
          Reviews, Curated, Suggestions, Touched, MaxIds,
          Files, Texts, NoText, MaxUpsets,
          NoWords, MaxVersions, Missing, NoOne, MaxAsked, MaxTroubles,
          MaxNodes, Actions

VARIABLES component,   \* which part; never changes
          \* MineruPublish
          at, inc, aborted, lock, inodes, fd, found, package, box, stage, child,
          preserve, result, crashes, restarts,
          \* IngestRegistration
          file, record, windows, confirmed, writer, clock, edits, reloads,
          \* SourceIntake
          plansKept, durable, made, papers, records, index, plan, plans, queues,
          tasks, meta, opened, metas, entries, mishaps, running, first, author, revoked,
          \* CurationRevision
          target, review, wiki, revision, win, queue, task, issued, events,
          \* RetrievalIndex
          docs, disk, snap, loaded, status, build, stopped, inspector, query,
          upsets, paid, shown,
          \* Excerpts
          kind, excerpt, views, steps, ask, intended, turn, troubles, asked,
          \* GuidedReading
          session, waiting, gen, halted, unmarked, act, advance

publishVars  == <<at, inc, aborted, lock, inodes, fd, found, package, box, stage, child,
                  preserve, result, crashes, restarts>>
registerVars == <<file, record, windows, confirmed, writer, clock, edits, reloads>>
intakeVars   == <<plansKept, durable, made, papers, records, index, plan, plans, queues,
                  tasks, meta, opened, metas, entries, mishaps, running, first, author, revoked>>
curationVars == <<target, review, wiki, revision, win, queue, task, issued, events>>
indexVars    == <<docs, disk, snap, loaded, status, build, stopped, inspector, query,
                  upsets, paid, shown>>
excerptVars  == <<kind, excerpt, views, steps, ask, intended, turn, troubles, asked>>
readingVars  == <<session, waiting, gen, halted, unmarked, act, advance>>
allVars      == <<component, journalVars, publishVars, registerVars, intakeVars, curationVars,
                  indexVars, excerptVars, readingVars>>

Publish  == INSTANCE MineruPublish WITH pc <- at, seen <- found, target <- package
Register == INSTANCE IngestRegistration
            WITH win <- windows, queue <- confirmed, task <- writer
Intake   == INSTANCE SourceIntake
            WITH journal <- plansKept, file <- papers, queue <- queues, task <- tasks,
                 edits <- entries, faults <- mishaps
Curation == INSTANCE CurationRevision
            WITH file <- wiki, rev <- revision, ids <- issued,
                 Notes <- Curated, MaxRevisions <- MaxIds
Index    == INSTANCE RetrievalIndex WITH seen <- shown
Excerpt  == INSTANCE Excerpts
            WITH style <- kind, file <- excerpt, shown <- views, at <- steps, upsets <- troubles,
                 MaxUpsets <- MaxTroubles
Reading  == INSTANCE GuidedReading WITH queue <- waiting

ASSUME StoresAssumption ==
  /\ Publish!PublishAssumption /\ Register!RegistrationAssumption /\ Intake!IntakeAssumption
  /\ Curation!CurationAssumption /\ Index!IndexAssumption /\ Excerpt!ExcerptAssumption
  /\ Reading!ReadingAssumption

Components == {"journal", "publish", "register", "intake", "curation",
               "index", "search", "excerpt", "reading"}

MCInit == /\ component \in Components
          /\ Init /\ Publish!Init /\ Register!Init /\ Intake!Init /\ Curation!Init
          /\ Index!Init /\ Excerpt!Init /\ Reading!Init
          /\ component # "journal" => style = "record"
          /\ component \notin {"index", "search"} => docs = [f \in Files |-> NoText]
          /\ component # "excerpt" => kind = "source" /\ excerpt = Missing

(* Bounds of these runs on what happens together in a part: a failing save *)
(* and a third revision; a crash and a cancelled publication; a second     *)
(* plan of an intake and a metadata edit; a second plan of a registration  *)
(* and an edit; an edit of a note and a window that chooses the last       *)
(* suggestions; the abort of an answer and a mark that was not saved.  The *)
(* third revision is only there for a second undo of the first.            *)
JournalBound  == faults = 0 \/ ids <= 2
PublishBound  == crashes = 0 \/ \A p \in Publishers : ~aborted[p]
RegisterBound == edits = 0 \/ clock <= 1
IntakeBound   == metas + opened <= 2
CurationBound == /\ events = 0 \/ \A w \in Windows : win[w].rev.sel \subseteq {1}
                 /\ issued = 3 => /\ events = 0 /\ revision[1].state = "applied"
                                  /\ \A w \in Windows : win[w].pc # "closed" =>
                                                         win[w].rev.undoOf = 1
ReadingBound  == unmarked = {} \/ halted = {}

(* One part takes a step, and the variables of the others stay.            *)
Only(part, Step) == component = part /\ Step /\ UNCHANGED component

MCNext ==
  \/ /\ Only("journal", Next /\ JournalBound')
     /\ UNCHANGED <<publishVars, registerVars, intakeVars, curationVars, indexVars, excerptVars,
                    readingVars>>
  \/ /\ Only("publish", Publish!Next /\ PublishBound')
     /\ UNCHANGED <<journalVars, registerVars, intakeVars, curationVars, indexVars, excerptVars,
                    readingVars>>
  \/ /\ Only("register", Register!Next /\ RegisterBound')
     /\ UNCHANGED <<journalVars, publishVars, intakeVars, curationVars, indexVars, excerptVars,
                    readingVars>>
  \/ /\ Only("intake", Intake!Next /\ IntakeBound')
     /\ UNCHANGED <<journalVars, publishVars, registerVars, curationVars, indexVars, excerptVars,
                    readingVars>>
  \/ /\ Only("curation", Curation!Next /\ CurationBound')
     /\ UNCHANGED <<journalVars, publishVars, registerVars, intakeVars, indexVars, excerptVars,
                    readingVars>>
  \/ /\ Only("index", UNCHANGED query /\ Index!Next)
     /\ UNCHANGED <<journalVars, publishVars, registerVars, intakeVars, curationVars, excerptVars,
                    readingVars>>
  \/ /\ Only("search", UNCHANGED <<build, inspector>> /\ Index!Next)
     /\ UNCHANGED <<journalVars, publishVars, registerVars, intakeVars, curationVars, excerptVars,
                    readingVars>>
  \/ /\ Only("excerpt", Excerpt!Next)
     /\ UNCHANGED <<journalVars, publishVars, registerVars, intakeVars, curationVars, indexVars,
                    readingVars>>
  \/ /\ Only("reading", Reading!Next /\ ReadingBound')
     /\ UNCHANGED <<journalVars, publishVars, registerVars, intakeVars, curationVars, indexVars,
                    excerptVars>>

MCSpec == MCInit /\ [][MCNext]_allVars

(* The windows; the publishers and the files of the index, which no part   *)
(* has together with windows, are given the same names.                    *)
Symmetry == Permutations(Windows)

-----------------------------------------------------------------------------
(* The properties of the parts; those of RevisionJournal have their names  *)
(* there.                                                                  *)

(* MineruPublish: a package is whole and of whom its receipt says, live    *)
(* locks and the trees of live commands are kept.                          *)
PublicationSafe == Publish!PublicationSafe

(* MineruPublish: what is visible is never replaced.                       *)
CreateOnly == Publish!CreateOnly

(* What a registration, or the revision of a note, has half done can be    *)
(* found in its record (HalfDoneIsRecorded, ChangeIsRecorded).             *)
HalfDoneIsRecorded == Register!HalfDoneIsRecorded /\ Curation!ChangeIsRecorded

(* Neither writes over what others have written (VaultTextKept, TextKept), *)
(* nor does an excerpt, whose windows show what is there (NothingUnseen,   *)
(* ToldTrue, MarkStands).                                                  *)
VaultTextKept == /\ Register!VaultTextKept /\ Curation!TextKept
                 /\ Excerpt!NothingUnseen /\ Excerpt!ToldTrue /\ Excerpt!MarkStands

(* What two windows confirm is done once: a draft has no two successors,   *)
(* no suggestion is applied, and no revision undone, twice.                *)
DoneOnce == DraftNeverForks /\ Curation!AppliedOnce

(* SourceIntake: packages are whole, entries of the index stay, and a plan *)
(* that is out of date is stopped.                                         *)
IntakeSafe == Intake!PackageWhole /\ Intake!IndexKept /\ Intake!StalePlanStopped

(* RetrievalIndex: an index shown as up to date is so, no passage is sent  *)
(* to the model again, and no answer has passages that were edited while   *)
(* it was looked for.                                                      *)
IndexTrue == Index!UpToDate /\ Index!SentOnce /\ Index!HitsLive

(* GuidedReading: answers have their context, a card advances once, and no *)
(* node waits for nobody; an answer that was given stays.                  *)
ReadingTrue == Reading!ReadingTrue
AnswersKept == Reading!AnswersKept
=============================================================================
