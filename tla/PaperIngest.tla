----------------------------- MODULE PaperIngest ----------------------------
(***************************************************************************)
(* AgentLoopService: the runs of a paper ingestion, from the authorised    *)
(* copy of the PDF to the package and the note in the vault, with a user   *)
(* who confirms, stops a run or unloads the plugin, a run's time budget,   *)
(* and other writers in the same vault.                                    *)
(*                                                                         *)
(* A step is the code between two awaits; the result of an await is chosen *)
(* when the code goes on with it.  The bounded loops are taken at their    *)
(* promise (AgentRun), the publication of a package at what MineruPublish  *)
(* shows of it: one create-only step.                                      *)
(***************************************************************************)
EXTENDS Naturals, FiniteSets

CONSTANTS Runs, Papers,
          Modes,       \* options.identityMode: "legacy", "source-v2"
          Catalogued,  \* the papers with a formal source package
          Clipped,     \* the papers with a Markdown source in Clippings
          Suffixes,    \* how many suffixes a citekey is tried with (code: 9)
          MaxActive,   \* runs at a time (1: see TaskRunHistory!SingleIngest)
          Interrupts,  \* the events among "cancel", "late" and "unload"
          MaxOthers    \* files created by others

Nobody == "nobody"
Empty  == [paper |-> Nobody, by |-> Nobody]

(* What a use of this module assumes of its constants.                     *)
IngestAssumption ==
  /\ Catalogued \subseteq Papers /\ Clipped \subseteq Papers
  /\ Modes \subseteq {"legacy", "source-v2"}
  /\ Interrupts \subseteq {"cancel", "late", "unload"}
  /\ Nobody \notin Runs \cup Papers
  /\ Suffixes \in Nat /\ MaxActive \in Nat /\ MaxOthers \in Nat

(* Directories of papers/ and names of notes: citekeys the model proposes, *)
(* with their suffixes; the one the catalog has for a paper; and the key   *)
(* of a conversion, which names the PDF and the options it was made with.  *)
Base(n)       == <<"base", n>>
Formal(p)     == <<"catalog", p>>
Conversion(p) == <<"conversion", p>>
NoKey         == <<"none", 0>>
Citekeys == {Base(n) : n \in 1..Suffixes} \cup {Formal(p) : p \in Papers}
Keys     == Citekeys \cup {Conversion(p) : p \in Papers}

VARIABLES pkg, note,   \* vault: papers/<key>/article.md, wiki/sources/<key>.md
          pc,          \* where each run is
          job,         \* its paper and its options
          id,          \* its identity: citekey, receipts of duplicates
          has,         \* existing outputs it relies on
          got,         \* its receipts: published package, written note
          problem,     \* errors, conflicts, title conflict
          confirmed,   \* did the user confirm the identity?
          snapshot,    \* the authorised copy of the PDF: none, held, gone
          cancelled, late,   \* state.cancelled, state.budgetAborted
          active,      \* activeRuns
          outcome,     \* the status of its result
          down, barrier,     \* shutdown() and the runs it waits for
          others

vault == <<pkg, note>>
flow  == <<job, id, has, got, problem, confirmed, snapshot>>
stops == <<cancelled, late>>
ends  == <<active, outcome, down, barrier>>
vars  == <<vault, pc, flow, stops, ends, others>>

None == [k \in Keys |-> Empty]
NoJob == [paper |-> Nobody, outputs |-> {}, source |-> "auto", mode |-> "legacy"]
NoIdentity == [key |-> NoKey, formal |-> FALSE, saw |-> {}]

Init ==
  /\ pkg = None /\ note = None
  /\ pc = [r \in Runs |-> "idle"] /\ job = [r \in Runs |-> NoJob]
  /\ id = [r \in Runs |-> NoIdentity]
  /\ has = [r \in Runs |-> {}] /\ got = [r \in Runs |-> {}]
  /\ problem = [r \in Runs |-> {}]
  /\ confirmed = [r \in Runs |-> FALSE]
  /\ snapshot = [r \in Runs |-> "none"]
  /\ cancelled = [r \in Runs |-> FALSE] /\ late = [r \in Runs |-> FALSE]
  /\ active = {} /\ outcome = [r \in Runs |-> "none"]
  /\ down = "up" /\ barrier = {} /\ others = 0

-----------------------------------------------------------------------------
Aborted(r) == cancelled[r] \/ late[r]
Paper(r)   == job[r].paper
Wants(r, output) == output \in job[r].outputs

(* The bounded agent loop, by what it promises its caller.                 *)
Loop == INSTANCE AgentRun WITH result <- "none", stop <- FALSE
LoopEnds(r) == Loop!Outcomes(Aborted(r))

(* The files the vault holds for a paper, by layer and citekey.            *)
Records(p) ==
     {<<"article", k>> : k \in {k \in Keys : pkg[k].paper = p}}
  \cup {<<"wiki", k>> : k \in {k \in Keys : note[k].paper = p}}
  \cup (IF p \in Clipped THEN {<<"article", NoKey>>} ELSE {})

LayersOf(records)   == {f[1] : f \in records}
CitekeysOf(records) == {f[2] : f \in records} \ {NoKey}

At(r, here)  == pc[r] = here
Go(r, there) == pc' = [pc EXCEPT ![r] = there]

Report(r, kinds) == problem' = [problem EXCEPT ![r] = @ \cup kinds]
Stop(r, kinds)   == Go(r, "finish") /\ Report(r, kinds)

(* The catch clause: an exception of a stopped run is no error.            *)
Throw(r) == Stop(r, IF cancelled[r] THEN {} ELSE {"error"})

-----------------------------------------------------------------------------
(* Phase 1: the source, its identity, the user's confirmation.             *)

Begin(r) ==
  /\ At(r, "idle") /\ Cardinality(active) < MaxActive
  /\ \E p \in Papers, outs \in (SUBSET {"article", "wiki"}) \ {{}},
        s \in {"auto", "article", "pdf"}, m \in Modes :
       job' = [job EXCEPT ![r] = [paper |-> p, outputs |-> outs,
                                  source |-> s, mode |-> m]]
  /\ active' = active \cup {r} /\ Go(r, "source")
  /\ UNCHANGED <<vault, id, has, got, problem, confirmed, snapshot, stops,
                 outcome, down, barrier, others>>

Phase1Frame == UNCHANGED <<vault, job, got, stops, ends, others>>

(* The saved source is verified, the PDF copied to a file of our own, and  *)
(* its first page read.  Without a PDF there is no copy.                   *)
Authorise(r) ==
  /\ At(r, "source")
  /\ \/ Throw(r) /\ UNCHANGED snapshot
     \/ /\ Go(r, "evidence") /\ UNCHANGED problem
        /\ snapshot' \in {snapshot, [snapshot EXCEPT ![r] = "held"]}
  /\ UNCHANGED <<id, has, confirmed>> /\ Phase1Frame

ReadEvidence(r) ==
  /\ At(r, "evidence")
  /\ \/ Throw(r)
     \/ Go(r, job[r].mode) /\ UNCHANGED problem
  /\ UNCHANGED <<id, has, confirmed, snapshot>> /\ Phase1Frame

Missing(r, layers) == job[r].outputs \ layers

(* What validateIdentityReceipts asks of a verdict: "none" needs searches  *)
(* that found nothing, "exact" a record that was found, of one citekey.    *)
Searched(r, observed) ==
  /\ observed = {} => Records(Paper(r)) = {}
  /\ Cardinality(CitekeysOf(observed)) <= 1

(* The identity loop, the parsing of its result and the gates on it; a     *)
(* record that exists need not be among those the tools returned.          *)
Identify(r) ==
  /\ At(r, "legacy")
  /\ \E ending \in LoopEnds(r) :
       IF ending # "completed" THEN Stop(r, {"error"}) /\ UNCHANGED id
       ELSE \/ Stop(r, {"error"}) /\ UNCHANGED id
            \/ Stop(r, {"conflict"}) /\ UNCHANGED id
            \/ \E observed \in SUBSET Records(Paper(r)) :
                 /\ Searched(r, observed) /\ snapshot[r] = "held"
                 /\ id' = [id EXCEPT ![r].saw = observed, ![r].key = Base(1)]
                 /\ Go(r, "associate")
                 /\ \/ UNCHANGED problem \/ Report(r, {"conflict"})
  /\ UNCHANGED <<has, confirmed, snapshot>> /\ Phase1Frame

(* legacySourceAssociation: the citekey of a formal source package.        *)
Associate(r) ==
  /\ At(r, "associate")
  /\ \/ Throw(r) /\ UNCHANGED id
     \/ /\ id' = IF Paper(r) \in Catalogued
                 THEN [id EXCEPT ![r].key = Formal(Paper(r)), ![r].formal = TRUE]
                 ELSE id
        /\ Go(r, "confirm") /\ UNCHANGED problem
  /\ UNCHANGED <<has, confirmed, snapshot>> /\ Phase1Frame

Confirmed(r) ==
  /\ confirmed' = [confirmed EXCEPT ![r] = TRUE] /\ UNCHANGED problem
  /\ Go(r, IF id[r].saw # {} THEN "existing"
           ELSE IF id[r].formal THEN "extract" ELSE "unique")

(* Faulty variant: no receipt, no problem.                                 *)
ConfirmLax(r) ==
  /\ At(r, "confirm")
  /\ \/ Confirmed(r)
     \/ /\ UNCHANGED <<problem, confirmed>>
        /\ Go(r, IF id[r].saw = {} THEN "unique" ELSE "existing")
  /\ UNCHANGED <<id, has, snapshot>> /\ Phase1Frame

(* The user compares the page with the record, or closes the window.       *)
Confirm(r) ==
  /\ At(r, "confirm")
  /\ \/ Confirmed(r)
     \/ (Stop(r, {"conflict"}) \/ Throw(r)) /\ UNCHANGED confirmed
  /\ UNCHANGED <<id, has, snapshot>> /\ Phase1Frame

(* Faulty variant: the window does not listen to the signal.               *)
CloseWindowNever(r) == FALSE /\ pc' = pc

(* Aborting the run closes the window: the same answer as the user's no.   *)
CloseWindow(r) ==
  /\ At(r, "confirm") /\ Aborted(r)
  /\ Stop(r, {"conflict"})
  /\ UNCHANGED <<id, has, confirmed, snapshot>> /\ Phase1Frame

Taken(k) == note[k] # Empty \/ pkg[k] # Empty

(* resolveUniqueCitekey: the first suffix that nothing in the vault has.   *)
Unique(r, key) ==
  \E n \in 1..Suffixes :
    /\ key = Base(n) /\ ~Taken(key)
    /\ \A m \in 1..(n - 1) : Taken(Base(m))

(* Faulty variant: a record that is to be completed gets a new citekey.    *)
AdoptFresh(r, key) == Unique(r, key)

(* The citekey of the records that were seen; when they have none, a new   *)
(* one that is unique.                                                     *)
Adopt(r, key) ==
  IF CitekeysOf(id[r].saw) = {} THEN Unique(r, key)
  ELSE key \in CitekeysOf(id[r].saw)

(* An exact duplicate: its citekey and outputs are kept, what is missing   *)
(* is to be produced.                                                      *)
Existing(r) ==
  /\ At(r, "existing")
  /\ \/ Throw(r) /\ UNCHANGED <<id, has>>
     \/ \E key \in Citekeys \cup {Conversion(Paper(r))} :
          /\ Adopt(r, key)
          /\ id' = [id EXCEPT ![r].key = key]
          /\ has' = [has EXCEPT ![r] = LayersOf(id[r].saw)]
          /\ IF Missing(r, LayersOf(id[r].saw)) = {}
             THEN Go(r, "finish") /\ UNCHANGED problem
             ELSE IF id[r].formal /\ key # Formal(Paper(r)) THEN Throw(r)
             ELSE Go(r, "extract") /\ UNCHANGED problem
  /\ UNCHANGED <<confirmed, snapshot>> /\ Phase1Frame

MakeUnique(r) ==
  /\ At(r, "unique")
  /\ \/ Throw(r) /\ UNCHANGED id
     \/ \E key \in Citekeys :
          /\ Unique(r, key) /\ id' = [id EXCEPT ![r].key = key]
          /\ Go(r, "extract") /\ UNCHANGED problem
  /\ UNCHANGED <<has, confirmed, snapshot>> /\ Phase1Frame

(* prepareSourceIntake: the catalog and the notes with the paper's         *)
(* identifiers, a conversion of the very PDF, the user's confirmation and  *)
(* the catalog once more, unchanged.                                       *)
Intake(r) ==
  LET p     == Paper(r)
      notes == {f \in Records(p) : f[1] = "wiki"}
      keys  == CitekeysOf(notes) \cup (IF p \in Catalogued THEN {Formal(p)} ELSE {})
      wiki  == LayersOf(notes)
  IN
  /\ At(r, "source-v2")
  /\ \/ Throw(r) /\ UNCHANGED <<id, has, confirmed>>
     \/ /\ snapshot[r] = "held" /\ Cardinality(keys) <= 1
        /\ \E key \in IF keys = {} THEN {Formal(p)} ELSE keys :
             id' = [id EXCEPT ![r] = [key |-> key, formal |-> TRUE, saw |-> notes]]
        /\ \E article \in SUBSET {"article"} :
             /\ article # {} => pkg[Conversion(p)].paper = p
             /\ has' = [has EXCEPT ![r] = article \cup wiki]
             /\ Go(r, IF Missing(r, article \cup wiki) = {} THEN "finish"
                      ELSE "extract")
        /\ confirmed' = [confirmed EXCEPT ![r] = TRUE] /\ UNCHANGED problem
  /\ UNCHANGED snapshot /\ Phase1Frame

-----------------------------------------------------------------------------
(* Phase 2: the package.                                                   *)

Phase2Frame == UNCHANGED <<job, id, has, confirmed, snapshot, stops, ends, others>>

Extracting(r) == Wants(r, "article") /\ "article" \notin has[r]

(* The source is verified again; the budget, the user's consent to the     *)
(* upload and the configuration of MinerU are looked at.                   *)
Extract(r) ==
  /\ At(r, "extract") /\ UNCHANGED <<vault, got>>
  /\ IF ~Extracting(r) THEN Go(r, "draft?") /\ UNCHANGED problem
     ELSE \/ Throw(r) \/ Stop(r, {"error"})
          \/ Go(r, "draft?") /\ (Report(r, {"conflict"}) \/ UNCHANGED problem)
          \/ Go(r, "publish") /\ UNCHANGED problem
  /\ Phase2Frame

PackageKey(r) == IF job[r].mode = "legacy" THEN id[r].key ELSE Conversion(Paper(r))

Place(r) == pkg' = [pkg EXCEPT ![PackageKey(r)] = [paper |-> Paper(r), by |-> r]]

ExtractionFails(r) ==
  /\ Go(r, "draft?")
  /\ Report(r, IF cancelled[r] THEN {} ELSE {"error"})

(* Faulty variant: an existing package makes way.                          *)
PublishOver(r) ==
  /\ At(r, "publish")
  /\ Place(r) /\ Go(r, "bind") /\ UNCHANGED problem
  /\ UNCHANGED <<note, got>> /\ Phase2Frame

(* The package appears at once, or not; with a heading that is not the     *)
(* paper's title it does not, and the staged copy may have to be reported.  *)
(* A late check may fail with the package in place.                        *)
Publish(r) ==
  /\ At(r, "publish")
  /\ \/ /\ pkg[PackageKey(r)] = Empty /\ ~Aborted(r) /\ Place(r)
        /\ \/ Go(r, "bind") /\ UNCHANGED problem
           \/ ExtractionFails(r)
     \/ UNCHANGED pkg /\ ExtractionFails(r)
     \/ /\ UNCHANGED pkg /\ ~cancelled[r]
        /\ Go(r, "draft?")
        /\ \E e \in SUBSET {"error"} : Report(r, {"conflict", "title"} \cup e)
  /\ UNCHANGED <<note, got>> /\ Phase2Frame

(* resolveArticleVaultPath: is the package in this vault?                  *)
Bind(r) ==
  /\ At(r, "bind") /\ UNCHANGED vault
  /\ \/ /\ got' = [got EXCEPT ![r] = @ \cup {<<"article", PackageKey(r)>>}]
        /\ Go(r, "draft?") /\ UNCHANGED problem
     \/ UNCHANGED got /\ (ExtractionFails(r) \/ (Go(r, "draft?") /\ Report(r, {"error"})))
  /\ Phase2Frame

-----------------------------------------------------------------------------
(* Phase 3: the note.                                                      *)

Article(r) == "article" \in LayersOf(got[r]) \cup has[r]
UsePdf(r)  == /\ snapshot[r] = "held" /\ job[r].source # "article"
              /\ job[r].source = "pdf" \/ ~Article(r)
Drafting(r) == Wants(r, "wiki") /\ "wiki" \notin has[r] /\ "title" \notin problem[r]

(* Faulty variant: a note from the PDF, when no package could be made.     *)
BlockedWithoutText(r) == ~UsePdf(r) /\ ~Article(r)

(* evaluateDraftPhase: no note without the source it was asked for.        *)
Blocked(r) ==
  ~Article(r) /\ \/ Wants(r, "article") \/ job[r].source = "article" \/ ~UsePdf(r)

DecideDraft(r) ==
  /\ At(r, "draft?") /\ UNCHANGED <<vault, got>>
  /\ IF ~Drafting(r) THEN Go(r, "finish") /\ UNCHANGED problem
     ELSE IF Blocked(r) THEN Stop(r, {"conflict"})
     ELSE \/ Go(r, "draft") /\ UNCHANGED problem
          \/ Throw(r) \/ Stop(r, {"error"})
  /\ Phase2Frame

(* The draft loop and the gates on its result.                             *)
Draft(r) ==
  /\ At(r, "draft") /\ UNCHANGED <<vault, got>>
  /\ \E ending \in LoopEnds(r) :
       IF ending = "completed"
       THEN \/ Go(r, "save") /\ UNCHANGED problem
            \/ Stop(r, {"error"}) \/ Stop(r, {"conflict"})
       ELSE Stop(r, {"error"})
  /\ Phase2Frame

(* The source is verified a last time; commitSourceNote looks at the       *)
(* signal before it starts to create the file.                             *)
Save(r) ==
  /\ At(r, "save") /\ UNCHANGED <<vault, got>>
  /\ \/ Stop(r, {"error"})
     \/ ~Aborted(r) /\ Go(r, "create") /\ UNCHANGED problem
  /\ Phase2Frame

Write(r) == note' = [note EXCEPT ![id[r].key] = [paper |-> Paper(r), by |-> r]]

(* The file is created, if there is none; what follows the creation may    *)
(* fail with the file in place.                                            *)
Create(r) ==
  /\ At(r, "create") /\ UNCHANGED <<pkg, got>>
  /\ IF note[id[r].key] = Empty
     THEN \/ Write(r) /\ Go(r, "readback") /\ UNCHANGED problem
          \/ Write(r) /\ Stop(r, {"error"})
          \/ UNCHANGED note /\ Stop(r, {"error"})
     ELSE UNCHANGED note /\ (Stop(r, {"conflict"}) \/ Stop(r, {"error"}))
  /\ Phase2Frame

Readback(r) ==
  /\ At(r, "readback") /\ UNCHANGED vault
  /\ \/ /\ got' = [got EXCEPT ![r] = @ \cup {<<"wiki", id[r].key>>}]
        /\ Go(r, "finish") /\ UNCHANGED problem
     \/ UNCHANGED got /\ Stop(r, {"error"})
  /\ Phase2Frame

-----------------------------------------------------------------------------
(* The end of a run.                                                       *)

(* Faulty variant: an identity is taken for the outputs.                    *)
SatisfiedByKey(r, output) == id[r].key # NoKey

Satisfied(r, output) ==
  \/ ~Wants(r, output) \/ output \in has[r]
  \/ output \in LayersOf(got[r]) /\ (output = "article" => "title" \notin problem[r])

Failing(r) == cancelled[r] \/ late[r] \/ "error" \in problem[r]

(* computeIngestOutcomeStatus                                              *)
Status(r) ==
  IF Failing(r) THEN "failed"
  ELSE IF "conflict" \in problem[r] THEN "conflict"
  ELSE IF Satisfied(r, "article") /\ Satisfied(r, "wiki")
  THEN "completed" ELSE "failed"

Finish(r) ==
  /\ At(r, "finish") /\ Go(r, "dispose")
  /\ outcome' = [outcome EXCEPT ![r] = Status(r)]
  /\ UNCHANGED <<vault, flow, stops, active, down, barrier, others>>

(* The result is handed over and the state of the run forgotten.           *)
Forget(r) ==
  /\ job' = [job EXCEPT ![r] = NoJob] /\ id' = [id EXCEPT ![r] = NoIdentity]
  /\ has' = [has EXCEPT ![r] = {}] /\ got' = [got EXCEPT ![r] = {}]
  /\ problem' = [problem EXCEPT ![r] = {}]
  /\ confirmed' = [confirmed EXCEPT ![r] = FALSE]
  /\ cancelled' = [cancelled EXCEPT ![r] = FALSE]
  /\ late' = [late EXCEPT ![r] = FALSE]
  /\ outcome' = [outcome EXCEPT ![r] = "none"]

(* Faulty variant: shutdown waits for the results only.                    *)
DisposeUnawaited(r) ==
  /\ At(r, "dispose")
  /\ IF r \in active
     THEN active' = active \ {r} /\ UNCHANGED <<pc, flow, stops, outcome>>
     ELSE /\ Go(r, "done") /\ snapshot' = [snapshot EXCEPT ![r] = "gone"]
          /\ Forget(r) /\ UNCHANGED active
  /\ UNCHANGED <<vault, down, barrier, others>>

(* The finally clause.                                                     *)
Dispose(r) ==
  /\ At(r, "dispose") /\ Go(r, "done") /\ active' = active \ {r}
  /\ snapshot' = [snapshot EXCEPT ![r] = "gone"] /\ Forget(r)
  /\ UNCHANGED <<vault, down, barrier, others>>

-----------------------------------------------------------------------------
(* Events.                                                                 *)

(* A run that is between two awaits cannot be interrupted.                 *)
Awaiting(r) == pc[r] \notin {"idle", "finish", "draft?", "done"}

Cancel(r) ==
  /\ "cancel" \in Interrupts /\ r \in active /\ Awaiting(r) /\ ~cancelled[r]
  /\ cancelled' = [cancelled EXCEPT ![r] = TRUE]
  /\ UNCHANGED <<vault, pc, flow, late, ends, others>>

(* The budget timer, which the finally clause clears.                      *)
RunLate(r) ==
  /\ "late" \in Interrupts /\ Awaiting(r) /\ ~At(r, "dispose") /\ ~late[r]
  /\ late' = [late EXCEPT ![r] = TRUE]
  /\ UNCHANGED <<vault, pc, flow, cancelled, ends, others>>

ShutDown ==
  /\ "unload" \in Interrupts /\ down = "up" /\ \A r \in active : Awaiting(r)
  /\ barrier' = active
  /\ down' = IF active = {} THEN "ok" ELSE "waiting"
  /\ cancelled' = [r \in Runs |-> cancelled[r] \/ r \in active]
  /\ UNCHANGED <<vault, pc, flow, late, active, outcome, others>>

(* Every completion settled, or thirty seconds passed.                     *)
ShutDownEnds ==
  /\ down = "waiting"
  /\ \/ barrier \cap active = {} /\ down' = "ok"
     \/ down' = "given up"
  /\ UNCHANGED <<vault, pc, flow, stops, active, outcome, barrier, others>>

(* The user, a synchronisation or another tool creates a file.             *)
OthersCreate ==
  /\ others < MaxOthers /\ others' = others + 1
  /\ \E k \in Citekeys, p \in Papers :
       LET file == [paper |-> p, by |-> Nobody]
       IN  \/ pkg[k] = Empty /\ pkg' = [pkg EXCEPT ![k] = file] /\ UNCHANGED note
           \/ note[k] = Empty /\ note' = [note EXCEPT ![k] = file] /\ UNCHANGED pkg
  /\ UNCHANGED <<pc, flow, stops, ends>>

(* What the event loop, the loops' promises and the clocks take forward;   *)
(* the user's answer is not among it.                                      *)
Work(r) ==
  \/ Authorise(r) \/ ReadEvidence(r) \/ Identify(r) \/ Associate(r)
  \/ CloseWindow(r) \/ Existing(r) \/ MakeUnique(r)
  \/ Extract(r) \/ Publish(r) \/ Bind(r) \/ DecideDraft(r) \/ Draft(r)
  \/ Save(r) \/ Create(r) \/ Readback(r) \/ Finish(r) \/ Dispose(r)

Next ==
  \/ \E r \in Runs : \/ Begin(r) \/ Work(r) \/ Confirm(r) \/ Intake(r)
                     \/ Cancel(r) \/ RunLate(r)
  \/ ShutDown \/ ShutDownEnds \/ OthersCreate

Spec == Init /\ [][Next]_vars

-----------------------------------------------------------------------------
HasText(p) == p \in Clipped \/ \E k \in Keys : pkg[k].paper = p

(* "Success requires the requested outputs to exist": a run that says it   *)
(* has completed was confirmed by the user, and for its paper the vault    *)
(* holds every output that was asked for.                                  *)
CompletedTrue ==
  \A r \in Runs : outcome[r] = "completed" =>
    /\ confirmed[r]
    /\ Wants(r, "article") => HasText(Paper(r))
    /\ Wants(r, "wiki") => \E k \in Keys : note[k].paper = Paper(r)

Wrote(r) == {<<"article", k>> : k \in {k \in Keys : pkg[k].by = r}}
            \cup {<<"wiki", k>> : k \in {k \in Keys : note[k].by = r}}

(* The files a result lists are its run's own; when a file the run created *)
(* is not among them, the user was told of an error or stopped the run.    *)
Accounted ==
  \A r \in Runs : outcome[r] # "none" =>
    /\ got[r] \subseteq Wrote(r)
    /\ got[r] # Wrote(r) => cancelled[r] \/ "error" \in problem[r]

(* Nothing is uploaded for extraction or created in the vault for a paper  *)
(* whose identity the user has not confirmed in this very run.             *)
ConfirmedFirst ==
  \A r \in active :
    Wrote(r) # {} \/ pc[r] \in {"publish", "create"} => confirmed[r]

(* "Strict article mode ... must not produce a wiki": no note is created   *)
(* from something less than the text it was asked to be made from.         *)
NoteHasSource ==
  \A r \in active : \A k \in Keys :
    /\ note[k].by = r
    /\ Wants(r, "article") \/ job[r].source = "article"
    => HasText(Paper(r))

(* "an existing note is never overwritten", nor is a package.              *)
NothingReplaced ==
  [][\A k \in Keys : /\ pkg[k] # Empty => pkg'[k] = pkg[k]
                     /\ note[k] # Empty => note'[k] = note[k]]_vars

(* "filling a missing output cannot fork one paper into a new suffixed     *)
(* record": however runs for a paper fail and are tried again, its files   *)
(* lie under one citekey.  A source in Clippings has no citekey that could *)
(* be adopted, so for these papers the promise rests on the searches.      *)
OneRecord ==
  \A p \in Papers \ Clipped : Cardinality(CitekeysOf(Records(p))) <= 1

(* Runs for papers with the same proposed citekey do not mix: the package  *)
(* and the note of one citekey are of one paper.                           *)
Unmixed ==
  \A k \in Keys : pkg[k] # Empty /\ note[k] # Empty => pkg[k].paper = note[k].paper

(* "resolves only after their cleanup barriers settle": when the plugin    *)
(* has been told that its runs are down, none of those that were active    *)
(* still has a private copy of a PDF or anything left to do.               *)
BarrierHolds ==
  down = "ok" => \A r \in barrier : snapshot[r] # "held" /\ pc[r] = "done"

=============================================================================
