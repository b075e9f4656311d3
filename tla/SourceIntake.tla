----------------------------- MODULE SourceIntake ---------------------------
(***************************************************************************)
(* The services that save a confirmed source of a paper as a package of    *)
(* the vault: PDF files (SourceIntakeService) and JATS documents           *)
(* (JatsIntakeService), beside the one that saves a bare bibliographic     *)
(* record (LibraryMetadataService).  Each has a queue of its own; a plan   *)
(* is kept in a journal before the first file is written, so that a save   *)
(* that was interrupted can be resumed by its own request and no other.    *)
(*                                                                         *)
(* One paper and one device; each service has one source of it.  A window  *)
(* shows a plan and calls the service with its request id.  A preview is   *)
(* read in one step, for the save looks again; pages, confirmations and    *)
(* citekeys are left out, and nobody else changes the files of a package.  *)
(***************************************************************************)
EXTENDS Integers, FiniteSets, Sequences

CONSTANTS Services,      \* among "pdf" and "jats"
          MaxPlans, MaxMeta,
          MaxEvents    \* bounds, the last one on failures, ends of the plugin and edits

IntakeAssumption ==
  /\ Services \subseteq {"pdf", "jats"} /\ "pdf" \in Services
  /\ MaxPlans \in Nat /\ MaxMeta \in Nat /\ MaxEvents \in Nat

VARIABLES journal,   \* of each request what its directory in the journal holds
          durable,   \* of each request what its plan says
          made,      \* the services whose package has a directory
          file,      \* of each package its files
          records,   \* the paper ids of the bibliographic records
          index,     \* the entries of papers/index.md
          plan,      \* the plans in memory, those no map leads to included
          plans,     \* of each service its map from requests to plans
          queue,     \* of each service the requests that wait
          task,      \* of each service the save under way
          meta,      \* the preview or save of a record
          opened, metas, edits, faults,   \* what the bounds count
          running,   \* "up", "closing" or "down"
          first,     \* history: the paper ids there were when the save of a plan began
          author,    \* history: the plan that wrote each manifest
          revoked    \* history: the plans cancelled before they wrote a manifest

disk     == <<journal, durable, made, file, records, index>>
windows  == <<plan, plans, opened>>
counters == <<edits, faults>>
ghosts   == <<first, author, revoked>>
intakeVars == <<disk, windows, queue, task, meta, metas, counters, running, ghosts>>

Plans    == 1 .. MaxPlans
PaperIds == 1 .. MaxPlans + MaxMeta
Names    == <<"transaction", "content", "manifest">>

(* A file is absent, torn, or written in full by the plan of a request.    *)
None == 0
Torn == -1

NoPlan == [service |-> "none", request |-> 0, paper |-> 0, existing |-> FALSE,
           recovering |-> FALSE, saved |-> FALSE, phase |-> "none",
           aborted |-> FALSE, committing |-> FALSE, committed |-> FALSE]
NoTask == [pc |-> "none", plan |-> 0, before |-> {}]
NoMeta == [pc |-> "none", paper |-> 0, known |-> FALSE]

Forgotten == /\ plan' = [n \in Plans |-> NoPlan]
             /\ plans' = [s \in Services |-> [r \in Plans |-> 0]]
             /\ queue' = [s \in Services |-> <<>>]
             /\ task' = [s \in Services |-> NoTask] /\ meta' = NoMeta

Init == /\ journal = [r \in Plans |-> "none"]
        /\ durable = [r \in Plans |-> [service |-> "none", paper |-> 0, before |-> {}]]
        /\ made = {} /\ file = [s \in Services |-> [i \in 1 .. 3 |-> None]]
        /\ records = {} /\ index = {}
        /\ plan = [n \in Plans |-> NoPlan]
        /\ plans = [s \in Services |-> [r \in Plans |-> 0]]
        /\ queue = [s \in Services |-> <<>>] /\ task = [s \in Services |-> NoTask]
        /\ meta = NoMeta /\ opened = 0 /\ metas = 0
        /\ edits = 0 /\ faults = 0 /\ running = "up"
        /\ first = [n \in Plans |-> {}] /\ author = [s \in Services |-> 0] /\ revoked = {}

-----------------------------------------------------------------------------
(* SourceCatalog: the ids the paper has by its packages and its records.   *)
Committed(s) == file[s][3] \in Plans
PackageIds   == {durable[file[s][3]].paper : s \in {s \in Services : Committed(s)}}
Ids          == PackageIds \cup records

(* associate: no manifest that cannot be parsed, no paper with two ids.    *)
Associated == /\ \A s \in Services : file[s][3] # Torn
              /\ Cardinality(Ids) <= 1

(* live: looks a plan up by its request.                                   *)
Live(s, r) == running = "up" /\ plans[s][r] # 0 /\ ~plan[plans[s][r]].aborted

-----------------------------------------------------------------------------
(* The windows.                                                            *)

Mine(s, state) == {r \in Plans : durable[r].service = s /\ journal[r] = state}

(* prepare: a plan for the package that is there already, the plan of an   *)
(* interrupted save, or a new one.  A plan that cannot be read stops it.   *)
Prepare(s) ==
  LET n == opened + 1
      Shown(p) == /\ plan' = [plan EXCEPT ![n] = p]
                  /\ plans' = [plans EXCEPT ![s][p.request] = n]
      New == [NoPlan EXCEPT !.service = s, !.request = n, !.phase = "open",
                            !.paper = IF Ids = {} THEN n ELSE CHOOSE i \in Ids : TRUE]
  IN
  /\ running = "up" /\ opened < MaxPlans /\ opened' = n
  /\ \A r \in Plans : plans[s][r] # 0 => plan[plans[s][r]].phase \notin {"open", "saving"}
  /\ Associated
  /\ \/ Committed(s) /\ Shown([New EXCEPT !.existing = TRUE,
                                            !.phase = IF s = "jats" THEN "open" ELSE "pending"])
     \/ /\ ~Committed(s)
        /\ \E r \in Mine(s, "whole") :
             Shown([New EXCEPT !.request = r, !.paper = durable[r].paper,
                               !.recovering = TRUE, !.saved = TRUE])
     \/ ~Committed(s) /\ Mine(s, "whole") \cup Mine(s, "torn") = {} /\ Shown(New)
  /\ UNCHANGED <<disk, queue, task, meta, metas, counters, running, ghosts>>

Save(s, r) ==
  /\ running = "up" /\ plans[s][r] # 0 /\ plan[plans[s][r]].phase \notin {"saved", "saving"}
  /\ queue[s] = <<>> /\ task[s] = NoTask
  /\ queue' = [queue EXCEPT ![s] = Append(@, r)]
  /\ UNCHANGED <<disk, windows, task, meta, metas, counters, running, ghosts>>

(* cancel, by the button or by closing the window.                         *)
Cancel(s, r) ==
  LET n == plans[s][r] IN
  /\ n # 0 /\ ~plan[n].committing /\ plan[n].phase # "saved" /\ ~plan[n].aborted
  /\ plan' = [plan EXCEPT ![n].aborted = TRUE, ![n].phase = "cancelled"]
  /\ revoked' = IF author[s] = n THEN revoked ELSE revoked \cup {n}
  /\ UNCHANGED <<disk, plans, opened, queue, task, meta, metas, counters, running, first, author>>

-----------------------------------------------------------------------------
(* A save: one at a time in each service.                                  *)

SaveFrame == UNCHANGED <<records, plans, opened, meta, metas, edits, running, revoked>>

At(s, pc)   == task[s].pc = pc
Here(s)     == plan[task[s].plan]
Request(s)  == Here(s).request
Go(s, pc)   == task' = [task EXCEPT ![s].pc = pc] /\ UNCHANGED queue

(* The save is over, with this plan.                                       *)
Ends(s, p) == /\ plan' = [plan EXCEPT ![task[s].plan] = p]
              /\ task' = [task EXCEPT ![s] = NoTask] /\ UNCHANGED queue

(* The catch clause.                                                       *)
Catch(s) ==
  LET p == Here(s) IN
  Ends(s, [p EXCEPT !.phase = IF p.committed THEN "pending"
                              ELSE IF p.aborted THEN "cancelled" ELSE "failed",
                    !.committing = FALSE, !.recovering = p.saved])

Take(s) ==
  LET r == Head(queue[s]) IN
  /\ queue[s] # <<>> /\ task[s] = NoTask /\ queue' = [queue EXCEPT ![s] = Tail(@)]
  /\ IF Live(s, r) /\ plan[plans[s][r]].phase # "saved"
     THEN LET n == plans[s][r] IN
          /\ task' = [task EXCEPT ![s] = [NoTask EXCEPT !.plan = n,
                        !.pc = IF plan[n].existing THEN "register" ELSE "check"]]
          /\ first' = IF author[s] = n THEN first ELSE [first EXCEPT ![n] = Ids]
     ELSE UNCHANGED <<task, first>>
  /\ UNCHANGED <<disk, plan, faults, author>> /\ SaveFrame

(* Mutant: only packages are asked, as for JATS.                           *)
SameByPackages(s, p) == PackageIds \subseteq {p.paper}

(* Is the paper still the one that was shown?  JATS asks the packages      *)
(* only.                                                                   *)
Same(s, p) == IF s = "jats" THEN PackageIds = {} \/ Ids = {p.paper}
                            ELSE Ids \subseteq {p.paper}

Check(s) ==
  /\ At(s, "check")
  /\ IF ~Live(s, Request(s)) \/ ~Associated \/ ~Same(s, Here(s)) THEN Catch(s)
     ELSE IF Committed(s)
     THEN Go(s, "register") /\ plan' = [plan EXCEPT ![task[s].plan].existing = TRUE]
     ELSE /\ Go(s, IF Here(s).saved THEN "own" ELSE "plan")
          /\ plan' = [plan EXCEPT ![task[s].plan].phase = "saving"]
  /\ UNCHANGED <<disk, faults, first, author>> /\ SaveFrame

(* The plan is made from the index as it is read here.                     *)
ReadIndex(s) ==
  /\ At(s, "plan")
  /\ IF Live(s, Request(s))
     THEN /\ task' = [task EXCEPT ![s].pc = "journal", ![s].before = index]
          /\ UNCHANGED <<queue, plan>>
     ELSE Catch(s)
  /\ UNCHANGED <<disk, faults, first, author>> /\ SaveFrame

Planned(s, state) ==
  /\ journal' = [journal EXCEPT ![Request(s)] = state]
  /\ durable' = [durable EXCEPT ![Request(s)] = [service |-> s, paper |-> Here(s).paper,
                                                 before |-> task[s].before]]

(* The directory of a request is made once; its plan is written last.      *)
WritePlan(s) ==
  /\ At(s, "journal")
  /\ IF journal[Request(s)] = "none"
     THEN Planned(s, "whole") /\ Go(s, "own") /\ plan' = [plan EXCEPT ![task[s].plan].saved = TRUE]
     ELSE Catch(s) /\ UNCHANGED <<journal, durable>>
  /\ UNCHANGED <<made, file, index, faults, first, author>> /\ SaveFrame

PlanFails(s) ==
  /\ At(s, "journal") /\ journal[Request(s)] = "none"
  /\ faults + edits < MaxEvents /\ faults' = faults + 1
  /\ \E left \in {"none", "directory", "torn", "whole"} : Planned(s, left)
  /\ Catch(s) /\ UNCHANGED <<made, file, index, first, author>> /\ SaveFrame

(* A new directory, or one with this plan's ownership record in which      *)
(* every file is absent or as planned.                                     *)
Owns(s) == \/ s \notin made
           \/ /\ Here(s).recovering
              /\ file[s][1] = Request(s) /\ file[s][2] \in {None, Request(s)}
              /\ file[s][3] = None

(* A PDF plan that was cancelled has let go of its page image: what is to  *)
(* be written cannot be put together, once the directory is there.         *)
Own(s) ==
  /\ At(s, "own")
  /\ IF Live(s, Request(s)) /\ Owns(s)
     THEN /\ made' = made \cup {s}
          /\ IF s = "pdf" /\ Here(s).aborted THEN Catch(s) ELSE Go(s, "write") /\ UNCHANGED plan
     ELSE Catch(s) /\ UNCHANGED made
  /\ UNCHANGED <<journal, durable, file, index, faults, first, author>> /\ SaveFrame

OwnFails(s) ==
  /\ At(s, "own") /\ faults + edits < MaxEvents /\ faults' = faults + 1
  /\ Live(s, Request(s)) /\ Owns(s) /\ made' \in {made, made \cup {s}}
  /\ Catch(s) /\ UNCHANGED <<journal, durable, file, index, first, author>> /\ SaveFrame

(* Mutant: the manifest before the content.                                *)
NextFileFirst(s) == IF file[s][1] = None THEN 1 ELSE IF file[s][3] = None THEN 3 ELSE 2

(* The ownership record, then the content, and at last the manifest.       *)
NextFile(s) == IF file[s][1] = None THEN 1 ELSE IF file[s][2] = None THEN 2 ELSE 3

(* Each file is created empty, if the plan is still wanted, and filled.    *)
CreateFile(s) ==
  LET i == NextFile(s) IN
  /\ At(s, "write")
  /\ IF Live(s, Request(s))
     THEN /\ file' = [file EXCEPT ![s][i] = Torn] /\ Go(s, "fill")
          /\ plan' = [plan EXCEPT ![task[s].plan].committing = (i = 3)]
     ELSE Catch(s) /\ UNCHANGED file
  /\ UNCHANGED <<journal, durable, made, index, faults, first, author>> /\ SaveFrame

Filled(s) == LET i == CHOOSE i \in 1 .. 3 : file[s][i] = Torn
             IN  /\ file' = [file EXCEPT ![s][i] = Request(s)]
                 /\ author' = IF i = 3 THEN [author EXCEPT ![s] = task[s].plan] ELSE author

FillFile(s) ==
  /\ At(s, "fill") /\ Filled(s)
  /\ Go(s, IF file[s][3] = Torn THEN "link" ELSE "write")
  /\ plan' = IF file[s][3] = Torn
             THEN [plan EXCEPT ![task[s].plan].committed = TRUE, ![task[s].plan].phase = "pending"]
             ELSE plan
  /\ UNCHANGED <<journal, durable, made, index, faults, first>> /\ SaveFrame

(* What a write that failed has left may even be the whole file.           *)
FillFails(s) ==
  /\ At(s, "fill") /\ faults + edits < MaxEvents /\ faults' = faults + 1
  /\ Filled(s) \/ UNCHANGED <<file, author>>
  /\ Catch(s) /\ UNCHANGED <<journal, durable, made, index, first>> /\ SaveFrame

(* registerExisting: the package is there, its entry may be missing.       *)
Register(s) ==
  /\ At(s, "register")
  /\ IF Live(s, Request(s)) /\ Committed(s)
     THEN /\ task' = [task EXCEPT ![s].pc = "index", ![s].before = index]
          /\ plan' = [plan EXCEPT ![task[s].plan].committing = TRUE,
                                  ![task[s].plan].committed = TRUE, ![task[s].plan].phase = "pending"]
          /\ UNCHANGED queue
     ELSE Catch(s)
  /\ UNCHANGED <<disk, faults, first, author>> /\ SaveFrame

(* The entry is the one of the plan, however long ago it was made.         *)
Link(s) ==
  /\ At(s, "link")
  /\ task' = [task EXCEPT ![s].pc = "index", ![s].before = durable[Request(s)].before]
  /\ UNCHANGED <<disk, queue, plan, faults, first, author>> /\ SaveFrame

Entry(s) == <<s, 0>>

(* Mutant: the index is written as planned.                                *)
ApplyBlind(s) == /\ index' = task[s].before \cup {Entry(s)}
                 /\ Ends(s, [Here(s) EXCEPT !.phase = "saved"])

(* index.apply: only over the text it was planned from.                    *)
Apply(s) ==
  LET after == task[s].before \cup {Entry(s)} IN
  IF index \in {task[s].before, after}
  THEN index' = after /\ Ends(s, [Here(s) EXCEPT !.phase = "saved"])
  ELSE Catch(s) /\ UNCHANGED index

Enter(s) == /\ At(s, "index") /\ Apply(s)
            /\ UNCHANGED <<journal, durable, made, file, faults, first, author>> /\ SaveFrame

RegisterFails(s) ==
  /\ task[s].pc \in {"link", "index"} /\ faults + edits < MaxEvents /\ faults' = faults + 1
  /\ Catch(s) /\ UNCHANGED <<disk, first, author>> /\ SaveFrame

Commit(s) == \/ Take(s) \/ Check(s) \/ ReadIndex(s) \/ WritePlan(s) \/ PlanFails(s)
             \/ Own(s) \/ OwnFails(s) \/ CreateFile(s) \/ FillFile(s) \/ FillFails(s)
             \/ Register(s) \/ Link(s) \/ Enter(s) \/ RegisterFails(s)

-----------------------------------------------------------------------------
(* LibraryMetadataService: a record without a source.                      *)

MetaFrame == UNCHANGED <<journal, durable, made, file, index, windows, queue, task, edits, running, ghosts>>

MetaPrepare ==
  /\ running = "up" /\ meta.pc = "none" /\ Associated /\ metas < MaxMeta /\ metas' = metas + 1
  /\ meta' = [pc |-> "shown", known |-> Ids # {},
              paper |-> IF Ids = {} THEN MaxPlans + metas + 1 ELSE CHOOSE i \in Ids : TRUE]
  /\ UNCHANGED <<records, faults>> /\ MetaFrame

(* The association is looked up again; a record that exists is kept.       *)
MetaSave ==
  LET paper == IF Ids = {} THEN meta.paper ELSE CHOOSE i \in Ids : TRUE IN
  /\ running # "down" /\ meta.pc = "shown"
  /\ meta' = IF running = "up" /\ Associated /\ (meta.known => Ids = {meta.paper}) /\ paper \notin records
             THEN [meta EXCEPT !.pc = "append", !.paper = paper] ELSE NoMeta
  /\ UNCHANGED <<records, metas, faults>> /\ MetaFrame

MetaAppend ==
  /\ meta.pc = "append" /\ meta' = NoMeta
  /\ \/ records' = records \cup {meta.paper} /\ UNCHANGED faults
     \/ faults + edits < MaxEvents /\ faults' = faults + 1 /\ records' \in {records, records \cup {meta.paper}}
  /\ UNCHANGED metas /\ MetaFrame

-----------------------------------------------------------------------------
(* The user, or another plugin, adds to the index.                         *)
EditIndex == /\ faults + edits < MaxEvents /\ edits' = edits + 1
             /\ index' = index \cup {<<"edit", edits + 1>>}
             /\ UNCHANGED <<journal, durable, made, file, records, windows, queue, task, meta, metas,
                            faults, running, ghosts>>

Dispose ==
  /\ running = "up" /\ running' = "closing" /\ faults + edits < MaxEvents /\ faults' = faults + 1
  /\ plan' = [n \in Plans |-> IF ~plan[n].committing /\ \E s \in Services, r \in Plans : plans[s][r] = n
                              THEN [plan[n] EXCEPT !.aborted = TRUE] ELSE plan[n]]
  /\ UNCHANGED <<disk, plans, opened, queue, task, meta, metas, edits, ghosts>>

Disposed ==
  /\ running = "closing" /\ \A s \in Services : queue[s] = <<>> /\ task[s] = NoTask
  /\ running' = "down" /\ Forgotten
  /\ UNCHANGED <<disk, opened, metas, counters, ghosts>>

(* What is being written is on the disk or not; the rest of the memory is  *)
(* gone.                                                                   *)
Crash ==
  /\ running # "down" /\ running' = "down" /\ Forgotten
  /\ faults + edits < MaxEvents /\ faults' = faults + 1
  /\ \/ UNCHANGED <<journal, durable, made>>
     \/ \E s \in Services : /\ At(s, "journal") /\ journal[Request(s)] = "none"
                            /\ \E left \in {"directory", "torn"} : Planned(s, left)
                            /\ UNCHANGED made
     \/ \E s \in Services : /\ At(s, "own") /\ Live(s, Request(s)) /\ Owns(s)
                            /\ made' = made \cup {s} /\ UNCHANGED <<journal, durable>>
  /\ UNCHANGED <<file, records, index, opened, metas, edits, ghosts>>

Restart == /\ running = "down" /\ running' = "up"
           /\ UNCHANGED <<disk, windows, queue, task, meta, metas, counters, ghosts>>

Next == \/ \E s \in Services : \/ Prepare(s) \/ Commit(s)
                               \/ \E r \in Plans : Save(s, r) \/ Cancel(s, r)
        \/ MetaPrepare \/ MetaSave \/ MetaAppend
        \/ EditIndex \/ Dispose \/ Disposed \/ Crash \/ Restart

Spec == Init /\ [][Next]_intakeVars

-----------------------------------------------------------------------------
(* "Partial/mutated bytes are never repaired in place" (source-intake.ts   *)
(* 123): a package with a manifest is whole and of one plan, whichever     *)
(* plans of whichever sessions have worked in its directory.               *)
PackageWhole ==
  \A s \in Services : Committed(s) => \A i \in 1 .. 3 : file[s][i] = file[s][3]

(* index.apply (vault-catalog.ts:29-37): what others have entered in the   *)
(* index stays there, however old the plan is that is completed.           *)
IndexKept == \A k \in 1 .. edits : <<"edit", k>> \in index

(* "A metadata record alone must also stop an old plan from creating       *)
(* another paperId" (docs/local-pdf-core-r2.md:21): no PDF is committed    *)
(* under another id than the one the paper had when its save began.        *)
StalePlanStopped ==
  author["pdf"] # 0 => first[author["pdf"]] \subseteq PackageIds

(* "If the cancellation comes first the commit is forbidden" (the          *)
(* full-text design, section 10.2): no plan that was cancelled with        *)
(* success writes a manifest.                                              *)
CancelHonoured == \A s \in Services : author[s] \notin revoked
=============================================================================
