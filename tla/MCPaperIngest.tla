---------------------------- MODULE MCPaperIngest ---------------------------
(***************************************************************************)
(* The paper ingestion, the bounded loop it runs its model in, and the     *)
(* gate on what the model says of a paper.  A behaviour is one of four: a  *)
(* run of the loop by itself; an identity phase ("gate"); several runs,    *)
(* one after the other, for papers whose citekeys collide ("retry"); or    *)
(* one run that is stopped, overtaken by its budget, or unloaded, with     *)
(* another writer in the vault ("stops").                                  *)
(***************************************************************************)
EXTENDS AgentLoop

CONSTANTS Runs, Papers, Clipped, Catalogued, Suffixes, First,
          Title, OtherTitle, Doi, OtherDoi, NoDoi, NoCitekey, Nothing

VARIABLES scenario,   \* "loop", "gate", "retry" or "stops"; never changes
          pkg, note, at, job, id, has, got, problem, confirmed, snapshot,
          stopped, overdue, active, outcome, down, barrier, others,
          \* IdentityGate
          files, pdf, preflight, listed, terms, allowed, attempted, tries, found,
          looked, checked, read, verdict

ingestState == <<pkg, note, at, job, id, has, got, problem, confirmed, snapshot,
                 stopped, overdue, active, outcome, down, barrier, others>>
gateState == <<files, pdf, preflight, listed, terms, allowed, attempted, tries,
               found, looked, checked, read, verdict>>

Retry == INSTANCE PaperIngest
         WITH pc <- at, cancelled <- stopped, late <- overdue,
              Modes <- {"legacy"}, Catalogued <- {}, MaxActive <- 1,
              Interrupts <- {}, MaxOthers <- 0

Stops == INSTANCE PaperIngest
         WITH pc <- at, cancelled <- stopped, late <- overdue,
              Runs <- {First}, Modes <- {"legacy", "source-v2"}, MaxActive <- 1,
              Interrupts <- {"cancel", "late", "unload"}, MaxOthers <- 1

(* Two papers of one title, with a DOI each, and one that has none.        *)
Paper(title, doi) == [title |-> title, doi |-> doi]
Crossref(doi) == Paper(Title, doi)
PdfYields(dois, titles) == [available |-> TRUE, dois |-> dois, queries |-> titles]
NoPdf == [available |-> FALSE, dois |-> {}, queries |-> {Title}]

Gate == INSTANCE IdentityGate
        WITH Titles <- {Title, OtherTitle}, Dois <- {Doi, OtherDoi},
             Registry <- {Paper(Title, Doi), Paper(Title, OtherDoi), Paper(OtherTitle, NoDoi)},
             Answer <- Crossref,
             Files <- {[layer |-> "wiki", key |-> "k1"], [layer |-> "papers", key |-> "k2"],
                       [layer |-> "clippings", key |-> NoCitekey]},
             Contents <- {Paper(Title, OtherDoi), Paper(OtherTitle, Doi)},
             Candidates <- 2, Reads <- 1, Searches <- 1,
             Evidence <- {PdfYields({}, {Title}), PdfYields({Doi, OtherDoi}, {Title, OtherTitle}),
                          NoPdf}

ASSUME CompositionAssumption ==
       /\ First \in Runs /\ Retry!IngestAssumption /\ Stops!IngestAssumption
       /\ Gate!GateAssumption

MCInit ==
  /\ scenario \in {"loop", "gate", "retry", "stops"}
  /\ Gate!Init
  /\ scenario # "gate" => pdf = NoPdf /\ Gate!Present = {}
  /\ Init /\ (IF scenario = "stops" THEN Stops!Init ELSE Retry!Init)
  /\ scenario # "loop" => ext = "nobody" /\ request = CHOOSE r \in Known : TRUE

(* A bound of this run: no unload once another writer made a file, and no  *)
(* such file once the plugin is unloaded.                                  *)
StopsBound == others = 0 \/ down = "up"

MCNext ==
  /\ \/ scenario = "loop" /\ Next /\ UNCHANGED <<ingestState, gateState>>
     \/ scenario = "gate" /\ Gate!Next /\ UNCHANGED <<vars, ingestState>>
     \/ scenario = "retry" /\ Retry!Next /\ UNCHANGED <<vars, gateState>>
     \/ scenario = "stops" /\ Stops!Next /\ StopsBound' /\ UNCHANGED <<vars, gateState>>
  /\ UNCHANGED scenario

(* The fairness of AgentLoop, and of a run of the ingestion: its code runs *)
(* on, the budget timer fires, and an intake window answers an aborted     *)
(* signal.  Each is asked of the behaviours it is about.                   *)
InLoop(A)  == scenario = "loop" /\ A
InStops(A) == scenario = "stops" /\ A

MCSpec ==
  /\ MCInit /\ [][MCNext]_<<scenario, vars, ingestState, gateState>>
  /\ WF_vars(InLoop(Top)) /\ WF_vars(InLoop(Execute)) /\ WF_vars(InLoop(Register))
  /\ WF_vars(InLoop(Late)) /\ WF_vars(InLoop(Watch)) /\ WF_vars(InLoop(CancelWatch))
  /\ WF_vars(InLoop(cancelSent /\ Model)) /\ WF_vars(InLoop(aborted /\ Tool))
  /\ WF_ingestState(InStops(Stops!Work(First)))
  /\ WF_ingestState(InStops(Stops!RunLate(First)))
  /\ WF_ingestState(InStops(Stops!Aborted(First) /\ Stops!Intake(First)))

-----------------------------------------------------------------------------
(* The loop implements AgentRun, the end of every run included.            *)
RunKeepsPromise == /\ Promise!Safety
                   /\ <>(scenario = "loop" => Promise!Returned)

(* One record per paper, and one paper per citekey, however runs fail and  *)
(* are tried again (PaperIngest: OneRecord, Unmixed).                      *)
RecordsApart == scenario = "retry" => Retry!OneRecord /\ Retry!Unmixed

(* What a run reports is true, and leaves out no file it wrote             *)
(* (PaperIngest: CompletedTrue, Accounted).                                *)
ReportsTrue == scenario = "stops" => Stops!CompletedTrue /\ Stops!Accounted

(* Nothing is written that the user has not confirmed, and no note without *)
(* the source it was asked for (PaperIngest: ConfirmedFirst,               *)
(* NoteHasSource).                                                         *)
WritesBacked == scenario = "stops" => Stops!ConfirmedFirst /\ Stops!NoteHasSource

(* What the gate takes is a record of Crossref, new when it is taken for   *)
(* new, and one paper when it is taken for a duplicate (IdentityGate).     *)
VerdictsHold == Gate!IdentityGrounded /\ Gate!NewIsNew /\ Gate!DuplicateIsOne

(* Of the unload and the files of others: see PaperIngest.                 *)
BarrierHolds    == scenario = "stops" => Stops!BarrierHolds
NothingReplaced == Retry!NothingReplaced

(* Every run that was started ends, even if the user never answers.        *)
RunsEnd == InStops(at[First] = "source") ~> at[First] = "done"
=============================================================================
