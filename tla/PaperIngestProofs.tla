-------------------------- MODULE PaperIngestProofs -------------------------
(***************************************************************************)
(* Proofs about PaperIngest, for any number of runs, papers and suffixes   *)
(* and any stops, budgets, failures, unloads and other writers: what a run *)
(* reports is true and leaves out nothing, nothing is written that was not *)
(* confirmed or has no source, and the unload waits for every run.  That a *)
(* paper keeps one record is proved of runs one after the other, with      *)
(* nobody else in the vault.                                               *)
(***************************************************************************)
EXTENDS PaperIngest, FiniteSetTheorems, TLAPS

-----------------------------------------------------------------------------
(* The inductive invariant.                                                *)
Layers  == {"article", "wiki"}
AllKeys == Keys \cup {NoKey, Base(1)}
File    == [paper : Papers \cup {Nobody}, by : Runs \cup {Nobody}]
Job     == [paper : Papers \cup {Nobody}, outputs : SUBSET Layers,
            source : {"auto", "article", "pdf"}, mode : {"legacy", "source-v2"}]
Identity == [key : AllKeys, formal : BOOLEAN, saw : SUBSET (Layers \X AllKeys)]

VaultOK == pkg \in [Keys -> File] /\ note \in [Keys -> File]
FlowOK  == /\ job \in [Runs -> Job] /\ id \in [Runs -> Identity]
           /\ has \in [Runs -> SUBSET Layers] /\ got \in [Runs -> SUBSET (Layers \X AllKeys)]
           /\ problem \in [Runs -> SUBSET {"error", "conflict", "title"}]
           /\ confirmed \in [Runs -> BOOLEAN]
           /\ snapshot \in [Runs -> {"none", "held", "gone"}]
EndsOK  == /\ cancelled \in [Runs -> BOOLEAN] /\ late \in [Runs -> BOOLEAN]
           /\ active \in SUBSET Runs /\ barrier \in SUBSET Runs
           /\ outcome \in [Runs -> {"none", "failed", "conflict", "completed"}]
Before  == {"source", "evidence", "legacy", "source-v2", "associate", "confirm"}
Phase2  == {"extract", "publish", "bind", "draft?", "draft", "save", "create", "readback"}
Places  == {"idle", "existing", "unique", "finish", "dispose", "done"} \cup Before \cup Phase2
Types   == VaultOK /\ FlowOK /\ EndsOK /\ pc \in [Runs -> Places]

(* A run is active from its start to its end, and forgotten then.          *)
Lives(r) ==
  /\ r \in active <=> pc[r] \notin {"idle", "done"}
  /\ pc[r] = "done" => snapshot[r] = "gone"
  /\ outcome[r] # "none" => pc[r] = "dispose"
  /\ r \in active => job[r].paper \in Papers /\ job[r].outputs # {}
  /\ r \notin active => has[r] = {} /\ got[r] = {} /\ id[r] = NoIdentity

(* The key of what a run makes, and the confirmation it rests on.          *)
Keyed(r) ==
  /\ pc[r] \in Phase2 => id[r].key \in Keys
  /\ id[r].formal => id[r].key \in Keys /\ pc[r] \notin Before \ {"confirm"}
  /\ pc[r] \in Phase2 \cup {"existing", "unique"} => confirmed[r]
  /\ has[r] # {} => confirmed[r]

(* The files of a run are of its paper, and were not made before it was    *)
(* confirmed.                                                              *)
Own(r) ==
  \A k \in Keys : pkg[k].by = r \/ note[k].by = r =>
    \/ pc[r] = "done"
    \/ /\ r \in active /\ confirmed[r]
       /\ pkg[k].by = r => pkg[k].paper = Paper(r)
       /\ note[k].by = r => note[k].paper = Paper(r)

(* What it has seen is in the vault.                                       *)
HasNote(p) == \E k \in Keys : note[k].paper = p
Seen(r) ==
  r \in active =>
    /\ id[r].saw \subseteq Records(Paper(r))
    /\ "article" \in has[r] => HasText(Paper(r))
    /\ "wiki" \in has[r] => HasNote(Paper(r))

(* The receipts of a run are of files it wrote.  One that is missing is of *)
(* the file it has just written, or the user knows of it.                  *)
Made(r) == IF pc[r] = "bind" THEN {<<"article", PackageKey(r)>>}
           ELSE IF pc[r] = "readback" THEN {<<"wiki", id[r].key>>} ELSE {}
Books(r) ==
  r \in active =>
    /\ got[r] \cup Made(r) \subseteq Wrote(r)
    /\ Wrote(r) \subseteq got[r] \cup Made(r) \/ cancelled[r] \/ "error" \in problem[r]

(* A note that needs the text of the paper is only begun when it is there. *)
NeedsText(r) == Wants(r, "article") \/ job[r].source = "article"
Sourced(r) ==
  r \in active /\ NeedsText(r)
  /\ (pc[r] \in {"draft", "save", "create"} \/ \E k \in Keys : note[k].by = r)
    => HasText(Paper(r))

(* A result that says "completed".                                         *)
Told(r) ==
  outcome[r] = "completed" =>
    /\ confirmed[r]
    /\ Wants(r, "article") => HasText(Paper(r))
    /\ Wants(r, "wiki") => HasNote(Paper(r))

Fit(r) == Lives(r) /\ Keyed(r) /\ Own(r) /\ Seen(r) /\ Books(r) /\ Sourced(r) /\ Told(r)

(* The unload waits for runs that were started.                            *)
Unloaded == /\ \A r \in barrier : pc[r] # "idle"
            /\ down = "ok" => \A r \in barrier : pc[r] = "done"

IInv == Types /\ Unloaded /\ \A r \in Runs : Fit(r)

(* What a run of the loop that is by itself in the vault relies on: the    *)
(* records it has not seen are not there, and the key it has chosen holds  *)
(* nothing but its paper's files, which are all of those.                  *)
Alone  == MaxActive = 1 /\ MaxOthers = 0 /\ Modes = {"legacy"} /\ Catalogued = {}
HasFile(p, k) == pkg[k].paper = p \/ note[k].paper = p
Only(p, k) == /\ pkg[k] # Empty => pkg[k].paper = p
              /\ note[k] # Empty => note[k].paper = p
              /\ p \notin Clipped => \A l \in Keys : HasFile(p, l) => l = k
Separate ==
  /\ \A p \in Papers \ Clipped : \A k, l \in Keys : HasFile(p, k) /\ HasFile(p, l) => k = l
  /\ Unmixed
  /\ \A k \in Keys : /\ pkg[k] # Empty <=> pkg[k].paper \in Papers
                     /\ note[k] # Empty <=> note[k].paper \in Papers
Sure(r) ==
  /\ ~id[r].formal /\ job[r].mode = "legacy" /\ pc[r] # "source-v2"
  /\ pc[r] \in {"associate", "confirm", "existing", "unique"} /\ id[r].saw = {} =>
       Records(Paper(r)) = {}
  /\ pc[r] = "existing" => id[r].saw # {}
  /\ pc[r] = "unique" => id[r].saw = {}
  /\ pc[r] \in Phase2 => Only(Paper(r), id[r].key)
Single == active = {} \/ \E r \in Runs : active = {r}
Apart  == Single /\ others = 0 /\ Separate /\ \A r \in active : Sure(r)

-----------------------------------------------------------------------------
(* Keys, records and layers.                                               *)
LEMMA KeyFacts ==
  ASSUME IngestAssumption
  PROVE  /\ NoKey \notin Keys /\ Citekeys \subseteq Keys /\ Keys \subseteq AllKeys
         /\ NoKey \in AllKeys /\ Base(1) \in AllKeys
         /\ \A p \in Papers : Formal(p) \in Keys /\ Conversion(p) \in Keys
BY DEF Keys, Citekeys, AllKeys, NoKey, Base, Formal, Conversion

LEMMA InRecords ==
  ASSUME NEW p, NEW f
  PROVE  f \in Records(p) <=>
           \/ \E k \in Keys : f = <<"article", k>> /\ pkg[k].paper = p
           \/ \E k \in Keys : f = <<"wiki", k>> /\ note[k].paper = p
           \/ f = <<"article", NoKey>> /\ p \in Clipped
BY DEF Records

LEMMA InWrote ==
  ASSUME NEW r, NEW f
  PROVE  f \in Wrote(r) <=>
           \/ \E k \in Keys : f = <<"article", k>> /\ pkg[k].by = r
           \/ \E k \in Keys : f = <<"wiki", k>> /\ note[k].by = r
BY DEF Wrote

LEMMA RecordsTyped ==
  ASSUME IngestAssumption, NEW p
  PROVE  Records(p) \in SUBSET (Layers \X AllKeys)
<1>1. ASSUME NEW f \in Records(p) PROVE f \in Layers \X AllKeys
  <2>1. \/ \E k \in Keys : f = <<"article", k>>
        \/ \E k \in Keys : f = <<"wiki", k>>
        \/ f = <<"article", NoKey>>
    BY <1>1, InRecords
  <2> QED BY <2>1, KeyFacts DEF Layers
<1> QED BY <1>1

LEMMA LayersTyped ==
  ASSUME NEW s \in SUBSET (Layers \X AllKeys)
  PROVE  LayersOf(s) \in SUBSET Layers /\ CitekeysOf(s) \in SUBSET AllKeys
BY DEF LayersOf, CitekeysOf

(* The layers of what was seen are in the vault.                           *)
LEMMA SeenLayers ==
  ASSUME NEW p, NEW s \in SUBSET Records(p)
  PROVE  /\ "article" \in LayersOf(s) => HasText(p)
         /\ "wiki" \in LayersOf(s) => HasNote(p)
         /\ \A key \in CitekeysOf(s) : key \in Keys /\ (pkg[key].paper = p \/ note[key].paper = p)
<1>1. ASSUME NEW f \in s
      PROVE  \/ \E k \in Keys : f = <<"article", k>> /\ pkg[k].paper = p
             \/ \E k \in Keys : f = <<"wiki", k>> /\ note[k].paper = p
             \/ f = <<"article", NoKey>> /\ p \in Clipped
  BY <1>1, InRecords
<1>2. ASSUME "article" \in LayersOf(s) PROVE HasText(p)
  <2>1. PICK f \in s : f[1] = "article"
    BY <1>2 DEF LayersOf
  <2>2. \/ \E k \in Keys : f = <<"article", k>> /\ pkg[k].paper = p
        \/ \E k \in Keys : f = <<"wiki", k>> /\ note[k].paper = p
        \/ f = <<"article", NoKey>> /\ p \in Clipped
    BY <1>1
  <2> QED BY <2>1, <2>2 DEF HasText
<1>3. ASSUME "wiki" \in LayersOf(s) PROVE HasNote(p)
  <2>1. PICK f \in s : f[1] = "wiki"
    BY <1>3 DEF LayersOf
  <2>2. \/ \E k \in Keys : f = <<"article", k>> /\ pkg[k].paper = p
        \/ \E k \in Keys : f = <<"wiki", k>> /\ note[k].paper = p
        \/ f = <<"article", NoKey>> /\ p \in Clipped
    BY <1>1
  <2> QED BY <2>1, <2>2 DEF HasNote
<1>4. ASSUME NEW key \in CitekeysOf(s)
      PROVE  key \in Keys /\ (pkg[key].paper = p \/ note[key].paper = p)
  <2>1. PICK f \in s : f[2] = key /\ key # NoKey
    BY <1>4 DEF CitekeysOf
  <2>2. \/ \E k \in Keys : f = <<"article", k>> /\ pkg[k].paper = p
        \/ \E k \in Keys : f = <<"wiki", k>> /\ note[k].paper = p
        \/ f = <<"article", NoKey>> /\ p \in Clipped
    BY <1>1
  <2> QED BY <2>1, <2>2
<1> QED BY <1>2, <1>3, <1>4

-----------------------------------------------------------------------------
(* Phase 1, in what its steps have in common.                              *)
Kinds == {"error", "conflict", "title"}
Early(r) == \/ Authorise(r) \/ ReadEvidence(r) \/ Identify(r) \/ Associate(r) \/ Confirm(r)
            \/ CloseWindow(r) \/ Existing(r) \/ MakeUnique(r) \/ Intake(r)
EarlyPlaces == Before \cup {"existing", "unique"}

(* The run r goes there with problems of some kinds, the identity v and    *)
(* the outputs s.                                                          *)
Identified(r, v, s) ==
  /\ id' = [id EXCEPT ![r] = v] /\ has' = [has EXCEPT ![r] = s]
  /\ v.saw \subseteq Records(Paper(r))
  /\ "article" \in s => HasText(Paper(r))
  /\ "wiki" \in s => HasNote(Paper(r))
Goes(r, there, kinds) ==
  /\ pc' = [pc EXCEPT ![r] = there] /\ problem' = [problem EXCEPT ![r] = @ \cup kinds]
  /\ confirmed' = confirmed \/ confirmed' = [confirmed EXCEPT ![r] = TRUE]
  /\ snapshot' = snapshot \/ snapshot' = [snapshot EXCEPT ![r] = "held"]
  /\ UNCHANGED <<vault, job, got, stops, ends, others>>
EarlyKeyed(r, v, s) ==
  /\ pc'[r] = "extract" => v.key \in Keys
  /\ v.formal => v.key \in Keys /\ pc'[r] \notin Before \ {"confirm"}
  /\ pc'[r] \in {"extract", "existing", "unique"} => confirmed'[r]
  /\ s # {} => confirmed'[r]

(* Where a run goes that stops with an exception or a problem.             *)
LEMMA StopsGo ==
  ASSUME Types, NEW r \in Runs,
         Throw(r) \/ Stop(r, {"error"}) \/ Stop(r, {"conflict"})
  PROVE  \E kinds \in SUBSET Kinds :
           pc' = [pc EXCEPT ![r] = "finish"] /\ problem' = [problem EXCEPT ![r] = @ \cup kinds]
BY DEF Throw, Stop, Go, Report, Kinds

LEMMA EarlyPc ==
  ASSUME Types, NEW r \in Runs, Early(r)
  PROVE  /\ pc[r] \in EarlyPlaces
         /\ \E there \in EarlyPlaces \cup {"extract", "finish"}, kinds \in SUBSET Kinds :
              Goes(r, there, kinds)
<1>1. problem = [problem EXCEPT ![r] = @ \cup {}]
  BY DEF Types, FlowOK
<1>2. ASSUME NEW there, Go(r, there), UNCHANGED problem
      PROVE  \E kinds \in SUBSET Kinds :
               pc' = [pc EXCEPT ![r] = there] /\ problem' = [problem EXCEPT ![r] = @ \cup kinds]
  BY <1>1, <1>2 DEF Go
<1>3. ASSUME NEW there, Go(r, there), Report(r, {"conflict"})
      PROVE  \E kinds \in SUBSET Kinds :
               pc' = [pc EXCEPT ![r] = there] /\ problem' = [problem EXCEPT ![r] = @ \cup kinds]
  BY <1>3 DEF Go, Report, Kinds
<1> DEFINE Here == EarlyPlaces \cup {"extract", "finish"}
<1>4. pc[r] \in EarlyPlaces
  BY DEF Early, Authorise, ReadEvidence, Identify, Associate, Confirm, CloseWindow, Existing,
     MakeUnique, Intake, At, EarlyPlaces, Before
<1>5. \/ Throw(r) \/ Stop(r, {"error"}) \/ Stop(r, {"conflict"})
      \/ \E there \in Here : Go(r, there) /\ (UNCHANGED problem \/ Report(r, {"conflict"}))
  <2>1. job[r].mode \in {"legacy", "source-v2"}
    BY DEF Types, FlowOK, Job
  <2>2. CASE Authorise(r) \/ ReadEvidence(r)
    BY <2>1, <2>2 DEF Authorise, ReadEvidence, EarlyPlaces, Before
  <2>3. CASE Identify(r)
    BY <2>3 DEF Identify, EarlyPlaces, Before
  <2>4. CASE Associate(r) \/ MakeUnique(r)
    BY <2>4 DEF Associate, MakeUnique, EarlyPlaces, Before
  <2>5. CASE Confirm(r) \/ CloseWindow(r)
    BY <2>5 DEF Confirm, Confirmed, CloseWindow, EarlyPlaces, Before
  <2>6. CASE Existing(r) \/ Intake(r)
    BY <2>6 DEF Existing, Intake, EarlyPlaces, Before
  <2> QED BY <2>2, <2>3, <2>4, <2>5, <2>6 DEF Early
<1>6. \E there \in Here, kinds \in SUBSET Kinds :
         pc' = [pc EXCEPT ![r] = there] /\ problem' = [problem EXCEPT ![r] = @ \cup kinds]
  <2>1. "finish" \in Here
    OBVIOUS
  <2> HIDE DEF Here
  <2> QED BY <1>2, <1>3, <1>5, <2>1, StopsGo
<1>7. /\ confirmed' = confirmed \/ confirmed' = [confirmed EXCEPT ![r] = TRUE]
      /\ snapshot' = snapshot \/ snapshot' = [snapshot EXCEPT ![r] = "held"]
      /\ UNCHANGED <<vault, job, got, stops, ends, others>>
  BY DEF Early, Authorise, ReadEvidence, Identify, Associate, Confirm, CloseWindow, Existing,
     MakeUnique, Intake, Phase1Frame, Confirmed
<1> QED BY <1>4, <1>6, <1>7 DEF Goes

(* What a run knows of its paper after a step of phase 1.                  *)
LEMMA SameIdentity ==
  ASSUME Types, NEW r \in Runs, Seen(r), r \in active, Keyed(r), UNCHANGED <<id, has>>,
         confirmed'[r] = confirmed[r] \/ confirmed'[r],
         id[r].formal => pc'[r] \notin Before \ {"confirm"},
         pc'[r] = "extract" => id[r].key \in Keys,
         pc'[r] \in {"extract", "existing", "unique"} => confirmed'[r]
  PROVE  Identified(r, id[r], has[r]) /\ EarlyKeyed(r, id[r], has[r])
BY DEF Types, FlowOK, Seen, Keyed, Identified, EarlyKeyed

LEMMA IdentityTyped ==
  ASSUME Types, NEW r \in Runs
  PROVE  /\ id[r] \in Identity /\ has[r] \in SUBSET Layers
         /\ id[r].key \in AllKeys /\ id[r].formal \in BOOLEAN
         /\ id[r].saw \in SUBSET (Layers \X AllKeys)
         /\ job[r] \in Job /\ confirmed[r] \in BOOLEAN /\ pc[r] \in Places
         /\ pkg \in [Keys -> File] /\ note \in [Keys -> File]
BY DEF Types, FlowOK, VaultOK, Identity

Knows(r) == \E v \in Identity, s \in SUBSET Layers : Identified(r, v, s) /\ EarlyKeyed(r, v, s)

(* Steps that leave the identity alone.                                    *)
LEMMA QuietIdentity ==
  ASSUME Types, NEW r \in Runs, Lives(r), Keyed(r), Seen(r),
         Authorise(r) \/ ReadEvidence(r) \/ Confirm(r) \/ CloseWindow(r)
  PROVE  Knows(r)
<1>1. r \in active /\ pc[r] \in Before
  BY DEF Lives, Authorise, ReadEvidence, Confirm, CloseWindow, At, Before
<1>2. UNCHANGED <<id, has>>
  BY DEF Authorise, ReadEvidence, Confirm, CloseWindow
<1>3. confirmed'[r] = confirmed[r] \/ confirmed'[r]
  BY DEF Authorise, ReadEvidence, Confirm, CloseWindow, Confirmed, Types, FlowOK
<1>4. pc'[r] \in {"finish", "evidence"} \cup {job[r].mode}
      \/ (At(r, "confirm") /\ Confirmed(r))
  BY DEF Authorise, ReadEvidence, Confirm, CloseWindow, Throw, Stop, Go, Types
<1>5. job[r].mode \in {"legacy", "source-v2"}
  BY DEF Types, FlowOK, Job
<1>6. CASE At(r, "confirm") /\ Confirmed(r)
  <2>1. confirmed'[r]
    BY <1>6 DEF Confirmed, Types, FlowOK
  <2>2. pc'[r] \in {"existing", "unique"} \/ (pc'[r] = "extract" /\ id[r].formal)
    BY <1>6 DEF Confirmed, Go, Types
  <2>3. id[r].formal => id[r].key \in Keys
    BY DEF Keyed
  <2>4. pc'[r] \notin Before
    BY <2>2 DEF Before
  <2> QED BY <1>1, <1>2, <2>1, <2>2, <2>3, <2>4, SameIdentity, IdentityTyped DEF Knows
<1>7. CASE pc'[r] \in {"finish", "evidence"} \cup {job[r].mode}
  <2>1. pc'[r] \in Before => pc[r] \in {"source", "evidence"}
    BY <1>5, <1>7 DEF Authorise, ReadEvidence, Confirm, CloseWindow, Confirmed, Throw, Stop,
       Go, At, Before, Types
  <2>2. id[r].formal => pc'[r] \notin Before \ {"confirm"}
    BY <2>1 DEF Keyed, Before
  <2>3. pc'[r] \notin {"extract", "existing", "unique"}
    BY <1>5, <1>7
  <2> QED BY <1>1, <1>2, <1>3, <2>2, <2>3, SameIdentity, IdentityTyped DEF Knows
<1> QED BY <1>4, <1>6, <1>7

(* Steps that find, or change, the identity.                               *)
LEMMA IdentifyKnows ==
  ASSUME IngestAssumption, Types, NEW r \in Runs, Lives(r), Keyed(r), Seen(r), Identify(r)
  PROVE  Knows(r)
<1>1. r \in active /\ pc[r] = "legacy" /\ ~id[r].formal
  BY DEF Lives, Identify, At, Keyed, Before
<1>2. confirmed' = confirmed /\ has' = has
  BY DEF Identify
<1>3. CASE id' = id /\ pc' = [pc EXCEPT ![r] = "finish"]
  <2>1. pc'[r] = "finish" /\ UNCHANGED <<id, has>>
    BY <1>2, <1>3 DEF Types
  <2> QED BY <1>1, <1>2, <2>1, SameIdentity, IdentityTyped DEF Knows, Before
<1>4. ASSUME NEW observed \in SUBSET Records(Paper(r)),
             id' = [id EXCEPT ![r].saw = observed, ![r].key = Base(1)], Go(r, "associate")
      PROVE  Knows(r)
  <2> DEFINE v == [[id[r] EXCEPT !.saw = observed] EXCEPT !.key = Base(1)]
  <2>1. observed \in SUBSET (Layers \X AllKeys)
    BY RecordsTyped
  <2>2. v \in Identity /\ v.key = Base(1) /\ v.formal = id[r].formal /\ v.saw = observed
    BY <2>1, IdentityTyped, KeyFacts DEF Identity
  <2>3. id' = [id EXCEPT ![r] = v]
    BY <1>4 DEF Types, FlowOK
  <2>4. has' = [has EXCEPT ![r] = has[r]]
    BY <1>2 DEF Types, FlowOK
  <2>5. pc'[r] = "associate"
    BY <1>4 DEF Go, Types
  <2>6. Identified(r, v, has[r])
    BY <1>1, <2>2, <2>3, <2>4 DEF Identified, Seen
  <2>7. EarlyKeyed(r, v, has[r])
    BY <1>1, <1>2, <2>2, <2>5 DEF EarlyKeyed, Keyed
  <2> QED BY <2>2, <2>6, <2>7, IdentityTyped DEF Knows
<1>5. \/ id' = id /\ pc' = [pc EXCEPT ![r] = "finish"]
      \/ \E observed \in SUBSET Records(Paper(r)) :
           id' = [id EXCEPT ![r].saw = observed, ![r].key = Base(1)] /\ Go(r, "associate")
  BY DEF Identify, Stop, Go
<1> QED BY <1>3, <1>4, <1>5

LEMMA AssociateKnows ==
  ASSUME IngestAssumption, Types, NEW r \in Runs, Lives(r), Keyed(r), Seen(r), Associate(r)
  PROVE  Knows(r)
<1>1. r \in active /\ pc[r] = "associate" /\ Paper(r) \in Papers /\ ~id[r].formal
  BY DEF Lives, Associate, At, Paper, Keyed, Before
<1>2. confirmed' = confirmed /\ has' = has
  BY DEF Associate
<1>3. CASE id' = id /\ pc'[r] \in {"finish", "confirm"}
  <2>1. UNCHANGED <<id, has>>
    BY <1>2, <1>3
  <2> QED BY <1>1, <1>2, <1>3, <2>1, SameIdentity, IdentityTyped DEF Knows, Before
<1>4. CASE id' = [id EXCEPT ![r].key = Formal(Paper(r)), ![r].formal = TRUE] /\ pc'[r] = "confirm"
  <2> DEFINE v == [[id[r] EXCEPT !.key = Formal(Paper(r))] EXCEPT !.formal = TRUE]
  <2>1. Formal(Paper(r)) \in Keys
    BY <1>1, KeyFacts
  <2>2. v \in Identity /\ v.key = Formal(Paper(r)) /\ v.saw = id[r].saw
    BY <2>1, IdentityTyped, KeyFacts DEF Identity
  <2>3. id' = [id EXCEPT ![r] = v]
    BY <1>4 DEF Types, FlowOK
  <2>4. has' = [has EXCEPT ![r] = has[r]]
    BY <1>2 DEF Types, FlowOK
  <2>5. Identified(r, v, has[r])
    BY <1>1, <2>2, <2>3, <2>4 DEF Identified, Seen
  <2>6. EarlyKeyed(r, v, has[r])
    BY <1>1, <1>2, <1>4, <2>1, <2>2 DEF EarlyKeyed, Keyed
  <2> QED BY <2>2, <2>5, <2>6, IdentityTyped DEF Knows
<1>5. \/ id' = id /\ pc'[r] \in {"finish", "confirm"}
      \/ id' = [id EXCEPT ![r].key = Formal(Paper(r)), ![r].formal = TRUE] /\ pc'[r] = "confirm"
  BY DEF Associate, Throw, Stop, Go, Types
<1> QED BY <1>3, <1>4, <1>5

(* A key is chosen, by a run whose identity is confirmed.                  *)
LEMMA ChoiceKnows ==
  ASSUME IngestAssumption, Types, NEW r \in Runs, Lives(r), Keyed(r), Seen(r),
         pc[r] \in {"existing", "unique"}, UNCHANGED confirmed,
         pc'[r] \in {"finish", "extract"}, NEW key \in Keys, NEW s \in SUBSET Layers,
         id' = [id EXCEPT ![r].key = key], has' = [has EXCEPT ![r] = s],
         "article" \in s => HasText(Paper(r)), "wiki" \in s => HasNote(Paper(r))
  PROVE  Knows(r)
<1>1. r \in active /\ confirmed[r]
  BY DEF Lives, Keyed
<1> DEFINE v == [id[r] EXCEPT !.key = key]
<1>2. v \in Identity /\ v.key = key /\ v.saw = id[r].saw
  BY IdentityTyped, KeyFacts DEF Identity
<1>3. id' = [id EXCEPT ![r] = v]
  BY DEF Types, FlowOK
<1>4. Identified(r, v, s)
  BY <1>1, <1>2, <1>3 DEF Identified, Seen
<1>5. EarlyKeyed(r, v, s)
  BY <1>1, <1>2 DEF EarlyKeyed, Before
<1> QED BY <1>2, <1>4, <1>5 DEF Knows

(* A step that ends in "finish" with nothing found out.                    *)
LEMMA StopKnows ==
  ASSUME Types, NEW r \in Runs, Lives(r), Keyed(r), Seen(r), r \in active,
         UNCHANGED <<id, has, confirmed>>, pc'[r] = "finish"
  PROVE  Knows(r)
<1>1. UNCHANGED <<id, has>> /\ pc'[r] \notin {"extract", "existing", "unique"}
      /\ pc'[r] \notin Before \ {"confirm"}
  BY DEF Before
<1> QED BY <1>1, SameIdentity, IdentityTyped DEF Knows

LEMMA ExistingKnows ==
  ASSUME IngestAssumption, Types, NEW r \in Runs, Lives(r), Keyed(r), Seen(r),
         Existing(r) \/ MakeUnique(r)
  PROVE  Knows(r)
<1>1. /\ pc[r] \in {"existing", "unique"} /\ r \in active /\ UNCHANGED confirmed
      /\ Paper(r) \in Papers
  BY DEF Existing, MakeUnique, At, Lives, Paper
<1>2. CASE Throw(r) /\ UNCHANGED <<id, has>>
  <2>1. pc'[r] = "finish" /\ UNCHANGED <<id, has, confirmed>>
    BY <1>1, <1>2 DEF Throw, Stop, Go, Types
  <2> QED BY <1>1, <2>1, StopKnows
<1>3. ASSUME NEW key \in Citekeys \cup {Conversion(Paper(r))}, pc'[r] \in {"finish", "extract"},
             id' = [id EXCEPT ![r].key = key], has' = [has EXCEPT ![r] = LayersOf(id[r].saw)]
      PROVE  Knows(r)
  <2>1. key \in Keys
    BY <1>1, KeyFacts
  <2>2. id[r].saw \in SUBSET Records(Paper(r)) /\ LayersOf(id[r].saw) \in SUBSET Layers
    BY <1>1, IdentityTyped, LayersTyped DEF Seen
  <2>3. /\ "article" \in LayersOf(id[r].saw) => HasText(Paper(r))
        /\ "wiki" \in LayersOf(id[r].saw) => HasNote(Paper(r))
    BY <2>2, SeenLayers
  <2> QED BY <1>1, <1>3, <2>1, <2>2, <2>3, ChoiceKnows
<1>4. ASSUME NEW key \in Citekeys, pc'[r] = "extract", id' = [id EXCEPT ![r].key = key],
             UNCHANGED has
      PROVE  Knows(r)
  <2>1. key \in Keys /\ has' = [has EXCEPT ![r] = has[r]]
    BY <1>4, KeyFacts DEF Types, FlowOK
  <2>2. ("article" \in has[r] => HasText(Paper(r))) /\ ("wiki" \in has[r] => HasNote(Paper(r)))
    BY <1>1 DEF Seen
  <2> QED BY <1>1, <1>4, <2>1, <2>2, IdentityTyped, ChoiceKnows
<1>5. CASE Existing(r)
  <2>1. CASE Throw(r) /\ UNCHANGED <<id, has>>
    BY <1>2, <2>1
  <2>2. ASSUME NEW key \in Citekeys \cup {Conversion(Paper(r))},
               /\ id' = [id EXCEPT ![r].key = key]
               /\ has' = [has EXCEPT ![r] = LayersOf(id[r].saw)],
               Go(r, "finish") \/ Throw(r) \/ Go(r, "extract")
        PROVE  Knows(r)
    <3>1. pc'[r] \in {"finish", "extract"}
      BY <2>2 DEF Go, Throw, Stop, Types
    <3> QED BY <1>3, <2>2, <3>1
  <2> QED BY <1>5, <2>1, <2>2 DEF Existing
<1>6. CASE MakeUnique(r)
  <2>1. CASE Throw(r) /\ UNCHANGED id
    BY <1>2, <1>6, <2>1 DEF MakeUnique
  <2>2. ASSUME NEW key \in Citekeys, id' = [id EXCEPT ![r].key = key], Go(r, "extract")
        PROVE  Knows(r)
    <3>1. pc'[r] = "extract" /\ UNCHANGED has
      BY <1>6, <2>2 DEF MakeUnique, Go, Types
    <3> QED BY <1>4, <2>2, <3>1
  <2> QED BY <1>6, <2>1, <2>2 DEF MakeUnique
<1> QED BY <1>5, <1>6

LEMMA IntakeKnows ==
  ASSUME IngestAssumption, Types, NEW r \in Runs, Lives(r), Keyed(r), Seen(r), Intake(r)
  PROVE  Knows(r)
<1> DEFINE notes == {f \in Records(Paper(r)) : f[1] = "wiki"}
<1>1. r \in active /\ pc[r] = "source-v2" /\ Paper(r) \in Papers
  BY DEF Lives, Intake, At, Paper
<1>2. CASE Throw(r) /\ UNCHANGED <<id, has, confirmed>>
  <2>1. pc'[r] = "finish"
    BY <1>2 DEF Throw, Stop, Go, Types
  <2> QED BY <1>1, <1>2, <2>1, StopKnows
<1>3. ASSUME NEW key \in {Formal(Paper(r))} \cup CitekeysOf(notes), NEW article \in SUBSET {"article"},
             id' = [id EXCEPT ![r] = [key |-> key, formal |-> TRUE, saw |-> notes]],
             article # {} => pkg[Conversion(Paper(r))].paper = Paper(r),
             has' = [has EXCEPT ![r] = article \cup LayersOf(notes)],
             confirmed' = [confirmed EXCEPT ![r] = TRUE],
             pc'[r] \in {"finish", "extract"}
      PROVE  Knows(r)
  <2>1. notes \in SUBSET Records(Paper(r))
    OBVIOUS
  <2>2. /\ "article" \in LayersOf(notes) => HasText(Paper(r))
        /\ "wiki" \in LayersOf(notes) => HasNote(Paper(r))
        /\ \A k \in CitekeysOf(notes) : k \in Keys
    <3> HIDE DEF notes
    <3> QED BY <2>1, SeenLayers
  <2>3. key \in Keys /\ key \in AllKeys
    <3> HIDE DEF notes
    <3> QED BY <1>1, <2>2, KeyFacts
  <2>4. notes \in SUBSET (Layers \X AllKeys)
    BY RecordsTyped
  <2>5. LayersOf(notes) \in SUBSET Layers
    <3> HIDE DEF notes
    <3> QED BY <2>4, LayersTyped
  <2> DEFINE s == article \cup LayersOf(notes)
             v == [key |-> key, formal |-> TRUE, saw |-> notes]
  <2>6. s \in SUBSET Layers
    <3> HIDE DEF notes
    <3> QED BY <2>5 DEF Layers
  <2>7. v \in Identity /\ v.key = key /\ v.saw = notes
    <3> HIDE DEF notes
    <3> QED BY <2>3, <2>4 DEF Identity
  <2>8. "article" \in s => HasText(Paper(r))
    <3>1. article # {} => HasText(Paper(r))
      BY <1>1, <1>3, KeyFacts DEF HasText
    <3> HIDE DEF notes
    <3> QED BY <2>2, <3>1
  <2>9. "wiki" \in s => HasNote(Paper(r))
    <3> HIDE DEF notes
    <3> QED BY <2>2
  <2>10. Identified(r, v, s)
    <3> HIDE DEF notes
    <3> QED BY <1>3, <2>1, <2>7, <2>8, <2>9 DEF Identified
  <2>11. confirmed'[r]
    BY <1>3 DEF Types, FlowOK
  <2>12. EarlyKeyed(r, v, s)
    <3> HIDE DEF v, s
    <3> QED BY <1>3, <2>3, <2>7, <2>11 DEF EarlyKeyed, Before
  <2> HIDE DEF v, s
  <2> QED BY <2>6, <2>7, <2>10, <2>12 DEF Knows
<1>4. \/ Throw(r) /\ UNCHANGED <<id, has, confirmed>>
      \/ \E key \in {Formal(Paper(r))} \cup CitekeysOf(notes), article \in SUBSET {"article"} :
           /\ id' = [id EXCEPT ![r] = [key |-> key, formal |-> TRUE, saw |-> notes]]
           /\ article # {} => pkg[Conversion(Paper(r))].paper = Paper(r)
           /\ has' = [has EXCEPT ![r] = article \cup LayersOf(notes)]
           /\ confirmed' = [confirmed EXCEPT ![r] = TRUE]
           /\ Go(r, "finish") \/ Go(r, "extract")
  BY DEF Intake
<1>5. (Go(r, "finish") \/ Go(r, "extract")) => pc'[r] \in {"finish", "extract"}
  BY DEF Go, Types
<1> HIDE DEF notes
<1> QED BY <1>2, <1>3, <1>4, <1>5

LEMMA EarlyKnows ==
  ASSUME IngestAssumption, Types, NEW r \in Runs, Lives(r), Keyed(r), Seen(r), Early(r)
  PROVE  Knows(r)
BY QuietIdentity, IdentifyKnows, AssociateKnows, ExistingKnows, IntakeKnows DEF Early

LEMMA EarlyTyped ==
  ASSUME IngestAssumption, Types, NEW r \in Runs, Lives(r), Keyed(r), Seen(r), Early(r)
  PROVE  Types'
<1>1. PICK there \in EarlyPlaces \cup {"extract", "finish"}, kinds \in SUBSET Kinds :
             Goes(r, there, kinds)
  BY EarlyPc
<1>2. PICK v \in Identity, s \in SUBSET Layers : Identified(r, v, s)
  BY EarlyKnows DEF Knows
<1>3. UNCHANGED <<pkg, note, job, got, cancelled, late, active, outcome, barrier>>
  BY <1>1 DEF Goes, vault, stops, ends
<1>4. pc' \in [Runs -> Places]
  BY <1>1 DEF Goes, Types, Places, EarlyPlaces, Phase2, Before
<1>5. id' \in [Runs -> Identity] /\ has' \in [Runs -> SUBSET Layers]
  BY <1>2 DEF Identified, Types, FlowOK
<1>6. /\ problem' \in [Runs -> SUBSET {"error", "conflict", "title"}]
      /\ confirmed' \in [Runs -> BOOLEAN] /\ snapshot' \in [Runs -> {"none", "held", "gone"}]
  BY <1>1 DEF Goes, Types, FlowOK, Kinds
<1> QED BY <1>3, <1>4, <1>5, <1>6 DEF Types, VaultOK, FlowOK, EndsOK

LEMMA EarlyFit ==
  ASSUME IngestAssumption, Types, NEW r \in Runs, Fit(r), Early(r)
  PROVE  Fit(r)'
<1>1. Lives(r) /\ Keyed(r) /\ Own(r) /\ Seen(r) /\ Books(r) /\ Sourced(r) /\ Told(r)
  BY DEF Fit
<1>2. PICK there \in EarlyPlaces \cup {"extract", "finish"}, kinds \in SUBSET Kinds :
             Goes(r, there, kinds)
  BY EarlyPc
<1>3. PICK v \in Identity, s \in SUBSET Layers : Identified(r, v, s) /\ EarlyKeyed(r, v, s)
  BY <1>1, EarlyKnows DEF Knows
<1>4. UNCHANGED <<pkg, note, job, got, cancelled, late, active, outcome, barrier>>
  BY <1>2 DEF Goes, vault, stops, ends
<1>5. pc[r] \in EarlyPlaces /\ pc'[r] = there /\ r \in active /\ Paper(r) \in Papers
  BY <1>1, <1>2, EarlyPc DEF Goes, Types, Lives, EarlyPlaces, Before, Paper
<1>6. /\ problem'[r] = problem[r] \cup kinds /\ (confirmed'[r] = confirmed[r] \/ confirmed'[r])
      /\ id'[r] = v /\ has'[r] = s
  BY <1>2, <1>3 DEF Goes, Identified, Types, FlowOK
<1>7. Paper(r)' = Paper(r) /\ HasText(Paper(r))' = HasText(Paper(r))
      /\ HasNote(Paper(r))' = HasNote(Paper(r)) /\ Wrote(r)' = Wrote(r)
      /\ Records(Paper(r))' = Records(Paper(r))
  BY <1>4 DEF Paper, HasText, HasNote, Wrote, Records
<1>8. outcome[r] = "none"
  BY <1>1, <1>5 DEF Lives, EarlyPlaces, Before
<1>9. Lives(r)'
  BY <1>1, <1>4, <1>5, <1>8 DEF Lives, EarlyPlaces, Before
<1>10. Keyed(r)'
  BY <1>3, <1>5, <1>6 DEF EarlyKeyed, Keyed, EarlyPlaces, Before, Phase2
<1>11. Own(r)'
  BY <1>1, <1>4, <1>5, <1>6, <1>7 DEF Own, EarlyPlaces, Before
<1>12. Seen(r)'
  BY <1>3, <1>6, <1>7 DEF Seen, Identified
<1>13. Books(r)'
  <2>1. Made(r) = {} /\ Made(r)' = {}
    BY <1>5 DEF Made, EarlyPlaces, Before
  <2>2. /\ got[r] \subseteq Wrote(r)
        /\ Wrote(r) \subseteq got[r] \/ cancelled[r] \/ "error" \in problem[r]
    BY <1>1, <1>5, <2>1 DEF Books
  <2>3. "error" \in problem[r] => "error" \in problem'[r]
    BY <1>6
  <2>4. got'[r] = got[r] /\ cancelled'[r] = cancelled[r]
    BY <1>4
  <2> QED BY <1>7, <2>1, <2>2, <2>3, <2>4 DEF Books
<1>14. Sourced(r)'
  BY <1>1, <1>4, <1>5, <1>7 DEF Sourced, NeedsText, Wants, EarlyPlaces, Before
<1>15. Told(r)'
  BY <1>4, <1>8 DEF Told
<1> QED BY <1>9, <1>10, <1>11, <1>12, <1>13, <1>14, <1>15 DEF Fit

-----------------------------------------------------------------------------
(* The vault after a step: as it was, or with one more file.               *)
Adds(p, b) ==
  \/ UNCHANGED vault
  \/ \E k \in Keys : /\ pkg[k] = Empty /\ UNCHANGED note
                     /\ pkg' = [pkg EXCEPT ![k] = [paper |-> p, by |-> b]]
  \/ \E k \in Keys : /\ note[k] = Empty /\ UNCHANGED pkg
                     /\ note' = [note EXCEPT ![k] = [paper |-> p, by |-> b]]

LEMMA AddsFiles ==
  ASSUME Types, NEW p, NEW b \in Runs \cup {Nobody}, Adds(p, b), p \in Papers \/ UNCHANGED vault
  PROVE  /\ VaultOK'
         /\ \A k \in Keys : /\ pkg'[k] = pkg[k] \/ (pkg[k] = Empty /\ pkg'[k] = [paper |-> p, by |-> b])
                            /\ note'[k] = note[k] \/ (note[k] = Empty /\ note'[k] = [paper |-> p, by |-> b])
<1>1. CASE UNCHANGED vault
  BY <1>1 DEF vault, Types, VaultOK
<1>2. ASSUME p \in Papers, NEW k \in Keys, pkg[k] = Empty, UNCHANGED note,
             pkg' = [pkg EXCEPT ![k] = [paper |-> p, by |-> b]]
      PROVE  /\ VaultOK'
             /\ \A l \in Keys : pkg'[l] = pkg[l] \/ (pkg[l] = Empty /\ pkg'[l] = [paper |-> p, by |-> b])
  BY <1>2 DEF Types, VaultOK, File
<1>3. ASSUME p \in Papers, NEW k \in Keys, note[k] = Empty, UNCHANGED pkg,
             note' = [note EXCEPT ![k] = [paper |-> p, by |-> b]]
      PROVE  /\ VaultOK'
             /\ \A l \in Keys : note'[l] = note[l] \/ (note[l] = Empty /\ note'[l] = [paper |-> p, by |-> b])
  BY <1>3 DEF Types, VaultOK, File
<1> QED BY <1>1, <1>2, <1>3 DEF Adds

(* Nothing that was known of a paper, or was written by somebody else,     *)
(* changes.                                                                *)
LEMMA AddsKeeps ==
  ASSUME IngestAssumption, Types, NEW p, NEW b \in Runs \cup {Nobody}, Adds(p, b),
         p \in Papers \/ UNCHANGED vault
  PROVE  /\ \A q \in Papers : /\ HasText(q) => HasText(q)'
                              /\ HasNote(q) => HasNote(q)'
                              /\ Records(q) \subseteq Records(q)'
         /\ \A q \in Runs \ {b} :
              /\ \A k \in Keys : /\ pkg'[k].by = q => pkg'[k] = pkg[k]
                                 /\ note'[k].by = q => note'[k] = note[k]
              /\ Wrote(q)' = Wrote(q)
<1>1. \A k \in Keys : /\ pkg'[k] = pkg[k] \/ (pkg[k] = Empty /\ pkg'[k] = [paper |-> p, by |-> b])
                      /\ note'[k] = note[k] \/ (note[k] = Empty /\ note'[k] = [paper |-> p, by |-> b])
  BY AddsFiles
<1>2. Nobody \notin Runs /\ Nobody \notin Papers /\ Empty.paper = Nobody /\ Empty.by = Nobody
  BY DEF IngestAssumption, Empty
<1>3. ASSUME NEW q \in Papers, NEW k \in Keys
      PROVE  /\ pkg[k].paper = q => pkg'[k].paper = q
             /\ note[k].paper = q => note'[k].paper = q
  BY <1>1, <1>2
<1>4. ASSUME NEW q \in Runs \ {b}, NEW k \in Keys
      PROVE  /\ pkg'[k].by = q => pkg'[k] = pkg[k]
             /\ note'[k].by = q => note'[k] = note[k]
             /\ pkg[k].by = q => pkg'[k] = pkg[k]
             /\ note[k].by = q => note'[k] = note[k]
  BY <1>1, <1>2
<1>5. ASSUME NEW q \in Papers
      PROVE  /\ HasText(q) => HasText(q)'
             /\ HasNote(q) => HasNote(q)'
             /\ Records(q) \subseteq Records(q)'
  <2>1. (HasText(q) => HasText(q)') /\ (HasNote(q) => HasNote(q)')
    BY <1>3 DEF HasText, HasNote
  <2>2. Records(q) \subseteq Records(q)'
    BY <1>3 DEF Records
  <2> QED BY <2>1, <2>2
<1>6. ASSUME NEW q \in Runs \ {b} PROVE Wrote(q)' = Wrote(q)
  BY <1>4 DEF Wrote
<1> QED BY <1>4, <1>5, <1>6

(* The run q does nothing; it may have been cancelled, or be late.         *)
Still(q) ==
  /\ pc'[q] = pc[q] /\ job'[q] = job[q] /\ id'[q] = id[q] /\ has'[q] = has[q]
  /\ got'[q] = got[q] /\ problem'[q] = problem[q] /\ confirmed'[q] = confirmed[q]
  /\ snapshot'[q] = snapshot[q] /\ outcome'[q] = outcome[q]
  /\ cancelled[q] => cancelled'[q]
  /\ q \in active' <=> q \in active

LEMMA StillFit ==
  ASSUME IngestAssumption, Types, NEW p, NEW b \in Runs \cup {Nobody}, Adds(p, b),
         p \in Papers \/ UNCHANGED vault, NEW q \in Runs, q # b, Fit(q), Still(q)
  PROVE  Fit(q)'
<1>1. Lives(q) /\ Keyed(q) /\ Own(q) /\ Seen(q) /\ Books(q) /\ Sourced(q) /\ Told(q)
  BY DEF Fit
<1>2. /\ \A k \in Keys : /\ pkg'[k].by = q => pkg'[k] = pkg[k]
                         /\ note'[k].by = q => note'[k] = note[k]
      /\ Wrote(q)' = Wrote(q)
  BY AddsKeeps
<1>3. Paper(q)' = Paper(q) /\ Made(q)' = Made(q)
  BY DEF Still, Paper, Made, PackageKey
<1>4. q \in active => Paper(q) \in Papers
  BY <1>1 DEF Lives, Paper
<1>5. q \in active =>
        /\ HasText(Paper(q)) => HasText(Paper(q))'
        /\ HasNote(Paper(q)) => HasNote(Paper(q))'
        /\ Records(Paper(q)) \subseteq Records(Paper(q))'
  <2>1. ASSUME NEW x \in Papers, x = Paper(q)
        PROVE  /\ HasText(Paper(q)) => HasText(Paper(q))'
               /\ HasNote(Paper(q)) => HasNote(Paper(q))'
               /\ Records(Paper(q)) \subseteq Records(Paper(q))'
    <3>1. /\ HasText(x) => HasText(x)'
          /\ HasNote(x) => HasNote(x)'
          /\ Records(x) \subseteq Records(x)'
      BY AddsKeeps
    <3>2. x = Paper(q)'
      BY <1>3, <2>1
    <3>3. HasText(Paper(q))' = HasText(x)' /\ HasNote(Paper(q))' = HasNote(x)'
      BY <3>2 DEF HasText, HasNote
    <3>4. Records(Paper(q))' = Records(x)'
      BY <3>2 DEF Records
    <3> QED BY <2>1, <3>1, <3>3, <3>4
  <2> QED BY <1>4, <2>1
<1>6. Lives(q)' /\ Keyed(q)'
  BY <1>1 DEF Still, Lives, Keyed
<1>7. Own(q)'
  BY <1>1, <1>2, <1>3 DEF Still, Own
<1>8. Seen(q)'
  BY <1>1, <1>3, <1>5 DEF Still, Seen
<1>9. Books(q)'
  BY <1>1, <1>2, <1>3 DEF Still, Books
<1>10. Sourced(q)'
  BY <1>1, <1>2, <1>5 DEF Still, Sourced, NeedsText, Wants
<1>11. Told(q)'
  <2>1. outcome[q] = "completed" => q \in active
    BY <1>1 DEF Lives
  <2> QED BY <1>1, <1>5, <2>1 DEF Still, Told, Wants
<1> QED BY <1>6, <1>7, <1>8, <1>9, <1>10, <1>11 DEF Fit

-----------------------------------------------------------------------------
(* Phases 2 and 3, in what their steps have in common.                     *)
Later(r) == \/ Extract(r) \/ Publish(r) \/ Bind(r) \/ DecideDraft(r) \/ Draft(r)
            \/ Save(r) \/ Create(r) \/ Readback(r)
Moves(r, there, kinds) ==
  /\ pc' = [pc EXCEPT ![r] = there] /\ problem' = [problem EXCEPT ![r] = @ \cup kinds]
  /\ Phase2Frame

LEMMA LaterPc ==
  ASSUME Types, NEW r \in Runs, Later(r)
  PROVE  /\ pc[r] \in Phase2
         /\ \E there \in Phase2 \cup {"finish"}, kinds \in SUBSET Kinds : Moves(r, there, kinds)
<1> DEFINE Here == Phase2 \cup {"finish"}
<1>1. problem = [problem EXCEPT ![r] = @ \cup {}]
  BY DEF Types, FlowOK
<1>2. pc[r] \in Phase2 /\ Phase2Frame
  BY DEF Later, Extract, Publish, Bind, DecideDraft, Draft, Save, Create, Readback, At, Phase2
<1>3. \/ Throw(r) \/ Stop(r, {"error"}) \/ Stop(r, {"conflict"})
      \/ \E there \in Here : Go(r, there) /\ (UNCHANGED problem \/ \E kinds \in SUBSET Kinds : Report(r, kinds))
  <2>1. ExtractionFails(r) => \E there \in Here, kinds \in SUBSET Kinds : Go(r, there) /\ Report(r, kinds)
    BY DEF ExtractionFails, Phase2, Kinds
  <2>2. CASE Extract(r)
    BY <2>2 DEF Extract, Phase2, Kinds
  <2>3. CASE Publish(r)
    <3>1. ASSUME NEW e \in SUBSET {"error"} PROVE {"conflict", "title"} \cup e \in SUBSET Kinds
      BY DEF Kinds
    <3>2. "draft?" \in Here /\ "bind" \in Here
      BY DEF Phase2
    <3> HIDE DEF Here
    <3> QED BY <2>1, <2>3, <3>1, <3>2 DEF Publish
  <2>4. CASE Bind(r)
    BY <2>1, <2>4 DEF Bind, Phase2, Kinds
  <2>5. CASE DecideDraft(r) \/ Draft(r) \/ Save(r)
    BY <2>5 DEF DecideDraft, Draft, Save, Phase2
  <2>6. CASE Create(r) \/ Readback(r)
    BY <2>6 DEF Create, Readback, Phase2
  <2> QED BY <2>2, <2>3, <2>4, <2>5, <2>6 DEF Later
<1>4. \E there \in Here, kinds \in SUBSET Kinds :
         pc' = [pc EXCEPT ![r] = there] /\ problem' = [problem EXCEPT ![r] = @ \cup kinds]
  <2>1. "finish" \in Here
    OBVIOUS
  <2>2. CASE Throw(r) \/ Stop(r, {"error"}) \/ Stop(r, {"conflict"})
    <3> HIDE DEF Here
    <3> QED BY <2>1, <2>2, StopsGo
  <2>3. ASSUME NEW there \in Here, Go(r, there), UNCHANGED problem
        PROVE  pc' = [pc EXCEPT ![r] = there] /\ problem' = [problem EXCEPT ![r] = @ \cup {}]
    BY <1>1, <2>3 DEF Go
  <2>4. ASSUME NEW there \in Here, NEW kinds \in SUBSET Kinds, Go(r, there), Report(r, kinds)
        PROVE  pc' = [pc EXCEPT ![r] = there] /\ problem' = [problem EXCEPT ![r] = @ \cup kinds]
    BY <2>4 DEF Go, Report
  <2>5. {} \in SUBSET Kinds
    OBVIOUS
  <2> HIDE DEF Here
  <2> QED BY <1>3, <2>2, <2>3, <2>4, <2>5
<1> QED BY <1>2, <1>4 DEF Moves

(* The files a run has written, with one more.                             *)
LEMMA WroteMore ==
  ASSUME IngestAssumption, Types, NEW r \in Runs, NEW k \in Keys
  PROVE  /\ pkg[k] = Empty /\ pkg' = [pkg EXCEPT ![k] = [paper |-> Paper(r), by |-> r]]
              /\ UNCHANGED note
            => Wrote(r)' = Wrote(r) \cup {<<"article", k>>}
         /\ note[k] = Empty /\ note' = [note EXCEPT ![k] = [paper |-> Paper(r), by |-> r]]
              /\ UNCHANGED pkg
            => Wrote(r)' = Wrote(r) \cup {<<"wiki", k>>}
<1>1. Empty.by # r
  BY DEF Empty, IngestAssumption
<1>2. ASSUME pkg[k] = Empty, UNCHANGED note,
             pkg' = [pkg EXCEPT ![k] = [paper |-> Paper(r), by |-> r]]
      PROVE  Wrote(r)' = Wrote(r) \cup {<<"article", k>>}
  <2>1. \A l \in Keys : pkg'[l].by = r <=> pkg[l].by = r \/ l = k
    BY <1>1, <1>2 DEF Types, VaultOK, File
  <2> QED BY <1>2, <2>1 DEF Wrote
<1>3. ASSUME note[k] = Empty, UNCHANGED pkg,
             note' = [note EXCEPT ![k] = [paper |-> Paper(r), by |-> r]]
      PROVE  Wrote(r)' = Wrote(r) \cup {<<"wiki", k>>}
  <2>1. \A l \in Keys : note'[l].by = r <=> note[l].by = r \/ l = k
    BY <1>1, <1>3 DEF Types, VaultOK, File
  <2> QED BY <1>3, <2>1 DEF Wrote
<1> QED BY <1>2, <1>3

(* What a step of these phases does to the vault, to the receipts and to   *)
(* the source of the note.                                                 *)
SourceStep(r) ==
  /\ pc'[r] \in {"draft", "save", "create"} => pc[r] \in {"draft", "save", "create"} \/ ~Blocked(r)
  /\ UNCHANGED note \/ pc[r] = "create"
Effect(r) ==
  /\ Adds(Paper(r), r)
  /\ \E new \in SUBSET (Layers \X AllKeys) : got' = [got EXCEPT ![r] = @ \cup new]
  /\ Books(r)' /\ SourceStep(r)

LEMMA RunFacts ==
  ASSUME IngestAssumption, Types, NEW r \in Runs, Lives(r), Keyed(r), pc[r] \in Phase2
  PROVE  /\ r \in active /\ Paper(r) \in Papers /\ id[r].key \in Keys /\ PackageKey(r) \in Keys
         /\ confirmed[r]
<1>1. r \in active /\ Paper(r) \in Papers /\ id[r].key \in Keys /\ confirmed[r]
  BY DEF Lives, Keyed, Phase2, Paper
<1>2. PackageKey(r) \in Keys
  BY <1>1, KeyFacts DEF PackageKey
<1> QED BY <1>1, <1>2

LEMMA SameBooks ==
  ASSUME Types, NEW r \in Runs, Books(r), r \in active, Later(r), UNCHANGED <<vault, got>>,
         pc[r] \in {"bind", "readback"} => cancelled[r] \/ "error" \in problem'[r],
         pc'[r] \notin {"bind", "readback"}
  PROVE  Books(r)'
<1>1. PICK there \in Phase2 \cup {"finish"}, kinds \in SUBSET Kinds : Moves(r, there, kinds)
  BY LaterPc
<1>2. /\ UNCHANGED <<got, cancelled, active>> /\ Wrote(r)' = Wrote(r) /\ Made(r)' = {}
      /\ problem'[r] = problem[r] \cup kinds
  BY <1>1 DEF Moves, Phase2Frame, stops, ends, vault, Wrote, Made, Types, FlowOK
<1>3. Made(r) = {} \/ cancelled[r] \/ "error" \in problem'[r]
  BY DEF Made
<1>4. /\ got[r] \cup Made(r) \subseteq Wrote(r)
      /\ Wrote(r) \subseteq got[r] \cup Made(r) \/ cancelled[r] \/ "error" \in problem[r]
  BY DEF Books
<1> QED BY <1>2, <1>3, <1>4 DEF Books

LEMMA QuietEffect ==
  ASSUME Types, NEW r \in Runs, Lives(r), Books(r),
         Extract(r) \/ DecideDraft(r) \/ Draft(r) \/ Save(r)
  PROVE  Effect(r)
<1>1. UNCHANGED <<vault, got>> /\ Later(r) /\ r \in active /\ pc[r] \notin {"bind", "readback"}
  BY DEF Extract, DecideDraft, Draft, Save, Later, Lives, At
<1>2. /\ pc'[r] \notin {"bind", "readback"}
      /\ pc'[r] \in {"draft", "save", "create"} => pc[r] \in {"draft", "save", "create"} \/ ~Blocked(r)
  BY DEF Extract, DecideDraft, Draft, Save, Throw, Stop, Go, At, Types
<1>3. Books(r)'
  BY <1>1, <1>2, SameBooks
<1>4. got' = [got EXCEPT ![r] = @ \cup {}]
  BY <1>1 DEF Types, FlowOK
<1> QED BY <1>1, <1>2, <1>3, <1>4 DEF Effect, Adds, SourceStep, vault

LEMMA PublishEffect ==
  ASSUME IngestAssumption, Types, NEW r \in Runs, Lives(r), Keyed(r), Books(r), Publish(r)
  PROVE  Effect(r)
<1>1. pc[r] = "publish" /\ UNCHANGED <<note, got>> /\ Phase2Frame /\ Later(r)
  BY DEF Publish, At, Later
<1>2. r \in active /\ PackageKey(r) \in Keys
  BY <1>1, RunFacts DEF Phase2
<1>3. pc'[r] \in {"bind", "draft?"}
  BY DEF Publish, ExtractionFails, Go, Types
<1>4. got' = [got EXCEPT ![r] = @ \cup {}]
  BY <1>1 DEF Types, FlowOK
<1>5. SourceStep(r)
  BY <1>1, <1>3 DEF SourceStep
<1>6. CASE UNCHANGED pkg /\ pc'[r] = "draft?"
  <2>1. Books(r)'
    BY <1>1, <1>2, <1>6, SameBooks DEF vault
  <2> QED BY <1>1, <1>4, <1>5, <1>6, <2>1 DEF Effect, Adds, vault
<1>7. CASE /\ pkg[PackageKey(r)] = Empty /\ Place(r)
           /\ pc'[r] = "bind" \/ cancelled[r] \/ "error" \in problem'[r]
  <2>1. PICK k \in Keys : k = PackageKey(r)
    BY <1>2
  <2>2. pkg[k] = Empty /\ pkg' = [pkg EXCEPT ![k] = [paper |-> Paper(r), by |-> r]]
    BY <1>7, <2>1 DEF Place
  <2>3. Wrote(r)' = Wrote(r) \cup {<<"article", k>>}
    BY <1>1, <2>2, WroteMore
  <2>4. UNCHANGED <<got, cancelled, active, job, id>>
    BY <1>1 DEF Phase2Frame, stops, ends
  <2>5. PackageKey(r)' = k
    BY <2>1, <2>4 DEF PackageKey, Paper
  <2>6. problem[r] \subseteq problem'[r]
    BY <1>1, LaterPc DEF Moves, Types, FlowOK
  <2>7. Made(r) = {} /\ Made(r)' = IF pc'[r] = "bind" THEN {<<"article", k>>} ELSE {}
    BY <1>1, <1>3, <2>5 DEF Made
  <2>8. /\ got[r] \subseteq Wrote(r)
        /\ Wrote(r) \subseteq got[r] \/ cancelled[r] \/ "error" \in problem[r]
    BY <1>2, <2>7 DEF Books
  <2>9. Books(r)'
    BY <1>7, <2>3, <2>4, <2>6, <2>7, <2>8 DEF Books
  <2>10. Adds(Paper(r), r)
    BY <1>1, <2>2 DEF Adds
  <2> QED BY <1>4, <1>5, <2>9, <2>10 DEF Effect
<1>8. \/ UNCHANGED pkg /\ pc'[r] = "draft?"
      \/ /\ pkg[PackageKey(r)] = Empty /\ Place(r)
         /\ pc'[r] = "bind" \/ cancelled[r] \/ "error" \in problem'[r]
  BY DEF Publish, ExtractionFails, Go, Report, Types, FlowOK
<1> QED BY <1>6, <1>7, <1>8

LEMMA BindEffect ==
  ASSUME IngestAssumption, Types, NEW r \in Runs, Lives(r), Keyed(r), Books(r),
         Bind(r) \/ Readback(r)
  PROVE  Effect(r)
<1>1. pc[r] \in {"bind", "readback"} /\ UNCHANGED vault /\ Phase2Frame /\ Later(r)
  BY DEF Bind, Readback, At, Later
<1>2. r \in active /\ PackageKey(r) \in Keys /\ id[r].key \in Keys
  BY <1>1, RunFacts DEF Phase2
<1>3. pc'[r] \in {"draft?", "finish"}
  BY DEF Bind, Readback, ExtractionFails, Stop, Go, Types
<1>4. SourceStep(r)
  BY <1>1, <1>3 DEF SourceStep, vault
<1>5. CASE UNCHANGED got /\ (cancelled[r] \/ "error" \in problem'[r])
  <2>1. Books(r)'
    BY <1>1, <1>2, <1>3, <1>5, SameBooks
  <2>2. got' = [got EXCEPT ![r] = @ \cup {}]
    BY <1>5 DEF Types, FlowOK
  <2> QED BY <1>1, <1>4, <2>1, <2>2 DEF Effect, Adds
<1>6. CASE got' = [got EXCEPT ![r] = @ \cup Made(r)]
  <2>1. Made(r) \in SUBSET (Layers \X AllKeys)
    BY <1>2, KeyFacts DEF Made, Layers
  <2>2. UNCHANGED <<cancelled, active>> /\ Wrote(r)' = Wrote(r) /\ Made(r)' = {}
    BY <1>1, <1>3 DEF Phase2Frame, stops, ends, vault, Wrote, Made
  <2>3. got'[r] = got[r] \cup Made(r)
    BY <1>6 DEF Types, FlowOK
  <2>4. problem[r] \subseteq problem'[r]
    BY <1>1, LaterPc DEF Moves, Types, FlowOK
  <2>5. Books(r)'
    BY <1>2, <2>2, <2>3, <2>4 DEF Books
  <2> QED BY <1>1, <1>4, <1>6, <2>1, <2>5 DEF Effect, Adds
<1>7. \/ UNCHANGED got /\ (cancelled[r] \/ "error" \in problem'[r])
      \/ got' = [got EXCEPT ![r] = @ \cup Made(r)]
  <2>1. CASE Bind(r)
    BY <2>1 DEF Bind, At, Made, ExtractionFails, Report, Types, FlowOK
  <2>2. CASE Readback(r)
    BY <2>2 DEF Readback, At, Made, Stop, Report, Types, FlowOK
  <2> QED BY <2>1, <2>2
<1> QED BY <1>5, <1>6, <1>7

LEMMA CreateEffect ==
  ASSUME IngestAssumption, Types, NEW r \in Runs, Lives(r), Keyed(r), Books(r), Create(r)
  PROVE  Effect(r)
<1>1. pc[r] = "create" /\ UNCHANGED <<pkg, got>> /\ Phase2Frame /\ Later(r)
  BY DEF Create, At, Later
<1>2. r \in active /\ id[r].key \in Keys
  BY <1>1, RunFacts DEF Phase2
<1>3. pc'[r] \in {"readback", "finish"}
  BY DEF Create, Stop, Go, Types
<1>4. got' = [got EXCEPT ![r] = @ \cup {}]
  BY <1>1 DEF Types, FlowOK
<1>5. SourceStep(r)
  BY <1>1, <1>3 DEF SourceStep
<1>6. CASE UNCHANGED note /\ pc'[r] = "finish"
  <2>1. Books(r)'
    BY <1>1, <1>2, <1>6, SameBooks DEF vault
  <2> QED BY <1>1, <1>4, <1>5, <1>6, <2>1 DEF Effect, Adds, vault
<1>7. CASE /\ note[id[r].key] = Empty /\ Write(r)
           /\ pc'[r] = "readback" \/ "error" \in problem'[r]
  <2>1. PICK k \in Keys : k = id[r].key
    BY <1>2
  <2>2. note[k] = Empty /\ note' = [note EXCEPT ![k] = [paper |-> Paper(r), by |-> r]]
    BY <1>7, <2>1 DEF Write
  <2>3. Wrote(r)' = Wrote(r) \cup {<<"wiki", k>>}
    BY <1>1, <2>2, WroteMore
  <2>4. UNCHANGED <<got, cancelled, active, job, id>>
    BY <1>1 DEF Phase2Frame, stops, ends
  <2>5. id'[r].key = k
    BY <2>1, <2>4
  <2>6. problem[r] \subseteq problem'[r]
    BY <1>1, LaterPc DEF Moves, Types, FlowOK
  <2>7. Made(r) = {} /\ Made(r)' = IF pc'[r] = "readback" THEN {<<"wiki", k>>} ELSE {}
    BY <1>1, <1>3, <2>5 DEF Made
  <2>8. /\ got[r] \subseteq Wrote(r)
        /\ Wrote(r) \subseteq got[r] \/ cancelled[r] \/ "error" \in problem[r]
    BY <1>2, <2>7 DEF Books
  <2>9. Books(r)'
    BY <1>7, <2>3, <2>4, <2>6, <2>7, <2>8 DEF Books
  <2>10. Adds(Paper(r), r)
    BY <1>1, <2>2 DEF Adds
  <2> QED BY <1>4, <1>5, <2>9, <2>10 DEF Effect
<1>8. \/ UNCHANGED note /\ pc'[r] = "finish"
      \/ /\ note[id[r].key] = Empty /\ Write(r)
         /\ pc'[r] = "readback" \/ "error" \in problem'[r]
  BY DEF Create, Stop, Go, Report, Types, FlowOK
<1> QED BY <1>6, <1>7, <1>8

LEMMA LaterEffect ==
  ASSUME IngestAssumption, Types, NEW r \in Runs, Lives(r), Keyed(r), Books(r), Later(r)
  PROVE  Effect(r)
BY QuietEffect, PublishEffect, BindEffect, CreateEffect DEF Later

(* The text of a paper is there when a run relies on it, or has made it.   *)
LEMMA OutputsThere ==
  ASSUME IngestAssumption, Types, NEW r \in Runs, Fit(r), r \in active
  PROVE  /\ "article" \in LayersOf(got[r]) \cup has[r] => HasText(Paper(r))
         /\ "wiki" \in LayersOf(got[r]) \cup has[r] => HasNote(Paper(r))
         /\ LayersOf(got[r]) \cup has[r] # {} => confirmed[r]
<1>1. /\ Lives(r) /\ Keyed(r) /\ Own(r) /\ Seen(r) /\ got[r] \subseteq Wrote(r)
      /\ pc[r] # "done"
  BY DEF Fit, Lives, Books
<1>2. ASSUME NEW f \in got[r]
      PROVE  /\ confirmed[r]
             /\ f[1] = "article" => HasText(Paper(r))
             /\ f[1] = "wiki" => HasNote(Paper(r))
  <2>1. \/ \E k \in Keys : f = <<"article", k>> /\ pkg[k].by = r
        \/ \E k \in Keys : f = <<"wiki", k>> /\ note[k].by = r
    BY <1>1, <1>2, InWrote
  <2> QED BY <1>1, <2>1 DEF Own, HasText, HasNote
<1> QED BY <1>1, <1>2 DEF LayersOf, Seen, Keyed

LEMMA LaterTyped ==
  ASSUME IngestAssumption, Types, NEW r \in Runs, Lives(r), Keyed(r), Books(r), Later(r)
  PROVE  Types'
<1>1. PICK there \in Phase2 \cup {"finish"}, kinds \in SUBSET Kinds : Moves(r, there, kinds)
  BY LaterPc
<1>2. UNCHANGED <<job, id, has, confirmed, snapshot, cancelled, late, active, outcome, barrier>>
  BY <1>1 DEF Moves, Phase2Frame, stops, ends
<1>3. PICK p \in Papers : p = Paper(r)
  BY LaterPc, RunFacts
<1>4. VaultOK'
  <2>1. Adds(p, r)
    BY <1>3, LaterEffect DEF Effect
  <2> QED BY <2>1, AddsFiles
<1>5. got' \in [Runs -> SUBSET (Layers \X AllKeys)]
  BY LaterEffect DEF Effect, Types, FlowOK
<1>6. /\ pc' \in [Runs -> Places]
      /\ problem' \in [Runs -> SUBSET {"error", "conflict", "title"}]
  BY <1>1 DEF Moves, Types, FlowOK, Places, Kinds
<1> QED BY <1>2, <1>4, <1>5, <1>6 DEF Types, FlowOK, EndsOK

LEMMA LaterFit ==
  ASSUME IngestAssumption, Types, NEW r \in Runs, Fit(r), Later(r)
  PROVE  Fit(r)'
<1>1. Lives(r) /\ Keyed(r) /\ Own(r) /\ Seen(r) /\ Books(r) /\ Sourced(r) /\ Told(r)
  BY DEF Fit
<1>2. PICK there \in Phase2 \cup {"finish"}, kinds \in SUBSET Kinds : Moves(r, there, kinds)
  BY LaterPc
<1>3. UNCHANGED <<job, id, has, confirmed, snapshot, cancelled, late, active, outcome, barrier>>
  BY <1>2 DEF Moves, Phase2Frame, stops, ends
<1>4. pc[r] \in Phase2 /\ pc'[r] = there /\ r \in active /\ confirmed[r]
  BY <1>1, <1>2, LaterPc, RunFacts DEF Moves, Types
<1>5. PICK p \in Papers : p = Paper(r)
  BY <1>1, LaterPc, RunFacts
<1>6. Adds(p, r) /\ Books(r)' /\ SourceStep(r)
  BY <1>1, <1>5, LaterEffect DEF Effect
<1>7. p = Paper(r)'
  BY <1>3, <1>5 DEF Paper
<1>8. /\ HasText(p) => HasText(p)'
      /\ HasNote(p) => HasNote(p)'
      /\ Records(p) \subseteq Records(p)'
  BY <1>6, AddsKeeps
<1>9. \A k \in Keys : /\ pkg'[k] = pkg[k] \/ pkg'[k] = [paper |-> p, by |-> r]
                      /\ note'[k] = note[k] \/ note'[k] = [paper |-> p, by |-> r]
  BY <1>6, AddsFiles
<1>10. outcome[r] = "none"
  BY <1>1, <1>4 DEF Lives, Phase2
<1>11. Lives(r)'
  BY <1>1, <1>3, <1>4, <1>10 DEF Lives, Phase2
<1>12. Keyed(r)'
  BY <1>1, <1>3, <1>4 DEF Keyed, Phase2, Before
<1>13. Own(r)'
  <2>1. ASSUME NEW k \in Keys
        PROVE  /\ pkg'[k].by = r => pkg'[k].paper = p
               /\ note'[k].by = r => note'[k].paper = p
    <3>1. pc[r] # "done"
      BY <1>4 DEF Phase2
    <3>2. /\ pkg[k].by = r => pkg[k].paper = p
          /\ note[k].by = r => note[k].paper = p
      BY <1>1, <1>5, <3>1 DEF Own
    <3> QED BY <1>9, <3>2
  <2> QED BY <1>3, <1>4, <1>7, <2>1 DEF Own
<1>14. Seen(r)'
  <2>1. /\ id[r].saw \subseteq Records(p)
        /\ "article" \in has[r] => HasText(p)
        /\ "wiki" \in has[r] => HasNote(p)
    BY <1>1, <1>4, <1>5 DEF Seen
  <2>2. Records(Paper(r))' = Records(p)'
    BY <1>7 DEF Records
  <2>3. HasText(Paper(r))' = HasText(p)' /\ HasNote(Paper(r))' = HasNote(p)'
    BY <1>7 DEF HasText, HasNote
  <2> QED BY <1>3, <1>8, <2>1, <2>2, <2>3 DEF Seen
<1>15. Sourced(r)'
  <2>1. HasText(Paper(r))' = HasText(p)'
    BY <1>7 DEF HasText
  <2>2. NeedsText(r)' = NeedsText(r)
    BY <1>3 DEF NeedsText, Wants
  <2>3. ASSUME NeedsText(r), ~Blocked(r) PROVE HasText(p)
    BY <1>4, <1>5, <2>3, OutputsThere DEF NeedsText, Blocked, Article
  <2>4. ASSUME NeedsText(r), pc[r] \in {"draft", "save", "create"} PROVE HasText(p)
    BY <1>1, <1>4, <1>5, <2>4 DEF Sourced
  <2>5. ASSUME NeedsText(r), NEW k \in Keys, note[k].by = r PROVE HasText(p)
    BY <1>1, <1>4, <1>5, <2>5 DEF Sourced
  <2>6. ASSUME NeedsText(r),
               pc'[r] \in {"draft", "save", "create"} \/ \E k \in Keys : note'[k].by = r
        PROVE  HasText(p)
    BY <1>6, <2>3, <2>4, <2>5, <2>6 DEF SourceStep
  <2> QED BY <1>8, <2>1, <2>2, <2>6 DEF Sourced
<1>16. Told(r)'
  BY <1>3, <1>10 DEF Told
<1> QED BY <1>6, <1>11, <1>12, <1>13, <1>14, <1>15, <1>16 DEF Fit

-----------------------------------------------------------------------------
(* The start and the end of a run, and the events.                         *)
LEMMA SameVault ==
  ASSUME Types, UNCHANGED vault, NEW r \in Runs, Paper(r)' = Paper(r)
  PROVE  /\ HasText(Paper(r))' = HasText(Paper(r)) /\ HasNote(Paper(r))' = HasNote(Paper(r))
         /\ Records(Paper(r))' = Records(Paper(r)) /\ Wrote(r)' = Wrote(r)
         /\ UNCHANGED <<pkg, note>>
BY DEF vault, HasText, HasNote, Records, Wrote

LEMMA BeginFit ==
  ASSUME IngestAssumption, Types, NEW r \in Runs, Fit(r), Begin(r)
  PROVE  Types' /\ Fit(r)'
<1>1. Lives(r) /\ Keyed(r) /\ Own(r) /\ Books(r)
  BY DEF Fit
<1>2. /\ pc[r] = "idle" /\ active' = active \cup {r} /\ pc' = [pc EXCEPT ![r] = "source"]
      /\ UNCHANGED <<pkg, note, id, has, got, problem, confirmed, snapshot, cancelled, late,
                     outcome, down, barrier, others>>
  BY DEF Begin, At, Go, vault, stops
<1>3. PICK p \in Papers, outs \in (SUBSET {"article", "wiki"}) \ {{}},
           s \in {"auto", "article", "pdf"}, m \in Modes :
         job' = [job EXCEPT ![r] = [paper |-> p, outputs |-> outs, source |-> s, mode |-> m]]
  BY DEF Begin
<1>4. Types'
  <2>1. job' \in [Runs -> Job]
    BY <1>3 DEF Types, FlowOK, Job, Layers, IngestAssumption
  <2>2. pc' \in [Runs -> Places]
    BY <1>2 DEF Types, Places, Before
  <2> QED BY <1>2, <2>1, <2>2 DEF Types, VaultOK, FlowOK, EndsOK
<1>5. /\ pc'[r] = "source" /\ r \in active' /\ r \notin active /\ outcome[r] = "none"
      /\ job'[r].paper \in Papers /\ job'[r].outputs # {}
      /\ has'[r] = {} /\ got'[r] = {} /\ id'[r] = NoIdentity
  <2>1. pc'[r] = "source" /\ r \in active' /\ r \notin active /\ outcome[r] = "none"
    BY <1>1, <1>2 DEF Lives, Types
  <2>2. job'[r].paper = p /\ job'[r].outputs = outs
    BY <1>3 DEF Types, FlowOK
  <2>3. has'[r] = {} /\ got'[r] = {} /\ id'[r] = NoIdentity
    BY <1>1, <1>2, <2>1 DEF Lives
  <2> QED BY <2>1, <2>2, <2>3
<1>6. \A k \in Keys : pkg[k].by # r /\ note[k].by # r
  BY <1>1, <1>2, <1>5 DEF Own
<1>7. Lives(r)' /\ Keyed(r)'
  BY <1>2, <1>5 DEF Lives, Keyed, NoIdentity, Before, Phase2
<1>8. Own(r)'
  BY <1>2, <1>6 DEF Own
<1>9. Seen(r)'
  BY <1>5 DEF Seen, NoIdentity
<1>10. Books(r)'
  BY <1>2, <1>5, <1>6 DEF Books, Made, Wrote
<1>11. Sourced(r)' /\ Told(r)'
  BY <1>2, <1>5, <1>6 DEF Sourced, Told
<1> QED BY <1>4, <1>7, <1>8, <1>9, <1>10, <1>11 DEF Fit

LEMMA FinishFit ==
  ASSUME IngestAssumption, Types, NEW r \in Runs, Fit(r), Finish(r)
  PROVE  Types' /\ Fit(r)'
<1>1. Lives(r) /\ Keyed(r) /\ Own(r) /\ Seen(r) /\ Books(r) /\ Sourced(r) /\ Told(r)
  BY DEF Fit
<1>2. /\ pc[r] = "finish" /\ pc' = [pc EXCEPT ![r] = "dispose"]
      /\ outcome' = [outcome EXCEPT ![r] = Status(r)]
      /\ UNCHANGED <<vault, pkg, note, job, id, has, got, problem, confirmed, snapshot,
                     cancelled, late, active, barrier>>
  BY DEF Finish, At, Go, vault, flow, stops
<1>3. Types'
  <2>1. Status(r) \in {"failed", "conflict", "completed"}
    BY DEF Status
  <2>2. outcome' \in [Runs -> {"none", "failed", "conflict", "completed"}]
    BY <1>2, <2>1 DEF Types, EndsOK
  <2>3. pc' \in [Runs -> Places]
    BY <1>2 DEF Types, Places
  <2> QED BY <1>2, <2>2, <2>3 DEF Types, VaultOK, FlowOK, EndsOK
<1>4. pc'[r] = "dispose" /\ outcome'[r] = Status(r) /\ r \in active
  BY <1>1, <1>2 DEF Types, EndsOK, Lives
<1>5. Paper(r)' = Paper(r)
  BY <1>2 DEF Paper
<1>6. /\ HasText(Paper(r))' = HasText(Paper(r)) /\ HasNote(Paper(r))' = HasNote(Paper(r))
      /\ Records(Paper(r))' = Records(Paper(r)) /\ Wrote(r)' = Wrote(r)
  BY <1>2, <1>5, SameVault
<1>7. Lives(r)' /\ Keyed(r)'
  BY <1>1, <1>2, <1>4 DEF Lives, Keyed, Before, Phase2
<1>8. Own(r)' /\ Seen(r)'
  BY <1>1, <1>2, <1>4, <1>5, <1>6 DEF Own, Seen
<1>9. Books(r)'
  BY <1>1, <1>2, <1>4, <1>6 DEF Books, Made
<1>10. Sourced(r)'
  BY <1>1, <1>2, <1>4, <1>6 DEF Sourced, NeedsText, Wants
<1>11. ASSUME Status(r) = "completed"
       PROVE  /\ confirmed[r]
              /\ Wants(r, "article") => HasText(Paper(r))
              /\ Wants(r, "wiki") => HasNote(Paper(r))
  <2>1. Satisfied(r, "article") /\ Satisfied(r, "wiki")
    BY <1>11 DEF Status
  <2>2. /\ Wants(r, "article") => "article" \in LayersOf(got[r]) \cup has[r]
        /\ Wants(r, "wiki") => "wiki" \in LayersOf(got[r]) \cup has[r]
    BY <2>1 DEF Satisfied
  <2>3. Wants(r, "article") \/ Wants(r, "wiki")
    BY <1>1, <1>4 DEF Lives, Wants, Types, FlowOK, Job, Layers
  <2> QED BY <1>4, <2>2, <2>3, OutputsThere
<1>12. Told(r)'
  BY <1>2, <1>4, <1>6, <1>11 DEF Told, Wants
<1> QED BY <1>3, <1>7, <1>8, <1>9, <1>10, <1>12 DEF Fit

LEMMA DisposeFit ==
  ASSUME IngestAssumption, Types, NEW r \in Runs, Fit(r), Dispose(r)
  PROVE  Types' /\ Fit(r)'
<1>1. /\ pc[r] = "dispose" /\ pc' = [pc EXCEPT ![r] = "done"] /\ active' = active \ {r}
      /\ snapshot' = [snapshot EXCEPT ![r] = "gone"] /\ Forget(r)
      /\ UNCHANGED <<pkg, note, barrier>>
  BY DEF Dispose, At, Go, vault
<1>2. Types'
  <2>1. NoJob \in Job
    BY DEF NoJob, Job
  <2>2. NoIdentity \in Identity
    BY KeyFacts DEF NoIdentity, Identity
  <2>3. job' \in [Runs -> Job] /\ id' \in [Runs -> Identity]
    BY <1>1, <2>1, <2>2 DEF Forget, Types, FlowOK
  <2>4. /\ has' \in [Runs -> SUBSET Layers] /\ got' \in [Runs -> SUBSET (Layers \X AllKeys)]
        /\ problem' \in [Runs -> SUBSET {"error", "conflict", "title"}]
        /\ confirmed' \in [Runs -> BOOLEAN] /\ snapshot' \in [Runs -> {"none", "held", "gone"}]
    BY <1>1 DEF Forget, Types, FlowOK
  <2>5. EndsOK'
    BY <1>1 DEF Forget, Types, EndsOK
  <2>6. pc' \in [Runs -> Places]
    BY <1>1 DEF Types, Places
  <2> QED BY <1>1, <2>3, <2>4, <2>5, <2>6 DEF Types, VaultOK, FlowOK
<1>3. /\ pc'[r] = "done" /\ r \notin active' /\ snapshot'[r] = "gone" /\ outcome'[r] = "none"
      /\ has'[r] = {} /\ got'[r] = {} /\ id'[r] = NoIdentity
  BY <1>1 DEF Forget, Types, FlowOK, EndsOK
<1>4. Lives(r)' /\ Keyed(r)'
  BY <1>3 DEF Lives, Keyed, NoIdentity, Before, Phase2
<1>5. Own(r)' /\ Seen(r)' /\ Books(r)' /\ Sourced(r)' /\ Told(r)'
  BY <1>3 DEF Own, Seen, Books, Sourced, Told
<1> QED BY <1>2, <1>4, <1>5 DEF Fit

-----------------------------------------------------------------------------
(* A step of one run, as the others see it.                                *)
RunStep(r) == Begin(r) \/ Early(r) \/ Later(r) \/ Finish(r) \/ Dispose(r)

LEMMA OthersStill ==
  ASSUME IngestAssumption, Types, NEW r \in Runs, Fit(r), RunStep(r), NEW q \in Runs, q # r
  PROVE  Still(q)
<1>1. CASE Begin(r)
  BY <1>1 DEF Begin, Go, Still, Types, FlowOK, EndsOK, stops
<1>2. CASE Early(r)
  <2>1. PICK there \in EarlyPlaces \cup {"extract", "finish"}, kinds \in SUBSET Kinds :
               Goes(r, there, kinds)
    BY <1>2, EarlyPc
  <2>2. PICK v \in Identity, s \in SUBSET Layers : Identified(r, v, s)
    BY <1>2, EarlyKnows DEF Knows, Fit
  <2> QED BY <2>1, <2>2 DEF Goes, Identified, Still, Types, FlowOK, EndsOK, stops, ends
<1>3. CASE Later(r)
  <2>1. PICK there \in Phase2 \cup {"finish"}, kinds \in SUBSET Kinds : Moves(r, there, kinds)
    BY <1>3, LaterPc
  <2>2. PICK new \in SUBSET (Layers \X AllKeys) : got' = [got EXCEPT ![r] = @ \cup new]
    BY <1>3, LaterEffect DEF Effect, Fit
  <2> QED BY <2>1, <2>2 DEF Moves, Phase2Frame, Still, Types, FlowOK, EndsOK, stops, ends
<1>4. CASE Finish(r)
  BY <1>4 DEF Finish, Go, Still, Types, FlowOK, EndsOK, stops, flow
<1>5. CASE Dispose(r)
  BY <1>5 DEF Dispose, Go, Forget, Still, Types, FlowOK, EndsOK
<1> QED BY <1>1, <1>2, <1>3, <1>4, <1>5 DEF RunStep

LEMMA RunAdds ==
  ASSUME IngestAssumption, Types, NEW r \in Runs, Fit(r), RunStep(r)
  PROVE  \E p : Adds(p, r) /\ (p \in Papers \/ UNCHANGED vault)
<1>1. CASE Later(r)
  <2>1. PICK p \in Papers : p = Paper(r)
    BY <1>1, LaterPc, RunFacts DEF Fit
  <2>2. Adds(p, r)
    BY <1>1, <2>1, LaterEffect DEF Effect, Fit
  <2> QED BY <2>1, <2>2
<1>2. CASE ~Later(r)
  <2>1. UNCHANGED vault
    BY <1>2, EarlyPc DEF RunStep, Begin, Finish, Dispose, Goes
  <2> QED BY <2>1 DEF Adds
<1> QED BY <1>1, <1>2

LEMMA RunStepFits ==
  ASSUME IngestAssumption, Types, NEW r \in Runs, RunStep(r), \A q \in Runs : Fit(q)
  PROVE  Types' /\ \A q \in Runs : Fit(q)'
<1>1. Fit(r)
  OBVIOUS
<1>2. Types' /\ Fit(r)'
  <2>1. CASE Early(r)
    BY <1>1, <2>1, EarlyTyped, EarlyFit DEF Fit
  <2>2. CASE Later(r)
    BY <1>1, <2>2, LaterTyped, LaterFit DEF Fit
  <2> QED BY <1>1, <2>1, <2>2, BeginFit, FinishFit, DisposeFit DEF RunStep
<1>3. PICK p : Adds(p, r) /\ (p \in Papers \/ UNCHANGED vault)
  BY <1>1, RunAdds
<1>4. ASSUME NEW q \in Runs, q # r PROVE Fit(q)'
  <2>1. Still(q)
    BY <1>1, <1>4, OthersStill
  <2> QED BY <1>3, <1>4, <2>1, StillFit
<1> QED BY <1>2, <1>4

(* The stops of a run, the unload and the other writers.                   *)
Event == \/ \E r \in Runs : Cancel(r) \/ RunLate(r)
         \/ ShutDown \/ ShutDownEnds \/ OthersCreate

LEMMA EventFits ==
  ASSUME IngestAssumption, Types, Event, \A q \in Runs : Fit(q)
  PROVE  Types' /\ pc' = pc /\ \A q \in Runs : Fit(q)'
<1>1. UNCHANGED <<pc, job, id, has, got, problem, confirmed, snapshot, active, outcome>>
  BY DEF Event, Cancel, RunLate, ShutDown, ShutDownEnds, OthersCreate, flow, ends
<1>2. /\ cancelled' \in [Runs -> BOOLEAN] /\ late' \in [Runs -> BOOLEAN]
      /\ \A q \in Runs : cancelled[q] => cancelled'[q]
  BY DEF Event, Cancel, RunLate, ShutDown, ShutDownEnds, OthersCreate, stops, Types, EndsOK
<1>3. barrier' \in SUBSET Runs
  BY DEF Event, Cancel, RunLate, ShutDown, ShutDownEnds, OthersCreate, ends, Types, EndsOK
<1>4. \E p : Adds(p, Nobody) /\ (p \in Papers \/ UNCHANGED vault)
  <2>1. CASE OthersCreate
    <3>1. PICK k \in Citekeys, p \in Papers :
                 \/ /\ pkg[k] = Empty /\ UNCHANGED note
                    /\ pkg' = [pkg EXCEPT ![k] = [paper |-> p, by |-> Nobody]]
                 \/ /\ note[k] = Empty /\ UNCHANGED pkg
                    /\ note' = [note EXCEPT ![k] = [paper |-> p, by |-> Nobody]]
      BY <2>1 DEF OthersCreate
    <3> QED BY <3>1, KeyFacts DEF Adds
  <2>2. CASE UNCHANGED vault
    BY <2>2 DEF Adds
  <2> QED BY <2>1, <2>2 DEF Event, Cancel, RunLate, ShutDown, ShutDownEnds
<1>5. PICK p : Adds(p, Nobody) /\ (p \in Papers \/ UNCHANGED vault)
  BY <1>4
<1>6. Types'
  <2>1. VaultOK'
    BY <1>5, AddsFiles
  <2> QED BY <1>1, <1>2, <1>3, <2>1 DEF Types, FlowOK, EndsOK
<1>7. ASSUME NEW q \in Runs PROVE Fit(q)'
  <2>1. Still(q)
    BY <1>1, <1>2 DEF Still
  <2>2. q # Nobody
    BY DEF IngestAssumption
  <2> QED BY <1>5, <2>1, <2>2, StillFit
<1> QED BY <1>1, <1>6, <1>7

-----------------------------------------------------------------------------
(* The invariant is inductive.                                             *)
LEMMA InitIInv == ASSUME IngestAssumption, Init PROVE IInv
<1>1. Types
  <2>1. Empty \in File /\ NoJob \in Job
    BY DEF Empty, File, NoJob, Job
  <2>2. NoIdentity \in Identity
    BY KeyFacts DEF NoIdentity, Identity
  <2>3. VaultOK
    BY <2>1 DEF Init, VaultOK, None
  <2>4. FlowOK
    BY <2>1, <2>2 DEF Init, FlowOK
  <2> QED BY <2>3, <2>4 DEF Init, Types, EndsOK, Places
<1>2. Unloaded
  BY DEF Init, Unloaded
<1>3. ASSUME NEW r \in Runs PROVE Fit(r)
  <2>1. \A k \in Keys : pkg[k].by # r /\ note[k].by # r
    BY DEF Init, None, Empty, IngestAssumption
  <2>2. /\ r \notin active /\ pc[r] = "idle" /\ outcome[r] = "none"
        /\ has[r] = {} /\ got[r] = {} /\ id[r] = NoIdentity
    BY DEF Init
  <2> QED BY <2>1, <2>2 DEF Fit, Lives, Keyed, Own, Seen, Books, Sourced, Told, NoIdentity,
          Before, Phase2
<1> QED BY <1>1, <1>2, <1>3 DEF IInv

(* A run that was started does not go back, and one that ended stays so.   *)
LEMMA RunStepUnloads ==
  ASSUME IngestAssumption, Types, NEW r \in Runs, Fit(r), RunStep(r), Unloaded
  PROVE  Unloaded'
<1>1. UNCHANGED <<barrier, down>>
  BY EarlyPc, LaterPc DEF RunStep, Begin, Finish, Dispose, Goes, Moves, Phase2Frame, ends
<1>2. pc[r] # "done" /\ pc'[r] # "idle"
  <2>1. CASE Early(r)
    BY <2>1, EarlyPc DEF Goes, Types, EarlyPlaces, Before
  <2>2. CASE Later(r)
    BY <2>2, LaterPc DEF Moves, Types, Phase2
  <2>3. CASE Begin(r) \/ Finish(r) \/ Dispose(r)
    BY <2>3 DEF Begin, Finish, Dispose, At, Go, Types
  <2> QED BY <2>1, <2>2, <2>3 DEF RunStep
<1>3. \A q \in Runs : q # r => pc'[q] = pc[q]
  BY OthersStill DEF Still
<1> QED BY <1>1, <1>2, <1>3 DEF Unloaded, Types, EndsOK

LEMMA EventUnloads ==
  ASSUME Types, Event, \A q \in Runs : Fit(q), Unloaded, UNCHANGED pc
  PROVE  Unloaded'
<1>1. \A q \in Runs : q \in active <=> pc[q] \notin {"idle", "done"}
  BY DEF Fit, Lives
<1>2. CASE UNCHANGED <<down, barrier>>
  BY <1>2 DEF Unloaded
<1>3. CASE ShutDown
  <2>1. barrier' = active /\ down' = (IF active = {} THEN "ok" ELSE "waiting")
    BY <1>3 DEF ShutDown
  <2> QED BY <1>1, <2>1 DEF Unloaded, Types, EndsOK
<1>4. CASE ShutDownEnds
  <2>1. UNCHANGED barrier /\ (barrier \cap active = {} \/ down' = "given up")
    BY <1>4 DEF ShutDownEnds
  <2> QED BY <1>1, <2>1 DEF Unloaded, Types, EndsOK
<1> QED BY <1>2, <1>3, <1>4 DEF Event, Cancel, RunLate, OthersCreate, ends

LEMMA StepKinds == ASSUME Next PROVE Event \/ \E r \in Runs : RunStep(r)
BY DEF Next, Work, Event, RunStep, Early, Later

LEMMA NextIInv == ASSUME IngestAssumption, IInv, [Next]_vars PROVE IInv'
<1>1. Types /\ Unloaded /\ \A q \in Runs : Fit(q)
  BY DEF IInv
<1>2. CASE Event
  <2>1. Types' /\ pc' = pc /\ \A q \in Runs : Fit(q)'
    BY <1>1, <1>2, EventFits
  <2>2. Unloaded'
    BY <1>1, <1>2, <2>1, EventUnloads
  <2> QED BY <2>1, <2>2 DEF IInv
<1>3. ASSUME NEW r \in Runs, RunStep(r) PROVE IInv'
  <2>1. Types' /\ \A q \in Runs : Fit(q)'
    BY <1>1, <1>3, RunStepFits
  <2>2. Unloaded'
    BY <1>1, <1>3, RunStepUnloads
  <2> QED BY <2>1, <2>2 DEF IInv
<1>4. CASE UNCHANGED vars
  BY <1>4 DEF vars, vault, flow, stops, ends, IInv, Types, VaultOK, FlowOK, EndsOK, Unloaded,
     Fit, Lives, Keyed, Own, Seen, Books, Sourced, Told, Made, PackageKey, NeedsText, Wants,
     Paper, Wrote, Records, HasText, HasNote
<1> QED BY <1>2, <1>3, <1>4, StepKinds

LEMMA Invariance == ASSUME IngestAssumption PROVE Spec => []IInv
BY InitIInv, NextIInv, PTL DEF Spec

-----------------------------------------------------------------------------
(* The theorems.                                                           *)

(* "Success requires the requested outputs to exist", for any number of    *)
(* runs at a time: a run that reports its completion was confirmed and its *)
(* outputs are in the vault; its receipts are of files it wrote, and one   *)
(* that is missing comes with an error or a stop.                          *)
THEOREM ReportsHold == ASSUME IngestAssumption PROVE Spec => [](CompletedTrue /\ Accounted)
<1>1. IInv => CompletedTrue
  BY DEF IInv, Fit, Told, CompletedTrue, HasNote
<1>2. ASSUME IInv, NEW r \in Runs, outcome[r] # "none"
      PROVE  /\ got[r] \subseteq Wrote(r)
             /\ got[r] # Wrote(r) => cancelled[r] \/ "error" \in problem[r]
  <2>1. Lives(r) /\ Books(r)
    BY <1>2 DEF IInv, Fit
  <2>2. pc[r] = "dispose" /\ r \in active
    BY <1>2, <2>1 DEF Lives
  <2>3. Made(r) = {}
    BY <2>2 DEF Made
  <2> QED BY <2>1, <2>2, <2>3 DEF Books
<1>3. IInv => Accounted
  BY <1>2 DEF Accounted
<1> QED BY <1>1, <1>3, Invariance, PTL

(* No upload, package or note without the user's confirmation in the same  *)
(* run, and no note made from less than the text it was asked to be made   *)
(* from.                                                                   *)
THEOREM WritesHold == ASSUME IngestAssumption PROVE Spec => [](ConfirmedFirst /\ NoteHasSource)
<1>1. ASSUME IInv, NEW r \in active, Wrote(r) # {} \/ pc[r] \in {"publish", "create"}
      PROVE  confirmed[r]
  <2>1. r \in Runs /\ Lives(r) /\ Keyed(r) /\ Own(r)
    BY <1>1 DEF IInv, Fit, Types, EndsOK
  <2>2. pc[r] # "done"
    BY <2>1 DEF Lives
  <2>3. ASSUME NEW f \in Wrote(r) PROVE confirmed[r]
    BY <2>1, <2>2, InWrote DEF Own
  <2>4. CASE pc[r] \in {"publish", "create"}
    BY <2>1, <2>4 DEF Keyed, Phase2
  <2> QED BY <1>1, <2>3, <2>4
<1>2. IInv => ConfirmedFirst
  BY <1>1 DEF ConfirmedFirst
<1>3. IInv => NoteHasSource
  <2> SUFFICES ASSUME IInv, NEW r \in active, NEW k \in Keys, note[k].by = r, NeedsText(r)
               PROVE  HasText(Paper(r))
    BY DEF NoteHasSource, NeedsText
  <2>1. r \in Runs /\ Sourced(r)
    BY DEF IInv, Fit, Types, EndsOK
  <2> QED BY <2>1 DEF Sourced
<1> QED BY <1>2, <1>3, Invariance, PTL

(* A shutdown that reports success left no run with a copy of a PDF or     *)
(* anything to do.                                                         *)
THEOREM BarrierStands == ASSUME IngestAssumption PROVE Spec => []BarrierHolds
<1>1. ASSUME IInv, down = "ok", NEW r \in barrier
      PROVE  snapshot[r] # "held" /\ pc[r] = "done"
  <2>1. r \in Runs /\ pc[r] = "done" /\ Lives(r)
    BY <1>1 DEF IInv, Unloaded, Types, EndsOK, Fit
  <2> QED BY <2>1 DEF Lives
<1>2. IInv => BarrierHolds
  BY <1>1 DEF BarrierHolds
<1> QED BY <1>2, Invariance, PTL

(* No package and no note in the vault is ever replaced, by whatever runs  *)
(* and other writers there are.                                            *)
THEOREM VaultOnlyGrows == ASSUME IngestAssumption PROVE Spec => NothingReplaced
<1> DEFINE Kept == \A k \in Keys : /\ pkg[k] # Empty => pkg'[k] = pkg[k]
                                   /\ note[k] # Empty => note'[k] = note[k]
<1>1. ASSUME Types, NEW p, NEW b \in Runs \cup {Nobody}, Adds(p, b), p \in Papers \/ UNCHANGED vault
      PROVE  Kept
  BY <1>1, AddsFiles
<1>2. ASSUME IInv, Next PROVE Kept
  <2>1. Types /\ \A q \in Runs : Fit(q)
    BY <1>2 DEF IInv
  <2>2. ASSUME NEW r \in Runs, RunStep(r) PROVE Kept
    <3>1. PICK p : Adds(p, r) /\ (p \in Papers \/ UNCHANGED vault)
      BY <2>1, <2>2, RunAdds
    <3> HIDE DEF Kept
    <3> QED BY <1>1, <2>1, <3>1
  <2>3. CASE UNCHANGED vault
    BY <2>3 DEF vault
  <2>4. CASE OthersCreate
    BY <2>1, <2>4 DEF OthersCreate, Types, VaultOK
  <2>5. UNCHANGED vault \/ OthersCreate \/ \E r \in Runs : RunStep(r)
    BY <1>2, StepKinds DEF Event, Cancel, RunLate, ShutDown, ShutDownEnds
  <2> QED BY <2>2, <2>3, <2>4, <2>5
<1>3. ASSUME UNCHANGED vars PROVE Kept
  BY <1>3 DEF vars, vault
<1>4. IInv /\ [Next]_vars => [Kept]_vars
  BY <1>2, <1>3
<1> QED BY <1>4, Invariance, PTL DEF Spec, NothingReplaced

-----------------------------------------------------------------------------
(* Runs that are alone in the vault.                                       *)
LEMMA HasFileKey ==
  ASSUME Types, Separate, NEW p \in Papers, NEW k \in Keys, HasFile(p, k)
  PROVE  Only(p, k)
<1>1. pkg[k] # Empty /\ note[k] # Empty => pkg[k].paper = note[k].paper
  BY DEF Separate, Unmixed
<1>2. pkg[k].paper = p => pkg[k] # Empty
  BY DEF Separate
<1>3. note[k].paper = p => note[k] # Empty
  BY DEF Separate
<1>4. p \notin Clipped => \A l \in Keys : HasFile(p, l) => l = k
  BY DEF Separate
<1> QED BY <1>1, <1>2, <1>3, <1>4 DEF Only, HasFile

(* A key that is new is the key of no paper's file.                        *)
LEMMA NewKey ==
  ASSUME NEW p, NEW k \in Keys, ~Taken(k), p \in Clipped \/ Records(p) = {}
  PROVE  Only(p, k)
<1>1. ASSUME p \notin Clipped, NEW l \in Keys, HasFile(p, l) PROVE FALSE
  <2>1. <<"article", l>> \in Records(p) \/ <<"wiki", l>> \in Records(p)
    BY <1>1, InRecords DEF HasFile
  <2> QED BY <1>1, <2>1
<1> QED BY <1>1 DEF Only, Taken

(* The key an existing record is completed under.                          *)
LEMMA AdoptsOwn ==
  ASSUME IngestAssumption, Types, Separate, NEW r \in Runs, Paper(r) \in Papers,
         id[r].saw \subseteq Records(Paper(r)), id[r].saw # {}, NEW key \in Keys, Adopt(r, key)
  PROVE  Only(Paper(r), key)
<1>1. CASE CitekeysOf(id[r].saw) = {}
  <2>1. PICK f \in id[r].saw : TRUE
    OBVIOUS
  <2>2. f[2] = NoKey
    BY <1>1 DEF CitekeysOf
  <2>3. \/ \E k \in Keys : f = <<"article", k>>
        \/ \E k \in Keys : f = <<"wiki", k>>
        \/ f = <<"article", NoKey>> /\ Paper(r) \in Clipped
    BY InRecords
  <2>4. Paper(r) \in Clipped
    BY <2>2, <2>3, KeyFacts
  <2>5. ~Taken(key)
    BY <1>1 DEF Adopt, Unique
  <2> QED BY <2>4, <2>5, NewKey
<1>2. CASE CitekeysOf(id[r].saw) # {}
  <2>1. key \in CitekeysOf(id[r].saw)
    BY <1>2 DEF Adopt
  <2>2. HasFile(Paper(r), key)
    BY <2>1, SeenLayers DEF HasFile
  <2> QED BY <2>2, HasFileKey
<1> QED BY <1>1, <1>2

LEMMA EarlySure ==
  ASSUME IngestAssumption, Alone, Types, Separate, NEW r \in Runs, Fit(r), Sure(r), r \in active,
         Early(r)
  PROVE  Sure(r)'
<1>1. Lives(r) /\ Seen(r) /\ Paper(r) \in Papers /\ id[r].saw \subseteq Records(Paper(r))
  BY DEF Fit, Lives, Seen, Paper
<1>2. PICK there \in EarlyPlaces \cup {"extract", "finish"}, kinds \in SUBSET Kinds :
             Goes(r, there, kinds)
  BY EarlyPc
<1>3. UNCHANGED <<pkg, note, job>> /\ pc'[r] = there
  BY <1>2 DEF Goes, vault, Types
<1>4. Paper(r)' = Paper(r) /\ Records(Paper(r))' = Records(Paper(r)) /\ job'[r].mode = "legacy"
  BY <1>3 DEF Paper, Records, Sure
<1>5. ASSUME NEW k \in Keys, Only(Paper(r), k), id'[r].key = k
      PROVE  Only(Paper(r), id[r].key)'
  BY <1>3, <1>4, <1>5 DEF Only, HasFile
<1>6. CASE id'[r] = id[r] /\ pc'[r] \in {"finish", "evidence", "legacy"}
  BY <1>4, <1>6 DEF Sure, Phase2
<1>7. CASE Authorise(r) \/ ReadEvidence(r) \/ CloseWindow(r)
  <2>1. id' = id /\ pc'[r] \in {"finish", "evidence", "legacy"}
    BY <1>7 DEF Authorise, ReadEvidence, CloseWindow, Throw, Stop, Go, Types, Sure
  <2> QED BY <1>6, <2>1
<1>8. CASE Identify(r)
  <2>1. CASE id' = id /\ pc'[r] = "finish"
    BY <1>6, <2>1
  <2>2. ASSUME NEW observed \in SUBSET Records(Paper(r)), Searched(r, observed),
               id' = [id EXCEPT ![r].saw = observed, ![r].key = Base(1)], pc'[r] = "associate"
        PROVE  Sure(r)'
    <3>1. id'[r].saw = observed /\ id'[r].formal = id[r].formal
      BY <2>2 DEF Types, FlowOK, Identity
    <3>2. observed = {} => Records(Paper(r)) = {}
      BY <2>2 DEF Searched
    <3> QED BY <1>4, <2>2, <3>1, <3>2 DEF Sure, Phase2
  <2> QED BY <1>8, <2>1, <2>2 DEF Identify, Stop, Go, Types
<1>9. CASE Associate(r)
  <2>1. Paper(r) \notin Catalogued
    BY DEF Alone
  <2>2. id' = id /\ pc'[r] \in {"finish", "confirm"} /\ pc[r] = "associate"
    BY <1>9, <2>1 DEF Associate, Throw, Stop, Go, At, Types
  <2> QED BY <1>4, <2>2 DEF Sure, Phase2
<1>10. CASE Confirm(r)
  <2>1. id' = id /\ pc[r] = "confirm"
    BY <1>10 DEF Confirm, At
  <2>2. pc'[r] = "finish" \/ pc'[r] = IF id[r].saw # {} THEN "existing" ELSE "unique"
    BY <1>10 DEF Confirm, Confirmed, Throw, Stop, Go, Types, Sure
  <2> QED BY <1>4, <2>1, <2>2 DEF Sure, Phase2
<1>11. CASE Existing(r)
  <2>1. pc[r] = "existing" /\ id[r].saw # {}
    BY <1>11 DEF Existing, At, Sure
  <2>2. CASE id' = id /\ pc'[r] = "finish"
    BY <1>6, <2>2
  <2>3. ASSUME NEW key \in Citekeys \cup {Conversion(Paper(r))}, Adopt(r, key),
               id' = [id EXCEPT ![r].key = key], pc'[r] \in {"finish", "extract"}
        PROVE  Sure(r)'
    <3>1. key \in Keys
      BY <1>1, KeyFacts
    <3>2. Only(Paper(r), key)
      BY <1>1, <2>1, <2>3, <3>1, AdoptsOwn
    <3>3. id'[r].key = key /\ id'[r].formal = id[r].formal
      BY <2>3 DEF Types, FlowOK, Identity
    <3>4. Only(Paper(r), id[r].key)'
      BY <1>5, <3>1, <3>2, <3>3
    <3> QED BY <1>4, <2>3, <3>3, <3>4 DEF Sure
  <2> QED BY <1>11, <2>2, <2>3 DEF Existing, Throw, Stop, Go, Types
<1>12. CASE MakeUnique(r)
  <2>1. pc[r] = "unique" /\ Records(Paper(r)) = {}
    BY <1>12 DEF MakeUnique, At, Sure
  <2>2. CASE id' = id /\ pc'[r] = "finish"
    BY <1>6, <2>2
  <2>3. ASSUME NEW key \in Citekeys, Unique(r, key), id' = [id EXCEPT ![r].key = key],
               pc'[r] = "extract"
        PROVE  Sure(r)'
    <3>1. key \in Keys
      BY KeyFacts
    <3>2. Only(Paper(r), key)
      BY <2>1, <2>3, <3>1, NewKey DEF Unique
    <3>3. id'[r].key = key /\ id'[r].formal = id[r].formal
      BY <2>3 DEF Types, FlowOK, Identity
    <3>4. Only(Paper(r), id[r].key)'
      BY <1>5, <3>1, <3>2, <3>3
    <3> QED BY <1>4, <2>3, <3>3, <3>4 DEF Sure
  <2> QED BY <1>12, <2>2, <2>3 DEF MakeUnique, Throw, Stop, Go, Types
<1>13. ~Intake(r)
  BY DEF Intake, At, Sure
<1> QED BY <1>7, <1>8, <1>9, <1>10, <1>11, <1>12, <1>13 DEF Early

(* A new file lies under the key of its run.                               *)
LEMMA LaterPlaces ==
  ASSUME NEW r \in Runs, Sure(r), Later(r)
  PROVE  \/ UNCHANGED vault
         \/ /\ pkg[id[r].key] = Empty /\ UNCHANGED note
            /\ pkg' = [pkg EXCEPT ![id[r].key] = [paper |-> Paper(r), by |-> r]]
         \/ /\ note[id[r].key] = Empty /\ UNCHANGED pkg
            /\ note' = [note EXCEPT ![id[r].key] = [paper |-> Paper(r), by |-> r]]
<1>1. PackageKey(r) = id[r].key
  BY DEF PackageKey, Sure
<1> QED BY <1>1 DEF Later, Extract, Publish, Bind, DecideDraft, Draft, Save, Create, Readback,
        Place, Write, vault

LEMMA LaterApart ==
  ASSUME IngestAssumption, Types, Separate, NEW r \in Runs, Fit(r), Sure(r), Later(r)
  PROVE  Separate' /\ Sure(r)'
<1>1. PICK there \in Phase2 \cup {"finish"}, kinds \in SUBSET Kinds : Moves(r, there, kinds)
  BY LaterPc
<1>2. UNCHANGED <<job, id>> /\ pc'[r] = there /\ pc[r] \in Phase2
  BY <1>1, LaterPc DEF Moves, Phase2Frame, Types
<1>3. PICK k \in Keys, p \in Papers : k = id[r].key /\ p = Paper(r)
  BY <1>2, RunFacts DEF Fit
<1>4. Only(p, k)
  BY <1>2, <1>3 DEF Sure
<1>5. p = Paper(r)' /\ k = id'[r].key
  BY <1>2, <1>3 DEF Paper
<1>6. p # Nobody /\ Empty.paper = Nobody
  BY DEF IngestAssumption, Empty
<1>7. \/ UNCHANGED <<pkg, note>>
      \/ /\ pkg[k] = Empty /\ UNCHANGED note
         /\ pkg' = [pkg EXCEPT ![k] = [paper |-> p, by |-> r]]
      \/ /\ note[k] = Empty /\ UNCHANGED pkg
         /\ note' = [note EXCEPT ![k] = [paper |-> p, by |-> r]]
  BY <1>3, LaterPlaces DEF vault
<1>8. /\ \A l \in Keys : l # k => pkg'[l] = pkg[l] /\ note'[l] = note[l]
      /\ pkg'[k] = pkg[k] \/ pkg'[k] = [paper |-> p, by |-> r]
      /\ note'[k] = note[k] \/ note'[k] = [paper |-> p, by |-> r]
  BY <1>7 DEF Types, VaultOK
<1>9. /\ pkg'[k] # Empty => pkg'[k].paper = p
      /\ note'[k] # Empty => note'[k].paper = p
  BY <1>4, <1>8 DEF Only
<1>10. ASSUME NEW l \in Keys, NEW q, HasFile(q, l)' PROVE HasFile(q, l) \/ (q = p /\ l = k)
  BY <1>8, <1>10 DEF HasFile
<1>11. Only(p, k)'
  <2>1. ASSUME p \notin Clipped, NEW l \in Keys, HasFile(p, l)' PROVE l = k
    BY <1>4, <1>10, <2>1 DEF Only
  <2> QED BY <1>9, <2>1 DEF Only
<1>12. Separate'
  <2>1. ASSUME NEW q \in Papers \ Clipped, NEW l \in Keys, NEW m \in Keys,
               HasFile(q, l)', HasFile(q, m)'
        PROVE  l = m
    <3>1. CASE q = p
      <4>1. l = k \/ HasFile(p, l)
        BY <1>10, <2>1, <3>1
      <4>2. m = k \/ HasFile(p, m)
        BY <1>10, <2>1, <3>1
      <4> QED BY <1>4, <2>1, <3>1, <4>1, <4>2 DEF Only
    <3>2. CASE q # p
      <4>1. HasFile(q, l) /\ HasFile(q, m)
        BY <1>10, <2>1, <3>2
      <4> QED BY <4>1 DEF Separate
    <3> QED BY <3>1, <3>2
  <2>2. Unmixed'
    BY <1>8, <1>9 DEF Separate, Unmixed
  <2>3. ASSUME NEW l \in Keys
        PROVE  /\ pkg'[l] # Empty <=> pkg'[l].paper \in Papers
               /\ note'[l] # Empty <=> note'[l].paper \in Papers
    BY <1>6, <1>8 DEF Separate
  <2> QED BY <2>1, <2>2, <2>3 DEF Separate
<1>13. Only(Paper(r), id[r].key)'
  BY <1>5, <1>11 DEF Only
<1>14. Sure(r)'
  BY <1>2, <1>13 DEF Sure, Phase2
<1> QED BY <1>12, <1>14

LEMMA InitApart == ASSUME IngestAssumption, Init PROVE Apart
<1>1. \A k \in Keys : pkg[k] = Empty /\ note[k] = Empty
  BY DEF Init, None
<1>2. Empty.paper = Nobody /\ Nobody \notin Papers
  BY DEF Empty, IngestAssumption
<1>3. Separate
  BY <1>1, <1>2 DEF Separate, HasFile, Unmixed
<1> QED BY <1>3 DEF Init, Apart, Single

LEMMA SameApart ==
  ASSUME UNCHANGED <<pkg, note>>
  PROVE  /\ Separate => Separate'
         /\ \A r \in Runs : Sure(r) /\ id'[r] = id[r] /\ job'[r] = job[r]
              /\ (pc'[r] = pc[r] \/ pc'[r] \in {"finish", "dispose"}) => Sure(r)'
<1>1. Separate => Separate'
  BY DEF Separate, HasFile, Unmixed
<1>2. ASSUME NEW r \in Runs, Sure(r), id'[r] = id[r], job'[r] = job[r],
             pc'[r] = pc[r] \/ pc'[r] \in {"finish", "dispose"}
      PROVE  Sure(r)'
  BY <1>2 DEF Sure, Only, HasFile, Records, Paper, Phase2
<1> QED BY <1>1, <1>2

LEMMA NextApart == ASSUME IngestAssumption, Alone, IInv, Apart, [Next]_vars PROVE Apart'
<1>1. Types /\ \A r \in Runs : Fit(r)
  BY DEF IInv
<1>2. Single /\ others = 0 /\ Separate /\ (\A r \in active : Sure(r)) /\ active \subseteq Runs
  BY <1>1 DEF Apart, Types, EndsOK
<1>3. CASE Event \/ UNCHANGED vars
  <2>1. UNCHANGED <<pkg, note, pc, job, id, active, others>>
    <3>1. ~OthersCreate
      BY <1>2 DEF Alone, OthersCreate
    <3> QED BY <1>3, <3>1 DEF Event, Cancel, RunLate, ShutDown, ShutDownEnds, vars, vault, flow,
            ends
  <2>2. Separate' /\ \A r \in active : Sure(r)'
    BY <1>2, <2>1, SameApart
  <2> QED BY <1>2, <2>1, <2>2 DEF Apart, Single
<1>4. ASSUME NEW r \in Runs, Begin(r) PROVE Apart'
  <2>1. active = {}
    <3>1. Cardinality(active) < 1
      BY <1>4 DEF Begin, Alone
    <3>2. ASSUME NEW q \in Runs, active = {q} PROVE Cardinality(active) = 1
      BY <3>2, FS_Singleton
    <3> QED BY <1>2, <3>1, <3>2 DEF Single
  <2>2. /\ UNCHANGED <<pkg, note, id, others>> /\ active' = {r} /\ pc[r] = "idle"
        /\ pc'[r] = "source"
    BY <1>1, <1>4, <2>1 DEF Begin, At, Go, vault, Types
  <2>3. job'[r].mode = "legacy"
    BY <1>1, <1>4 DEF Begin, Alone, Types, FlowOK
  <2>4. id'[r] = NoIdentity
    BY <1>1, <2>1, <2>2 DEF Fit, Lives
  <2>5. Sure(r)'
    BY <2>2, <2>3, <2>4 DEF Sure, NoIdentity, Phase2
  <2>6. Separate'
    BY <1>2, <2>2, SameApart
  <2> QED BY <1>2, <2>2, <2>5, <2>6 DEF Apart, Single
<1>5. ASSUME NEW r \in Runs, Early(r) \/ Later(r) \/ Finish(r) PROVE Apart'
  <2>1. pc[r] \notin {"idle", "done"} /\ UNCHANGED <<active, others>>
    <3>1. CASE Early(r)
      BY <1>1, <3>1, EarlyPc DEF Goes, ends, EarlyPlaces, Before
    <3>2. CASE Later(r)
      BY <1>1, <3>2, LaterPc DEF Moves, Phase2Frame, ends, Phase2
    <3> QED BY <1>5, <3>1, <3>2 DEF Finish, At
  <2>2. r \in active /\ active = {r} /\ Sure(r) /\ Fit(r)
    BY <1>1, <1>2, <2>1 DEF Single, Fit, Lives
  <2>3. Separate' /\ Sure(r)'
    <3>1. CASE Early(r)
      <4>1. UNCHANGED <<pkg, note>>
        BY <1>1, <3>1, EarlyPc DEF Goes, vault
      <4> QED BY <1>1, <1>2, <2>2, <3>1, <4>1, EarlySure, SameApart
    <3>2. CASE Later(r)
      BY <1>1, <1>2, <2>2, <3>2, LaterApart
    <3>3. CASE Finish(r)
      <4>1. UNCHANGED <<pkg, note>> /\ id'[r] = id[r] /\ job'[r] = job[r] /\ pc'[r] = "dispose"
        BY <1>1, <3>3 DEF Finish, Go, vault, flow, Types
      <4> QED BY <1>2, <2>2, <4>1, SameApart
    <3> QED BY <1>5, <3>1, <3>2, <3>3
  <2> QED BY <1>2, <2>1, <2>2, <2>3 DEF Apart, Single
<1>6. ASSUME NEW r \in Runs, Dispose(r) PROVE Apart'
  <2>1. UNCHANGED <<pkg, note, others>> /\ active' = active \ {r} /\ pc[r] = "dispose"
    BY <1>6 DEF Dispose, At, vault
  <2>2. active' = {}
    BY <1>1, <1>2, <2>1 DEF Single, Fit, Lives
  <2> QED BY <1>2, <2>1, <2>2, SameApart DEF Apart, Single
<1> QED BY <1>3, <1>4, <1>5, <1>6, StepKinds DEF RunStep

(* "filling a missing output cannot fork one paper into a new suffixed     *)
(* record": of runs one after the other, however each of them ends and in  *)
(* whatever order papers and outputs are asked for, the files of a paper   *)
(* lie under one citekey, and no citekey has the files of two papers.      *)
THEOREM RecordsStayApart ==
  ASSUME IngestAssumption, Alone
  PROVE  Spec => [](OneRecord /\ Unmixed)
<1>1. Init => IInv /\ Apart
  BY InitIInv, InitApart
<1>2. IInv /\ Apart /\ [Next]_vars => (IInv /\ Apart)'
  BY NextIInv, NextApart
<1>3. ASSUME IInv, Apart, NEW p \in Papers \ Clipped
      PROVE  Cardinality(CitekeysOf(Records(p))) <= 1
  <2>1. ASSUME NEW k \in CitekeysOf(Records(p)) PROVE k \in Keys /\ HasFile(p, k)
    BY <2>1, SeenLayers DEF HasFile
  <2>2. ASSUME NEW k \in CitekeysOf(Records(p)), NEW l \in CitekeysOf(Records(p)) PROVE k = l
    <3>1. k \in Keys /\ l \in Keys /\ HasFile(p, k) /\ HasFile(p, l)
      BY <2>1, <2>2
    <3> QED BY <1>3, <3>1 DEF Apart, Separate
  <2>3. CASE CitekeysOf(Records(p)) = {}
    BY <2>3, FS_EmptySet
  <2>4. ASSUME NEW k \in CitekeysOf(Records(p)) PROVE Cardinality(CitekeysOf(Records(p))) <= 1
    <3>1. CitekeysOf(Records(p)) = {k}
      BY <2>2, <2>4
    <3> QED BY <3>1, FS_Singleton
  <2> QED BY <2>3, <2>4
<1>4. IInv /\ Apart => OneRecord /\ Unmixed
  BY <1>3 DEF OneRecord, Apart, Separate
<1> QED BY <1>1, <1>2, <1>4, PTL DEF Spec

-----------------------------------------------------------------------------
(* The identity phase of one run, which Searched of PaperIngest stands     *)
(* for: IdentityGate, with constants and variables of its own.             *)
CONSTANTS Titles, Dois, NoDoi, Registry, Answer(_), Files, NoCitekey, Contents, Nothing,
          Candidates, Reads, Searches, Evidence
VARIABLES files, pdf, preflight, listed, terms, allowed, attempted, tries, found,
          looked, checked, read, verdict

Gate == INSTANCE IdentityGate

(* What the tools have returned: records of Crossref, and a list that is   *)
(* cut off or holds every file of the titles it covers.                    *)
Returned ==
  /\ found \subseteq Registry
  /\ \A d \in looked : Answer(d) \in Registry /\ Answer(d).doi # NoDoi
Listing ==
  preflight = "done" /\ Gate!Cardinality(listed) < Candidates =>
    \A f \in Gate!Present : Gate!TitleOf(f) \in terms => f \in listed
Undecided == verdict.status = "open" => verdict = Gate!NoVerdict
Verdicts == Gate!IdentityGrounded /\ Gate!NewIsNew /\ Gate!DuplicateIsOne

(* The candidates are listed once, by a search that is complete if it is   *)
(* not cut off; other tools add what Crossref returns.                     *)
LEMMA ToolsReturn ==
  ASSUME Gate!GateAssumption, Returned, Listing, Gate!Next
  PROVE  Returned' /\ Listing'
<1> USE DEF Gate!Present, Gate!TitleOf
<1>1. CASE Gate!VaultCandidates
  <2>1. UNCHANGED <<files, found, looked>>
    BY <1>1 DEF Gate!VaultCandidates
  <2>2. Returned'
    BY <2>1 DEF Returned
  <2>3. CASE preflight' = "spent"
    BY <2>2, <2>3 DEF Listing
  <2>4. CASE ~(preflight' = "spent")
    <3>1. PICK some \in SUBSET Files, asked \in SUBSET pdf.queries, covered \in SUBSET Titles :
                 Gate!Lists(some, asked, covered) /\ listed' = some /\ terms' = covered
      BY <1>1, <2>4 DEF Gate!VaultCandidates
    <3> QED BY <2>1, <2>2, <3>1 DEF Listing, Gate!Lists
  <2> QED BY <2>2, <2>3, <2>4
<1>2. ASSUME NEW f \in Files, Gate!CandidateRead(f) PROVE Returned' /\ Listing'
  BY <1>2 DEF Gate!CandidateRead, Returned, Listing
<1>3. ASSUME NEW d \in Dois, Gate!CrossrefDoi(d) PROVE Returned' /\ Listing'
  <2>1. looked' \subseteq looked \cup (IF Answer(d) = Nothing THEN {} ELSE {d})
    BY <1>3 DEF Gate!CrossrefDoi
  <2>2. UNCHANGED <<files, preflight, listed, terms, found>>
    BY <1>3 DEF Gate!CrossrefDoi
  <2> QED BY <2>1, <2>2 DEF Returned, Listing, Gate!GateAssumption
<1>4. CASE Gate!CrossrefSearch
  <2>1. PICK hits \in SUBSET Registry : found' = found \cup hits
    BY <1>4 DEF Gate!CrossrefSearch
  <2>2. UNCHANGED <<files, preflight, listed, terms, looked>>
    BY <1>4 DEF Gate!CrossrefSearch
  <2> QED BY <2>1, <2>2 DEF Returned, Listing
<1>5. ASSUME NEW d \in Dois, Gate!VaultDoiSearch(d) PROVE Returned' /\ Listing'
  BY <1>5 DEF Gate!VaultDoiSearch, Returned, Listing
<1>6. CASE Gate!Decide
  BY <1>6 DEF Gate!Decide, Gate!tools, Returned, Listing
<1> QED BY <1>1, <1>2, <1>3, <1>4, <1>5, <1>6 DEF Gate!Next

(* Before the model answers there is no verdict; its answer is held        *)
(* against what the tools returned.                                        *)
LEMMA VerdictHolds ==
  ASSUME Gate!GateAssumption, Returned, Listing, Undecided, Gate!Next
  PROVE  Undecided' /\ Verdicts'
<1>0. verdict.status = "open"
  BY DEF Gate!Next
<1>1. CASE UNCHANGED verdict
  BY <1>0, <1>1 DEF Undecided, Verdicts, Gate!IdentityGrounded, Gate!NewIsNew, Gate!DuplicateIsOne,
     Gate!Accepted
<1>2. CASE verdict' = [verdict EXCEPT !.status = "refused"]
  <2>1. verdict'.status = "refused"
    BY <1>0, <1>2 DEF Undecided, Gate!NoVerdict
  <2> QED BY <2>1 DEF Undecided, Verdicts, Gate!IdentityGrounded, Gate!NewIsNew,
                      Gate!DuplicateIsOne, Gate!Accepted
<1>3. ASSUME NEW claim \in Gate!Claims, NEW r \in Registry \cup {Nothing},
             NEW c, c = Gate!Bound(claim, r),
             Gate!Selects(claim, r), Gate!Supported(c),
             verdict' = [status |-> "accepted", dup |-> c.dup, title |-> c.title,
                         doi |-> c.doi, bound |-> r # Nothing,
                         saw |-> IF c.dup = "exact" THEN Gate!Trusted(c) ELSE {}],
             UNCHANGED <<files, pdf, Gate!tools>>
      PROVE  Undecided' /\ Verdicts'
  <2>1. /\ c.title = claim.title /\ c.dup = claim.dup /\ c.key = claim.key
        /\ c.doi = IF r = Nothing THEN claim.doi ELSE r.doi
    BY <1>3 DEF Gate!Bound, Gate!Claims
  <2>2. Gate!IdentityGrounded'
    <3>1. r # Nothing => r = [title |-> c.title, doi |-> c.doi]
      BY <1>3, <2>1 DEF Gate!Selects, Gate!LookedUp, Gate!Matching, Gate!Observed, Returned,
         Gate!GateAssumption
    <3>2. r # Nothing
      <4>1. SUFFICES ASSUME r = Nothing PROVE FALSE
        OBVIOUS
      <4>2. c = claim
        BY <1>3, <4>1 DEF Gate!Bound
      <4>3. PICK m \in Gate!Matching(c) : TRUE
        BY <1>3 DEF Gate!Supported, Gate!RecordSupported
      <4>4. ~Gate!LookedUp(c) /\ Gate!Matching(c) \cap found = {}
        BY <1>3, <4>1, <4>2 DEF Gate!Selects, Gate!LookedUp, Returned, Gate!GateAssumption
      <4>5. m.doi # NoDoi
        BY <4>3, <4>4 DEF Gate!Matching, Gate!Observed, Returned
      <4> QED BY <1>3, <4>3, <4>4, <4>5 DEF Gate!Supported, Gate!RecordSupported
    <3> QED BY <1>3, <3>1, <3>2 DEF Gate!IdentityGrounded
  <2>3. Gate!NewIsNew'
    <3>1. UNCHANGED <<files, listed, terms, checked, preflight>>
      BY <1>3 DEF Gate!tools
    <3>2. SUFFICES ASSUME c.dup = "none", NEW f \in Gate!Present
                   PROVE  /\ c.doi # NoDoi => Gate!DoiOf(f) # c.doi
                          /\ Gate!Cardinality(listed) < Candidates => Gate!TitleOf(f) # c.title
      BY <1>3, <3>1 DEF Gate!NewIsNew, Gate!Present, Gate!DoiOf, Gate!TitleOf
    <3>3. Gate!NoneSupported(c) /\ preflight = "done"
      BY <1>3, <3>2 DEF Gate!Supported, Gate!Preflown
    <3>4. c.doi # NoDoi => Gate!DoiOf(f) # c.doi
      BY <3>3 DEF Gate!NoneSupported, Gate!Holding
    <3>5. Gate!Cardinality(listed) < Candidates => Gate!TitleOf(f) # c.title
      BY <3>3 DEF Gate!NoneSupported, Gate!Covered, Gate!ShownBy, Listing
    <3> QED BY <3>4, <3>5
  <2>4. Gate!DuplicateIsOne'
    <3>1. UNCHANGED files
      BY <1>3
    <3>2. SUFFICES ASSUME c.dup = "exact"
                   PROVE  /\ Gate!Trusted(c) # {}
                          /\ Gate!Cardinality(Gate!KeysOf(Gate!Trusted(c))) <= 1
                          /\ \A f \in Gate!Trusted(c) : Gate!Same(f, c)
      BY <1>3, <3>1 DEF Gate!DuplicateIsOne, Gate!KeysOf, Gate!Same, Gate!DoiOf, Gate!TitleOf
    <3>3. Gate!ExactSupported(c)
      BY <1>3, <3>2 DEF Gate!Supported
    <3>4. \A f \in Gate!Trusted(c) : Gate!Same(f, c)
      BY DEF Gate!Trusted, Gate!Same, Gate!Holding
    <3> QED BY <3>3, <3>4 DEF Gate!ExactSupported
  <2> QED BY <1>3, <2>2, <2>3, <2>4 DEF Verdicts, Undecided
<1>4. Gate!Decide \/ UNCHANGED verdict
  BY DEF Gate!Next, Gate!VaultCandidates, Gate!CandidateRead, Gate!CrossrefDoi,
     Gate!CrossrefSearch, Gate!VaultDoiSearch
<1> QED BY <1>1, <1>2, <1>3, <1>4 DEF Gate!Decide

(* The gate of the identity phase, with any vault, any registry and any    *)
(* model: an identity that is taken is a record of Crossref, a paper taken *)
(* for new is in no file, and one taken for a duplicate is one record      *)
(* (validateIdentityReceipts).                                             *)
THEOREM VerdictsStand ==
  ASSUME Gate!GateAssumption
  PROVE  Gate!Spec => [](Gate!IdentityGrounded /\ Gate!NewIsNew /\ Gate!DuplicateIsOne)
<1> DEFINE Inv == Returned /\ Listing /\ Undecided /\ Verdicts
<1>1. Gate!Init => Inv
  BY DEF Gate!Init, Gate!NoVerdict, Returned, Listing, Undecided, Verdicts,
     Gate!IdentityGrounded, Gate!NewIsNew, Gate!DuplicateIsOne, Gate!Accepted
<1>2. Inv /\ [Gate!Next]_(Gate!gateVars) => Inv'
  <2>1. CASE Inv /\ Gate!Next
    BY <2>1, ToolsReturn, VerdictHolds
  <2>2. CASE Inv /\ UNCHANGED Gate!gateVars
    BY <2>2 DEF Gate!gateVars, Gate!tools, Returned, Listing, Undecided, Verdicts,
       Gate!IdentityGrounded, Gate!NewIsNew, Gate!DuplicateIsOne, Gate!Accepted, Gate!Present,
       Gate!DoiOf, Gate!TitleOf, Gate!KeysOf, Gate!Same
  <2> QED BY <2>1, <2>2
<1> QED BY <1>1, <1>2, PTL DEF Gate!Spec, Verdicts
=============================================================================
