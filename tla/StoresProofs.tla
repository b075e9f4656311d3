---------------------------- MODULE StoresProofs ---------------------------
(***************************************************************************)
(* The stores side by side (MCStores) keep what was proved of each store   *)
(* by itself.  A step of the composition is a step of one part and leaves  *)
(* the variables of the others alone, so every behaviour of the            *)
(* composition is, for each part, one of that part's own specification;    *)
(* the theorems about the part, which hold for all constants, apply.       *)
(***************************************************************************)
EXTENDS MCStores, Sequences, FiniteSetTheorems, TLAPS

-----------------------------------------------------------------------------
(* MineruPublish.  Alone is the module of the proofs, at the variables and *)
(* constants the composition gives to Publish: the same definitions.       *)
Alone == INSTANCE MineruPublishProofs WITH pc <- at, seen <- found, target <- package

(* To this part the composition behaves as the part by itself.             *)
LEMMA PublishesAlone == MCSpec => Alone!Spec
<1>1. MCInit => Alone!Init
  BY DEF MCInit, Publish!Init, Alone!Init, Publish!NoPackage, Alone!NoPackage,
     Publish!NoLock, Alone!NoLock, Publish!Nobody, Alone!Nobody
<1>2. [MCNext]_allVars => [Alone!Next]_(Alone!vars)
  <2>1. Publish!Next => Alone!Next
    BY DEF Publish!Next, Alone!Next, Publish!NoLock, Alone!NoLock, Publish!Nobody,
       Alone!Nobody, Publish!fs, Alone!fs, Publish!work, Alone!work, Publish!fate,
       Alone!fate, Publish!vars, Alone!vars, Publish!NoPackage, Alone!NoPackage,
       Publish!Package, Alone!Package, Publish!At, Alone!At, Publish!Go, Alone!Go,
       Publish!Throw, Alone!Throw, Publish!Cancelled, Alone!Cancelled,
       Publish!Start, Alone!Start, Publish!Open, Alone!Open, Publish!CreateLock,
       Alone!CreateLock, Publish!LockExists, Alone!LockExists, Publish!Written,
       Alone!Written, Publish!RecordLock, Alone!RecordLock, Publish!Dead,
       Alone!Dead, Publish!Stale, Alone!Stale, Publish!Inspect, Alone!Inspect,
       Publish!Compare, Alone!Compare, Publish!RemoveStale, Alone!RemoveStale,
       Publish!RecreateLock, Alone!RecreateLock, Publish!Prepare, Alone!Prepare,
       Publish!Unconfirmed, Alone!Unconfirmed, Publish!CommandFrame,
       Alone!CommandFrame, Publish!Version, Alone!Version, Publish!Extract,
       Alone!Extract, Publish!Verify, Alone!Verify, Publish!PublishFrame,
       Alone!PublishFrame, Publish!Contain, Alone!Contain, Publish!CleanBox,
       Alone!CleanBox, Publish!Copy, Alone!Copy, Publish!Recheck, Alone!Recheck,
       Publish!Rename, Alone!Rename, Publish!CleanStage, Alone!CleanStage,
       Publish!Release, Alone!Release, Publish!Unlock, Alone!Unlock, Publish!Abort,
       Alone!Abort, Publish!ChildExits, Alone!ChildExits, Publish!Crash,
       Alone!Crash, Publish!Restart, Alone!Restart, Publish!Locking, Alone!Locking,
       Publish!Publishing, Alone!Publishing, Publish!Finishing, Alone!Finishing
  <2>2. UNCHANGED publishVars => UNCHANGED Alone!vars
    BY DEF publishVars, Alone!vars, Alone!fs, Alone!work, Alone!fate
  <2>3. MCNext => Publish!Next \/ UNCHANGED publishVars
    BY DEF MCNext, Only
  <2>4. UNCHANGED allVars => UNCHANGED publishVars
    BY DEF allVars
  <2> QED BY <2>1, <2>2, <2>3, <2>4
<1> QED BY <1>1, <1>2, PTL DEF MCSpec, Alone!Spec

(* What is visible at the destination of a package is whole and of the     *)
(* publisher that was told so, the staging trees of live commands and the  *)
(* locks of live publishers are kept, for any number of publishers.        *)
THEOREM PublicationHolds == MCSpec => []PublicationSafe
<1>1. Alone!PublicationSafe => PublicationSafe
  BY DEF PublicationSafe, Publish!PublicationSafe, Alone!PublicationSafe,
     Publish!PublishedWhole, Alone!PublishedWhole, Publish!ReceiptTrue, Alone!ReceiptTrue,
     Publish!StageNotPulled, Alone!StageNotPulled, Publish!LiveLockKept, Alone!LiveLockKept,
     Publish!LockHeld, Alone!LockHeld, Publish!Critical, Alone!Critical,
     Publish!NoPackage, Alone!NoPackage, Publish!Nobody, Alone!Nobody
<1>2. MCSpec => []Alone!PublicationSafe
  BY PublishesAlone, Alone!PublishesSafely
<1> QED BY <1>1, <1>2, PTL

(* A package that is visible is never replaced nor removed.                *)
THEOREM PackagesStay == MCSpec => CreateOnly
<1>1. Alone!CreateOnly => CreateOnly
  BY DEF CreateOnly, Publish!CreateOnly, Alone!CreateOnly, Publish!NoPackage, Alone!NoPackage,
     Publish!Nobody, Alone!Nobody, Publish!vars, Alone!vars, Publish!fs, Alone!fs,
     Publish!work, Alone!work, Publish!fate, Alone!fate
<1> QED BY <1>1, PublishesAlone, Alone!NothingReplaced

-----------------------------------------------------------------------------
(* RevisionJournal, whose variables and constants are the composition's.   *)
Journaling == INSTANCE RevisionJournalProofs

LEMMA JournalsAlone == MCSpec => Journaling!Spec
<1>1. MCInit => Journaling!Init
  BY DEF MCInit, Init, Journaling!Init, Ids, Journaling!Ids, NoRev, Journaling!NoRev,
     Styles, Journaling!Styles
<1>2. [MCNext]_allVars => [Journaling!Next]_(Journaling!journalVars)
  <2>1. Next => Journaling!Next
    BY DEF Next, Journaling!Next, Ids, Journaling!Ids, NoRev, Journaling!NoRev, Committed,
       Journaling!Committed, Pending, Journaling!Pending, Heads, Journaling!Heads, Broken,
       Journaling!Broken, Same, Journaling!Same, Unchanged, Journaling!Unchanged, Passes,
       Journaling!Passes, Goes, Journaling!Goes, Leaves, Journaling!Leaves, Open,
       Journaling!Open, Save, Journaling!Save, Resume, Journaling!Resume, Report,
       Journaling!Report, Refuse, Journaling!Refuse, Begin, Journaling!Begin, CreateBody,
       Journaling!CreateBody, FillBody, Journaling!FillBody, HasBody, Journaling!HasBody,
       Recheck, Journaling!Recheck, CreateMark, Journaling!CreateMark, FillMark,
       Journaling!FillMark, HasMark, Journaling!HasMark, FailBody, Journaling!FailBody,
       FailMark, Journaling!FailMark, After, Journaling!After, Cancel, Journaling!Cancel,
       Crash, Journaling!Crash, journalFiles, Journaling!journalFiles,
       Cardinality, Journaling!Cardinality
  <2>2. UNCHANGED journalVars => UNCHANGED Journaling!journalVars
    BY DEF journalVars, Journaling!journalVars, journalFiles, Journaling!journalFiles,
       windowState, Journaling!windowState
  <2>3. MCNext => Next \/ UNCHANGED journalVars
    BY DEF MCNext, Only
  <2>4. UNCHANGED allVars => UNCHANGED journalVars
    BY DEF allVars
  <2> QED BY <2>1, <2>2, <2>3, <2>4
<1> QED BY <1>1, <1>2, PTL DEF MCSpec, Journaling!Spec

(* A draft has at most one newest revision, however its windows crash.     *)
LEMMA OneHead == MCSpec => []DraftNeverForks
<1>1. Journaling!DraftNeverForks => DraftNeverForks
  BY DEF DraftNeverForks, Journaling!DraftNeverForks, Heads, Journaling!Heads,
     Committed, Journaling!Committed, Ids, Journaling!Ids, Cardinality, Journaling!Cardinality
<1>2. MCSpec => []Journaling!DraftNeverForks
  BY JournalAssumption, JournalsAlone, Journaling!DraftsNeverFork, PTL
<1> QED BY <1>1, <1>2, PTL

-----------------------------------------------------------------------------
(* CurationRevision.  The records that are kept are only ever added or     *)
(* given another state; a window whose turn it is has passed the checks    *)
(* of that turn.                                                           *)
Record(r) == DOMAIN r = {"review", "sel", "undoOf", "state", "writes"}

CurationTypes ==
  /\ issued \in Nat
  /\ revision = [i \in Curation!Ids |-> revision[i]]
  /\ \A i \in Curation!Ids : Record(revision[i])
  /\ win = [w \in Windows |-> win[w]]
  /\ \A w \in Windows : /\ DOMAIN win[w] = {"pc", "id", "rev"}
                        /\ Record(win[w].rev)
                        /\ win[w].pc # "closed" => win[w].id \in Curation!Ids
                        /\ win[w].rev.undoOf # 0 => win[w].rev.sel = {}
  /\ review = [v \in Reviews |-> review[v]]
  /\ \A v \in Reviews : DOMAIN review[v] = {"state", "text", "wording", "applied"}

Queued ==
  /\ queue \in Seq(Windows)
  /\ \A k \in 1 .. Len(queue) : win[queue[k]].pc = "queued"
  /\ \A k, l \in 1 .. Len(queue) : k # l => queue[k] # queue[l]

Underway ==
  /\ task.pc # "idle" => queue # <<>>
  /\ task.pc \in {"check", "write", "recover"} => revision[Curation!I].state \notin {"none", "applied"}
  /\ task.pc = "finish" => revision[Curation!I].state = "applied"

CInv == CurationTypes /\ Queued /\ Underway /\ Curation!AppliedOnce

LEMMA HeadQueued ==
  ASSUME CInv, queue # <<>>
  PROVE  /\ Head(queue) \in Windows /\ Curation!I \in Curation!Ids
         /\ win[Head(queue)].pc = "queued"
  BY DEF CInv, CurationTypes, Queued, Curation!I

LEMMA Confirms ==
  ASSUME CInv, NEW w \in Windows, Curation!Confirm(w)
  PROVE  Queued'
  BY DEF CInv, Queued, CurationTypes, Curation!Confirm

LEMMA Dones ==
  ASSUME CInv, queue # <<>>, NEW to, Curation!Done(to)
  PROVE  Queued'
<1>1. /\ queue' = Tail(queue) /\ win' = [win EXCEPT ![Head(queue)] = to]
  BY DEF Curation!Done
<1>2. queue \in Seq(Windows) /\ Len(queue) \in Nat /\ Len(queue) # 0 /\ Head(queue) = queue[1]
  BY DEF CInv, Queued
<1>3. /\ queue' \in Seq(Windows) /\ Len(queue') = Len(queue) - 1
      /\ \A k \in 1 .. Len(queue') : queue'[k] = queue[k + 1]
  BY <1>1, <1>2
<1>4. ASSUME NEW k \in 1 .. Len(queue')
      PROVE  /\ queue'[k] = queue[k + 1] /\ queue'[k] # Head(queue) /\ queue'[k] \in Windows
             /\ win[queue'[k]].pc = "queued"
  BY <1>2, <1>3 DEF CInv, Queued
<1>5. \A k \in 1 .. Len(queue') : win'[queue'[k]].pc = "queued"
  BY <1>1, <1>4 DEF CInv, CurationTypes
<1>6. ASSUME NEW k \in 1 .. Len(queue'), NEW l \in 1 .. Len(queue'), k # l
      PROVE  queue'[k] # queue'[l]
  <2>1. k + 1 \in 1 .. Len(queue) /\ l + 1 \in 1 .. Len(queue) /\ k + 1 # l + 1
    BY <1>2, <1>3, <1>6
  <2> QED BY <1>4, <2>1 DEF CInv, Queued
<1> QED BY <1>3, <1>5, <1>6 DEF Queued

LEMMA UserKeepsCourse ==
  ASSUME CInv, NEW w \in Windows, win[w].pc # "queued", UNCHANGED <<revision, task>>,
         \A v \in Windows \ {w} : win'[v] = win[v],
         queue' = queue \/ (queue' = Append(queue, w))
  PROVE  Underway'
<1>1. CASE task.pc = "idle"
  BY <1>1 DEF Underway
<1>2. CASE task.pc # "idle"
  <2>1. queue # <<>> /\ queue \in Seq(Windows)
    BY <1>2 DEF CInv, Underway, Queued
  <2>2. queue' # <<>> /\ Head(queue') = Head(queue)
    BY <2>1
  <2>3. Head(queue) \in Windows \ {w}
    BY <2>1, HeadQueued
  <2>4. Curation!I' = Curation!I
    BY <2>2, <2>3 DEF Curation!I
  <2> QED BY <2>2, <2>4 DEF CInv, Underway
<1> QED BY <1>1, <1>2

LEMMA WindowShows ==
  ASSUME CInv, NEW w \in Windows, NEW place, NEW id, NEW r, Record(r), r.undoOf # 0 => r.sel = {},
         place # "queued", place # "closed" => id \in Curation!Ids, win[w].pc # "queued",
         win' = [win EXCEPT ![w] = [pc |-> place, id |-> id, rev |-> r]],
         UNCHANGED <<revision, task, review, queue>>, issued' \in Nat
  PROVE  CInv'
<1>1. CurationTypes'
  BY DEF CInv, CurationTypes, Record
<1>2. Queued'
  BY DEF CInv, CurationTypes, Queued
<1>3. Underway'
  BY UserKeepsCourse DEF CInv, CurationTypes
<1>4. Curation!AppliedOnce'
  BY DEF CInv, Curation!AppliedOnce, Curation!Entered
<1> QED BY <1>1, <1>2, <1>3, <1>4 DEF CInv

LEMMA UserStep ==
  ASSUME CInv, NEW w \in Windows,
         \/ \E v \in Reviews, sel \in SUBSET Suggestions : Curation!Preview(w, v, sel)
         \/ \E i \in Curation!Ids : Curation!PreviewUndo(w, i) \/ Curation!PreviewResume(w, i)
         \/ Curation!Confirm(w) \/ Curation!Close(w)
  PROVE  CInv'
<1>1. issued < MaxIds => issued + 1 \in Curation!Ids
  BY StoresAssumption DEF Curation!CurationAssumption, CInv, CurationTypes, Curation!Ids
<1>2. ASSUME NEW v \in Reviews, NEW sel \in SUBSET Suggestions, Curation!Preview(w, v, sel)
      PROVE  CInv'
  <2> DEFINE r == [Curation!NoRev EXCEPT !.review = v, !.sel = sel, !.state = "prepared",
                     !.writes = Curation!Planned(v, sel, issued + 1)]
  <2>1. Record(r) /\ r.undoOf = 0
    BY DEF Record, Curation!NoRev
  <2>2. /\ win' = [win EXCEPT ![w] = [pc |-> "shown", id |-> issued + 1, rev |-> r]]
        /\ UNCHANGED <<revision, task, review, queue>> /\ issued' = issued + 1
        /\ win[w].pc = "closed" /\ issued < MaxIds
    BY <1>2 DEF Curation!Preview, Curation!Shows, Curation!UserFrame
  <2> HIDE DEF r
  <2> QED BY <1>1, <2>1, <2>2, WindowShows DEF CInv, CurationTypes
<1>3. ASSUME NEW i \in Curation!Ids, Curation!PreviewUndo(w, i) PROVE CInv'
  <2> DEFINE r == [Curation!NoRev EXCEPT !.review = revision[i].review, !.undoOf = i,
                     !.state = "prepared", !.writes = Curation!Undoing(i, issued + 1)]
  <2>1. Record(r) /\ r.sel = {}
    BY DEF Record, Curation!NoRev
  <2>2. /\ win' = [win EXCEPT ![w] = [pc |-> "shown", id |-> issued + 1, rev |-> r]]
        /\ UNCHANGED <<revision, task, review, queue>> /\ issued' = issued + 1
        /\ win[w].pc = "closed" /\ issued < MaxIds
    BY <1>3 DEF Curation!PreviewUndo, Curation!Shows, Curation!UserFrame
  <2> HIDE DEF r
  <2> QED BY <1>1, <2>1, <2>2, WindowShows DEF CInv, CurationTypes
<1>4. ASSUME NEW i \in Curation!Ids, Curation!PreviewResume(w, i) PROVE CInv'
  <2>1. Record(Curation!NoRev) /\ Curation!NoRev.undoOf = 0
    BY DEF Record, Curation!NoRev
  <2>2. /\ win' = [win EXCEPT ![w] = [pc |-> "shown", id |-> i, rev |-> Curation!NoRev]]
        /\ UNCHANGED <<revision, task, review, queue, issued>> /\ win[w].pc = "closed"
    BY <1>4 DEF Curation!PreviewResume, Curation!Shows, Curation!UserFrame
  <2> QED BY <2>1, <2>2, WindowShows DEF CInv, CurationTypes
<1>5. CASE Curation!Close(w)
  <2>1. Record(Curation!NoRev) /\ Curation!NoRev.undoOf = 0
    BY DEF Record, Curation!NoRev
  <2>2. /\ win' = [win EXCEPT ![w] = [pc |-> "closed", id |-> 0, rev |-> Curation!NoRev]]
        /\ UNCHANGED <<revision, task, review, queue, issued>> /\ win[w].pc = "shown"
    BY <1>5 DEF Curation!Close, Curation!Closed, Curation!UserFrame
  <2> QED BY <2>1, <2>2, WindowShows DEF CInv, CurationTypes
<1>6. CASE Curation!Confirm(w)
  <2>1. CurationTypes'
    BY <1>6 DEF CInv, CurationTypes, Curation!Confirm, Curation!UserFrame
  <2>2. Underway'
    <3>1. /\ queue' = Append(queue, w) /\ \A v \in Windows \ {w} : win'[v] = win[v]
          /\ win[w].pc = "shown" /\ UNCHANGED <<revision, task>>
      BY <1>6 DEF CInv, CurationTypes, Curation!Confirm, Curation!UserFrame
    <3> QED BY <3>1, UserKeepsCourse
  <2>3. Curation!AppliedOnce'
    BY <1>6 DEF CInv, Curation!AppliedOnce, Curation!Entered, Curation!Confirm, Curation!UserFrame
  <2> QED BY <1>6, <2>1, <2>2, <2>3, Confirms DEF CInv
<1> QED BY <1>2, <1>3, <1>4, <1>5, <1>6

LEMMA ReviewStep ==
  ASSUME CInv, NEW v \in Reviews,
         Curation!Prepare(v) \/ Curation!Inspect(v) \/ \E s \in Suggestions : Curation!Decide(v, s)
  PROVE  CInv'
<1>1. /\ review' = [u \in Reviews |-> review'[u]]
      /\ \A u \in Reviews :
           /\ DOMAIN review'[u] = {"state", "text", "wording", "applied"}
           /\ review'[u].applied = review[u].applied
  BY DEF CInv, CurationTypes, Curation!Prepare, Curation!Inspect, Curation!Decide
<1>2. UNCHANGED <<revision, win, task, queue, issued>>
  BY DEF Curation!Prepare, Curation!Inspect, Curation!Decide, Curation!UserFrame
<1>3. CurationTypes'
  BY <1>1, <1>2 DEF CInv, CurationTypes, Record
<1>4. Queued' /\ Underway'
  BY <1>2 DEF CInv, Queued, Underway, Curation!I
<1>5. Curation!AppliedOnce'
  BY <1>1, <1>2 DEF CInv, Curation!AppliedOnce, Curation!Entered
<1> QED BY <1>3, <1>4, <1>5 DEF CInv

LEMMA OtherStep ==
  ASSUME CInv, Curation!Reload \/ \E p \in Touched : Curation!Edit(p)
  PROVE  CInv'
<1>1. CASE Curation!Reload
  <2>1. CurationTypes'
    BY <1>1 DEF CInv, CurationTypes, Curation!Reload, Curation!Closed, Curation!NoRev, Record
  <2>2. Queued' /\ Underway'
    BY <1>1 DEF Queued, Underway, Curation!Reload, Curation!Resting
  <2>3. Curation!AppliedOnce'
    BY <1>1 DEF CInv, Curation!AppliedOnce, Curation!Entered, Curation!Reload
  <2> QED BY <2>1, <2>2, <2>3 DEF CInv
<1>2. ASSUME NEW p \in Touched, Curation!Edit(p) PROVE CInv'
  BY <1>2 DEF Curation!Edit, CInv, CurationTypes, Record, Queued, Underway, Curation!I,
     Curation!AppliedOnce, Curation!Entered
<1> QED BY <1>1, <1>2

(* The queue moves on; the window keeps what it shows or is closed.        *)
LEMMA WindowsLeave ==
  ASSUME CInv, queue # <<>>, Curation!Done(Curation!Closed) \/ Curation!Fails,
         UNCHANGED issued, revision' = [i \in Curation!Ids |-> revision'[i]],
         review' = [v \in Reviews |-> review'[v]],
         \A v \in Reviews : DOMAIN review'[v] = {"state", "text", "wording", "applied"},
         \A i \in Curation!Ids : Record(revision'[i])
  PROVE  CurationTypes' /\ Queued' /\ Underway'
<1>1. Queued'
  BY Dones DEF Curation!Fails
<1>2. PICK to : /\ win' = [win EXCEPT ![Head(queue)] = to] /\ task' = Curation!Resting
                /\ to = Curation!Closed \/ to = [win[Head(queue)] EXCEPT !.pc = "shown"]
  BY DEF Curation!Done, Curation!Fails
<1>3. Underway'
  BY <1>2 DEF Underway, Curation!Resting
<1>4. Head(queue) \in Windows /\ win[Head(queue)].pc = "queued"
  BY HeadQueued
<1>5. DOMAIN to = {"pc", "id", "rev"} /\ Record(to.rev)
      /\ (to.pc # "closed" => to.id \in Curation!Ids)
      /\ (to.rev.undoOf # 0 => to.rev.sel = {})
  <2>1. CASE to = Curation!Closed
    BY <2>1 DEF Curation!Closed, Curation!NoRev, Record
  <2>2. CASE to = [win[Head(queue)] EXCEPT !.pc = "shown"]
    BY <1>4, <2>2 DEF CInv, CurationTypes
  <2> QED BY <1>2, <2>1, <2>2
<1>6. CurationTypes'
  BY <1>2, <1>4, <1>5 DEF CInv, CurationTypes, Record
<1> QED BY <1>1, <1>3, <1>6

(* The record of the revision at hand, and no other, is made or changed.   *)
LEMMA RecordSaved ==
  ASSUME CInv, queue # <<>>, NEW state, Curation!Saved(state)
  PROVE  LET i == Curation!I
             was == IF revision[i].state = "none" THEN win[Head(queue)].rev ELSE revision[i]
         IN  /\ i \in Curation!Ids /\ Head(queue) \in Windows
             /\ revision' = [j \in Curation!Ids |-> revision'[j]]
             /\ \A j \in Curation!Ids : Record(revision'[j])
             /\ \A j \in Curation!Ids \ {i} : revision'[j] = revision[j]
             /\ revision'[i].state = state /\ revision'[i].sel = was.sel
             /\ revision'[i].review = was.review /\ revision'[i].undoOf = was.undoOf
             /\ revision'[i].writes = was.writes
<1> DEFINE i == Curation!I
           was == IF revision[i].state = "none" THEN win[Head(queue)].rev ELSE revision[i]
<1>1. i \in Curation!Ids /\ Head(queue) \in Windows
  BY HeadQueued
<1>2. Record(was)
  BY <1>1 DEF CInv, CurationTypes
<1>3. revision' = [revision EXCEPT ![i] = [was EXCEPT !.state = state]]
  BY DEF Curation!Saved, Curation!Shown
<1> HIDE DEF was, i
<1>4. /\ DOMAIN [was EXCEPT !.state = state] = {"review", "sel", "undoOf", "state", "writes"}
      /\ [was EXCEPT !.state = state].state = state /\ [was EXCEPT !.state = state].sel = was.sel
      /\ [was EXCEPT !.state = state].review = was.review
      /\ [was EXCEPT !.state = state].undoOf = was.undoOf
      /\ [was EXCEPT !.state = state].writes = was.writes
  BY <1>2 DEF Record
<1>5. /\ revision' = [j \in Curation!Ids |-> revision'[j]]
      /\ revision'[i] = [was EXCEPT !.state = state]
      /\ \A j \in Curation!Ids \ {i} : revision'[j] = revision[j]
  BY <1>1, <1>3 DEF CInv, CurationTypes
<1>6. \A j \in Curation!Ids : Record(revision'[j])
  BY <1>4, <1>5 DEF CInv, CurationTypes, Record
<1> QED BY <1>1, <1>4, <1>5, <1>6 DEF i, was

(* A record that exists keeps its suggestions; one that is made has those  *)
(* that no other has.                                                      *)
LEMMA OnceKept ==
  ASSUME CInv, queue # <<>>, NEW state, Curation!Saved(state), UNCHANGED review,
         revision[Curation!I].state # "applied",
         revision[Curation!I].state = "none" => Curation!Rebuilt
  PROVE  Curation!AppliedOnce'
<1> DEFINE i == Curation!I
           was == IF revision[i].state = "none" THEN win[Head(queue)].rev ELSE revision[i]
<1>1. /\ i \in Curation!Ids /\ Head(queue) \in Windows
      /\ \A j \in Curation!Ids \ {i} : revision'[j] = revision[j]
      /\ revision'[i].sel = was.sel
      /\ revision'[i].review = was.review /\ revision'[i].undoOf = was.undoOf
  BY RecordSaved
<1>2. ASSUME NEW j \in Curation!Ids, j # i
      PROVE  /\ revision[j].review = was.review => revision[j].sel \cap was.sel = {}
             /\ was.undoOf # 0 => was.undoOf # revision[j].undoOf
  <2>1. CASE revision[i].state # "none"
    BY <1>1, <1>2, <2>1 DEF CInv, Curation!AppliedOnce
  <2>2. CASE revision[i].state = "none" /\ was.undoOf # 0
    BY <1>1, <2>2 DEF CInv, CurationTypes, Curation!Rebuilt, Curation!Shown, Curation!Undone
  <2>3. CASE revision[i].state = "none" /\ was.undoOf = 0
    BY <1>1, <2>3 DEF Curation!Rebuilt, Curation!Shown, Curation!Ready, Curation!Unused
  <2> QED BY <2>1, <2>2, <2>3
<1> HIDE DEF i, was
<1>3. ASSUME NEW j \in Curation!Ids, NEW k \in Curation!Ids, j # k
      PROVE  /\ revision'[j].review = revision'[k].review => revision'[j].sel \cap revision'[k].sel = {}
             /\ revision'[j].undoOf # 0 => revision'[j].undoOf # revision'[k].undoOf
  BY <1>1, <1>2, <1>3 DEF CInv, Curation!AppliedOnce
<1>4. ASSUME NEW v \in Reviews, NEW s \in review[v].applied
      PROVE  \E j \in Curation!Ids : revision'[j].state = "applied" /\ <<v, s>> \in Curation!Entered(j)'
  <2>1. PICK j \in Curation!Ids : revision[j].state = "applied" /\ <<v, s>> \in Curation!Entered(j)
    BY DEF CInv, Curation!AppliedOnce
  <2>2. j # i
    BY <2>1 DEF i
  <2> QED BY <1>1, <2>1, <2>2 DEF Curation!Entered
<1> QED BY <1>3, <1>4 DEF Curation!AppliedOnce

(* A step of the writer that saves and goes on.                            *)
LEMMA SavesOn ==
  ASSUME CInv, queue # <<>>, NEW state, Curation!Saved(state), NEW there, NEW k,
         Curation!Go(there, k), UNCHANGED <<review, issued>>,
         revision[Curation!I].state # "applied",
         revision[Curation!I].state = "none" => Curation!Rebuilt,
         \/ there \in {"check", "write"} /\ state \notin {"none", "applied"}
         \/ there = "finish" /\ state = "applied"
  PROVE  CInv'
<1>1. /\ UNCHANGED <<win, queue>> /\ task'.pc = there /\ Curation!I' = Curation!I
  BY DEF Curation!Go, Curation!I
<1>2. /\ revision' = [j \in Curation!Ids |-> revision'[j]]
      /\ \A j \in Curation!Ids : Record(revision'[j])
      /\ revision'[Curation!I].state = state
  BY RecordSaved
<1>3. CurationTypes' /\ Queued'
  BY <1>1, <1>2 DEF CInv, CurationTypes, Queued, Record
<1>4. Underway'
  BY <1>1, <1>2 DEF Underway
<1>5. Curation!AppliedOnce'
  BY OnceKept
<1> QED BY <1>3, <1>4, <1>5 DEF CInv

(* One that goes on and saves nothing.                                     *)
LEMMA GoesOn ==
  ASSUME CInv, queue # <<>>, UNCHANGED <<review, issued, revision>>, NEW there, NEW k,
         Curation!Go(there, k),
         there = "finish" => revision[Curation!I].state = "applied",
         there # "finish" => revision[Curation!I].state \notin {"none", "applied"}
  PROVE  CInv'
<1>1. /\ UNCHANGED <<win, queue>> /\ task'.pc = there /\ Curation!I' = Curation!I
  BY DEF Curation!Go, Curation!I
<1>2. CurationTypes' /\ Queued'
  BY <1>1 DEF CInv, CurationTypes, Queued, Record
<1>3. Underway'
  BY <1>1 DEF Underway
<1>4. Curation!AppliedOnce'
  BY DEF CInv, Curation!AppliedOnce, Curation!Entered
<1> QED BY <1>2, <1>3, <1>4 DEF CInv

(* One that ends the turn and saves nothing.                               *)
LEMMA EndsTurn ==
  ASSUME CInv, queue # <<>>, UNCHANGED <<review, issued, revision>>,
         Curation!Done(Curation!Closed) \/ Curation!Fails
  PROVE  CInv'
<1>1. /\ \A i \in Curation!Ids : Record(revision'[i])
      /\ revision' = [i \in Curation!Ids |-> revision'[i]]
      /\ review' = [v \in Reviews |-> review'[v]]
      /\ \A v \in Reviews : DOMAIN review'[v] = {"state", "text", "wording", "applied"}
  BY DEF CInv, CurationTypes
<1>2. CurationTypes' /\ Queued' /\ Underway'
  BY <1>1, WindowsLeave
<1>3. Curation!AppliedOnce'
  BY DEF CInv, Curation!AppliedOnce, Curation!Entered
<1> QED BY <1>2, <1>3 DEF CInv

LEMMA FinishStep ==
  ASSUME CInv, Curation!Finish
  PROVE  CInv'
<1> DEFINE v == revision[Curation!I].review
           applied == review[v].applied \cup revision[Curation!I].sel
<1>1. /\ queue # <<>> /\ UNCHANGED <<revision, issued>>
      /\ revision[Curation!I].state = "applied" /\ Curation!I \in Curation!Ids
  BY HeadQueued DEF Curation!Finish, Curation!Working, Curation!WriterFrame, CInv, Underway
<1>2. CASE UNCHANGED review /\ (Curation!Done(Curation!Closed) \/ Curation!Fails)
  BY <1>1, <1>2, EndsTurn
<1>3. CASE /\ review' = [review EXCEPT ![v].applied = applied,
                            ![v].state = IF applied = Suggestions THEN @ ELSE "stale"]
           /\ Curation!Done(Curation!Closed)
  <2>1. /\ review' = [u \in Reviews |-> review'[u]]
        /\ \A u \in Reviews : /\ DOMAIN review'[u] = {"state", "text", "wording", "applied"}
                              /\ \/ review'[u].applied \subseteq review[u].applied
                                 \/ u = v /\ review'[u].applied = applied
    <3> HIDE DEF v, applied
    <3> QED BY <1>3 DEF CInv, CurationTypes
  <2>2. CurationTypes' /\ Queued' /\ Underway'
    <3>1. /\ \A i \in Curation!Ids : Record(revision'[i])
          /\ revision' = [i \in Curation!Ids |-> revision'[i]]
      BY <1>1 DEF CInv, CurationTypes
    <3> QED BY <1>1, <1>3, <2>1, <3>1, WindowsLeave
  <2>3. ASSUME NEW u \in Reviews, NEW s \in review'[u].applied
        PROVE  \E i \in Curation!Ids : revision[i].state = "applied" /\ <<u, s>> \in Curation!Entered(i)
    <3>1. CASE s \in review[u].applied
      BY <3>1 DEF CInv, Curation!AppliedOnce
    <3>2. CASE u = v /\ s \in revision[Curation!I].sel
      BY <1>1, <3>2 DEF Curation!Entered
    <3> QED BY <2>1, <2>3, <3>1, <3>2
  <2>4. Curation!AppliedOnce'
    BY <1>1, <2>3 DEF CInv, Curation!AppliedOnce, Curation!Entered
  <2> QED BY <2>2, <2>4 DEF CInv
<1> QED BY <1>2, <1>3 DEF Curation!Finish

LEMMA RecoverStep ==
  ASSUME CInv, Curation!Recover
  PROVE  CInv'
<1>1. /\ queue # <<>> /\ UNCHANGED <<review, issued>> /\ Curation!Fails
      /\ revision[Curation!I].state \notin {"none", "applied"}
  BY DEF Curation!Recover, Curation!Working, Curation!WriterFrame, CInv, Underway
<1>2. CASE UNCHANGED revision
  BY <1>1, <1>2, EndsTurn
<1>3. CASE Curation!Saved("recovery")
  <2>1. /\ \A i \in Curation!Ids : Record(revision'[i])
        /\ revision' = [i \in Curation!Ids |-> revision'[i]]
    BY <1>1, <1>3, RecordSaved
  <2>2. /\ review' = [v \in Reviews |-> review'[v]]
        /\ \A v \in Reviews : DOMAIN review'[v] = {"state", "text", "wording", "applied"}
    BY <1>1 DEF CInv, CurationTypes
  <2>3. CurationTypes' /\ Queued' /\ Underway'
    BY <1>1, <2>1, <2>2, WindowsLeave
  <2>4. Curation!AppliedOnce'
    BY <1>1, <1>3, OnceKept
  <2> QED BY <2>3, <2>4 DEF CInv
<1> QED BY <1>2, <1>3 DEF Curation!Recover

LEMMA WriterStep ==
  ASSUME CInv, Curation!Writer
  PROVE  CInv'
<1>1. queue # <<>> /\ UNCHANGED issued
  BY DEF Curation!Writer, Curation!Begin, Curation!Check, Curation!WriteFile, Curation!Complete,
     Curation!Finish, Curation!Recover, Curation!Working, Curation!WriterFrame
<1>2. CASE Curation!Begin
  <2>1. UNCHANGED review
    BY <1>2 DEF Curation!Begin
  <2>2. CASE /\ revision[Curation!I].state = "none" /\ Curation!Rebuilt
             /\ Curation!Saved("prepared") /\ Curation!Go("check", {})
    BY <1>1, <2>1, <2>2, SavesOn
  <2>3. CASE revision[Curation!I].state = "applied" /\ Curation!Go("finish", {}) /\ UNCHANGED revision
    BY <1>1, <2>1, <2>3, GoesOn
  <2>4. CASE /\ revision[Curation!I].state \notin {"none", "applied"}
             /\ Curation!Go("check", {}) /\ UNCHANGED revision
    BY <1>1, <2>1, <2>4, GoesOn
  <2>5. CASE Curation!Fails /\ UNCHANGED revision
    BY <1>1, <2>1, <2>5, EndsTurn
  <2> QED BY <1>2, <2>2, <2>3, <2>4, <2>5 DEF Curation!Begin
<1>3. CASE Curation!Check
  <2>1. UNCHANGED review /\ revision[Curation!I].state \notin {"none", "applied"}
    BY <1>3 DEF Curation!Check, Curation!Working, CInv, Underway
  <2>2. CASE Curation!Saved("applying") /\ Curation!Go("write", DOMAIN revision[Curation!I].writes)
    BY <1>1, <2>1, <2>2, SavesOn
  <2>3. CASE Curation!Go("recover", {}) /\ UNCHANGED revision
    BY <1>1, <2>1, <2>3, GoesOn
  <2> QED BY <1>3, <2>2, <2>3 DEF Curation!Check
<1>4. CASE Curation!WriteFile
  <2>1. UNCHANGED <<review, revision>> /\ revision[Curation!I].state \notin {"none", "applied"}
    BY <1>4 DEF Curation!WriteFile, Curation!Working, CInv, Underway
  <2>2. Curation!Go("write", task.left \ {Curation!Here}) \/ Curation!Go("recover", {})
    BY <1>4 DEF Curation!WriteFile
  <2> QED BY <1>1, <2>1, <2>2, GoesOn
<1>5. CASE Curation!Complete
  <2>1. UNCHANGED review /\ revision[Curation!I].state \notin {"none", "applied"}
    BY <1>5 DEF Curation!Complete, Curation!Working, CInv, Underway
  <2>2. CASE Curation!Saved("applied") /\ Curation!Go("finish", {})
    BY <1>1, <2>1, <2>2, SavesOn
  <2>3. CASE Curation!Go("recover", {}) /\ UNCHANGED revision
    BY <1>1, <2>1, <2>3, GoesOn
  <2>4. CASE Curation!Fails /\ UNCHANGED revision
    BY <1>1, <2>1, <2>4, EndsTurn
  <2> QED BY <1>5, <2>2, <2>3, <2>4 DEF Curation!Complete
<1> QED BY <1>2, <1>3, <1>4, <1>5, FinishStep, RecoverStep DEF Curation!Writer

LEMMA Revised ==
  ASSUME CInv, [Curation!Next]_curationVars
  PROVE  CInv'
<1>1. CASE UNCHANGED curationVars
  BY <1>1 DEF curationVars, CInv, CurationTypes, Record, Queued, Underway, Curation!I,
     Curation!AppliedOnce, Curation!Entered
<1>2. ASSUME NEW w \in Windows,
             \/ \E v \in Reviews, sel \in SUBSET Suggestions : Curation!Preview(w, v, sel)
             \/ \E i \in Curation!Ids : Curation!PreviewUndo(w, i) \/ Curation!PreviewResume(w, i)
             \/ Curation!Confirm(w) \/ Curation!Close(w)
      PROVE  CInv'
  BY <1>2, UserStep
<1>3. ASSUME NEW v \in Reviews,
             Curation!Prepare(v) \/ Curation!Inspect(v) \/ \E s \in Suggestions : Curation!Decide(v, s)
      PROVE  CInv'
  BY <1>3, ReviewStep
<1> QED BY <1>1, <1>2, <1>3, WriterStep, OtherStep DEF Curation!Next

LEMMA NothingRevised ==
  ASSUME Curation!Init
  PROVE  CInv
<1>1. issued = 0 /\ queue = <<>> /\ task.pc = "idle"
  BY DEF Curation!Init, Curation!Resting
<1>2. /\ revision = [i \in Curation!Ids |-> Curation!NoRev]
      /\ win = [w \in Windows |-> Curation!Closed]
      /\ review = [v \in Reviews |-> Curation!NoReview]
  BY DEF Curation!Init
<1>3. /\ Record(Curation!NoRev) /\ Curation!NoRev.sel = {} /\ Curation!NoRev.undoOf = 0
      /\ DOMAIN Curation!Closed = {"pc", "id", "rev"} /\ Curation!Closed.pc = "closed"
      /\ Curation!Closed.rev = Curation!NoRev
      /\ DOMAIN Curation!NoReview = {"state", "text", "wording", "applied"}
      /\ Curation!NoReview.applied = {}
  BY DEF Curation!NoRev, Curation!Closed, Curation!NoReview, Record
<1>4. CurationTypes
  BY <1>1, <1>2, <1>3 DEF CurationTypes
<1>5. Queued /\ Underway
  BY <1>1 DEF Queued, Underway
<1>6. Curation!AppliedOnce
  BY <1>2, <1>3 DEF Curation!AppliedOnce
<1> QED BY <1>4, <1>5, <1>6 DEF CInv

(* Of the windows that two users confirm, each against what it was shown,  *)
(* no two succeed the same draft, apply the same suggestion or undo the    *)
(* same revision, and a suggestion called applied is of a revision that    *)
(* was completed, for any number of windows, reviews and revisions, with   *)
(* any reload and failure in between.                                      *)
THEOREM NothingTwice == MCSpec => []DoneOnce
<1>1. MCInit => CInv
  BY NothingRevised DEF MCInit
<1>2. ASSUME CInv, [MCNext]_allVars PROVE CInv'
  <2>1. [Curation!Next]_curationVars
    BY <1>2 DEF MCNext, Only, allVars
  <2> QED BY <1>2, <2>1, Revised
<1>3. CInv /\ DraftNeverForks => DoneOnce
  BY DEF CInv, DoneOnce
<1> QED BY <1>1, <1>2, <1>3, OneHead, PTL DEF MCSpec

-----------------------------------------------------------------------------
(* What the records of the revisions say of the files.  The operators are  *)
(* about the records rv, the notes tg of the reviews and the files fl.     *)
Written    == {"applying", "recovery", "applied"}
Pairs(has) == {<<t[1], t[2]>> : t \in has}
Of(r)      == {<<r.review, s>> : s \in r.sel}
Text(c)    == DOMAIN c = {"has", "rest"} /\ c.rest \in Nat
Around(n)  == {n, "index", "log"}

(* Suggestions that are found somewhere are of records that say so.        *)
Backed(rv, has) ==
  \A v \in Reviews, s \in Suggestions : <<v, s>> \in Pairs(has) =>
    \E i \in Curation!Ids : <<v, s>> \in Of(rv[i]) /\ rv[i].state \in Written

(* The texts of revision i of note n.                                      *)
Whole(n, writes, i) ==
  /\ {n, "log"} \subseteq DOMAIN writes /\ DOMAIN writes \subseteq Around(n)
  /\ i \in writes["log"].after.has
  /\ \A p \in DOMAIN writes :
       /\ Text(writes[p].before) /\ Text(writes[p].after)
       /\ writes[p].before.rest = writes[p].after.rest
       /\ p # n => writes[p].before.has \subseteq writes[p].after.has

Adds(x, of)   == Pairs(x.after.has) = Pairs(x.before.has) \cup of
Undoes(x, was) == x.before = was.after /\ x.after = was.before

(* Record r of revision i.  What an undo writes is what was there before.  *)
Adding(tg, rv, r) ==
  /\ Adds(r.writes[tg[r.review]], Of(r)) /\ Backed(rv, r.writes[tg[r.review]].before.has)
UndoOf(tg, rv, r) ==
  /\ r.sel = {} /\ r.undoOf \in Curation!Ids
  /\ rv[r.undoOf].state # "none" /\ rv[r.undoOf].undoOf = 0 /\ rv[r.undoOf].review = r.review
  /\ Undoes(r.writes[tg[r.review]], rv[r.undoOf].writes[tg[r.review]])
Holds(tg, rv, r, i) ==
  /\ r.review \in Reviews /\ Whole(tg[r.review], r.writes, i)
  /\ r.undoOf = 0 => Adding(tg, rv, r)
  /\ r.undoOf # 0 => UndoOf(tg, rv, r)

(* What a window shows of a new revision.                                  *)
Offers(tg, rv, x) ==
  x.pc # "closed" => /\ x.rev.undoOf # 0 => Holds(tg, rv, x.rev, x.id)
                     /\ x.rev.sel # {} => x.rev.review \in Reviews

(* What is called applied has been, and at most undone.                    *)
UndoneBy(rv, i) == \E j \in Curation!Ids : rv[j].undoOf = i /\ rv[j].state \in Written
Stands(tg, rv, fl, i) ==
  /\ i \in fl["log"].has
  /\ Of(rv[i]) \subseteq Pairs(fl[tg[rv[i].review]].has) \/ UndoneBy(rv, i)

WikiTypes == /\ target \in [Reviews -> Curated]
             /\ wiki = [p \in Curation!Paths |-> wiki[p]]
             /\ \A p \in Curation!Paths : Text(wiki[p])

RecordsKept ==
  /\ \A i \in Curation!Ids : revision[i].state # "none" => Holds(target, revision, revision[i], i)
  /\ \A w \in Windows : Offers(target, revision, win[w])

NotesBacked  == \A n \in Curated : Backed(revision, wiki[n].has)
AppliedStand == \A i \in Curation!Ids : revision[i].state = "applied" =>
                                          Stands(target, revision, wiki, i)

(* The writer, which has written all that is not left.                     *)
Rewriting ==
  task.pc = "write" =>
    /\ revision[Curation!I].state = "applying"
    /\ task.left \subseteq DOMAIN revision[Curation!I].writes
    /\ \A p \in DOMAIN revision[Curation!I].writes \ task.left :
         revision[Curation!I].writes[p].after.has \subseteq wiki[p].has

ChangeInv == CInv /\ WikiTypes /\ RecordsKept /\ NotesBacked /\ AppliedStand /\ Rewriting

-----------------------------------------------------------------------------
(* Records that exist keep what they say, and go on being written.         *)
Lasting ==
  \A i \in Curation!Ids : revision[i].state # "none" =>
    /\ revision'[i].state # "none"
    /\ revision'[i].review = revision[i].review /\ revision'[i].sel = revision[i].sel
    /\ revision'[i].undoOf = revision[i].undoOf /\ revision'[i].writes = revision[i].writes
    /\ revision[i].state \in Written => revision'[i].state \in Written

LEMMA SameOf ==
  ASSUME NEW r, NEW q, q.review = r.review, q.sel = r.sel
  PROVE  Of(q) = Of(r)
BY DEF Of

LEMMA BackedStays ==
  ASSUME Lasting
  PROVE  \A h : Backed(revision, h) => Backed(revision', h)
<1> SUFFICES ASSUME NEW h, Backed(revision, h), NEW v \in Reviews, NEW s \in Suggestions,
                    <<v, s>> \in Pairs(h)
             PROVE  \E i \in Curation!Ids :
                      <<v, s>> \in Of(revision'[i]) /\ revision'[i].state \in Written
  BY DEF Backed
<1>1. PICK i \in Curation!Ids : <<v, s>> \in Of(revision[i]) /\ revision[i].state \in Written
  BY DEF Backed
<1>2. revision[i].state # "none"
  BY <1>1 DEF Written
<1>3. Of(revision'[i]) = Of(revision[i])
  BY <1>2, SameOf DEF Lasting
<1> QED BY <1>1, <1>2, <1>3 DEF Lasting

LEMMA HoldsStays ==
  ASSUME Lasting
  PROVE  \A r, i : Holds(target, revision, r, i) => Holds(target, revision', r, i)
<1> SUFFICES ASSUME NEW r, NEW i, Holds(target, revision, r, i) PROVE Holds(target, revision', r, i)
  OBVIOUS
<1>1. Adding(target, revision, r) => Adding(target, revision', r)
  BY BackedStays DEF Adding
<1>2. UndoOf(target, revision, r) => UndoOf(target, revision', r)
  <2> HAVE UndoOf(target, revision, r)
  <2> DEFINE k == r.undoOf
  <2>1. k \in Curation!Ids /\ revision[k].state # "none"
    BY DEF UndoOf
  <2>2. /\ revision'[k].state # "none" /\ revision'[k].undoOf = revision[k].undoOf
        /\ revision'[k].review = revision[k].review /\ revision'[k].writes = revision[k].writes
    BY <2>1 DEF Lasting
  <2> QED BY <2>1, <2>2 DEF UndoOf
<1> QED BY <1>1, <1>2 DEF Holds

LEMMA SameHolds ==
  ASSUME NEW tg, NEW rv, NEW r, NEW q, NEW i, Holds(tg, rv, r, i),
         q.review = r.review, q.sel = r.sel, q.undoOf = r.undoOf, q.writes = r.writes
  PROVE  Holds(tg, rv, q, i)
<1>1. Of(q) = Of(r)
  BY SameOf
<1>2. Adding(tg, rv, r) => Adding(tg, rv, q)
  BY <1>1 DEF Adding
<1>3. UndoOf(tg, rv, r) => UndoOf(tg, rv, q)
  BY DEF UndoOf
<1> QED BY <1>2, <1>3 DEF Holds

LEMMA NothingLasts ==
  ASSUME UNCHANGED revision
  PROVE  Lasting
BY DEF Lasting

LEMMA SavedLasts ==
  ASSUME CInv, queue # <<>>, NEW state \in {"prepared"} \cup Written, Curation!Saved(state),
         state = "prepared" => revision[Curation!I].state = "none"
  PROVE  Lasting
<1> DEFINE i == Curation!I
<1>1. /\ i \in Curation!Ids
      /\ \A j \in Curation!Ids \ {i} : revision'[j] = revision[j]
      /\ revision'[i].state = state
      /\ revision[i].state # "none" =>
           /\ revision'[i].sel = revision[i].sel /\ revision'[i].review = revision[i].review
           /\ revision'[i].undoOf = revision[i].undoOf /\ revision'[i].writes = revision[i].writes
  BY RecordSaved
<1>2. revision[i].state # "none" => state \in Written
  OBVIOUS
<1> HIDE DEF i
<1>3. state # "none"
  BY DEF Written
<1> QED BY <1>1, <1>2, <1>3 DEF Lasting

LEMMA UndoneStays ==
  ASSUME Lasting, NEW i, UndoneBy(revision, i)
  PROVE  UndoneBy(revision', i)
BY DEF Lasting, Written, UndoneBy

(* What stands goes on standing where the files stay.                      *)
LEMMA StandsOn ==
  ASSUME Lasting, NEW i \in Curation!Ids, revision[i].state # "none",
         Stands(target, revision, wiki, i)
  PROVE  Stands(target, revision', wiki, i)
<1>1. Of(revision'[i]) = Of(revision[i]) /\ revision'[i].review = revision[i].review
  BY SameOf DEF Lasting
<1> QED BY <1>1, UndoneStays DEF Stands

(* A step that leaves the files: what is shown or saved besides is kept.   *)
LEMMA WikiStays ==
  ASSUME ChangeInv, CInv', Lasting, UNCHANGED <<target, wiki>>,
         \A i \in Curation!Ids : revision'[i].state # "none" =>
           revision[i].state # "none" \/ Holds(target, revision, revision'[i], i),
         \A i \in Curation!Ids : revision'[i].state = "applied" =>
           revision[i].state = "applied" \/ Stands(target, revision', wiki, i),
         \A w \in Windows : Offers(target, revision, win'[w]),
         Rewriting'
  PROVE  ChangeInv'
<1>1. WikiTypes'
  BY DEF ChangeInv, WikiTypes, Curation!Paths
<1>2. ASSUME NEW i \in Curation!Ids, revision'[i].state # "none"
      PROVE  Holds(target, revision', revision'[i], i)
  <2>1. CASE revision[i].state # "none"
    <3>1. Holds(target, revision', revision[i], i)
      BY <2>1, HoldsStays DEF ChangeInv, RecordsKept
    <3> QED BY <2>1, <3>1, SameHolds DEF Lasting
  <2> QED BY <1>2, <2>1, HoldsStays
<1>3. RecordsKept'
  <2>1. ASSUME NEW w \in Windows PROVE Offers(target, revision', win'[w])
    <3>1. Offers(target, revision, win'[w])
      OBVIOUS
    <3> QED BY <3>1, HoldsStays DEF Offers
  <2> QED BY <1>2, <2>1 DEF RecordsKept
<1>4. NotesBacked'
  BY BackedStays DEF ChangeInv, NotesBacked
<1>5. AppliedStand'
  BY StandsOn DEF ChangeInv, AppliedStand
<1> QED BY <1>1, <1>3, <1>4, <1>5 DEF ChangeInv

-----------------------------------------------------------------------------
(* The windows and the reviews.                                            *)

(* While the writer is at work, its window is no other's to change.        *)
LEMMA TurnKept ==
  ASSUME CInv, NEW w \in Windows, win[w].pc # "queued", task.pc # "idle",
         \A v \in Windows \ {w} : win'[v] = win[v],
         queue' = queue \/ (queue' = Append(queue, w))
  PROVE  queue' # <<>> /\ Head(queue') = Head(queue) /\ Curation!I' = Curation!I
<1>1. queue # <<>> /\ queue \in Seq(Windows)
  BY DEF CInv, Underway, Queued
<1>2. queue' # <<>> /\ Head(queue') = Head(queue)
  BY <1>1
<1>3. Head(queue) \in Windows \ {w}
  BY <1>1, HeadQueued
<1> QED BY <1>2, <1>3 DEF Curation!I

LEMMA WindowKeeps ==
  ASSUME ChangeInv, CInv', NEW w \in Windows, win[w].pc # "queued",
         UNCHANGED <<target, wiki, revision, task>>,
         \A v \in Windows \ {w} : win'[v] = win[v],
         queue' = queue \/ (queue' = Append(queue, w)),
         Offers(target, revision, win'[w])
  PROVE  ChangeInv'
<1>1. Lasting
  BY NothingLasts
<1>2. Rewriting'
  <2>1. CASE task.pc = "idle"
    BY <2>1 DEF Rewriting
  <2>2. CASE task.pc # "idle"
    <3>1. Curation!I' = Curation!I
      BY <2>2, TurnKept DEF ChangeInv
    <3> QED BY <3>1 DEF ChangeInv, Rewriting
  <2> QED BY <2>1, <2>2
<1>3. \A v \in Windows : Offers(target, revision, win'[v])
  BY DEF ChangeInv, RecordsKept
<1> QED BY <1>1, <1>2, <1>3, WikiStays

(* The texts of an undo are those of its revision, turned round.           *)
LEMMA UndoHolds ==
  ASSUME ChangeInv, NEW i \in Curation!Ids, NEW j, revision[i].state = "applied",
         revision[i].undoOf = 0, NEW r, r.review = revision[i].review, r.sel = {}, r.undoOf = i,
         r.writes = Curation!Undoing(i, j)
  PROVE  Holds(target, revision, r, j)
<1> DEFINE n == target[r.review]
           old == revision[i].writes
<1>1. r.review \in Reviews /\ Whole(n, old, i)
  BY DEF ChangeInv, RecordsKept, Holds
<1>2. n \in Curated /\ n # "log" /\ n # "index"
  BY <1>1, StoresAssumption DEF ChangeInv, WikiTypes, Curation!CurationAssumption
<1> HIDE DEF n, old
<1>3. /\ DOMAIN r.writes = {n, "log"}
      /\ r.writes[n] = [before |-> old[n].after, after |-> old[n].before]
      /\ r.writes["log"] = Curation!Change("log", {j})
  BY <1>2 DEF Curation!Undoing, n, old
<1>4. /\ r.writes["log"].before = wiki["log"]
      /\ r.writes["log"].after = [wiki["log"] EXCEPT !.has = @ \cup {j}]
  BY <1>3 DEF Curation!Change
<1>5. Text(wiki["log"])
  BY DEF ChangeInv, WikiTypes, Curation!Paths
<1>6. /\ Text(r.writes["log"].after) /\ r.writes["log"].after.rest = wiki["log"].rest
      /\ r.writes["log"].after.has = wiki["log"].has \cup {j}
  BY <1>4, <1>5 DEF Text
<1>7. Whole(n, r.writes, j)
  <2>1. /\ Text(old[n].before) /\ Text(old[n].after) /\ old[n].before.rest = old[n].after.rest
    BY <1>1 DEF Whole
  <2>2. /\ r.writes[n].before = old[n].after /\ r.writes[n].after = old[n].before
    BY <1>3
  <2>3. ASSUME NEW p \in DOMAIN r.writes
        PROVE  /\ Text(r.writes[p].before) /\ Text(r.writes[p].after)
               /\ r.writes[p].before.rest = r.writes[p].after.rest
               /\ p # n => r.writes[p].before.has \subseteq r.writes[p].after.has
    <3>1. CASE p = n
      BY <2>1, <2>2, <3>1
    <3>2. CASE p = "log"
      BY <1>2, <1>4, <1>5, <1>6, <3>2 DEF Text
    <3> QED BY <1>3, <3>1, <3>2
  <2> QED BY <1>3, <1>6, <2>3 DEF Whole, Around
<1>8. UndoOf(target, revision, r)
  BY <1>3 DEF UndoOf, Undoes, n, old
<1> QED BY <1>1, <1>7, <1>8 DEF Holds, n, Curation!Ids

LEMMA UserChange ==
  ASSUME ChangeInv, NEW w \in Windows,
         \/ \E v \in Reviews, sel \in SUBSET Suggestions : Curation!Preview(w, v, sel)
         \/ \E i \in Curation!Ids : Curation!PreviewUndo(w, i) \/ Curation!PreviewResume(w, i)
         \/ Curation!Confirm(w) \/ Curation!Close(w)
  PROVE  ChangeInv'
<1>1. CInv'
  BY UserStep DEF ChangeInv
<1>2. UNCHANGED <<target, wiki, revision, task>> /\ win = [v \in Windows |-> win[v]]
  BY DEF Curation!Preview, Curation!PreviewUndo, Curation!PreviewResume, Curation!Confirm,
         Curation!Close, Curation!UserFrame, ChangeInv, CInv, CurationTypes
<1>3. ASSUME NEW r, NEW i, Curation!Shows(w, i, r), win[w].pc = "closed", queue' = queue,
             r.undoOf # 0 => Holds(target, revision, r, i), r.sel # {} => r.review \in Reviews
      PROVE  ChangeInv'
  <2>1. win'[w].rev = r /\ win'[w].id = i /\ \A v \in Windows \ {w} : win'[v] = win[v]
    BY <1>2, <1>3 DEF Curation!Shows
  <2>2. Offers(target, revision, win'[w])
    BY <1>3, <2>1 DEF Offers
  <2> QED BY <1>1, <1>2, <1>3, <2>1, <2>2, WindowKeeps
<1>4. ASSUME NEW v \in Reviews, NEW sel \in SUBSET Suggestions, Curation!Preview(w, v, sel)
      PROVE  ChangeInv'
  <2> DEFINE r == [Curation!NoRev EXCEPT !.review = v, !.sel = sel, !.state = "prepared",
                     !.writes = Curation!Planned(v, sel, issued + 1)]
  <2>1. Curation!Shows(w, issued + 1, r) /\ win[w].pc = "closed" /\ queue' = queue
    BY <1>4 DEF Curation!Preview
  <2>2. r.undoOf = 0 /\ r.review \in Reviews
    BY DEF Curation!NoRev
  <2> HIDE DEF r
  <2> QED BY <1>3, <2>1, <2>2
<1>5. ASSUME NEW i \in Curation!Ids, Curation!PreviewUndo(w, i) PROVE ChangeInv'
  <2> DEFINE r == [Curation!NoRev EXCEPT !.review = revision[i].review, !.undoOf = i,
                     !.state = "prepared", !.writes = Curation!Undoing(i, issued + 1)]
  <2>1. /\ Curation!Shows(w, issued + 1, r) /\ win[w].pc = "closed" /\ queue' = queue
        /\ revision[i].state = "applied" /\ revision[i].undoOf = 0
    BY <1>5 DEF Curation!PreviewUndo
  <2>2. /\ r.review = revision[i].review /\ r.sel = {} /\ r.undoOf = i
        /\ r.writes = Curation!Undoing(i, issued + 1)
    BY DEF Curation!NoRev
  <2> HIDE DEF r
  <2>3. Holds(target, revision, r, issued + 1)
    BY <2>1, <2>2, UndoHolds
  <2> QED BY <1>3, <2>1, <2>2, <2>3
<1>6. ASSUME NEW i \in Curation!Ids, Curation!PreviewResume(w, i) PROVE ChangeInv'
  <2>1. /\ Curation!Shows(w, i, Curation!NoRev) /\ win[w].pc = "closed" /\ queue' = queue
        /\ Curation!NoRev.undoOf = 0 /\ Curation!NoRev.sel = {}
    BY <1>6 DEF Curation!PreviewResume, Curation!NoRev
  <2> QED BY <1>3, <2>1
<1>7. CASE Curation!Confirm(w)
  <2>1. /\ win[w].pc = "shown" /\ queue' = Append(queue, w)
        /\ win'[w].rev = win[w].rev /\ win'[w].id = win[w].id
        /\ \A v \in Windows \ {w} : win'[v] = win[v]
    BY <1>2, <1>7 DEF Curation!Confirm, ChangeInv, CInv, CurationTypes
  <2>2. Offers(target, revision, win'[w])
    BY <2>1 DEF ChangeInv, RecordsKept, Offers
  <2> QED BY <1>1, <1>2, <2>1, <2>2, WindowKeeps
<1>8. CASE Curation!Close(w)
  <2>1. /\ win[w].pc = "shown" /\ queue' = queue /\ win'[w].pc = "closed"
        /\ \A v \in Windows \ {w} : win'[v] = win[v]
    BY <1>2, <1>8 DEF Curation!Close, Curation!Closed
  <2>2. Offers(target, revision, win'[w])
    BY <2>1 DEF Offers
  <2> QED BY <1>1, <1>2, <2>1, <2>2, WindowKeeps
<1> QED BY <1>4, <1>5, <1>6, <1>7, <1>8

LEMMA ReviewChange ==
  ASSUME ChangeInv, NEW v \in Reviews,
         Curation!Prepare(v) \/ Curation!Inspect(v) \/ \E s \in Suggestions : Curation!Decide(v, s)
  PROVE  ChangeInv'
<1>1. CInv' /\ UNCHANGED <<target, wiki, revision, win, queue, task>>
  BY ReviewStep DEF ChangeInv, Curation!Prepare, Curation!Inspect, Curation!Decide,
                    Curation!UserFrame
<1>2. Lasting /\ Rewriting'
  BY <1>1, NothingLasts DEF ChangeInv, Rewriting, Curation!I
<1>3. \A w \in Windows : Offers(target, revision, win'[w])
  BY <1>1 DEF ChangeInv, RecordsKept
<1> QED BY <1>1, <1>2, <1>3, WikiStays

-----------------------------------------------------------------------------
(* The writer.                                                             *)

(* It ends its turn; the record of the revision may say that it failed.    *)
LEMMA TurnEnds ==
  ASSUME ChangeInv, CInv', queue # <<>>, UNCHANGED <<target, wiki>>,
         Curation!Done(Curation!Closed) \/ Curation!Fails,
         \/ UNCHANGED revision
         \/ Curation!Saved("recovery") /\ revision[Curation!I].state # "none"
  PROVE  ChangeInv'
<1>1. PICK to : /\ win' = [win EXCEPT ![Head(queue)] = to] /\ task' = Curation!Resting
                /\ to = Curation!Closed \/ to = [win[Head(queue)] EXCEPT !.pc = "shown"]
  BY DEF Curation!Done, Curation!Fails
<1>2. Head(queue) \in Windows /\ win[Head(queue)].pc = "queued"
  BY HeadQueued DEF ChangeInv
<1>3. Offers(target, revision, to)
  <2>1. CASE to = Curation!Closed
    BY <2>1 DEF Offers, Curation!Closed
  <2>2. CASE to = [win[Head(queue)] EXCEPT !.pc = "shown"]
    <3>1. /\ to.rev = win[Head(queue)].rev /\ to.id = win[Head(queue)].id
      BY <1>2, <2>2 DEF ChangeInv, CInv, CurationTypes
    <3>2. Offers(target, revision, win[Head(queue)])
      BY <1>2 DEF ChangeInv, RecordsKept
    <3> QED BY <1>2, <3>1, <3>2 DEF Offers
  <2> QED BY <1>1, <2>1, <2>2
<1>4. \A w \in Windows : Offers(target, revision, win'[w])
  <2>1. win'[Head(queue)] = to /\ \A w \in Windows \ {Head(queue)} : win'[w] = win[w]
    BY <1>1, <1>2 DEF ChangeInv, CInv, CurationTypes
  <2> QED BY <1>3, <2>1 DEF ChangeInv, RecordsKept
<1>5. Rewriting'
  BY <1>1 DEF Rewriting, Curation!Resting
<1>6. /\ Lasting
      /\ \A i \in Curation!Ids : revision'[i].state # "none" => revision[i].state # "none"
      /\ \A i \in Curation!Ids : revision'[i].state = "applied" => revision[i].state = "applied"
  <2>1. CASE UNCHANGED revision
    BY <2>1, NothingLasts
  <2>2. CASE Curation!Saved("recovery") /\ revision[Curation!I].state # "none"
    <3>1. Lasting
      BY <2>2, SavedLasts DEF ChangeInv, Written
    <3>2. /\ \A j \in Curation!Ids \ {Curation!I} : revision'[j] = revision[j]
          /\ revision'[Curation!I].state = "recovery"
      BY <2>2, RecordSaved DEF ChangeInv
    <3> QED BY <2>2, <3>1, <3>2
  <2> QED BY <2>1, <2>2
<1> QED BY <1>4, <1>5, <1>6, WikiStays

(* It goes on, to something else than writing, and saves nothing.          *)
LEMMA GoesWithout ==
  ASSUME ChangeInv, CInv', queue # <<>>, UNCHANGED <<target, wiki, revision>>,
         NEW there, NEW k, Curation!Go(there, k), there # "write"
  PROVE  ChangeInv'
<1>1. UNCHANGED <<win, queue>> /\ task'.pc = there
  BY DEF Curation!Go
<1>2. Rewriting' /\ Lasting
  BY <1>1, NothingLasts DEF Rewriting
<1>3. \A w \in Windows : Offers(target, revision, win'[w])
  BY <1>1 DEF ChangeInv, RecordsKept
<1> QED BY <1>2, <1>3, WikiStays

(* It goes on with a record that is new, or has another state.             *)
LEMMA GoesWith ==
  ASSUME ChangeInv, CInv', queue # <<>>, UNCHANGED <<target, wiki>>,
         NEW state \in {"prepared"} \cup Written, Curation!Saved(state),
         state = "prepared" => revision[Curation!I].state = "none",
         revision[Curation!I].state = "none" =>
           Holds(target, revision, Curation!Shown, Curation!I),
         state = "applied" => Stands(target, revision', wiki, Curation!I),
         NEW there, NEW k, Curation!Go(there, k), Rewriting'
  PROVE  ChangeInv'
<1>1. UNCHANGED <<win, queue>>
  BY DEF Curation!Go
<1>2. Lasting
  BY SavedLasts DEF ChangeInv
<1> DEFINE i == Curation!I
<1>3. /\ i \in Curation!Ids
      /\ \A j \in Curation!Ids \ {i} : revision'[j] = revision[j]
      /\ revision'[i].state = state
      /\ revision[i].state = "none" =>
           /\ revision'[i].sel = Curation!Shown.sel /\ revision'[i].review = Curation!Shown.review
           /\ revision'[i].undoOf = Curation!Shown.undoOf
           /\ revision'[i].writes = Curation!Shown.writes
  BY RecordSaved DEF ChangeInv, Curation!Shown
<1>4. revision[i].state = "none" => Holds(target, revision, revision'[i], i)
  BY <1>3, SameHolds
<1>5. \A j \in Curation!Ids : revision'[j].state # "none" =>
           revision[j].state # "none" \/ Holds(target, revision, revision'[j], j)
  BY <1>3, <1>4
<1>6. \A j \in Curation!Ids : revision'[j].state = "applied" =>
           revision[j].state = "applied" \/ Stands(target, revision', wiki, j)
  BY <1>3
<1>7. \A w \in Windows : Offers(target, revision, win'[w])
  BY <1>1 DEF ChangeInv, RecordsKept
<1> QED BY <1>2, <1>5, <1>6, <1>7, WikiStays

LEMMA PairsGrow ==
  ASSUME NEW A, NEW B, A \subseteq B
  PROVE  Pairs(A) \subseteq Pairs(B)
BY DEF Pairs

LEMMA PairsJoin ==
  ASSUME NEW A, NEW B
  PROVE  Pairs(A \cup B) = Pairs(A) \cup Pairs(B)
BY DEF Pairs

LEMMA Grown ==
  ASSUME NEW c, NEW e, NEW x, Text(c), x = [c EXCEPT !.has = @ \cup e]
  PROVE  Text(x) /\ x.rest = c.rest /\ x.has = c.has \cup e
BY DEF Text

(* What passes the check before it is saved is a whole revision.           *)
LEMMA RebuiltHolds ==
  ASSUME ChangeInv, queue # <<>>, Curation!Rebuilt
  PROVE  Holds(target, revision, Curation!Shown, Curation!I)
<1> DEFINE r == Curation!Shown
           i == Curation!I
           n == target[r.review]
<1>1. /\ Head(queue) \in Windows /\ win[Head(queue)].pc = "queued"
      /\ i = win[Head(queue)].id /\ r = win[Head(queue)].rev
      /\ Offers(target, revision, win[Head(queue)])
  BY HeadQueued DEF ChangeInv, RecordsKept, Curation!I, Curation!Shown
<1>2. CASE r.undoOf # 0
  BY <1>1, <1>2 DEF Offers
<1>3. CASE r.undoOf = 0
  <2>1. /\ r.sel # {} /\ wiki[n] = review[r.review].text
        /\ r.writes = Curation!Planned(r.review, r.sel, i)
    BY <1>3 DEF Curation!Rebuilt, Curation!Ready
  <2>2. r.review \in Reviews
    BY <1>1, <2>1 DEF Offers
  <2>3. n \in Curated /\ n # "log" /\ n # "index"
    BY <2>2, StoresAssumption DEF ChangeInv, WikiTypes, Curation!CurationAssumption
  <2> DEFINE new == {<<r.review, s, review[r.review].wording[s]>> : s \in r.sel}
             also == IF n \in wiki["index"].has THEN {} ELSE {"index"}
             added(p) == IF p = "index" THEN {n} ELSE IF p = "log" THEN {i} ELSE new
  <2>4. /\ DOMAIN r.writes = {n, "log"} \cup also
        /\ \A p \in DOMAIN r.writes :
             /\ Text(r.writes[p].before) /\ Text(r.writes[p].after)
             /\ r.writes[p].before.rest = r.writes[p].after.rest
             /\ r.writes[p].after.has = r.writes[p].before.has \cup added(p)
        /\ r.writes[n].before = wiki[n]
    <3> HIDE DEF r, i
    <3>1. r.writes = [p \in {n, "log"} \cup also |->
             CASE p = "index" -> Curation!Change(p, {n})
               [] p = "log"   -> Curation!Change(p, {i})
               [] OTHER       -> [before |-> review[r.review].text,
                                  after |-> Curation!NoteText(r.review, r.sel)]]
      BY <2>1 DEF Curation!Planned
    <3>2. Curation!NoteText(r.review, r.sel) = [wiki[n] EXCEPT !.has = @ \cup new]
      BY <2>1 DEF Curation!NoteText
    <3>3. review[r.review].text = wiki[n]
      BY <2>1
    <3>4. also \subseteq {"index"}
      OBVIOUS
    <3> HIDE DEF n, new, also
    <3>5. r.writes["log"] = Curation!Change("log", {i})
      BY <2>3, <3>1
    <3>6. "index" \in also => r.writes["index"] = Curation!Change("index", {n})
      BY <2>3, <3>1
    <3>7. r.writes[n] = [before |-> wiki[n], after |-> [wiki[n] EXCEPT !.has = @ \cup new]]
      BY <2>3, <3>1, <3>2, <3>3
    <3>8. DOMAIN r.writes = {n, "log"} \cup also
      BY <3>1
    <3>9. Text(wiki[n]) /\ Text(wiki["log"]) /\ Text(wiki["index"])
      BY <2>3 DEF ChangeInv, WikiTypes, Curation!Paths
    <3>10. ASSUME NEW p, NEW e,
                  r.writes[p] = [before |-> wiki[p], after |-> [wiki[p] EXCEPT !.has = @ \cup e]],
                  Text(wiki[p])
           PROVE  /\ Text(r.writes[p].before) /\ Text(r.writes[p].after)
                  /\ r.writes[p].before.rest = r.writes[p].after.rest
                  /\ r.writes[p].after.has = r.writes[p].before.has \cup e
      <4>1. r.writes[p].before = wiki[p] /\ r.writes[p].after = [wiki[p] EXCEPT !.has = @ \cup e]
        BY <3>10
      <4> QED BY <3>10, <4>1, Grown
    <3>11. r.writes["log"] = [before |-> wiki["log"], after |-> [wiki["log"] EXCEPT !.has = @ \cup {i}]]
      BY <3>5 DEF Curation!Change
    <3>12. "index" \in also =>
             r.writes["index"] = [before |-> wiki["index"],
                                  after |-> [wiki["index"] EXCEPT !.has = @ \cup {n}]]
      BY <3>6 DEF Curation!Change
    <3>13. added(n) = new /\ added("log") = {i} /\ added("index") = {n}
      BY <2>3
    <3> DEFINE fits(p, e) == /\ Text(r.writes[p].before) /\ Text(r.writes[p].after)
                             /\ r.writes[p].before.rest = r.writes[p].after.rest
                             /\ r.writes[p].after.has = r.writes[p].before.has \cup e
    <3> HIDE DEF added
    <3>14. fits(n, new) /\ fits("log", {i}) /\ ("index" \in also => fits("index", {n}))
      BY <3>7, <3>9, <3>10, <3>11, <3>12
    <3> HIDE DEF fits
    <3>15. \A p \in DOMAIN r.writes : fits(p, added(p))
      BY <3>4, <3>8, <3>13, <3>14
    <3>16. r.writes[n].before = wiki[n]
      BY <3>7
    <3> QED BY <3>8, <3>15, <3>16 DEF fits
  <2>5. added("log") = {i} /\ added(n) = new /\ DOMAIN r.writes \subseteq Around(n)
    BY <2>3, <2>4 DEF Around
  <2> HIDE DEF r, i, n, new, added, also
  <2>7. Whole(n, r.writes, i)
    BY <2>4, <2>5 DEF Whole
  <2>8. Adding(target, revision, r)
    <3>1. Backed(revision, r.writes[n].before.has)
      BY <2>3, <2>4 DEF ChangeInv, NotesBacked
    <3>2. Pairs(new) = Of(r)
      <4>1. \A s \in r.sel : <<r.review, s>> \in Pairs(new)
        <5> TAKE s \in r.sel
        <5> DEFINE t == <<r.review, s, review[r.review].wording[s]>>
        <5>1. t \in new /\ <<t[1], t[2]>> = <<r.review, s>>
          BY DEF new
        <5> HIDE DEF t
        <5> QED BY <5>1 DEF Pairs
      <4>2. ASSUME NEW x \in Pairs(new) PROVE x \in Of(r)
        <5>1. PICK t \in new : x = <<t[1], t[2]>>
          BY DEF Pairs
        <5>2. PICK s \in r.sel : t = <<r.review, s, review[r.review].wording[s]>>
          BY DEF new
        <5> QED BY <5>1, <5>2 DEF Of
      <4> QED BY <4>1, <4>2 DEF Of
    <3>3. r.writes[n].after.has = r.writes[n].before.has \cup new
      BY <2>4, <2>5
    <3> QED BY <3>1, <3>2, <3>3, PairsJoin DEF Adding, Adds, n
  <2> QED BY <1>3, <2>2, <2>7, <2>8 DEF Holds, n, r, i
<1> QED BY <1>2, <1>3

-----------------------------------------------------------------------------
(* A file is written.                                                      *)
Now     == revision[Curation!I]
NowNote == target[Now.review]

LEMMA NowIs ==
  ASSUME ChangeInv, queue # <<>>, task.pc = "write"
  PROVE  /\ Curation!I \in Curation!Ids /\ Now.state = "applying"
         /\ Holds(target, revision, Now, Curation!I)
         /\ Now.review \in Reviews /\ NowNote \in Curated
         /\ NowNote # "log" /\ NowNote # "index" /\ Around(NowNote) \subseteq Curation!Paths
<1>1. Curation!I \in Curation!Ids /\ Now.state = "applying"
  BY HeadQueued DEF ChangeInv, Rewriting, Now
<1>2. Holds(target, revision, Now, Curation!I)
  BY <1>1 DEF ChangeInv, RecordsKept, Now
<1>3. Now.review \in Reviews /\ NowNote \in Curated
  BY <1>2 DEF Holds, ChangeInv, WikiTypes, NowNote
<1> QED BY <1>1, <1>2, <1>3, StoresAssumption DEF Curation!CurationAssumption, Around, Curation!Paths

LEMMA FileIsLeft ==
  ASSUME ChangeInv, queue # <<>>, task.pc = "write", task.left # {}
  PROVE  Curation!Here \in task.left /\ Curation!Here \in DOMAIN Now.writes
<1> DEFINE files == Curation!Order(Now)
           ok(k) == files[k] \in task.left /\ \A j \in 1 .. k - 1 : files[j] \notin task.left
<1>0. task.left \subseteq DOMAIN Now.writes /\ DOMAIN Now.writes \subseteq Around(NowNote)
  BY NowIs DEF ChangeInv, Rewriting, Holds, Whole, Now, NowNote
<1>1. files[1] = NowNote /\ files[2] = "index" /\ files[3] = "log"
  BY DEF Curation!Order, NowNote
<1>2. \E k \in 1 .. 3 : ok(k)
  <2>1. CASE files[1] \in task.left
    BY <2>1
  <2>2. CASE files[1] \notin task.left /\ files[2] \in task.left
    <3>1. \A j \in 1 .. 2 - 1 : j = 1
      OBVIOUS
    <3> QED BY <2>2, <3>1
  <2>3. CASE files[1] \notin task.left /\ files[2] \notin task.left /\ files[3] \in task.left
    <3>1. \A j \in 1 .. 3 - 1 : j = 1 \/ j = 2
      OBVIOUS
    <3> QED BY <2>3, <3>1
  <2> QED BY <1>0, <1>1, <2>1, <2>2, <2>3 DEF Around
<1>3. Curation!Here = files[CHOOSE k \in 1 .. 3 : ok(k)]
  BY DEF Curation!Here, Now
<1>4. ok(CHOOSE k \in 1 .. 3 : ok(k))
  <2> HIDE DEF ok
  <2> QED BY <1>2
<1> QED BY <1>0, <1>3, <1>4

(* What the step writes: the text of the revision at hand.                 *)
Writes(p) ==
  /\ queue # <<>> /\ task.pc = "write" /\ p \in task.left /\ p \in DOMAIN Now.writes
  /\ wiki[p] \in {Now.writes[p].before, Now.writes[p].after}
  /\ wiki' = [wiki EXCEPT ![p] = Now.writes[p].after]

LEMMA FileChanges ==
  ASSUME ChangeInv, NEW p, Writes(p)
  PROVE  /\ wiki' = [q \in Curation!Paths |-> wiki'[q]] /\ p \in Curation!Paths
         /\ wiki'[p] = Now.writes[p].after /\ \A q \in Curation!Paths \ {p} : wiki'[q] = wiki[q]
         /\ Text(wiki[p]) /\ Text(wiki'[p]) /\ wiki'[p].rest = wiki[p].rest
         /\ p # NowNote => wiki[p].has \subseteq wiki'[p].has
         /\ p \in Curated => p = NowNote
<1>1. /\ Whole(NowNote, Now.writes, Curation!I) /\ Around(NowNote) \subseteq Curation!Paths
  BY NowIs DEF Writes, Holds, NowNote
<1>2. p \in Around(NowNote) /\ p \in Curation!Paths
  BY <1>1 DEF Writes, Whole
<1>3. wiki' = [q \in Curation!Paths |-> wiki'[q]] /\ wiki'[p] = Now.writes[p].after
      /\ \A q \in Curation!Paths \ {p} : wiki'[q] = wiki[q]
  BY <1>2 DEF Writes, ChangeInv, WikiTypes
<1>4. /\ Text(Now.writes[p].before) /\ Text(Now.writes[p].after)
      /\ Now.writes[p].before.rest = Now.writes[p].after.rest
      /\ p # NowNote => Now.writes[p].before.has \subseteq Now.writes[p].after.has
  BY <1>1 DEF Writes, Whole
<1>5. p \in Curated => p = NowNote
  BY <1>2, StoresAssumption DEF Around, Curation!CurationAssumption
<1> QED BY <1>2, <1>3, <1>4, <1>5 DEF Writes

(* The note, when it is the one that is written.  An undo turns round      *)
(* what its revision k, and no other, has added.                           *)
LEMMA NoteTurns ==
  ASSUME ChangeInv, queue # <<>>, task.pc = "write", Now.undoOf # 0
  PROVE  LET k == Now.undoOf  x == Now.writes[NowNote]
         IN  /\ k \in Curation!Ids /\ Adds([before |-> x.after, after |-> x.before], Of(revision[k]))
             /\ Backed(revision, x.after.has)
<1> DEFINE k == Now.undoOf
           x == Now.writes[NowNote]
           was == revision[k].writes[NowNote]
<1>1. /\ k \in Curation!Ids /\ revision[k].state # "none" /\ revision[k].undoOf = 0
      /\ revision[k].review = Now.review /\ x.before = was.after /\ x.after = was.before
  BY NowIs DEF Holds, UndoOf, Undoes, NowNote
<1>2. Holds(target, revision, revision[k], k)
  BY <1>1 DEF ChangeInv, RecordsKept
<1>3. Adds(was, Of(revision[k])) /\ Backed(revision, was.before.has)
  BY <1>1, <1>2 DEF Holds, Adding, NowNote
<1> HIDE DEF k, x, was
<1>4. Adds([before |-> x.after, after |-> x.before], Of(revision[k])) /\ Backed(revision, x.after.has)
  BY <1>1, <1>3 DEF Adds
<1> QED BY <1>1, <1>4 DEF k, x

LEMMA NoteBacked ==
  ASSUME ChangeInv, Writes(NowNote)
  PROVE  Backed(revision, Now.writes[NowNote].after.has)
<1>0. queue # <<>> /\ task.pc = "write"
  BY DEF Writes
<1>1. CASE Now.undoOf # 0
  BY <1>0, <1>1, NoteTurns
<1>2. CASE Now.undoOf = 0
  <2> DEFINE x == Now.writes[NowNote]
  <2>1. Adds(x, Of(Now)) /\ Backed(revision, x.before.has)
    BY <1>0, <1>2, NowIs DEF Holds, Adding, NowNote
  <2>2. Curation!I \in Curation!Ids /\ Now.state \in Written
    BY <1>0, NowIs DEF Written
  <2> HIDE DEF x
  <2>3. Backed(revision, x.after.has)
    BY <2>1, <2>2 DEF Backed, Adds, Now
  <2> QED BY <2>3 DEF x
<1> QED BY <1>1, <1>2

(* What revision i has added to the note stays, or is what is undone.      *)
LEMMA NoteStands ==
  ASSUME ChangeInv, Writes(NowNote), NEW i \in Curation!Ids,
         Of(revision[i]) \subseteq Pairs(wiki[NowNote].has)
  PROVE  \/ Of(revision[i]) \subseteq Pairs(Now.writes[NowNote].after.has)
         \/ UndoneBy(revision, i)
<1> DEFINE x == Now.writes[NowNote]
<1>0. queue # <<>> /\ task.pc = "write" /\ wiki[NowNote] \in {x.before, x.after}
  BY DEF Writes
<1>1. CASE Now.undoOf = 0
  <2>1. Adds(x, Of(Now))
    BY <1>0, <1>1, NowIs DEF Holds, Adding, NowNote
  <2> HIDE DEF x
  <2>2. Pairs(x.before.has) \subseteq Pairs(x.after.has)
    BY <2>1 DEF Adds
  <2>3. Of(revision[i]) \subseteq Pairs(x.after.has)
    BY <1>0, <2>2
  <2> QED BY <2>3 DEF x
<1>2. CASE Now.undoOf # 0
  <2> DEFINE k == Now.undoOf
  <2>1. k \in Curation!Ids /\ Adds([before |-> x.after, after |-> x.before], Of(revision[k]))
    BY <1>0, <1>2, NoteTurns
  <2>2. CASE i = k
    <3>1. revision[Curation!I].undoOf = i /\ revision[Curation!I].state \in Written
          /\ Curation!I \in Curation!Ids
      BY <1>0, <2>2, NowIs DEF Written, Now
    <3> QED BY <3>1 DEF UndoneBy
  <2>3. CASE i # k
    <3>1. Of(revision[i]) \cap Of(revision[k]) = {}
      <4>1. revision[i].review = revision[k].review => revision[i].sel \cap revision[k].sel = {}
        BY <2>1, <2>3 DEF ChangeInv, CInv, Curation!AppliedOnce
      <4> QED BY <4>1 DEF Of
    <3> HIDE DEF x, k
    <3>2. Pairs(x.before.has) = Pairs(x.after.has) \cup Of(revision[k])
      BY <2>1 DEF Adds
    <3>3. Of(revision[i]) \subseteq Pairs(x.after.has)
      BY <1>0, <3>1, <3>2
    <3> QED BY <3>3 DEF x
  <2> QED BY <2>2, <2>3
<1> QED BY <1>1, <1>2

LEMMA FileKeeps ==
  ASSUME ChangeInv, CInv', NEW p, Writes(p), UNCHANGED <<target, revision, win, queue>>,
         task' = [pc |-> "write", left |-> task.left \ {p}]
  PROVE  ChangeInv'
<1>0. queue # <<>> /\ task.pc = "write" /\ Curation!I' = Curation!I
  BY DEF Writes, Curation!I
<1>1. /\ wiki' = [q \in Curation!Paths |-> wiki'[q]] /\ p \in Curation!Paths
      /\ wiki'[p] = Now.writes[p].after /\ \A q \in Curation!Paths \ {p} : wiki'[q] = wiki[q]
      /\ Text(wiki'[p])
      /\ p # NowNote => wiki[p].has \subseteq wiki'[p].has
      /\ p \in Curated => p = NowNote
  BY FileChanges
<1>2. WikiTypes'
  BY <1>1 DEF ChangeInv, WikiTypes, Curation!Paths
<1>3. RecordsKept'
  BY DEF ChangeInv, RecordsKept
<1>4. NotesBacked'
  <2>1. ASSUME NEW n \in Curated PROVE Backed(revision, wiki'[n].has)
    <3>1. CASE n = p
      BY <1>1, <3>1, NoteBacked
    <3>2. CASE n # p
      BY <1>1, <3>2 DEF ChangeInv, NotesBacked, Curation!Paths
    <3> QED BY <3>1, <3>2
  <2> QED BY <2>1 DEF NotesBacked
<1>5. AppliedStand'
  <2>1. ASSUME NEW i \in Curation!Ids, revision[i].state = "applied"
        PROVE  Stands(target, revision, wiki', i)
    <3>1. Stands(target, revision, wiki, i) /\ Holds(target, revision, revision[i], i)
      BY <2>1 DEF ChangeInv, AppliedStand, RecordsKept
    <3>2. i \in wiki'["log"].has
      <4>1. NowNote # "log" /\ "log" \in Curation!Paths
        BY <1>0, NowIs DEF Curation!Paths
      <4> QED BY <1>1, <3>1, <4>1 DEF Stands
    <3> DEFINE n == target[revision[i].review]
    <3>3. n \in Curated
      BY <3>1 DEF Holds, ChangeInv, WikiTypes
    <3>4. \/ UndoneBy(revision, i)
          \/ Of(revision[i]) \subseteq Pairs(wiki[n].has)
      BY <3>1 DEF Stands
    <3>5. CASE n # p
      <4>1. wiki'[n] = wiki[n]
        BY <1>1, <3>3, <3>5 DEF Curation!Paths
      <4> QED BY <3>2, <3>4, <4>1 DEF Stands
    <3>6. CASE n = p
      <4>1. n = NowNote
        BY <1>1, <3>3, <3>6
      <4>2. \/ UndoneBy(revision, i)
            \/ Of(revision[i]) \subseteq Pairs(wiki'[n].has)
        BY <1>1, <3>4, <3>6, <4>1, NoteStands
      <4> QED BY <3>2, <4>2 DEF Stands
    <3> QED BY <3>5, <3>6
  <2> QED BY <2>1 DEF AppliedStand
<1>6. Rewriting'
  <2>1. /\ Now.state = "applying" /\ task.left \subseteq DOMAIN Now.writes
        /\ \A q \in DOMAIN Now.writes \ task.left : Now.writes[q].after.has \subseteq wiki[q].has
    BY <1>0 DEF ChangeInv, Rewriting, Now
  <2>2. DOMAIN Now.writes \subseteq Curation!Paths
    BY <1>0, NowIs DEF Holds, Whole, NowNote
  <2>3. Now' = Now
    BY <1>0 DEF Now
  <2>4. \A q \in DOMAIN Now.writes \ (task.left \ {p}) : Now.writes[q].after.has \subseteq wiki'[q].has
    BY <1>1, <2>1, <2>2
  <2> QED BY <1>0, <2>1, <2>3, <2>4 DEF Rewriting, Now
<1> QED BY <1>2, <1>3, <1>4, <1>5, <1>6 DEF ChangeInv

-----------------------------------------------------------------------------
(* All files of the revision are written: it stands once it is saved.      *)
LEMMA AllWritten ==
  ASSUME ChangeInv, queue # <<>>, task.pc = "write", task.left = {}, Curation!Saved("applied")
  PROVE  Stands(target, revision', wiki, Curation!I)
<1> DEFINE i == Curation!I
<1>1. /\ i \in Curation!Ids /\ Now.state = "applying" /\ Holds(target, revision, Now, i)
      /\ \A p \in DOMAIN Now.writes : Now.writes[p].after.has \subseteq wiki[p].has
  BY NowIs DEF ChangeInv, Rewriting, Now
<1>2. Whole(NowNote, Now.writes, i)
  BY <1>1 DEF Holds, NowNote
<1>3. i \in wiki["log"].has
  BY <1>1, <1>2 DEF Whole
<1>4. /\ revision'[i].sel = Now.sel /\ revision'[i].review = Now.review
  BY <1>1, RecordSaved DEF ChangeInv, Now
<1>5. Of(Now) \subseteq Pairs(wiki[NowNote].has)
  <2>1. CASE Now.undoOf # 0
    BY <1>1, <2>1 DEF Holds, UndoOf, Of
  <2>2. CASE Now.undoOf = 0
    <3>1. Adds(Now.writes[NowNote], Of(Now))
      BY <1>1, <2>2 DEF Holds, Adding, NowNote
    <3>2. Now.writes[NowNote].after.has \subseteq wiki[NowNote].has
      BY <1>1, <1>2 DEF Whole
    <3>3. Pairs(Now.writes[NowNote].after.has) \subseteq Pairs(wiki[NowNote].has)
      BY <3>2, PairsGrow
    <3> QED BY <3>1, <3>3 DEF Adds
  <2> QED BY <2>1, <2>2
<1>6. Of(revision'[i]) = Of(Now)
  BY <1>4, SameOf
<1> QED BY <1>3, <1>4, <1>5, <1>6 DEF Stands, NowNote

LEMMA WriterChange ==
  ASSUME ChangeInv, Curation!Writer
  PROVE  ChangeInv'
<1>1. CInv' /\ queue # <<>> /\ UNCHANGED target
  BY WriterStep DEF ChangeInv, Curation!Writer, Curation!Begin, Curation!Check, Curation!WriteFile,
     Curation!Complete, Curation!Finish, Curation!Recover, Curation!Working, Curation!WriterFrame
<1>2. CASE Curation!Begin
  <2>1. UNCHANGED wiki
    BY <1>2 DEF Curation!Begin
  <2>2. CASE /\ revision[Curation!I].state = "none" /\ Curation!Rebuilt
             /\ Curation!Saved("prepared") /\ Curation!Go("check", {})
    <3>1. Rewriting'
      BY <2>2 DEF Curation!Go, Rewriting
    <3>2. Holds(target, revision, Curation!Shown, Curation!I)
      BY <1>1, <2>2, RebuiltHolds
    <3> QED BY <1>1, <2>1, <2>2, <3>1, <3>2, GoesWith
  <2>3. CASE Curation!Go("finish", {}) /\ UNCHANGED revision
    BY <1>1, <2>1, <2>3, GoesWithout
  <2>4. CASE Curation!Go("check", {}) /\ UNCHANGED revision
    BY <1>1, <2>1, <2>4, GoesWithout
  <2>5. CASE Curation!Fails /\ UNCHANGED revision
    BY <1>1, <2>1, <2>5, TurnEnds
  <2> QED BY <1>2, <2>2, <2>3, <2>4, <2>5 DEF Curation!Begin
<1>3. CASE Curation!Check
  <2>1. UNCHANGED wiki /\ revision[Curation!I].state \notin {"none", "applied"}
    BY <1>3 DEF Curation!Check, Curation!Working, ChangeInv, CInv, Underway
  <2>2. CASE Curation!Saved("applying") /\ Curation!Go("write", DOMAIN revision[Curation!I].writes)
    <3>1. /\ revision'[Curation!I].state = "applying"
          /\ revision'[Curation!I].writes = revision[Curation!I].writes
      BY <1>1, <2>1, <2>2, RecordSaved DEF ChangeInv
    <3>2. Curation!I' = Curation!I /\ task'.left = DOMAIN revision[Curation!I].writes
      BY <2>2 DEF Curation!Go, Curation!I
    <3>3. Rewriting'
      BY <3>1, <3>2 DEF Rewriting
    <3>4. "applying" \in Written
      BY DEF Written
    <3> QED BY <1>1, <2>1, <2>2, <3>3, <3>4, GoesWith
  <2>3. CASE Curation!Go("recover", {}) /\ UNCHANGED revision
    BY <1>1, <2>1, <2>3, GoesWithout
  <2> QED BY <1>3, <2>2, <2>3 DEF Curation!Check
<1>4. CASE Curation!WriteFile
  <2>1. task.pc = "write" /\ task.left # {} /\ UNCHANGED revision
    BY <1>4 DEF Curation!WriteFile, Curation!Working
  <2>2. CASE /\ wiki[Curation!Here] \in {Curation!Write.before, Curation!Write.after}
             /\ wiki' = [wiki EXCEPT ![Curation!Here] = Curation!Write.after]
             /\ Curation!Go("write", task.left \ {Curation!Here})
    <3>1. Writes(Curation!Here)
      BY <1>1, <2>1, <2>2, FileIsLeft DEF Writes, Now, Curation!Write
    <3> QED BY <1>1, <2>1, <2>2, <3>1, FileKeeps DEF Curation!Go
  <2>3. CASE UNCHANGED wiki /\ Curation!Go("recover", {})
    BY <1>1, <2>1, <2>3, GoesWithout
  <2> QED BY <1>4, <2>2, <2>3 DEF Curation!WriteFile
<1>5. CASE Curation!Complete
  <2>1. /\ UNCHANGED wiki /\ task.pc = "write" /\ task.left = {}
        /\ revision[Curation!I].state \notin {"none", "applied"}
    BY <1>5 DEF Curation!Complete, Curation!Working, ChangeInv, CInv, Underway
  <2>2. CASE Curation!Saved("applied") /\ Curation!Go("finish", {})
    <3>1. Rewriting'
      BY <2>2 DEF Curation!Go, Rewriting
    <3>2. Stands(target, revision', wiki, Curation!I) /\ "applied" \in Written
      BY <1>1, <2>1, <2>2, AllWritten DEF Written
    <3> QED BY <1>1, <2>1, <2>2, <3>1, <3>2, GoesWith
  <2>3. CASE Curation!Go("recover", {}) /\ UNCHANGED revision
    BY <1>1, <2>1, <2>3, GoesWithout
  <2>4. CASE Curation!Fails /\ UNCHANGED revision
    BY <1>1, <2>1, <2>4, TurnEnds
  <2> QED BY <1>5, <2>2, <2>3, <2>4 DEF Curation!Complete
<1>6. CASE Curation!Finish
  <2>1. /\ UNCHANGED <<wiki, revision>>
        /\ Curation!Done(Curation!Closed) \/ Curation!Fails
    BY <1>6 DEF Curation!Finish
  <2> QED BY <1>1, <2>1, TurnEnds
<1>7. CASE Curation!Recover
  <2>1. /\ UNCHANGED wiki /\ Curation!Fails /\ (Curation!Saved("recovery") \/ UNCHANGED revision)
        /\ revision[Curation!I].state # "none"
    BY <1>7 DEF Curation!Recover, Curation!Working, ChangeInv, CInv, Underway
  <2> QED BY <1>1, <2>1, TurnEnds
<1> QED BY <1>2, <1>3, <1>4, <1>5, <1>6, <1>7 DEF Curation!Writer

LEMMA EditChange ==
  ASSUME ChangeInv, NEW p \in Touched, Curation!Edit(p)
  PROVE  /\ ChangeInv'
         /\ \A q \in Curation!Paths : wiki'[q].has = wiki[q].has /\ wiki'[q].rest >= wiki[q].rest
<1>1. CInv' /\ UNCHANGED <<target, revision, win, queue, task>>
  BY OtherStep DEF ChangeInv, Curation!Edit
<1>2. /\ wiki' = [q \in Curation!Paths |-> wiki'[q]]
      /\ \A q \in Curation!Paths : /\ Text(wiki'[q]) /\ wiki'[q].has = wiki[q].has
                                   /\ wiki'[q].rest >= wiki[q].rest
  BY DEF Curation!Edit, ChangeInv, WikiTypes, Text
<1>3. WikiTypes'
  BY <1>1, <1>2 DEF ChangeInv, WikiTypes, Curation!Paths
<1>4. RecordsKept'
  BY <1>1 DEF ChangeInv, RecordsKept
<1>5. NotesBacked'
  BY <1>1, <1>2 DEF ChangeInv, NotesBacked, Curation!Paths
<1>6. AppliedStand'
  <2>1. ASSUME NEW i \in Curation!Ids, revision[i].state = "applied"
        PROVE  Stands(target, revision, wiki', i)
    <3>1. Stands(target, revision, wiki, i) /\ Holds(target, revision, revision[i], i)
      BY <2>1 DEF ChangeInv, AppliedStand, RecordsKept
    <3>2. target[revision[i].review] \in Curation!Paths /\ "log" \in Curation!Paths
      BY <3>1 DEF Holds, ChangeInv, WikiTypes, Curation!Paths
    <3> QED BY <1>2, <3>1, <3>2 DEF Stands
  <2> QED BY <1>1, <2>1 DEF AppliedStand
<1>7. Rewriting'
  <2>1. ASSUME task.pc = "write" PROVE DOMAIN Now.writes \subseteq Curation!Paths
    <3>1. queue # <<>>
      BY <2>1 DEF ChangeInv, CInv, Underway
    <3> QED BY <2>1, <3>1, NowIs DEF Holds, Whole, NowNote
  <2>2. Curation!I' = Curation!I
    BY <1>1 DEF Curation!I
  <2> QED BY <1>1, <1>2, <2>1, <2>2 DEF ChangeInv, Rewriting, Now
<1> QED BY <1>1, <1>2, <1>3, <1>4, <1>5, <1>6, <1>7 DEF ChangeInv

LEMMA ReloadChange ==
  ASSUME ChangeInv, Curation!Reload
  PROVE  ChangeInv'
<1>1. CInv' /\ UNCHANGED <<target, wiki, revision>>
  BY OtherStep DEF ChangeInv, Curation!Reload
<1>2. Lasting /\ Rewriting'
  BY <1>1, NothingLasts DEF Rewriting, Curation!Reload, Curation!Resting
<1>3. \A w \in Windows : Offers(target, revision, win'[w])
  BY DEF Curation!Reload, Offers, Curation!Closed
<1> QED BY <1>1, <1>2, <1>3, WikiStays

LEMMA ChangeKeeps ==
  ASSUME ChangeInv, [Curation!Next]_curationVars
  PROVE  ChangeInv'
<1>1. CASE UNCHANGED curationVars
  <2>1. CInv' /\ UNCHANGED <<target, wiki, revision, win, queue, task>>
    BY <1>1, Revised DEF ChangeInv, curationVars
  <2>2. Lasting /\ Rewriting'
    BY <2>1, NothingLasts DEF ChangeInv, Rewriting, Curation!I
  <2>3. \A w \in Windows : Offers(target, revision, win'[w])
    BY <2>1 DEF ChangeInv, RecordsKept
  <2> QED BY <2>1, <2>2, <2>3, WikiStays
<1>2. ASSUME NEW w \in Windows,
             \/ \E v \in Reviews, sel \in SUBSET Suggestions : Curation!Preview(w, v, sel)
             \/ \E i \in Curation!Ids : Curation!PreviewUndo(w, i) \/ Curation!PreviewResume(w, i)
             \/ Curation!Confirm(w) \/ Curation!Close(w)
      PROVE  ChangeInv'
  BY <1>2, UserChange
<1>3. ASSUME NEW v \in Reviews,
             Curation!Prepare(v) \/ Curation!Inspect(v) \/ \E s \in Suggestions : Curation!Decide(v, s)
      PROVE  ChangeInv'
  BY <1>3, ReviewChange
<1> QED BY <1>1, <1>2, <1>3, WriterChange, EditChange, ReloadChange DEF Curation!Next

LEMMA ChangeStarts ==
  ASSUME Curation!Init
  PROVE  ChangeInv
<1>1. /\ \A i \in Curation!Ids : revision[i].state = "none"
      /\ \A w \in Windows : win[w].pc = "closed"
      /\ wiki = [p \in Curation!Paths |-> Curation!Blank] /\ target \in [Reviews -> Curated]
      /\ task.pc = "idle"
  BY DEF Curation!Init, Curation!NoRev, Curation!Closed, Curation!Resting
<1>2. Text(Curation!Blank) /\ Curation!Blank.has = {}
  BY DEF Curation!Blank, Text
<1>3. WikiTypes
  BY <1>1, <1>2 DEF WikiTypes
<1>4. RecordsKept /\ AppliedStand /\ Rewriting
  BY <1>1 DEF RecordsKept, Offers, AppliedStand, Rewriting
<1>5. Pairs({}) = {}
  BY DEF Pairs
<1>6. NotesBacked
  BY <1>1, <1>2, <1>5 DEF NotesBacked, Backed, Curation!Paths
<1> QED BY <1>3, <1>4, <1>6, NothingRevised DEF ChangeInv

LEMMA ChangeShows ==
  ASSUME ChangeInv
  PROVE  Curation!ChangeIsRecorded
<1>1. ASSUME NEW v \in Reviews, NEW s \in Suggestions, <<v, s>> \in Curation!InNote(v)
      PROVE  \E i \in Curation!Ids : /\ <<v, s>> \in Curation!Entered(i)
                                     /\ revision[i].state \in {"applying", "recovery", "applied"}
  <2>1. target[v] \in Curated /\ <<v, s>> \in Pairs(wiki[target[v]].has)
    BY <1>1 DEF ChangeInv, WikiTypes, Curation!InNote, Pairs
  <2>2. PICK i \in Curation!Ids : <<v, s>> \in Of(revision[i]) /\ revision[i].state \in Written
    BY <2>1 DEF ChangeInv, NotesBacked, Backed
  <2> QED BY <2>2 DEF Of, Curation!Entered, Written
<1>2. ASSUME NEW i \in Curation!Ids, revision[i].state = "applied"
      PROVE  /\ i \in wiki["log"].has
             /\ \/ Curation!Entered(i) \subseteq Curation!InNote(revision[i].review)
                \/ \E j \in Curation!Ids : /\ revision[j].undoOf = i
                                           /\ revision[j].state \in {"applying", "recovery", "applied"}
  <2>1. Stands(target, revision, wiki, i)
    BY <1>2 DEF ChangeInv, AppliedStand
  <2>2. /\ Curation!Entered(i) = Of(revision[i])
        /\ Curation!InNote(revision[i].review) = Pairs(wiki[target[revision[i].review]].has)
    BY DEF Curation!Entered, Of, Curation!InNote, Pairs
  <2> QED BY <2>1, <2>2 DEF Stands, UndoneBy, Written
<1> QED BY <1>1, <1>2 DEF Curation!ChangeIsRecorded

LEMMA ChangeGrows ==
  ASSUME ChangeInv, [Curation!Next]_curationVars
  PROVE  \A p \in Curation!Paths : /\ wiki[p].rest <= wiki'[p].rest
                                   /\ p \notin Curated => wiki[p].has \subseteq wiki'[p].has
<1>0. \A p \in Curation!Paths : wiki[p].rest \in Nat
  BY DEF ChangeInv, WikiTypes, Text
<1>1. CASE UNCHANGED wiki
  BY <1>0, <1>1
<1>2. CASE Curation!WriteFile /\ ~UNCHANGED wiki
  <2>1. /\ wiki[Curation!Here] \in {Curation!Write.before, Curation!Write.after}
        /\ wiki' = [wiki EXCEPT ![Curation!Here] = Curation!Write.after]
        /\ queue # <<>> /\ task.pc = "write" /\ task.left # {}
    BY <1>2 DEF Curation!WriteFile, Curation!Working
  <2>2. Writes(Curation!Here)
    BY <2>1, FileIsLeft DEF Writes, Now, Curation!Write
  <2> DEFINE here == Curation!Here
  <2>3. /\ here \in Curation!Paths /\ \A q \in Curation!Paths \ {here} : wiki'[q] = wiki[q]
        /\ wiki'[here].rest = wiki[here].rest
        /\ here # NowNote => wiki[here].has \subseteq wiki'[here].has
        /\ NowNote \in Curated
    BY <2>1, <2>2, FileChanges, NowIs
  <2> HIDE DEF here
  <2> QED BY <1>0, <2>3
<1>3. ASSUME NEW p \in Touched, Curation!Edit(p)
      PROVE  \A q \in Curation!Paths : wiki[q].rest <= wiki'[q].rest /\ wiki'[q].has = wiki[q].has
  <2>1. \A q \in Curation!Paths : wiki'[q].has = wiki[q].has /\ wiki'[q].rest >= wiki[q].rest
    BY <1>3, EditChange
  <2>2. WikiTypes'
    BY <1>3, EditChange DEF ChangeInv
  <2> QED BY <1>0, <2>1, <2>2 DEF WikiTypes, Text
<1>4. \/ UNCHANGED wiki \/ Curation!WriteFile \/ \E p \in Touched : Curation!Edit(p)
  BY DEF Curation!Next, curationVars, Curation!Prepare, Curation!Inspect, Curation!Decide,
     Curation!Preview, Curation!PreviewUndo, Curation!PreviewResume, Curation!Confirm,
     Curation!Close, Curation!UserFrame, Curation!Writer, Curation!Begin, Curation!Check,
     Curation!Complete, Curation!Finish, Curation!Recover, Curation!Reload
<1> QED BY <1>1, <1>2, <1>3, <1>4

-----------------------------------------------------------------------------
(* What a queue of windows, or of edits, does.                             *)
LEMMA SequenceMoves ==
  ASSUME NEW S, NEW s \in Seq(S), NEW e \in S
  PROVE  /\ Append(s, e) \in Seq(S) /\ Len(Append(s, e)) = Len(s) + 1
         /\ \A k \in 1 .. Len(s) + 1 : Append(s, e)[k] = IF k = Len(s) + 1 THEN e ELSE s[k]
         /\ s # <<>> => /\ Tail(s) \in Seq(S) /\ Len(Tail(s)) = Len(s) - 1 /\ Len(s) >= 1
                         /\ \A k \in 1 .. Len(s) - 1 : Tail(s)[k] = s[k + 1]
  OBVIOUS

-----------------------------------------------------------------------------
(* IngestRegistration.                                                     *)
Touching(n) == {n, "index", "bib", "log"}
Turn        == Head(confirmed)
Mine        == windows[Turn].note
Content(c)  == DOMAIN c = {"has", "rest", "date"} /\ c.rest \in Nat

RegisterTypes ==
  /\ file = [p \in Register!Paths |-> file[p]]
  /\ \A p \in Register!Paths : Content(file[p])
  /\ record = [n \in Notes |-> record[n]]
  /\ \A n \in Notes : /\ DOMAIN record[n] = {"state", "writes"}
                      /\ record[n].state \in {"none", "prepared", "recovery", "applied"}
  /\ windows = [w \in Windows |-> windows[w]]
  /\ \A w \in Windows : /\ DOMAIN windows[w] = {"pc", "note", "plan"}
                        /\ DOMAIN windows[w].plan = {"state", "writes"}

(* A plan enters its note in files of the note, and in all where it is not *)
(* yet.                                                                    *)
Sound(n, writes, has) ==
  /\ DOMAIN writes \subseteq Touching(n)
  /\ \A p \in DOMAIN writes : /\ writes[p].after.has = writes[p].before.has \cup {n}
                              /\ writes[p].after.rest = writes[p].before.rest
                              /\ Content(writes[p].after)
  /\ Touching(n) \ has \subseteq DOMAIN writes

Shows(x) ==
  /\ DOMAIN x = {"pc", "note", "plan"} /\ DOMAIN x.plan = {"state", "writes"}
  /\ x.pc # "closed" => /\ x.note \in Notes /\ Sound(x.note, x.plan.writes, Register!Has(x.note))
                        /\ x.plan.state \in {"prepared", "recovery", "applied"}
  /\ x.pc = "queued" => x.plan.state # "applied"

Plans ==
  /\ \A n \in Notes : record[n].state # "none" => Sound(n, record[n].writes, Register!Has(n))
  /\ \A w \in Windows : Shows(windows[w])

(* What a record says of the files.                                        *)
Recorded ==
  \A n \in Notes : /\ Register!Has(n) # {} => record[n].state # "none"
                   /\ record[n].state = "applied" => Register!Has(n) = Touching(n)

Confirmed ==
  /\ confirmed \in Seq(Windows)
  /\ \A k \in 1 .. Len(confirmed) : windows[confirmed[k]].pc = "queued"
  /\ \A k, l \in 1 .. Len(confirmed) : k # l => confirmed[k] # confirmed[l]

(* Where the writer is: what is not left any more is entered.              *)
Entering ==
  /\ writer.pc # "idle" => confirmed # <<>>
  /\ writer.pc \in {"write", "rename"} =>
       /\ record[Mine].state \in {"prepared", "recovery"}
       /\ writer.left \subseteq DOMAIN Register!Planned
       /\ DOMAIN Register!Planned \ writer.left \subseteq Register!Has(Mine)
  /\ writer.pc = "rename" => /\ writer.left # {} /\ Register!Here = "bib"
                             /\ file["bib"].has = Register!Write.before.has

RegisterInv == RegisterTypes /\ Plans /\ Recorded /\ Confirmed /\ Entering

LEMMA HasIs ==
  \A n : /\ Register!Has(n) = {p \in Touching(n) : n \in file[p].has}
         /\ Register!Has(n)' = {p \in Touching(n) : n \in file'[p].has}
<1>1. ASSUME NEW n PROVE Register!Range(Register!Order(n)) = Touching(n)
  <2>1. Register!Range(Register!Order(n)) = {Register!Order(n)[k] : k \in 1 .. 4}
    BY DEF Register!Range, Register!Order
  <2>2. \A k \in 1 .. 4 : k \in {1, 2, 3, 4}
    OBVIOUS
  <2> QED BY <2>1, <2>2 DEF Register!Order, Touching
<1> QED BY <1>1 DEF Register!Has

(* The first file that is left is one of them.                             *)
LEMMA HereIsLeft ==
  ASSUME writer.left # {}, writer.left \subseteq Touching(Mine)
  PROVE  Register!Here \in writer.left
<1> DEFINE files == Register!Order(Mine)
           ok(k) == files[k] \in writer.left /\ \A j \in 1 .. k - 1 : files[j] \notin writer.left
<1>1. files[1] = Mine /\ files[2] = "index" /\ files[3] = "bib" /\ files[4] = "log"
  BY DEF Register!Order
<1>2. \E k \in 1 .. 4 : ok(k)
  <2>1. CASE files[1] \in writer.left
    BY <2>1
  <2>2. CASE files[1] \notin writer.left /\ files[2] \in writer.left
    <3>1. \A j \in 1 .. 2 - 1 : j = 1
      OBVIOUS
    <3> QED BY <2>2, <3>1
  <2>3. CASE files[1] \notin writer.left /\ files[2] \notin writer.left /\ files[3] \in writer.left
    <3>1. \A j \in 1 .. 3 - 1 : j = 1 \/ j = 2
      OBVIOUS
    <3> QED BY <2>3, <3>1
  <2>4. CASE /\ files[1] \notin writer.left /\ files[2] \notin writer.left
             /\ files[3] \notin writer.left /\ files[4] \in writer.left
    <3>1. \A j \in 1 .. 4 - 1 : j = 1 \/ j = 2 \/ j = 3
      OBVIOUS
    <3> QED BY <2>4, <3>1
  <2> QED BY <1>1, <2>1, <2>2, <2>3, <2>4 DEF Touching
<1>3. Register!Here = files[CHOOSE k \in 1 .. 4 : ok(k)]
  BY DEF Register!Here, Mine, Turn
<1>4. ok(CHOOSE k \in 1 .. 4 : ok(k))
  <2> HIDE DEF ok
  <2> QED BY <1>2
<1> QED BY <1>3, <1>4

LEMMA TurnIs ==
  ASSUME RegisterInv, confirmed # <<>>
  PROVE  /\ Turn \in Windows /\ windows[Turn].pc = "queued" /\ Mine \in Notes
         /\ Sound(Mine, Register!Planned, Register!Has(Mine))
         /\ windows[Turn].plan.state \in {"prepared", "recovery"}
         /\ DOMAIN windows[Turn] = {"pc", "note", "plan"}
         /\ DOMAIN windows[Turn].plan = {"state", "writes"}
<1>1. Len(confirmed) >= 1 /\ Turn = confirmed[1] /\ Turn \in Windows /\ Len(confirmed) \in Nat
  BY DEF RegisterInv, Confirmed, Turn
<1>2. windows[Turn].pc = "queued"
  BY <1>1 DEF RegisterInv, Confirmed
<1> QED BY <1>1, <1>2 DEF RegisterInv, Plans, Shows, Mine, Register!Planned, Turn

(* What the window whose turn it is has, stays while it waits.             *)
LEMMA TurnStays ==
  ASSUME RegisterInv, confirmed # <<>>, Head(confirmed') = Head(confirmed),
         windows'[Turn] = windows[Turn]
  PROVE  /\ Turn' = Turn /\ Mine' = Mine /\ Register!Planned' = Register!Planned
         /\ writer'.left = writer.left =>
              Register!Here' = Register!Here /\ Register!Write' = Register!Write
BY DEF Turn, Mine, Register!Planned, Register!Here, Register!Write

-----------------------------------------------------------------------------
(* The windows.                                                            *)
LEMMA WindowTurns ==
  ASSUME RegisterInv, NEW w \in Windows, NEW x, windows' = [windows EXCEPT ![w] = x],
         windows[w].pc # "queued", UNCHANGED <<file, record, writer>>, Shows(x),
         \/ confirmed' = confirmed /\ x.pc # "queued"
         \/ confirmed' = Append(confirmed, w) /\ x.pc = "queued"
  PROVE  RegisterInv'
<1>0. /\ windows' = [v \in Windows |-> windows'[v]] /\ windows'[w] = x
      /\ \A v \in Windows \ {w} : windows'[v] = windows[v]
      /\ confirmed \in Seq(Windows) /\ Len(confirmed) \in Nat
  <2>1. windows = [v \in Windows |-> windows[v]]
    BY DEF RegisterInv, RegisterTypes
  <2>2. /\ windows' = [v \in Windows |-> windows'[v]] /\ windows'[w] = x
        /\ \A v \in Windows \ {w} : windows'[v] = windows[v]
    BY <2>1
  <2>3. confirmed \in Seq(Windows)
    BY DEF RegisterInv, Confirmed
  <2> QED BY <2>2, <2>3
<1>1. \A n : Register!Has(n)' = Register!Has(n)
  BY HasIs
<1>2. RegisterTypes'
  BY <1>0 DEF RegisterInv, RegisterTypes, Shows, Content, Register!Paths, Register!InVault
<1>3. Plans' /\ Recorded'
  BY <1>0, <1>1 DEF RegisterInv, Plans, Recorded, Shows
<1>4. Confirmed'
  <2>1. \A k \in 1 .. Len(confirmed) : confirmed[k] \in Windows \ {w}
    BY <1>0 DEF RegisterInv, Confirmed
  <2>2. CASE confirmed' = confirmed
    BY <1>0, <2>1, <2>2 DEF RegisterInv, Confirmed
  <2>3. CASE confirmed' = Append(confirmed, w) /\ x.pc = "queued"
    <3>1. /\ confirmed' \in Seq(Windows) /\ Len(confirmed') = Len(confirmed) + 1
          /\ \A k \in 1 .. Len(confirmed) + 1 :
               confirmed'[k] = IF k = Len(confirmed) + 1 THEN w ELSE confirmed[k]
      BY <1>0, <2>3, SequenceMoves
    <3>2. \A k \in 1 .. Len(confirmed') : windows'[confirmed'[k]].pc = "queued"
      BY <1>0, <2>1, <2>3, <3>1 DEF RegisterInv, Confirmed
    <3>3. \A k, l \in 1 .. Len(confirmed') : k # l => confirmed'[k] # confirmed'[l]
      BY <1>0, <2>1, <3>1 DEF RegisterInv, Confirmed
    <3> QED BY <3>1, <3>2, <3>3 DEF Confirmed
  <2> QED BY <2>2, <2>3
<1>5. Entering'
  <2>1. CASE writer.pc = "idle"
    BY <2>1 DEF Entering
  <2>2. CASE writer.pc # "idle"
    <3>1. confirmed # <<>>
      BY <2>2 DEF RegisterInv, Entering
    <3>2. confirmed' # <<>> /\ Head(confirmed') = Head(confirmed)
      BY <1>0, <3>1
    <3>3. Turn \in Windows \ {w}
      BY <3>1, TurnIs
    <3>4. /\ Turn' = Turn /\ Mine' = Mine /\ Register!Planned' = Register!Planned
          /\ Register!Here' = Register!Here /\ Register!Write' = Register!Write
      BY <1>0, <3>1, <3>2, <3>3, TurnStays
    <3> QED BY <1>1, <3>2, <3>4 DEF RegisterInv, Entering
  <2> QED BY <2>1, <2>2
<1> QED BY <1>2, <1>3, <1>4, <1>5 DEF RegisterInv

(* A plan made from the files.                                             *)
LEMMA PlanSound ==
  ASSUME RegisterInv, NEW n \in Notes, record[n].state = "none"
  PROVE  Sound(n, Register!Plan(n, file), Register!Has(n))
<1>1. Register!Has(n) = {}
  BY DEF RegisterInv, Recorded
<1>2. Register!Range(Register!Order(n)) = Touching(n)
  <2>1. Register!Range(Register!Order(n)) = {Register!Order(n)[k] : k \in 1 .. 4}
    BY DEF Register!Range, Register!Order
  <2>2. \A k \in 1 .. 4 : k \in {1, 2, 3, 4}
    OBVIOUS
  <2> QED BY <2>1, <2>2 DEF Register!Order, Touching
<1>3. n # "log" /\ \A p \in Touching(n) : n \notin file[p].has
  BY <1>1, HasIs, StoresAssumption DEF Register!RegistrationAssumption
<1>4. Register!Plan(n, file) =
        [p \in Touching(n) |-> [before |-> file[p], after |-> Register!Entered(file[p], p, n)]]
  <2>1. {p \in Touching(n) \ {"log"} : n \notin file[p].has} = Touching(n) \ {"log"}
    BY <1>3
  <2>2. Touching(n) \ {"log"} # {} /\ (Touching(n) \ {"log"}) \cup {"log"} = Touching(n)
    BY <1>3 DEF Touching
  <2> QED BY <1>2, <2>1, <2>2 DEF Register!Plan
<1>5. \A p \in Touching(n) : p \in Register!Paths
  BY DEF Touching, Register!Paths, Register!InVault
<1>6. ASSUME NEW p \in Touching(n)
      PROVE  /\ Register!Entered(file[p], p, n).has = file[p].has \cup {n}
             /\ Register!Entered(file[p], p, n).rest = file[p].rest
             /\ Content(Register!Entered(file[p], p, n))
  BY <1>5 DEF Register!Entered, RegisterInv, RegisterTypes, Content
<1> QED BY <1>4, <1>6 DEF Sound

LEMMA OpenKeeps ==
  ASSUME RegisterInv, NEW w \in Windows, NEW n \in Notes, Register!Open(w, n)
  PROVE  RegisterInv'
<1>1. windows[w].pc = "closed" /\ UNCHANGED <<file, record, writer, confirmed>>
  BY DEF Register!Open, Register!WindowFrame
<1>2. CASE record[n].state # "none"
  <2> DEFINE x == [pc |-> "shown", note |-> n, plan |-> record[n]]
  <2>1. windows' = [windows EXCEPT ![w] = x]
    BY <1>2 DEF Register!Open
  <2>2. Shows(x)
    BY <1>2 DEF Shows, RegisterInv, RegisterTypes, Plans
  <2>3. x.pc # "queued"
    OBVIOUS
  <2> HIDE DEF x
  <2> QED BY <1>1, <2>1, <2>2, <2>3, WindowTurns
<1>3. CASE record[n].state = "none"
  <2> DEFINE ws == Register!Plan(n, file)
             x == [pc |-> "shown", note |-> n, plan |-> [state |-> "prepared", writes |-> ws]]
  <2>1. windows' = [windows EXCEPT ![w] = x]
    BY <1>3 DEF Register!Open
  <2>2. Sound(n, ws, Register!Has(n))
    BY <1>3, PlanSound
  <2> HIDE DEF ws
  <2>3. Shows(x) /\ x.pc # "queued"
    BY <2>2 DEF Shows
  <2> HIDE DEF x
  <2> QED BY <1>1, <2>1, <2>3, WindowTurns
<1> QED BY <1>2, <1>3

LEMMA ApplyKeeps ==
  ASSUME RegisterInv, NEW w \in Windows, Register!Apply(w)
  PROVE  RegisterInv'
<1> DEFINE x == [windows[w] EXCEPT !.pc = "queued"]
<1>1. /\ windows[w].pc = "shown" /\ UNCHANGED <<file, record, writer>>
      /\ windows' = [windows EXCEPT ![w] = x] /\ confirmed' = Append(confirmed, w)
      /\ windows[w].plan.state # "applied"
  BY DEF Register!Apply, Register!WindowFrame
<1>2. /\ DOMAIN x = {"pc", "note", "plan"} /\ x.pc = "queued" /\ x.note = windows[w].note
      /\ x.plan = windows[w].plan
  BY DEF RegisterInv, RegisterTypes
<1>3. Shows(x)
  BY <1>1, <1>2 DEF RegisterInv, Plans, Shows
<1> HIDE DEF x
<1> QED BY <1>1, <1>2, <1>3, WindowTurns

LEMMA CloseKeeps ==
  ASSUME RegisterInv, NEW w \in Windows, Register!Close(w)
  PROVE  RegisterInv'
<1>1. /\ windows[w].pc = "shown" /\ UNCHANGED <<file, record, writer, confirmed>>
      /\ windows' = [windows EXCEPT ![w] = Register!Closed]
  BY DEF Register!Close, Register!WindowFrame
<1>2. Shows(Register!Closed) /\ Register!Closed.pc # "queued"
  BY DEF Shows, Register!Closed, Register!NoRecord
<1> QED BY <1>1, <1>2, WindowTurns


-----------------------------------------------------------------------------
(* The writer.                                                             *)

(* What a record may become.                                               *)
PlanSaves ==
  \/ UNCHANGED record
  \/ \E s \in {"prepared", "recovery", "applied"} :
       /\ Register!Saved(s)
       /\ s = "applied" => Register!Has(Mine) = Touching(Mine)

LEMMA SavedIs ==
  ASSUME RegisterInv, confirmed # <<>>, NEW s, Register!Saved(s)
  PROVE  /\ record' = [n \in Notes |-> record'[n]]
         /\ record'[Mine].state = s /\ record'[Mine].writes = Register!Planned
         /\ DOMAIN record'[Mine] = {"state", "writes"}
         /\ \A n \in Notes \ {Mine} : record'[n] = record[n]
<1> DEFINE r == [windows[Turn].plan EXCEPT !.state = s]
<1>1. record' = [record EXCEPT ![Mine] = r]
  BY DEF Register!Saved, Mine, Turn
<1>2. r.state = s /\ r.writes = Register!Planned /\ DOMAIN r = {"state", "writes"}
  BY TurnIs DEF Register!Planned, Turn
<1> HIDE DEF r
<1>3. record = [n \in Notes |-> record[n]] /\ Mine \in Notes
  BY TurnIs DEF RegisterInv, RegisterTypes
<1> QED BY <1>1, <1>2, <1>3

(* Windows that show what is sound are given.                              *)
LEMMA RecordsFit ==
  ASSUME RegisterInv, confirmed # <<>>, UNCHANGED file, PlanSaves
  PROVE  /\ record' = [n \in Notes |-> record'[n]]
         /\ \A n \in Notes : /\ DOMAIN record'[n] = {"state", "writes"}
                             /\ record'[n].state \in {"none", "prepared", "recovery", "applied"}
         /\ \A n \in Notes : record'[n].state # "none" =>
              Sound(n, record'[n].writes, Register!Has(n)')
         /\ Recorded'
<1>1. \A n : Register!Has(n)' = Register!Has(n)
  BY HasIs
<1>2. CASE UNCHANGED record
  BY <1>1, <1>2 DEF RegisterInv, RegisterTypes, Plans, Recorded
<1>3. ASSUME NEW s \in {"prepared", "recovery", "applied"}, Register!Saved(s),
             s = "applied" => Register!Has(Mine) = Touching(Mine)
      PROVE  /\ record' = [n \in Notes |-> record'[n]]
             /\ \A n \in Notes : /\ DOMAIN record'[n] = {"state", "writes"}
                                 /\ record'[n].state \in {"none", "prepared", "recovery", "applied"}
             /\ \A n \in Notes : record'[n].state # "none" =>
                  Sound(n, record'[n].writes, Register!Has(n)')
             /\ Recorded'
  <2>1. /\ record' = [n \in Notes |-> record'[n]]
        /\ record'[Mine].state = s /\ record'[Mine].writes = Register!Planned
        /\ DOMAIN record'[Mine] = {"state", "writes"}
        /\ \A n \in Notes \ {Mine} : record'[n] = record[n]
    BY <1>3, SavedIs
  <2>2. Mine \in Notes /\ Sound(Mine, Register!Planned, Register!Has(Mine))
    BY TurnIs
  <2>3. \A n \in Notes : record'[n].state # "none" =>
          Sound(n, record'[n].writes, Register!Has(n)')
    BY <1>1, <2>1, <2>2 DEF RegisterInv, Plans
  <2>4. Recorded'
    BY <1>1, <1>3, <2>1, <2>2 DEF RegisterInv, Recorded, Touching
  <2>5. \A n \in Notes : /\ DOMAIN record'[n] = {"state", "writes"}
                         /\ record'[n].state \in {"none", "prepared", "recovery", "applied"}
    BY <1>3, <2>1 DEF RegisterInv, RegisterTypes
  <2> QED BY <2>1, <2>3, <2>4, <2>5
<1> QED BY <1>2, <1>3 DEF PlanSaves

(* The writer goes on with the same plan.                                  *)
LEMMA PlanGoesOn ==
  ASSUME RegisterInv, confirmed # <<>>, UNCHANGED <<windows, confirmed, file>>, PlanSaves, Entering'
  PROVE  RegisterInv'
<1>1. /\ record' = [n \in Notes |-> record'[n]]
      /\ \A n \in Notes : /\ DOMAIN record'[n] = {"state", "writes"}
                          /\ record'[n].state \in {"none", "prepared", "recovery", "applied"}
      /\ \A n \in Notes : record'[n].state # "none" =>
           Sound(n, record'[n].writes, Register!Has(n)')
      /\ Recorded'
  BY RecordsFit
<1>2. \A n : Register!Has(n)' = Register!Has(n)
  BY HasIs
<1>3. RegisterTypes'
  BY <1>1 DEF RegisterInv, RegisterTypes, Content, Register!Paths, Register!InVault
<1>4. Plans'
  BY <1>1, <1>2 DEF RegisterInv, Plans, Shows
<1>5. Confirmed'
  BY DEF RegisterInv, Confirmed
<1> QED BY <1>1, <1>3, <1>4, <1>5 DEF RegisterInv

(* It is done with the plan, however that went.                            *)
LEMMA LeavesQueue ==
  ASSUME RegisterInv, confirmed # <<>>, NEW x, windows' = [windows EXCEPT ![Turn] = x],
         Shows(x), x.pc # "queued", confirmed' = Tail(confirmed),
         writer' = Register!Resting, UNCHANGED file, PlanSaves
  PROVE  RegisterInv'
<1>1. /\ record' = [n \in Notes |-> record'[n]]
      /\ \A n \in Notes : /\ DOMAIN record'[n] = {"state", "writes"}
                          /\ record'[n].state \in {"none", "prepared", "recovery", "applied"}
      /\ \A n \in Notes : record'[n].state # "none" =>
           Sound(n, record'[n].writes, Register!Has(n)')
      /\ Recorded'
  BY RecordsFit
<1>2. \A n : Register!Has(n)' = Register!Has(n)
  BY HasIs
<1>3. /\ Turn \in Windows /\ windows' = [v \in Windows |-> windows'[v]] /\ windows'[Turn] = x
      /\ \A v \in Windows \ {Turn} : windows'[v] = windows[v]
  BY TurnIs DEF RegisterInv, RegisterTypes
<1>4. RegisterTypes'
  BY <1>1, <1>3 DEF RegisterInv, RegisterTypes, Shows, Content, Register!Paths, Register!InVault
<1>5. Plans'
  BY <1>1, <1>2, <1>3 DEF RegisterInv, Plans, Shows
<1>6. Confirmed'
  <2>1. /\ Tail(confirmed) \in Seq(Windows) /\ Len(Tail(confirmed)) = Len(confirmed) - 1
        /\ \A k \in 1 .. Len(confirmed) - 1 : Tail(confirmed)[k] = confirmed[k + 1]
        /\ Len(confirmed) \in Nat
    BY SequenceMoves DEF RegisterInv, Confirmed
  <2>2. Turn = confirmed[1] /\ Len(confirmed) >= 1
    BY DEF RegisterInv, Confirmed, Turn
  <2>3. ASSUME NEW k \in 1 .. Len(confirmed')
        PROVE  /\ confirmed'[k] = confirmed[k + 1] /\ k + 1 \in 1 .. Len(confirmed)
               /\ confirmed[k + 1] \in Windows \ {Turn}
    BY <2>1, <2>2 DEF RegisterInv, Confirmed
  <2>4. \A k \in 1 .. Len(confirmed') : windows'[confirmed'[k]].pc = "queued"
    BY <1>3, <2>3 DEF RegisterInv, Confirmed
  <2>5. ASSUME NEW k \in 1 .. Len(confirmed'), NEW l \in 1 .. Len(confirmed'), k # l
        PROVE  confirmed'[k] # confirmed'[l]
    <3>1. k + 1 # l + 1 /\ k + 1 \in 1 .. Len(confirmed) /\ l + 1 \in 1 .. Len(confirmed)
      BY <2>1, <2>5
    <3> QED BY <2>3, <3>1 DEF RegisterInv, Confirmed
  <2> QED BY <2>1, <2>4, <2>5 DEF Confirmed
<1>7. Entering'
  BY DEF Entering, Register!Resting
<1> QED BY <1>1, <1>4, <1>5, <1>6, <1>7 DEF RegisterInv

LEMMA RejectKeeps ==
  ASSUME RegisterInv, confirmed # <<>>, Register!Reject, UNCHANGED file, PlanSaves
  PROVE  RegisterInv'
<1> DEFINE x == [windows[Turn] EXCEPT !.pc = "shown"]
<1>1. /\ windows' = [windows EXCEPT ![Turn] = x] /\ confirmed' = Tail(confirmed)
      /\ writer' = Register!Resting
  BY DEF Register!Reject, Turn
<1>2. /\ DOMAIN x = {"pc", "note", "plan"} /\ x.pc = "shown" /\ x.note = windows[Turn].note
      /\ x.plan = windows[Turn].plan /\ windows[Turn].pc = "queued" /\ Turn \in Windows
  BY TurnIs
<1>3. Shows(x)
  BY <1>2 DEF RegisterInv, Plans, Shows
<1> HIDE DEF x
<1> QED BY <1>1, <1>2, <1>3, LeavesQueue

(* A file is written.                                                      *)
LEMMA FileEntered ==
  ASSUME RegisterInv, confirmed # <<>>, NEW p \in DOMAIN Register!Planned,
         file[p].has \in {Register!Planned[p].before.has, Register!Planned[p].after.has},
         file' = [file EXCEPT ![p] = Register!Planned[p].after]
  PROVE  /\ file' = [q \in Register!Paths |-> file'[q]] /\ p \in Register!Paths
         /\ file'[p] = Register!Planned[p].after
         /\ file'[p].has = file[p].has \cup {Mine}
         /\ \A q \in Register!Paths \ {p} : file'[q] = file[q]
         /\ \A q \in Register!Paths : Content(file'[q])
<1>1. Mine \in Notes /\ Sound(Mine, Register!Planned, Register!Has(Mine))
  BY TurnIs
<1>2. p \in Register!Paths
  BY <1>1 DEF Sound, Touching, Register!Paths, Register!InVault
<1>3. file' = [q \in Register!Paths |-> file'[q]] /\ file'[p] = Register!Planned[p].after
      /\ \A q \in Register!Paths \ {p} : file'[q] = file[q]
  BY <1>2 DEF RegisterInv, RegisterTypes
<1>4. file'[p].has = file[p].has \cup {Mine} /\ Content(file'[p])
  BY <1>1, <1>3 DEF Sound
<1> QED BY <1>2, <1>3, <1>4 DEF RegisterInv, RegisterTypes

LEMMA EntersKeeps ==
  ASSUME RegisterInv, confirmed # <<>>, writer.pc \in {"write", "rename"}, writer.left # {},
         file[Register!Here].has \in {Register!Write.before.has, Register!Write.after.has},
         file' = [file EXCEPT ![Register!Here] = Register!Write.after],
         writer' = [pc |-> "write", left |-> writer.left \ {Register!Here}],
         UNCHANGED <<record, windows, confirmed>>
  PROVE  RegisterInv'
<1> DEFINE p == Register!Here
<1>1. Mine \in Notes /\ Sound(Mine, Register!Planned, Register!Has(Mine))
  BY TurnIs
<1>2. /\ record[Mine].state \in {"prepared", "recovery"}
      /\ writer.left \subseteq DOMAIN Register!Planned
      /\ DOMAIN Register!Planned \ writer.left \subseteq Register!Has(Mine)
  BY DEF RegisterInv, Entering
<1>3. p \in writer.left
  BY <1>1, <1>2, HereIsLeft DEF Sound
<1>4. p \in DOMAIN Register!Planned /\ Register!Write = Register!Planned[p]
  BY <1>2, <1>3 DEF Register!Write
<1>5. /\ file' = [q \in Register!Paths |-> file'[q]] /\ p \in Register!Paths
      /\ file'[p].has = file[p].has \cup {Mine}
      /\ \A q \in Register!Paths \ {p} : file'[q] = file[q]
      /\ \A q \in Register!Paths : Content(file'[q])
  BY <1>4, FileEntered
<1>6. /\ Turn' = Turn /\ Mine' = Mine /\ Register!Planned' = Register!Planned
  BY DEF Turn, Mine, Register!Planned
<1> HIDE DEF p
<1>7. \A n \in Notes : Touching(n) \subseteq Register!Paths
  BY DEF Touching, Register!Paths, Register!InVault
<1>8. \A n \in Notes : Register!Has(n) \subseteq Register!Has(n)'
  BY <1>5, <1>7, HasIs
<1>9. \A n \in Notes \ {Mine} : Register!Has(n)' = Register!Has(n)
  BY <1>5, <1>7, HasIs
<1>10. p \in Register!Has(Mine)'
  BY <1>1, <1>4, <1>5, <1>6, HasIs DEF Sound
<1>11. RegisterTypes'
  BY <1>5 DEF RegisterInv, RegisterTypes, Content, Register!Paths, Register!InVault
<1>12. Plans'
  <2>1. \A n \in Notes : \A ws : Sound(n, ws, Register!Has(n)) => Sound(n, ws, Register!Has(n)')
    BY <1>8 DEF Sound
  <2>2. \A n \in Notes : record'[n].state # "none" =>
          Sound(n, record'[n].writes, Register!Has(n)')
    BY <2>1 DEF RegisterInv, Plans
  <2>3. \A w \in Windows : Shows(windows[w])'
    BY <2>1 DEF RegisterInv, Plans, Shows
  <2> QED BY <2>2, <2>3 DEF Plans
<1>13. Recorded'
  BY <1>2, <1>9 DEF RegisterInv, Recorded
<1>14. Confirmed'
  BY DEF RegisterInv, Confirmed
<1>15. Entering'
  <2>3. writer'.left = writer.left \ {p}
    BY DEF p
  <2>4. Register!Has(Mine) \subseteq Register!Has(Mine)'
    BY <1>1, <1>6, <1>8
  <2>1. DOMAIN Register!Planned \ writer'.left \subseteq Register!Has(Mine)'
    BY <1>2, <1>10, <2>3, <2>4
  <2>2. writer'.pc = "write" /\ writer'.left \subseteq DOMAIN Register!Planned /\ confirmed' # <<>>
    BY <1>2
  <2> QED BY <1>2, <1>6, <2>1, <2>2 DEF Entering
<1> QED BY <1>11, <1>12, <1>13, <1>14, <1>15 DEF RegisterInv


LEMMA RecordedKept ==
  ASSUME RegisterInv, confirmed # <<>>, Register!Saved("recovery") \/ UNCHANGED record
  PROVE  PlanSaves
BY DEF PlanSaves

LEMMA PreflightKeeps ==
  ASSUME RegisterInv, Register!Preflight
  PROVE  RegisterInv'
<1>1. confirmed # <<>> /\ UNCHANGED <<file, record>> /\ PlanSaves
  BY DEF Register!Preflight, Register!Working, PlanSaves
<1>2. CASE Register!Reject
  BY <1>1, <1>2, RejectKeeps
<1>3. CASE Register!Step("save", {}) /\ UNCHANGED <<windows, confirmed>>
  <2>1. Entering'
    BY <1>1, <1>3 DEF Entering, Register!Step
  <2> QED BY <1>1, <1>3, <2>1, PlanGoesOn
<1> QED BY <1>2, <1>3 DEF Register!Preflight

LEMMA SavePlanKeeps ==
  ASSUME RegisterInv, Register!Save
  PROVE  RegisterInv'
<1>1. confirmed # <<>> /\ UNCHANGED file
  BY DEF Register!Save, Register!Working
<1>2. CASE Register!Reject /\ UNCHANGED record
  BY <1>1, <1>2, RejectKeeps DEF PlanSaves
<1>3. CASE /\ Register!Saved(windows[Turn].plan.state)
           /\ Register!Step("write", DOMAIN Register!Planned) /\ UNCHANGED <<windows, confirmed>>
  <2> DEFINE s == windows[Turn].plan.state
  <2>1. s \in {"prepared", "recovery"}
    BY <1>1, TurnIs
  <2>2. record'[Mine].state = s
    BY <1>1, <1>3, SavedIs
  <2>3. PlanSaves
    BY <1>3, <2>1 DEF PlanSaves
  <2>4. /\ writer'.pc = "write" /\ writer'.left = DOMAIN Register!Planned
        /\ Mine' = Mine /\ Register!Planned' = Register!Planned
    BY <1>3 DEF Register!Step, Mine, Turn, Register!Planned
  <2> HIDE DEF s
  <2>5. Entering'
    BY <1>1, <1>3, <2>1, <2>2, <2>4 DEF Entering
  <2> QED BY <1>1, <1>3, <2>3, <2>5, PlanGoesOn
<1> QED BY <1>2, <1>3 DEF Register!Save, Turn

(* A step of the writer that touches no file and keeps the record.         *)
LEMMA ReadsKeep ==
  ASSUME RegisterInv, confirmed # <<>>, UNCHANGED <<windows, confirmed, file, record>>, Entering'
  PROVE  RegisterInv'
BY PlanGoesOn DEF PlanSaves

LEMMA GivesUp ==
  ASSUME RegisterInv, confirmed # <<>>, UNCHANGED <<windows, confirmed, file, record>>,
         Register!Step("recover", {})
  PROVE  RegisterInv'
<1>1. Entering'
  BY DEF Entering, Register!Step
<1> QED BY <1>1, ReadsKeep

LEMMA WriteVaultKeeps ==
  ASSUME RegisterInv, Register!WriteVault
  PROVE  RegisterInv'
<1>1. /\ confirmed # <<>> /\ writer.pc = "write" /\ writer.left # {}
      /\ UNCHANGED <<record, windows, confirmed>>
  BY DEF Register!WriteVault, Register!Working, Register!More
<1>2. CASE /\ file[Register!Here] \in {Register!Write.before, Register!Write.after}
           /\ file' = [file EXCEPT ![Register!Here] = Register!Write.after]
           /\ Register!Step("write", writer.left \ {Register!Here})
  <2>1. writer' = [pc |-> "write", left |-> writer.left \ {Register!Here}]
    BY <1>2 DEF Register!Step
  <2>2. file[Register!Here].has \in {Register!Write.before.has, Register!Write.after.has}
    BY <1>2
  <2> QED BY <1>1, <1>2, <2>1, <2>2, EntersKeeps
<1>3. CASE UNCHANGED file /\ Register!Step("recover", {})
  BY <1>1, <1>3, GivesUp
<1> QED BY <1>2, <1>3 DEF Register!WriteVault

LEMMA CompareKeeps ==
  ASSUME RegisterInv, Register!Compare
  PROVE  RegisterInv'
<1>1. /\ confirmed # <<>> /\ writer.pc = "write" /\ writer.left # {} /\ Register!Here = "bib"
      /\ UNCHANGED <<file, record, windows, confirmed>>
  BY DEF Register!Compare, Register!Working, Register!More
<1>2. CASE file[Register!Here] = Register!Write.after /\ Register!Step("write", writer.left \ {Register!Here})
  <2>1. Register!Here \in DOMAIN Register!Planned
    BY <1>1, TurnIs, HereIsLeft DEF RegisterInv, Entering, Sound
  <2>2. Register!Here \in Register!Paths
    BY <1>1 DEF Register!Paths
  <2>3. file' = [file EXCEPT ![Register!Here] = Register!Write.after]
    BY <1>1, <1>2, <2>2 DEF RegisterInv, RegisterTypes
  <2>4. writer' = [pc |-> "write", left |-> writer.left \ {Register!Here}]
    BY <1>2 DEF Register!Step
  <2> QED BY <1>1, <1>2, <2>3, <2>4, EntersKeeps
<1>3. CASE file[Register!Here] = Register!Write.before /\ Register!Step("rename", writer.left)
  <2>1. writer'.pc = "rename" /\ writer'.left = writer.left
    BY <1>3 DEF Register!Step
  <2>2. /\ Turn' = Turn /\ Mine' = Mine /\ Register!Planned' = Register!Planned
        /\ Register!Here' = Register!Here /\ Register!Write' = Register!Write
    BY <1>1, <2>1, TurnStays
  <2>3. Register!Has(Mine)' = Register!Has(Mine)
    BY <1>1, <2>2, HasIs
  <2>4. Entering'
    BY <1>1, <1>3, <2>1, <2>2, <2>3 DEF RegisterInv, Entering
  <2> QED BY <1>1, <2>4, ReadsKeep
<1>4. CASE Register!Step("recover", {})
  BY <1>1, <1>4, GivesUp
<1> QED BY <1>2, <1>3, <1>4 DEF Register!Compare

LEMMA ReplaceKeeps ==
  ASSUME RegisterInv, Register!Replace
  PROVE  RegisterInv'
<1>1. /\ confirmed # <<>> /\ writer.pc = "rename" /\ writer.left # {}
      /\ file[Register!Here].has = Register!Write.before.has
      /\ UNCHANGED <<record, windows, confirmed>>
  BY DEF Register!Replace, Register!Working, RegisterInv, Entering
<1>2. CASE /\ file' = [file EXCEPT ![Register!Here] = Register!Write.after]
           /\ Register!Step("write", writer.left \ {Register!Here})
  <2>1. writer' = [pc |-> "write", left |-> writer.left \ {Register!Here}]
    BY <1>2 DEF Register!Step
  <2> QED BY <1>1, <1>2, <2>1, EntersKeeps
<1>3. CASE UNCHANGED file /\ Register!Step("recover", {})
  BY <1>1, <1>3, GivesUp
<1> QED BY <1>2, <1>3 DEF Register!Replace

LEMMA FinishKeeps ==
  ASSUME RegisterInv, Register!Finish
  PROVE  RegisterInv'
<1>1. confirmed # <<>> /\ writer.pc = "write" /\ writer.left = {} /\ UNCHANGED file
  BY DEF Register!Finish, Register!Working, Register!More
<1>2. CASE Register!Step("recover", {}) /\ UNCHANGED <<record, windows, confirmed>>
  BY <1>1, <1>2, GivesUp
<1>3. CASE /\ Register!Saved("applied")
           /\ windows' = [windows EXCEPT ![Turn].pc = "shown", ![Turn].plan.state = "applied"]
           /\ confirmed' = Tail(confirmed) /\ writer' = Register!Resting
  <2> DEFINE x == [windows[Turn] EXCEPT !.pc = "shown", !.plan.state = "applied"]
  <2>1. windows' = [windows EXCEPT ![Turn] = x]
    BY <1>1, <1>3, TurnIs DEF RegisterInv, RegisterTypes
  <2>2. /\ Turn \in Windows /\ DOMAIN windows[Turn] = {"pc", "note", "plan"}
        /\ DOMAIN windows[Turn].plan = {"state", "writes"} /\ windows[Turn].pc = "queued"
    BY <1>1, TurnIs
  <2>3. /\ DOMAIN x = {"pc", "note", "plan"} /\ DOMAIN x.plan = {"state", "writes"}
        /\ x.pc = "shown" /\ x.note = windows[Turn].note
        /\ x.plan.state = "applied" /\ x.plan.writes = windows[Turn].plan.writes
    BY <2>2
  <2>4. Shows(x) /\ x.pc # "queued"
    BY <2>2, <2>3 DEF RegisterInv, Plans, Shows
  <2>5. Register!Has(Mine) = Touching(Mine)
    BY <1>1, TurnIs, HasIs DEF RegisterInv, Entering, Sound
  <2>6. PlanSaves
    BY <1>3, <2>5 DEF PlanSaves
  <2> HIDE DEF x
  <2> QED BY <1>1, <1>3, <2>1, <2>4, <2>6, LeavesQueue
<1> QED BY <1>2, <1>3 DEF Register!Finish, Turn

LEMMA RecoverKeeps ==
  ASSUME RegisterInv, Register!Recover
  PROVE  RegisterInv'
<1>1. confirmed # <<>> /\ UNCHANGED file /\ Register!Reject
  BY DEF Register!Recover, Register!Working
<1>2. PlanSaves
  <2>1. Register!Saved("recovery") \/ UNCHANGED record
    BY DEF Register!Recover
  <2>2. CASE UNCHANGED record
    BY <2>2 DEF PlanSaves
  <2>3. CASE Register!Saved("recovery")
    BY <2>3 DEF PlanSaves
  <2> QED BY <2>1, <2>2, <2>3
<1> QED BY <1>1, <1>2, RejectKeeps

LEMMA EditGrows ==
  ASSUME RegisterInv, NEW p \in Edited, Register!Edit(p)
  PROVE  /\ file' = [q \in Register!Paths |-> file'[q]]
         /\ \A q \in Register!Paths : /\ Content(file'[q]) /\ file'[q].has = file[q].has
                                      /\ file[q].rest <= file'[q].rest
<1>0. file' = [file EXCEPT ![p].rest = @ + 1]
  BY DEF Register!Edit
<1>1. /\ file = [q \in Register!Paths |-> file[q]]
      /\ \A q \in Register!Paths : Content(file[q])
  BY DEF RegisterInv, RegisterTypes
<1>2. file' = [q \in Register!Paths |->
                 IF q = p THEN [file[q] EXCEPT !.rest = file[q].rest + 1] ELSE file[q]]
  BY <1>0, <1>1
<1>3. ASSUME NEW q \in Register!Paths
      PROVE  /\ Content(file'[q]) /\ file'[q].has = file[q].has
             /\ file[q].rest <= file'[q].rest
  <2>1. CASE q = p
    <3>1. file'[q] = [file[q] EXCEPT !.rest = file[q].rest + 1]
      BY <1>2, <2>1
    <3> QED BY <1>1, <3>1 DEF Content
  <2>2. CASE q # p
    <3>1. file'[q] = file[q]
      BY <1>2, <2>2
    <3> QED BY <1>1, <3>1 DEF Content
  <2> QED BY <2>1, <2>2
<1> QED BY <1>2, <1>3

LEMMA EditKeeps ==
  ASSUME RegisterInv, NEW p \in Edited, Register!Edit(p)
  PROVE  RegisterInv'
<1>1. /\ file' = [file EXCEPT ![p].rest = @ + 1]
      /\ UNCHANGED <<record, windows, confirmed, writer>>
  BY DEF Register!Edit
<1>2. /\ file' = [q \in Register!Paths |-> file'[q]]
      /\ \A q \in Register!Paths : /\ Content(file'[q]) /\ file'[q].has = file[q].has
                                   /\ file[q].rest <= file'[q].rest
  BY EditGrows
<1>3. \A n \in Notes : Touching(n) \subseteq Register!Paths
  BY DEF Touching, Register!Paths, Register!InVault
<1>4. \A n \in Notes : Register!Has(n)' = Register!Has(n)
  BY <1>2, <1>3, HasIs
<1>5. /\ Turn' = Turn /\ Mine' = Mine /\ Register!Planned' = Register!Planned
      /\ Register!Here' = Register!Here /\ Register!Write' = Register!Write
  BY <1>1 DEF Turn, Mine, Register!Planned, Register!Here, Register!Write
<1>6. RegisterTypes'
  BY <1>1, <1>2 DEF RegisterInv, RegisterTypes
<1>7. Plans'
  <2>1. \A w \in Windows : Shows(windows[w])'
    BY <1>1, <1>4 DEF RegisterInv, Plans, Shows
  <2> QED BY <1>1, <1>4, <2>1 DEF RegisterInv, Plans
<1>8. Recorded' /\ Confirmed'
  BY <1>1, <1>4 DEF RegisterInv, Recorded, Confirmed
<1>9. Entering'
  <2>1. CASE writer.pc = "idle"
    BY <1>1, <2>1 DEF Entering
  <2>2. CASE writer.pc # "idle"
    <3>1. confirmed # <<>> /\ confirmed' # <<>>
      BY <1>1, <2>2 DEF RegisterInv, Entering
    <3>2. Register!Has(Mine)' = Register!Has(Mine)
      BY <1>4, <1>5, <3>1, TurnIs
    <3>3. file'["bib"].has = file["bib"].has
      BY <1>2 DEF Register!Paths
    <3> QED BY <1>1, <1>5, <3>1, <3>2, <3>3 DEF RegisterInv, Entering
  <2> QED BY <2>1, <2>2
<1> QED BY <1>6, <1>7, <1>8, <1>9 DEF RegisterInv

LEMMA ReloadKeeps ==
  ASSUME RegisterInv, Register!Reload
  PROVE  RegisterInv'
<1>1. /\ windows' = [w \in Windows |-> Register!Closed] /\ confirmed' = <<>>
      /\ writer' = Register!Resting /\ UNCHANGED <<file, record>>
  BY DEF Register!Reload
<1>2. \A n : Register!Has(n)' = Register!Has(n)
  BY <1>1, HasIs
<1>3. \A w \in Windows : windows'[w] = Register!Closed
  BY <1>1
<1>4. RegisterTypes'
  BY <1>1, <1>3 DEF RegisterInv, RegisterTypes, Register!Closed, Register!NoRecord, Content,
                    Register!Paths, Register!InVault
<1>5. Plans'
  BY <1>1, <1>2, <1>3 DEF RegisterInv, Plans, Shows, Register!Closed, Register!NoRecord
<1>6. Recorded' /\ Confirmed' /\ Entering'
  BY <1>1, <1>2 DEF RegisterInv, Recorded, Confirmed, Entering, Register!Resting
<1> QED BY <1>4, <1>5, <1>6 DEF RegisterInv

LEMMA RegisterStarts == Register!Init => RegisterInv
<1> SUFFICES ASSUME Register!Init PROVE RegisterInv
  OBVIOUS
<1>1. \A n \in Notes : Register!Has(n) = {} /\ record[n] = Register!NoRecord
  <2>1. \A n \in Notes : Touching(n) \subseteq Register!Paths
    BY DEF Touching, Register!Paths, Register!InVault
  <2>2. \A p \in Register!Paths : file[p].has = {}
    BY DEF Register!Init, Register!Blank
  <2> QED BY <2>1, <2>2, HasIs DEF Register!Init
<1>2. \A w \in Windows : windows[w] = Register!Closed
  BY DEF Register!Init
<1>3. RegisterTypes
  BY <1>1, <1>2 DEF Register!Init, RegisterTypes, Register!Blank, Content, Register!Closed,
                    Register!NoRecord
<1>4. Plans
  BY <1>1, <1>2 DEF Plans, Shows, Register!Closed, Register!NoRecord
<1>5. Recorded /\ Confirmed /\ Entering
  BY <1>1 DEF Recorded, Confirmed, Entering, Register!Init, Register!Resting, Register!NoRecord
<1> QED BY <1>3, <1>4, <1>5 DEF RegisterInv

LEMMA RegistersOn ==
  RegisterInv /\ Register!Next => RegisterInv'
<1> SUFFICES ASSUME RegisterInv, Register!Next PROVE RegisterInv'
  OBVIOUS
<1>1. ASSUME NEW w \in Windows, NEW n \in Notes, Register!Open(w, n) PROVE RegisterInv'
  BY <1>1, OpenKeeps
<1>2. ASSUME NEW w \in Windows, Register!Apply(w) \/ Register!Close(w) PROVE RegisterInv'
  BY <1>2, ApplyKeeps, CloseKeeps
<1>3. ASSUME Register!Writer PROVE RegisterInv'
  BY <1>3, PreflightKeeps, SavePlanKeeps, WriteVaultKeeps, CompareKeeps, ReplaceKeeps, FinishKeeps,
     RecoverKeeps DEF Register!Writer
<1>4. ASSUME NEW p \in Edited, Register!Edit(p) PROVE RegisterInv'
  BY <1>4, EditKeeps
<1> QED BY <1>1, <1>2, <1>3, <1>4, ReloadKeeps DEF Register!Next

LEMMA RegisterIdle ==
  RegisterInv /\ UNCHANGED registerVars => RegisterInv'
<1> SUFFICES ASSUME RegisterInv, UNCHANGED registerVars PROVE RegisterInv'
  OBVIOUS
<1>1. UNCHANGED <<file, record, windows, confirmed, writer>>
  BY DEF registerVars
<1>2. \A n : Register!Has(n)' = Register!Has(n)
  BY <1>1, HasIs
<1>3. RegisterTypes' /\ Recorded' /\ Confirmed'
  BY <1>1, <1>2 DEF RegisterInv, RegisterTypes, Recorded, Confirmed, Content, Register!Paths,
                    Register!InVault
<1>4. Plans'
  BY <1>1, <1>2 DEF RegisterInv, Plans, Shows
<1>5. /\ Mine' = Mine /\ Register!Planned' = Register!Planned
      /\ Register!Here' = Register!Here /\ Register!Write' = Register!Write
  BY <1>1 DEF Turn, Mine, Register!Planned, Register!Here, Register!Write
<1>6. Register!Has(Mine)' = Register!Has(Mine)
  BY <1>2, <1>5
<1>7. Entering'
  BY <1>1, <1>5, <1>6 DEF RegisterInv, Entering
<1> QED BY <1>3, <1>4, <1>7 DEF RegisterInv

LEMMA RegisterShows == RegisterInv => Register!HalfDoneIsRecorded
<1> SUFFICES ASSUME RegisterInv, NEW n \in Notes,
                    Register!Has(n) \notin {{}, Register!Range(Register!Order(n))}
             PROVE  /\ record[n].state \in {"prepared", "recovery"}
                    /\ Register!Range(Register!Order(n)) \ Register!Has(n) \subseteq DOMAIN record[n].writes
  BY DEF Register!HalfDoneIsRecorded
<1>1. Register!Range(Register!Order(n)) = Touching(n)
  <2>1. Register!Range(Register!Order(n)) = {Register!Order(n)[k] : k \in 1 .. 4}
    BY DEF Register!Range, Register!Order
  <2>2. \A k \in 1 .. 4 : k \in {1, 2, 3, 4}
    OBVIOUS
  <2> QED BY <2>1, <2>2 DEF Register!Order, Touching
<1>2. record[n].state \in {"prepared", "recovery"}
  BY <1>1 DEF RegisterInv, RegisterTypes, Recorded
<1> QED BY <1>1, <1>2 DEF RegisterInv, Plans, Sound


-----------------------------------------------------------------------------
(* No file of the vault loses what others have entered or written.         *)
TextGrows == \A p \in Register!InVault : /\ file[p].has \subseteq file'[p].has
                                         /\ file[p].rest <= file'[p].rest

LEMMA TextUnmoved ==
  ASSUME RegisterInv, UNCHANGED file
  PROVE  TextGrows
<1>1. \A p \in Register!InVault : file[p].rest \in Nat
  BY DEF RegisterInv, RegisterTypes, Content, Register!Paths
<1>2. \A p \in Register!InVault : file[p].rest <= file[p].rest
  BY <1>1
<1> QED BY <1>2 DEF TextGrows

LEMMA WriteGrows ==
  ASSUME RegisterInv, confirmed # <<>>, writer.pc \in {"write", "rename"}, writer.left # {},
         \/ file[Register!Here] \in {Register!Write.before, Register!Write.after}
         \/ Register!Here = "bib",
         file' = [file EXCEPT ![Register!Here] = Register!Write.after]
  PROVE  TextGrows
<1> DEFINE p == Register!Here
<1>1. Mine \in Notes /\ Sound(Mine, Register!Planned, Register!Has(Mine))
  BY TurnIs
<1>2. p \in DOMAIN Register!Planned /\ Register!Write = Register!Planned[p]
  BY <1>1, HereIsLeft DEF RegisterInv, Entering, Register!Write, Sound
<1>3. p \in Register!Paths
  BY <1>1, <1>2 DEF Sound, Touching, Register!Paths, Register!InVault
<1>4. /\ \A q \in Register!Paths : Content(file[q])
      /\ \A q \in Register!Paths \ {p} : file'[q] = file[q]
      /\ file'[p] = Register!Planned[p].after
  BY <1>2, <1>3 DEF RegisterInv, RegisterTypes
<1>5. /\ Register!Planned[p].after.has = Register!Planned[p].before.has \cup {Mine}
      /\ Register!Planned[p].after.rest = Register!Planned[p].before.rest
      /\ Content(Register!Planned[p].after)
  BY <1>1, <1>2 DEF Sound
<1> HIDE DEF p
<1>6. "bib" \notin Register!InVault
  BY StoresAssumption DEF Register!RegistrationAssumption, Register!InVault
<1>7. ASSUME NEW q \in Register!InVault
      PROVE  file[q].has \subseteq file'[q].has /\ file[q].rest <= file'[q].rest
  <2>1. q \in Register!Paths
    BY DEF Register!Paths
  <2>2. CASE q = p
    <3>1. file[p] \in {Register!Planned[p].before, Register!Planned[p].after}
      BY <1>2, <1>6, <2>2 DEF p
    <3> QED BY <1>4, <1>5, <2>2, <3>1 DEF Content
  <2>3. CASE q # p
    BY <1>4, <2>1, <2>3 DEF Content
  <2> QED BY <2>2, <2>3
<1> QED BY <1>7 DEF TextGrows

LEMMA RegisterGrows ==
  RegisterInv /\ Register!Next => TextGrows
<1> SUFFICES ASSUME RegisterInv, Register!Next PROVE TextGrows
  OBVIOUS
<1>1. ASSUME NEW w \in Windows, NEW n \in Notes, Register!Open(w, n) PROVE UNCHANGED file
  BY <1>1 DEF Register!Open, Register!WindowFrame
<1>2. ASSUME NEW w \in Windows, Register!Apply(w) \/ Register!Close(w) PROVE UNCHANGED file
  BY <1>2 DEF Register!Apply, Register!Close, Register!WindowFrame
<1>3. ASSUME \/ Register!Preflight \/ Register!Save \/ Register!Compare \/ Register!Finish
             \/ Register!Recover \/ Register!Reload
      PROVE  UNCHANGED file
  BY <1>3 DEF Register!Preflight, Register!Save, Register!Compare, Register!Finish,
              Register!Recover, Register!Reload
<1>4. CASE Register!WriteVault
  <2>1. /\ confirmed # <<>> /\ writer.pc = "write" /\ writer.left # {}
    BY <1>4 DEF Register!WriteVault, Register!Working, Register!More
  <2>2. \/ UNCHANGED file
        \/ /\ file[Register!Here] \in {Register!Write.before, Register!Write.after}
           /\ file' = [file EXCEPT ![Register!Here] = Register!Write.after]
    BY <1>4 DEF Register!WriteVault
  <2> QED BY <2>1, <2>2, WriteGrows, TextUnmoved
<1>5. CASE Register!Replace
  <2>1. /\ confirmed # <<>> /\ writer.pc = "rename" /\ writer.left # {} /\ Register!Here = "bib"
    BY <1>5 DEF Register!Replace, Register!Working, RegisterInv, Entering
  <2>2. \/ UNCHANGED file
        \/ file' = [file EXCEPT ![Register!Here] = Register!Write.after]
    BY <1>5 DEF Register!Replace
  <2> QED BY <2>1, <2>2, WriteGrows, TextUnmoved
<1>6. ASSUME NEW p \in Edited, Register!Edit(p) PROVE TextGrows
  BY <1>6, EditGrows DEF TextGrows, Register!Paths, Register!InVault
<1> QED BY <1>1, <1>2, <1>3, <1>4, <1>5, <1>6, TextUnmoved DEF Register!Next, Register!Writer

-----------------------------------------------------------------------------
(* What a registration, or the revision of a note, has half done is told   *)
(* by its record (IngestRegistration.HalfDoneIsRecorded, CurationRevision. *)
(* ChangeIsRecorded), for any number of windows, notes, reviews and        *)
(* revisions, wherever a step fails, a file is edited or the plugin stops. *)
THEOREM HalfDoneRecorded == MCSpec => []HalfDoneIsRecorded
<1>1. MCInit => RegisterInv /\ ChangeInv
  BY RegisterStarts, ChangeStarts DEF MCInit
<1>2. ASSUME RegisterInv, ChangeInv, [MCNext]_allVars PROVE RegisterInv' /\ ChangeInv'
  <2>1. [Register!Next]_registerVars
    BY <1>2 DEF MCNext, Only, allVars
  <2>2. [Curation!Next]_curationVars
    BY <1>2 DEF MCNext, Only, allVars
  <2> QED BY <1>2, <2>1, <2>2, RegistersOn, RegisterIdle, ChangeKeeps
<1>3. RegisterInv /\ ChangeInv => HalfDoneIsRecorded
  BY RegisterShows, ChangeShows DEF HalfDoneIsRecorded
<1> QED BY <1>1, <1>2, <1>3, PTL DEF MCSpec

-----------------------------------------------------------------------------
(* RetrievalIndex.                                                         *)

(* What an index holds: vectors of the texts of its notes.                 *)
Fitting(x) == /\ DOMAIN x = {"there", "vectors", "hashes"} /\ x.hashes \in Index!Vaults
              /\ x.vectors \subseteq Index!TextsOf(x.hashes)

Indexing == build.pc \in {"read", "embed", "save", "last", "recheck"}
Batch    == IF build.pc = "save" THEN build.vectors ELSE {}

IndexTypes ==
  /\ docs \in Index!Vaults /\ Fitting(disk) /\ Fitting(snap)
  /\ DOMAIN build = {"pc", "notes", "vectors"} /\ build.notes \in Index!Vaults
  /\ build.vectors \subseteq Index!TextsOf(build.notes)
  /\ DOMAIN status = {"state", "changed", "done", "total"}

(* What is in memory is what is in the file, or nothing.                   *)
Kept ==
  /\ loaded = "no" => snap.vectors = {}
  /\ loaded = "no" => shown = NoText /\ ~Indexing /\ inspector # "read" /\ status.state # "ready"
  /\ loaded # "no" => snap = disk \/ snap.vectors = {}
  /\ Indexing => status.state = "building"
  /\ status.state = "ready" => snap = disk
  /\ build.pc \in {"last", "recheck"} => Index!TextsOf(build.notes) \subseteq build.vectors
  /\ build.pc = "recheck" => /\ snap = disk
                             /\ snap.vectors = build.vectors /\ snap.hashes = build.notes

(* What was paid for and is still in the notes is in the file, in memory   *)
(* and in the build, but for a batch that is about to be saved.            *)
PaidKept ==
  /\ paid \subseteq Index!TextsOf(docs)
  /\ paid \subseteq disk.vectors \cup Batch
  /\ loaded # "no" => paid \subseteq snap.vectors \cup Batch
  /\ Indexing /\ build.pc # "read" => paid \subseteq build.vectors

(* A search answers with what the notes say.                               *)
Searching == DOMAIN query = {"pc", "notes", "hits"} /\ Index!HitsLive

IndexInv == IndexTypes /\ Kept /\ PaidKept /\ Index!UpToDate

LEMMA SameCount ==
  ASSUME NEW a \in Index!Vaults, NEW b \in Index!Vaults, Index!Changed(a, b) = 0
  PROVE  a = b
<1> DEFINE S == {f \in Files : a[f] # b[f]}
<1>1. IsFiniteSet(Files)
  BY StoresAssumption DEF Index!IndexAssumption, Index!IsFiniteSet, IsFiniteSet
<1>2. IsFiniteSet(S) /\ Cardinality(S) = 0
  BY <1>1, FS_Subset DEF Index!Changed, Index!Cardinality, Cardinality
<1>3. S = {}
  BY <1>2, FS_EmptySet
<1> QED BY <1>3 DEF Index!Vaults

LEMMA AllDone ==
  ASSUME NEW notes \in Index!Vaults, NEW vectors, Index!Done(notes, vectors) = Index!Total(notes)
  PROVE  Index!TextsOf(notes) \subseteq vectors
<1> DEFINE P == Index!Passages(notes)
           T == {f \in P : notes[f] \in vectors}
<1>1. IsFiniteSet(Files)
  BY StoresAssumption DEF Index!IndexAssumption, Index!IsFiniteSet, IsFiniteSet
<1>2. IsFiniteSet(P) /\ T \subseteq P
  BY <1>1, FS_Subset DEF Index!Passages
<1>3. Cardinality(T) = Cardinality(P)
  BY DEF Index!Done, Index!Total, Index!Cardinality, Cardinality
<1>4. T = P
  BY <1>2, <1>3, FS_Subset
<1> QED BY <1>4 DEF Index!TextsOf

LEMMA Loading == ASSUME IndexInv, Index!Load PROVE IndexInv'
<1> USE DEF IndexInv, Index!Load
<1>1. IndexTypes'
  BY DEF IndexTypes
<1>2. Batch = {} /\ Batch' = {} /\ ~Indexing /\ loaded = "no"
  BY DEF Kept, Indexing, Batch
<1>3. CASE /\ loaded' = "yes" /\ snap' = disk /\ UNCHANGED <<upsets, paid>>
  <2>1. Kept' /\ PaidKept'
    BY <1>2, <1>3 DEF Kept, PaidKept, Indexing, Batch
  <2>2. Index!UpToDate'
    BY <1>2 DEF Index!UpToDate, Kept
  <2> QED BY <1>1, <2>1, <2>2
<1>4. CASE /\ Index!Upset /\ loaded' = "failed" /\ status' = [status EXCEPT !.state = "error"]
           /\ paid' = {} /\ UNCHANGED snap
  <2>1. status'.state = "error"
    BY <1>4 DEF IndexTypes
  <2>2. Kept' /\ PaidKept'
    BY <1>2, <1>4, <2>1 DEF Kept, PaidKept, Indexing, Batch
  <2>3. Index!UpToDate'
    BY <2>1 DEF Index!UpToDate
  <2> QED BY <1>1, <2>2, <2>3
<1> QED BY <1>3, <1>4

(* The build.                                                              *)
LEMMA Building ==
  ASSUME IndexInv,
         \/ Index!Update \/ Index!Stop \/ Index!BuildBegins \/ Index!Interrupted \/ Index!ReadNotes
         \/ (\E t \in Texts : Index!Embed(t)) \/ Index!Built
  PROVE  IndexInv'
<1> USE DEF IndexInv
<1>1. CASE Index!Update
  BY <1>1 DEF Index!Update, Index!Idle, Index!NoIndex, IndexTypes, Kept, PaidKept, Indexing, Batch,
     Index!UpToDate, Fitting, Index!TextsOf, Index!Vaults, Index!Passages
<1>2. CASE Index!Stop
  BY <1>2 DEF Index!Stop, IndexTypes, Kept, PaidKept, Indexing, Batch, Index!UpToDate, Fitting
<1>3. CASE Index!BuildBegins
  BY <1>3 DEF Index!BuildBegins, IndexTypes, Kept, PaidKept, Indexing, Batch, Index!UpToDate, Fitting
<1>4. CASE Index!Interrupted
  BY <1>4 DEF Index!Interrupted, Index!Ends, Index!Idle, Index!NoIndex, IndexTypes, Kept, PaidKept,
     Indexing, Batch, Index!UpToDate, Fitting, Index!TextsOf, Index!Vaults, Index!Passages
<1>5. CASE Index!ReadNotes
  BY <1>5 DEF Index!ReadNotes, IndexTypes, Kept, PaidKept, Indexing, Batch, Index!UpToDate, Fitting
<1>6. ASSUME NEW t \in Texts, Index!Embed(t) PROVE IndexInv'
  BY <1>6 DEF Index!Embed, Index!Wanting, IndexTypes, Kept, PaidKept, Indexing, Batch,
     Index!UpToDate, Fitting
<1>7. CASE Index!Built
  BY <1>7 DEF Index!Built, Index!Wanting, IndexTypes, Kept, PaidKept, Indexing, Batch,
     Index!UpToDate, Fitting
<1> QED BY <1>1, <1>2, <1>3, <1>4, <1>5, <1>6, <1>7

LEMMA Saving == ASSUME IndexInv, Index!Save PROVE IndexInv'
<1> USE DEF IndexInv
<1>1. /\ disk' = [there |-> TRUE, vectors |-> build.vectors, hashes |-> build.notes] /\ snap' = disk'
      /\ UNCHANGED <<docs, loaded, paid, shown, inspector>> /\ build.pc \in {"save", "last"}
      /\ build'.notes = build.notes /\ build'.vectors = build.vectors
      /\ build'.pc = (IF build.pc = "save" THEN "embed" ELSE "recheck")
      /\ DOMAIN build' = {"pc", "notes", "vectors"}
      /\ DOMAIN status' = DOMAIN status /\ status'.state = status.state
  BY DEF Index!Save, IndexTypes
<1>2. IndexTypes'
  BY <1>1 DEF IndexTypes, Fitting
<1>3. Kept'
  BY <1>1 DEF Kept, Indexing
<1>4. PaidKept'
  BY <1>1 DEF PaidKept, Indexing, Batch
<1>5. Index!UpToDate'
  BY <1>1 DEF Kept, Indexing, Index!UpToDate
<1> QED BY <1>2, <1>3, <1>4, <1>5

LEMMA Failing == ASSUME IndexInv, Index!BuildFails PROVE IndexInv'
<1> USE DEF IndexInv
<1>1. /\ UNCHANGED <<docs, disk, snap, loaded, shown, inspector>>
      /\ build' = Index!Idle("idle") /\ Indexing
      /\ DOMAIN status' = DOMAIN status /\ status'.state \in {"interrupted", "error"}
      /\ paid' = IF build.pc = "save" THEN paid \cap snap.vectors ELSE paid
  BY DEF Index!BuildFails, Index!Ends, IndexTypes, Indexing
<1>2. IndexTypes'
  BY <1>1 DEF IndexTypes, Fitting, Index!Idle, Index!NoIndex, Index!Vaults, Index!TextsOf, Index!Passages
<1>3. Kept'
  BY <1>1 DEF Kept, Indexing, Index!Idle
<1>4. PaidKept'
  BY <1>1 DEF Kept, PaidKept, Indexing, Batch, Index!Idle
<1>5. Index!UpToDate'
  BY <1>1 DEF Index!UpToDate
<1> QED BY <1>2, <1>3, <1>4, <1>5

(* What is shown as up to date is so, since it is compared with the notes  *)
(* as they are read for that.                                              *)
LEMMA Checking == ASSUME IndexInv, Index!Recheck PROVE IndexInv'
<1> USE DEF IndexInv
<1>1. /\ UNCHANGED <<docs, disk, snap, loaded, inspector, paid>> /\ shown' = docs
      /\ build' = Index!Idle("idle") /\ build.pc = "recheck" /\ Indexing
      /\ DOMAIN status' = DOMAIN status /\ status'.state = "ready"
      /\ status'.changed = Index!Changed(docs, snap.hashes)
  BY DEF Index!Recheck, IndexTypes, Indexing
<1>2. IndexTypes'
  BY <1>1 DEF IndexTypes, Fitting, Index!Idle, Index!NoIndex, Index!Vaults, Index!TextsOf, Index!Passages
<1>3. Kept'
  BY <1>1 DEF Kept, Indexing, Index!Idle
<1>4. PaidKept'
  BY <1>1 DEF PaidKept, Indexing, Batch, Index!Idle
<1>5. Index!UpToDate'
  <2>1. CASE status'.changed = 0
    <3>1. snap.hashes = docs
      BY <1>1, <2>1, SameCount DEF IndexTypes, Fitting
    <3> QED BY <1>1, <3>1 DEF Kept, IndexTypes, Fitting, Index!UpToDate
  <2>2. CASE status'.changed # 0
    BY <2>2 DEF Index!UpToDate
  <2> QED BY <2>1, <2>2
<1> QED BY <1>2, <1>3, <1>4, <1>5

LEMMA Inspecting ==
  ASSUME IndexInv, Index!Inspect \/ Index!InspectBegins \/ Index!InspectShows
  PROVE  IndexInv'
<1> USE DEF IndexInv
<1>1. CASE Index!Inspect \/ Index!InspectBegins
  BY <1>1 DEF Index!Inspect, Index!InspectBegins, IndexTypes, Kept, PaidKept, Indexing, Batch,
     Index!UpToDate, Fitting
<1>2. CASE Index!InspectShows
  <2>1. /\ UNCHANGED <<docs, disk, snap, loaded, build, paid>> /\ shown' = docs
        /\ inspector = "read" /\ inspector' = "idle"
        /\ DOMAIN status' = DOMAIN status /\ status'.state = status.state
        /\ status'.changed = Index!Changed(docs, snap.hashes)
        /\ status'.done = Index!Done(docs, snap.vectors) /\ status'.total = Index!Total(docs)
    BY <1>2 DEF Index!InspectShows, IndexTypes
  <2>2. IndexTypes' /\ Kept' /\ PaidKept'
    BY <2>1 DEF IndexTypes, Kept, PaidKept, Indexing, Batch, Fitting
  <2>3. Index!UpToDate'
    <3>1. CASE /\ status'.state = "ready" /\ status'.changed = 0
               /\ status'.done = status'.total
      <4>1. snap.hashes = docs
        BY <2>1, <3>1, SameCount DEF IndexTypes, Fitting
      <4>2. Index!TextsOf(docs) \subseteq snap.vectors
        BY <2>1, <3>1, AllDone DEF IndexTypes
      <4> QED BY <2>1, <3>1, <4>1, <4>2 DEF Kept, IndexTypes, Fitting, Index!UpToDate
    <3>2. CASE ~(/\ status'.state = "ready" /\ status'.changed = 0
                 /\ status'.done = status'.total)
      BY <3>2 DEF Index!UpToDate
    <3> QED BY <3>1, <3>2
  <2> QED BY <2>2, <2>3
<1> QED BY <1>1, <1>2

LEMMA Interfering == ASSUME IndexInv, Index!Edit \/ Index!Reload PROVE IndexInv'
<1> USE DEF IndexInv
<1>1. CASE Index!Edit
  <2>1. /\ docs' \in Index!Vaults /\ paid' = paid \cap Index!TextsOf(docs')
        /\ UNCHANGED <<disk, snap, loaded, status, build, inspector, shown>>
    BY <1>1 DEF Index!Edit, Index!Vaults, IndexTypes, Index!serviceVars
  <2> QED BY <2>1 DEF IndexTypes, Kept, PaidKept, Indexing, Batch, Index!UpToDate, Fitting
<1>2. CASE Index!Reload
  <2>1. /\ snap' = Index!NoIndex /\ loaded' = "no" /\ status' = Index!NoStatus
        /\ build' = Index!Idle("idle") /\ inspector' = "idle" /\ shown' = NoText
        /\ UNCHANGED <<docs, disk>>
        /\ paid' = IF build.pc = "save" THEN paid \cap disk.vectors ELSE paid
    BY <1>2 DEF Index!Reload
  <2>2. /\ Fitting(snap)' /\ snap'.vectors = {}
        /\ status'.state = "idle" /\ build'.pc = "idle"
    BY <2>1 DEF Fitting, Index!NoIndex, Index!NoStatus, Index!Idle, Index!Vaults
  <2>3. IndexTypes'
    BY <2>1, <2>2 DEF IndexTypes, Fitting, Index!Idle, Index!NoIndex, Index!NoStatus, Index!Vaults,
       Index!TextsOf, Index!Passages
  <2>4. Kept' /\ Index!UpToDate'
    BY <2>1, <2>2 DEF Kept, Indexing, Index!UpToDate
  <2>5. PaidKept'
    BY <2>1, <2>2 DEF PaidKept, Indexing, Batch
  <2> QED BY <2>3, <2>4, <2>5
<1> QED BY <1>1, <1>2

LEMMA Indexed ==
  ASSUME IndexInv, Searching, [Index!Next]_indexVars
  PROVE  IndexInv' /\ Searching'
<1> DEFINE rest == <<docs, disk, snap, loaded, status, build, inspector, shown, paid>>
<1>1. UNCHANGED rest => IndexInv'
  BY DEF IndexInv, IndexTypes, Kept, PaidKept, Indexing, Batch, Fitting, Index!UpToDate
<1>2. CASE UNCHANGED indexVars
  BY <1>1, <1>2 DEF indexVars, Searching, Index!HitsLive
<1>3. CASE Index!Ask \/ Index!ReadAll \/ Index!Rank
  <2>1. /\ UNCHANGED rest /\ query'.pc # "answered"
        /\ DOMAIN query' = {"pc", "notes", "hits"}
    BY <1>3 DEF Searching, Index!Ask, Index!ReadAll, Index!Rank, Index!serviceVars, Index!NoQuery
  <2> QED BY <1>1, <2>1 DEF Searching, Index!HitsLive
<1>4. CASE Index!Answer
  BY <1>1, <1>4 DEF Index!Answer, Index!serviceVars, Searching, Index!HitsLive
<1>5. CASE \/ Index!Load \/ Index!Update \/ Index!Stop \/ Index!BuildBegins \/ Index!Interrupted
           \/ Index!ReadNotes \/ (\E t \in Texts : Index!Embed(t)) \/ Index!Built \/ Index!Save
           \/ Index!BuildFails \/ Index!Recheck \/ Index!Inspect \/ Index!InspectBegins
           \/ Index!InspectShows \/ Index!Edit \/ Index!Reload
  <2>1. UNCHANGED query \/ query' = Index!NoQuery
    BY <1>5 DEF Index!Load, Index!Update, Index!Stop, Index!BuildBegins, Index!Interrupted,
       Index!ReadNotes, Index!Embed, Index!Built, Index!Save, Index!BuildFails, Index!Recheck,
       Index!Inspect, Index!InspectBegins, Index!InspectShows, Index!Edit, Index!Reload
  <2>2. Searching'
    BY <2>1 DEF Searching, Index!HitsLive, Index!NoQuery
  <2> QED BY <1>5, <2>2, Loading, Building, Saving, Failing, Checking, Inspecting, Interfering
<1> QED BY <1>2, <1>3, <1>4, <1>5 DEF Index!Next

LEMMA NothingIndexed ==
  ASSUME Index!Init
  PROVE  IndexInv /\ Searching
<1> USE DEF Index!Init, Index!NoIndex, Index!NoStatus, Index!Idle, Index!NoQuery
<1>1. IndexTypes
  BY DEF IndexTypes, Fitting, Index!Vaults
<1>2. Kept /\ PaidKept
  BY DEF Kept, PaidKept, Indexing, Batch
<1>3. Index!UpToDate /\ Searching
  BY DEF Searching, Index!UpToDate, Index!HitsLive
<1> QED BY <1>1, <1>2, <1>3 DEF IndexInv

(* What the settings show as up to date has a vector for every passage of  *)
(* the notes, in memory and in the file, no passage whose batch was        *)
(* answered is sent again, and no answer of a search has what was edited   *)
(* while it was looked for, for any notes, edits, failures and reloads.    *)
THEOREM IndexStaysTrue == MCSpec => []IndexTrue
<1>1. MCInit => IndexInv /\ Searching
  BY NothingIndexed DEF MCInit
<1>2. ASSUME IndexInv, Searching, [MCNext]_allVars PROVE IndexInv' /\ Searching'
  <2>1. [Index!Next]_indexVars
    BY <1>2 DEF MCNext, Only, allVars
  <2> QED BY <1>2, <2>1, Indexed
<1>3. IndexInv /\ Searching => IndexTrue
  BY DEF IndexInv, Searching, PaidKept, Indexing, Index!SentOnce, Index!Wanting, IndexTrue
<1> QED BY <1>1, <1>2, <1>3, PTL DEF MCSpec

-----------------------------------------------------------------------------
(* GuidedReading.                                                          *)

Statuses == {"pending", "running", "done", "failed", "interrupted"}
Askers   == Actions \cup {Reading!User}
Node     == [chain : Nat, parent : Nat, status : Statuses, by : Askers]
Jobs     == {"open", "finish", "fail", "mark"}      \* edits of a node
Edits    == [edit : {"add"}, to : Nat, at : Nat, by : Askers] \cup [edit : Jobs, node : Nat]
Doing    == [at : {"idle", "opening", "handing", "adding", "recording", "generating",
                   "marking", "reporting"}, node : Nat]
Card     == [state : {"none", "prepared", "opened"}, on : Nat,
             exec : {"none", "waiting", "succeeded"} \cup Statuses, node : Nat]
Tree     == DOMAIN session.nodes
Waits    == 1 .. Len(waiting)
At(n)    == session.nodes[n].status
OnNode(k, n) == waiting[k].edit \in Jobs /\ waiting[k].node = n

ReadingTypes ==
  /\ DOMAIN session = {"nodes", "complete"} /\ session.nodes \in Seq(Node)
  /\ waiting \in Seq(Edits)
  /\ gen \in [Reading!Nodes -> {"idle", "opening", "working", "closing", "failing"}]
  /\ act \in [Actions -> Card] /\ advance \in [Actions -> Doing]

(* A node has one edit at a time, of the stage it is in, and none once it  *)
(* is answered.                                                            *)
Stage(job) == CASE job = "open" -> "opening" [] job = "finish" -> "closing"
                 [] job = "fail" -> "failing" [] OTHER -> "idle"
OneEdit ==
  /\ \A k \in Waits : waiting[k].edit \in Jobs =>
       LET n == waiting[k].node IN
       /\ n \in Tree /\ At(n) # "done"
       /\ n \in Reading!Nodes => gen[n] = Stage(waiting[k].edit)
       /\ waiting[k].edit = "mark" => At(n) = "pending"
  /\ \A k, l \in Waits : waiting[l].edit \in Jobs /\ OnNode(k, waiting[l].node) => k = l
  /\ \A n \in Reading!Nodes : gen[n] # "idle" => n \in Tree /\ At(n) # "done"
  /\ \A n \in Reading!Nodes : gen[n] = "working" => \A k \in Waits : ~OnNode(k, n)

(* A card has asked for a node only when it waits for that; a node it is   *)
(* about to link, or to mark, is pending and has no other edit.            *)
Asks(k, a) == waiting[k].edit = "add" /\ waiting[k].by = a
Turns(a) ==
  /\ \A k \in Waits : Asks(k, a) =>
       /\ advance[a].at = "adding" /\ waiting[k].to = Reading!Main /\ waiting[k].at = act[a].on
       /\ \A l \in Waits : Asks(l, a) => l = k
  /\ advance[a].at \in {"recording", "marking"} =>
       LET n == advance[a].node IN
       /\ n \in Tree /\ session.nodes[n].by = a /\ At(n) = "pending"
       /\ n \in Reading!Nodes => gen[n] = "idle"
       /\ \A k \in Waits : OnNode(k, n) => waiting[k].edit = "mark" /\ advance[a].at = "marking"

(* A card gets its node after it was opened, and once.                     *)
Owns(a) ==
  /\ \A n \in Tree : session.nodes[n].by = a =>
       /\ act[a].state = "opened" /\ session.nodes[n].parent = act[a].on
       /\ advance[a].at \notin {"opening", "handing", "adding"}
       /\ \A m \in Tree : session.nodes[m].by = a => m = n
  /\ advance[a].at = "opening" => act[a].state = "prepared"
  /\ advance[a].at \notin {"idle", "opening"} => act[a].state = "opened"
  /\ act[a].node # 0 => act[a].node \in Tree /\ session.nodes[act[a].node].by = a
  /\ act[a].exec = "succeeded" => act[a].node \in Tree /\ At(act[a].node) = "done"

Context == \A n \in Tree : session.nodes[n].parent # 0 =>
             session.nodes[n].parent \in Tree /\ At(session.nodes[n].parent) = "done"

(* Nobody waits for nothing.                                               *)
Attended ==
  \A n \in Reading!Nodes \cap Tree : At(n) \in {"pending", "running"} =>
    \/ gen[n] # "idle" \/ n \in unmarked
    \/ \E a \in Actions : advance[a].node = n /\ advance[a].at \in {"recording", "marking"}

ReadInv == ReadingTypes /\ OneEdit /\ (\A a \in Actions : Turns(a) /\ Owns(a)) /\ Context /\ Attended

-----------------------------------------------------------------------------
(* A step takes the first edit of the queue or none, and adds one or none. *)
Moves(d, new) ==
  /\ waiting' \in Seq(Edits)
  /\ \A k \in Waits' : \/ k + d \in Waits /\ waiting'[k] = waiting[k + d]
                       \/ k + d = Len(waiting) + 1 /\ waiting'[k] \in new

(* No edit on n is left.                                                   *)
Clear(d, n) == \A k \in Waits : k > d => ~OnNode(k, n)

LEMMA QueueMoves ==
  ASSUME ReadInv
  PROVE  /\ UNCHANGED waiting => Moves(0, {})
         /\ \A e \in Edits : waiting' = Append(waiting, e) => Moves(0, {e})
         /\ waiting # <<>> /\ waiting' = Tail(waiting) => Moves(1, {})
         /\ \A e \in Edits : waiting # <<>> /\ waiting' = Append(Tail(waiting), e) => Moves(1, {e})
<1>1. waiting \in Seq(Edits) /\ Len(waiting) \in Nat
  BY DEF ReadInv, ReadingTypes
<1>2. UNCHANGED waiting => Moves(0, {})
  BY <1>1 DEF Moves, Waits
<1>3. ASSUME NEW e \in Edits, waiting' = Append(waiting, e) PROVE Moves(0, {e})
  <2>1. waiting' \in Seq(Edits) /\ Len(waiting') = Len(waiting) + 1
    BY <1>1, <1>3, SequenceMoves
  <2>2. \A k \in 1 .. Len(waiting) + 1 : waiting'[k] = IF k = Len(waiting) + 1 THEN e ELSE waiting[k]
    BY <1>1, <1>3, SequenceMoves
  <2> QED BY <1>1, <2>1, <2>2 DEF Moves, Waits
<1>4. ASSUME waiting # <<>>
      PROVE  /\ Tail(waiting) \in Seq(Edits) /\ Len(Tail(waiting)) = Len(waiting) - 1
             /\ \A k \in 1 .. Len(waiting) - 1 : Tail(waiting)[k] = waiting[k + 1]
  <2>1. Head(waiting) \in Edits
    BY <1>1, <1>4
  <2> QED BY <1>1, <1>4, <2>1, SequenceMoves
<1>5. ASSUME waiting # <<>>, waiting' = Tail(waiting) PROVE Moves(1, {})
  BY <1>1, <1>4, <1>5 DEF Moves, Waits
<1>6. ASSUME NEW e \in Edits, waiting # <<>>, waiting' = Append(Tail(waiting), e) PROVE Moves(1, {e})
  <2> DEFINE t == Tail(waiting)
  <2>1. t \in Seq(Edits) /\ Len(t) = Len(waiting) - 1 /\ waiting' = Append(t, e)
    BY <1>4, <1>6
  <2>2. \A k \in 1 .. Len(waiting) - 1 : t[k] = waiting[k + 1]
    BY <1>4, <1>6
  <2> HIDE DEF t
  <2>3. waiting' \in Seq(Edits) /\ Len(waiting') = Len(t) + 1
    BY <2>1, SequenceMoves
  <2>4. \A k \in 1 .. Len(t) + 1 : waiting'[k] = IF k = Len(t) + 1 THEN e ELSE t[k]
    BY <2>1, SequenceMoves
  <2> QED BY <1>1, <2>1, <2>2, <2>3, <2>4 DEF Moves, Waits
<1> QED BY <1>2, <1>3, <1>5, <1>6

(* A step on one node: it takes d edits and adds new ones, of that node or *)
(* of a card; a new node hangs on an answer; and while the node is shown   *)
(* as being worked on, something works on it.                              *)
OnlyNode(d, n, new) ==
  /\ Moves(d, new) /\ Clear(d, n)
  /\ Tree \subseteq Tree' /\ Tree' \subseteq Tree \cup {n}
  /\ \A m \in Tree \ {n} : session'.nodes[m] = session.nodes[m]
  /\ n \in Tree => /\ At(n) # "done"
                  /\ session'.nodes[n].parent = session.nodes[n].parent
                  /\ session'.nodes[n].by = session.nodes[n].by
  /\ n \in Tree' \ Tree => LET p == session'.nodes[n].parent IN p # 0 => p \in Tree /\ At(p) = "done"
  /\ \A m \in Reading!Nodes \ {n} : gen'[m] = gen[m]
  /\ unmarked \subseteq unmarked'
  /\ \A x \in new : x.edit \in Jobs =>
       /\ x.node = n /\ n \in Tree' /\ session'.nodes[n].status # "done"
       /\ n \in Reading!Nodes => gen'[n] = Stage(x.edit)
       /\ x.edit = "mark" => session'.nodes[n].status = "pending"
  /\ n \in Reading!Nodes /\ gen'[n] # "idle" => n \in Tree' /\ session'.nodes[n].status # "done"
  /\ n \in Reading!Nodes /\ gen'[n] = "working" => \A x \in new : x.edit \notin Jobs
  /\ \A a \in Actions : advance[a].at \in {"recording", "marking"} /\ advance[a].node # n =>
       advance'[a] = advance[a]
  /\ n \in Reading!Nodes /\ n \in Tree' /\ session'.nodes[n].status \in {"pending", "running"} =>
       \/ gen'[n] # "idle" \/ n \in unmarked'
       \/ \E a \in Actions : advance'[a].node = n /\ advance'[a].at \in {"recording", "marking"}

(* A card that such a step is not about, or that waits no longer.          *)
CardStays(a, d, n, new) ==
  /\ act'[a] = act[a]
  /\ \A x \in new : x.edit = "add" => x.by # a
  /\ n \in Tree' \ Tree => session'.nodes[n].by # a
  /\ \/ advance'[a] = advance[a]
     \/ /\ advance[a].at \notin {"idle", "opening"} /\ advance'[a].at \in {"idle", "reporting"}
        /\ \A k \in Waits : k > d => ~Asks(k, a)
  /\ advance'[a] = advance[a] /\ advance[a].at \in {"recording", "marking"} => advance[a].node # n

(* The stage of a node, its status and its one edit change together.       *)
LEMMA OneEditKept ==
  ASSUME ReadInv, NEW d \in {0, 1}, NEW n \in Nat, NEW new, OnlyNode(d, n, new)
  PROVE  OneEdit'
<1> USE DEF OnlyNode
<1>1. /\ OneEdit /\ Len(waiting) \in Nat /\ Waits \subseteq Nat /\ Waits' \subseteq Nat
      /\ \A k \in Waits' : k + d > d
  BY DEF ReadInv, ReadingTypes, Waits, Moves
<1>2. ASSUME NEW k \in Waits', waiting'[k].edit \in Jobs
      PROVE  LET m == waiting'[k].node IN
             /\ m \in Tree' /\ session'.nodes[m].status # "done"
             /\ m \in Reading!Nodes => gen'[m] = Stage(waiting'[k].edit)
             /\ waiting'[k].edit = "mark" => session'.nodes[m].status = "pending"
             /\ m = n => k + d = Len(waiting) + 1 /\ waiting'[k] \in new
  <2>1. CASE k + d \in Waits /\ waiting'[k] = waiting[k + d]
    <3>1. k + d > d
      BY <1>1
    <3>2. ~OnNode(k + d, n)
      BY <2>1, <3>1 DEF Clear
    <3> QED BY <1>1, <1>2, <2>1, <3>2 DEF OneEdit, OnNode, At
  <2>2. CASE k + d = Len(waiting) + 1 /\ waiting'[k] \in new
    BY <1>2, <2>2
  <2> QED BY <2>1, <2>2 DEF Moves
<1>3. ASSUME NEW k \in Waits', NEW l \in Waits', waiting'[l].edit \in Jobs,
             waiting'[k].edit \in Jobs, waiting'[k].node = waiting'[l].node
      PROVE  k = l
  <2>1. CASE waiting'[l].node = n
    BY <1>1, <1>2, <1>3, <2>1
  <2>2. CASE waiting'[l].node # n
    <3>1. /\ k + d \in Waits /\ waiting'[k] = waiting[k + d]
          /\ l + d \in Waits /\ waiting'[l] = waiting[l + d]
      BY <1>3, <2>2 DEF Moves
    <3>2. k + d = l + d
      BY <1>1, <1>3, <3>1 DEF OneEdit, OnNode
    <3> QED BY <1>1, <3>2
  <2> QED BY <2>1, <2>2
<1>4. ASSUME NEW m \in Reading!Nodes, gen'[m] # "idle"
      PROVE  m \in Tree' /\ session'.nodes[m].status # "done"
  BY <1>1, <1>4 DEF OneEdit, At
<1>5. ASSUME NEW m \in Reading!Nodes, gen'[m] = "working", NEW k \in Waits'
      PROVE  ~(waiting'[k].edit \in Jobs /\ waiting'[k].node = m)
  <2>1. CASE m = n
    BY <1>2, <1>5, <2>1
  <2>2. CASE m # n
    <3>1. gen[m] = "working"
      BY <1>5, <2>2
    <3> QED BY <1>1, <1>5, <2>2, <3>1 DEF Moves, OneEdit, OnNode
  <2> QED BY <2>1, <2>2
<1> QED BY <1>2, <1>3, <1>4, <1>5 DEF OneEdit, At, OnNode

(* Nodes hang on answers, which stay; and a node that is shown as being    *)
(* worked on keeps what works on it, unless the step is on that node.      *)
LEMMA TreeKept ==
  ASSUME ReadInv, NEW d \in {0, 1}, NEW n \in Nat, NEW new, OnlyNode(d, n, new)
  PROVE  Context' /\ Attended'
<1> USE DEF OnlyNode
<1>1. ASSUME NEW m \in Tree, At(m) = "done"
      PROVE  m \in Tree' /\ session'.nodes[m].status = "done"
  BY <1>1 DEF At
<1>2. Context'
  BY <1>1 DEF ReadInv, Context, At
<1>3. ASSUME NEW m \in Reading!Nodes \cap Tree, m # n, At(m) \in {"pending", "running"}
      PROVE  \/ gen'[m] # "idle" \/ m \in unmarked'
             \/ \E a \in Actions : advance'[a].node = m /\ advance'[a].at \in {"recording", "marking"}
  BY <1>3 DEF ReadInv, Attended
<1>4. Attended'
  BY <1>3 DEF Attended, At
<1> QED BY <1>2, <1>4

(* A card that the step is not about.                                      *)
LEMMA CardKept ==
  ASSUME ReadInv, NEW d \in {0, 1}, NEW n \in Nat, NEW new, OnlyNode(d, n, new),
         NEW a \in Actions, CardStays(a, d, n, new)
  PROVE  Turns(a)' /\ Owns(a)'
<1> USE DEF OnlyNode, CardStays
<1>1. /\ Turns(a) /\ Owns(a) /\ OneEdit /\ Len(waiting) \in Nat /\ Waits \subseteq Nat
      /\ Waits' \subseteq Nat /\ \A k \in Waits' : k + d > d
  BY DEF ReadInv, ReadingTypes, Waits, Moves
<1>2. ASSUME NEW m \in Tree
      PROVE  /\ m \in Tree' /\ session'.nodes[m].by = session.nodes[m].by
             /\ session'.nodes[m].parent = session.nodes[m].parent
             /\ At(m) = "done" => session'.nodes[m].status = "done"
  BY DEF At
<1>3. \A m \in Tree' : session'.nodes[m].by = a => m \in Tree
  OBVIOUS
<1>4. Owns(a)'
  BY <1>1, <1>2, <1>3 DEF Owns, At
<1>5. ASSUME NEW k \in Waits', waiting'[k].edit = "add" /\ waiting'[k].by = a
      PROVE  k + d \in Waits /\ waiting'[k] = waiting[k + d] /\ Asks(k + d, a) /\ k + d > d
  BY <1>1, <1>5 DEF Moves, Asks
<1>6. ASSUME advance'[a] = advance[a] PROVE Turns(a)'
  <2>1. ASSUME NEW k \in Waits', waiting'[k].edit = "add" /\ waiting'[k].by = a
        PROVE  /\ advance'[a].at = "adding" /\ waiting'[k].to = Reading!Main
               /\ waiting'[k].at = act'[a].on
               /\ \A l \in Waits' : waiting'[l].edit = "add" /\ waiting'[l].by = a => l = k
    <3>1. ASSUME NEW l \in Waits', waiting'[l].edit = "add" /\ waiting'[l].by = a PROVE l = k
      <4>1. k + d = l + d
        BY <1>1, <1>5, <2>1, <3>1 DEF Turns
      <4> QED BY <1>1, <4>1
    <3>2. k + d \in Waits /\ waiting'[k] = waiting[k + d] /\ Asks(k + d, a)
      BY <1>5, <2>1
    <3> QED BY <1>1, <1>6, <3>1, <3>2 DEF Turns
  <2>2. ASSUME advance'[a].at \in {"recording", "marking"}
        PROVE  LET m == advance'[a].node IN
               /\ m \in Tree' /\ session'.nodes[m].by = a /\ session'.nodes[m].status = "pending"
               /\ m \in Reading!Nodes => gen'[m] = "idle"
               /\ \A k \in Waits' : waiting'[k].edit \in Jobs /\ waiting'[k].node = m =>
                    waiting'[k].edit = "mark" /\ advance'[a].at = "marking"
    <3> DEFINE m == advance[a].node
    <3>1. m # n /\ m \in Tree /\ session'.nodes[m] = session.nodes[m]
      BY <1>1, <1>6, <2>2 DEF Turns
    <3>2. ASSUME NEW k \in Waits', waiting'[k].edit \in Jobs, waiting'[k].node = m
          PROVE  k + d \in Waits /\ waiting'[k] = waiting[k + d]
      BY <3>1, <3>2 DEF Moves
    <3> QED BY <1>1, <1>6, <2>2, <3>1, <3>2 DEF Turns, OnNode, At
  <2> QED BY <2>1, <2>2 DEF Turns, Asks, OnNode, At
<1>7. ASSUME advance'[a].at \in {"idle", "reporting"}, \A k \in Waits : k > d => ~Asks(k, a)
      PROVE  Turns(a)'
  BY <1>5, <1>7 DEF Turns, Asks
<1> QED BY <1>4, <1>6, <1>7

(* What a node is answered from stays, and an answer stays as it is.       *)
Stays == \A m \in Tree : At(m) = "done" => m \in Tree' /\ session'.nodes[m] = session.nodes[m]

LEMMA NodeStep ==
  ASSUME ReadInv, ReadingTypes', NEW d \in {0, 1}, NEW n \in Nat, NEW new, OnlyNode(d, n, new),
         \A a \in Actions : CardStays(a, d, n, new) \/ (Turns(a)' /\ Owns(a)')
  PROVE  ReadInv' /\ Stays
<1>1. OneEdit'
  BY OneEditKept
<1>2. Context' /\ Attended'
  BY TreeKept
<1>3. \A a \in Actions : Turns(a)' /\ Owns(a)'
  BY CardKept
<1>4. Stays
  BY DEF OnlyNode, Stays, At
<1> QED BY <1>1, <1>2, <1>3, <1>4 DEF ReadInv

-----------------------------------------------------------------------------
(* What the steps do to the session and the queue.                         *)

LEMMA Basics ==
  ASSUME ReadInv
  PROVE  /\ Tree = 1 .. Len(session.nodes) /\ Tree \subseteq Nat
         /\ Len(session.nodes) \in Nat /\ Len(session.nodes) + 1 \in Nat
         /\ Len(session.nodes) + 1 \notin Tree
         /\ MaxNodes \in Nat /\ Reading!User \notin Actions /\ Reading!Nodes \subseteq Nat
         /\ \A d : Clear(d, Len(session.nodes) + 1)
<1>1. /\ Tree = 1 .. Len(session.nodes) /\ Len(session.nodes) \in Nat
  BY DEF ReadInv, ReadingTypes, Tree
<1>2. MaxNodes \in Nat /\ Reading!User \notin Actions
  BY StoresAssumption DEF Reading!ReadingAssumption
<1>3. Len(session.nodes) + 1 \notin Tree
  BY <1>1
<1>4. \A d : Clear(d, Len(session.nodes) + 1)
  BY <1>3 DEF ReadInv, OneEdit, Clear, OnNode
<1> QED BY <1>1, <1>2, <1>3, <1>4 DEF Reading!Nodes

LEMMA First ==
  ASSUME ReadInv, waiting # <<>>
  PROVE  /\ 1 \in Waits /\ Head(waiting) = waiting[1] /\ Head(waiting) \in Edits
         /\ \A n : OnNode(1, n) => Clear(1, n)
         /\ \A a \in Actions : Asks(1, a) => \A k \in Waits : k > 1 => ~Asks(k, a)
<1>1. waiting \in Seq(Edits)
  BY DEF ReadInv, ReadingTypes
<1>2. 1 \in Waits /\ Head(waiting) = waiting[1] /\ Head(waiting) \in Edits
  BY <1>1 DEF Waits
<1>3. \A n : OnNode(1, n) => Clear(1, n)
  <2> SUFFICES ASSUME NEW n, OnNode(1, n), NEW k \in Waits, k > 1, OnNode(k, n) PROVE FALSE
    BY DEF Clear
  <2>1. k = 1
    BY <1>2 DEF ReadInv, OneEdit, OnNode
  <2> QED BY <2>1
<1>4. \A a \in Actions : Asks(1, a) => \A k \in Waits : k > 1 => ~Asks(k, a)
  <2> SUFFICES ASSUME NEW a \in Actions, Asks(1, a), NEW k \in Waits, k > 1, Asks(k, a) PROVE FALSE
    OBVIOUS
  <2>1. k = 1
    BY <1>2 DEF ReadInv, Turns
  <2> QED BY <2>1
<1> QED BY <1>2, <1>3, <1>4

(* The session with the status of one node changed.                        *)
Marked(s, n, st) ==
  /\ DOMAIN s = {"nodes", "complete"} /\ s.nodes \in Seq(Node) /\ DOMAIN s.nodes = Tree
  /\ \A m \in Tree \ {n} : s.nodes[m] = session.nodes[m]
  /\ s.nodes[n].status = st /\ s.nodes[n].parent = session.nodes[n].parent
  /\ s.nodes[n].by = session.nodes[n].by

LEMMA SetMarks ==
  ASSUME ReadInv, NEW n \in Tree, NEW st \in Statuses
  PROVE  /\ Marked(Reading!Set(session, n, st), n, st)
         /\ \A whole : Marked([Reading!Set(session, n, st) EXCEPT !.complete = whole], n, st)
<1> DEFINE s == Reading!Set(session, n, st)
<1>1. DOMAIN session = {"nodes", "complete"} /\ session.nodes \in Seq(Node)
  BY DEF ReadInv, ReadingTypes
<1>2. DOMAIN s = {"nodes", "complete"} /\ s.nodes = [session.nodes EXCEPT ![n].status = st]
  BY <1>1 DEF Reading!Set
<1>3. session.nodes[n] \in Node
  BY <1>1 DEF Tree
<1>4. [session.nodes[n] EXCEPT !.status = st] \in Node
  BY <1>3 DEF Node
<1>5. /\ s.nodes \in Seq(Node) /\ DOMAIN s.nodes = Tree
      /\ \A m \in Tree : s.nodes[m] =
           IF m = n THEN [session.nodes[n] EXCEPT !.status = st] ELSE session.nodes[m]
  BY <1>1, <1>2, <1>4 DEF Tree
<1>6. Marked(s, n, st)
  BY <1>2, <1>3, <1>5 DEF Marked, Node
<1>7. ASSUME NEW whole PROVE Marked([s EXCEPT !.complete = whole], n, st)
  <2>1. /\ DOMAIN [s EXCEPT !.complete = whole] = {"nodes", "complete"}
        /\ [s EXCEPT !.complete = whole].nodes = s.nodes
    BY <1>2
  <2> QED BY <1>6, <2>1 DEF Marked
<1> QED BY <1>6, <1>7

(* A step that leaves the nodes and their generations alone.               *)
LEMMA NoNodeStep ==
  ASSUME ReadInv, ReadingTypes', NEW d \in {0, 1}, NEW new, Moves(d, new), UNCHANGED <<session, gen>>,
         unmarked \subseteq unmarked', \A x \in new : x.edit \notin Jobs,
         \A a \in Actions : advance[a].at \in {"recording", "marking"} => advance'[a] = advance[a],
         \A a \in Actions :
           \/ /\ act'[a] = act[a] /\ \A x \in new : x.by # a
              /\ \/ advance'[a] = advance[a]
                 \/ /\ advance[a].at \notin {"idle", "opening"} /\ advance'[a].at \in {"idle", "reporting"}
                    /\ \A k \in Waits : k > d => ~Asks(k, a)
           \/ Turns(a)' /\ Owns(a)'
  PROVE  ReadInv' /\ Stays
<1> DEFINE n == Len(session.nodes) + 1
<1>1. n \in Nat /\ n \notin Tree /\ Clear(d, n)
  BY Basics
<1>2. Tree' = Tree
  BY DEF Tree
<1> HIDE DEF n
<1>3. n \in Reading!Nodes => gen[n] = "idle"
  BY <1>1 DEF ReadInv, OneEdit
<1>4. OnlyNode(d, n, new)
  BY <1>1, <1>2, <1>3 DEF OnlyNode
<1>5. ASSUME NEW a \in Actions, advance[a].at \in {"recording", "marking"} PROVE advance[a].node # n
  BY <1>1, <1>5 DEF ReadInv, Turns
<1>6. \A a \in Actions : CardStays(a, d, n, new) \/ (Turns(a)' /\ Owns(a)')
  BY <1>2, <1>5 DEF CardStays
<1> QED BY <1>1, <1>4, <1>6, NodeStep

-----------------------------------------------------------------------------
(* The steps of a reader and of a generation.                              *)

LEMMA AskTrue == ASSUME ReadInv, Reading!Ask PROVE ReadInv' /\ Stays
<1>1. \A to, of \in Nat : LET e == Reading!Add(to, of, Reading!User)
                         IN e \in Edits /\ e.edit = "add" /\ e.by = Reading!User
  BY DEF Reading!Add, Edits, Askers
<1>2. Reading!Main \in Nat /\ Reading!Fresh \in Nat /\ Tree \subseteq Nat
  BY Basics DEF Reading!Main, Reading!Fresh
<1>3. \E to, of \in Nat : waiting' = Append(waiting, Reading!Add(to, of, Reading!User))
  BY <1>2 DEF Reading!Ask, Tree
<1>4. PICK e \in Edits : waiting' = Append(waiting, e) /\ e.edit = "add" /\ e.by = Reading!User
  BY <1>1, <1>3
<1>5. Moves(0, {e})
  BY <1>4, QueueMoves
<1>6. ReadingTypes'
  BY <1>5 DEF Reading!Ask, ReadInv, ReadingTypes, Moves
<1>7. e.edit \notin Jobs /\ \A a \in Actions : e.by # a
  BY <1>4, Basics DEF Jobs
<1> QED BY <1>5, <1>6, <1>7, NoNodeStep DEF Reading!Ask

(* A generation of a node gets its next stage, with the edit of that.      *)
LEMMA StageStep ==
  ASSUME ReadInv, NEW n \in Tree, At(n) # "done", NEW job \in {"open", "finish", "fail"},
         waiting' = Append(waiting, [edit |-> job, node |-> n]), Clear(0, n),
         gen' = [gen EXCEPT ![n] = Stage(job)],
         \A a \in Actions : advance[a].at \in {"recording", "marking"} => advance[a].node # n,
         UNCHANGED <<session, halted, unmarked, act, advance>>
  PROVE  ReadInv' /\ Stays
<1> DEFINE e == [edit |-> job, node |-> n]
<1>1. e \in Edits /\ e.edit = job /\ e.node = n /\ job \in Jobs /\ n \in Nat
  BY Basics DEF Edits, Jobs
<1>2. Moves(0, {e})
  BY <1>1, QueueMoves
<1>3. Stage(job) \in {"opening", "closing", "failing"}
  BY DEF Stage
<1>4. ReadingTypes'
  BY <1>2, <1>3 DEF ReadInv, ReadingTypes, Moves
<1>5. /\ Tree' = Tree
      /\ n \in Reading!Nodes => gen'[n] = Stage(job)
      /\ \A m \in Reading!Nodes \ {n} : gen'[m] = gen[m]
  BY DEF ReadInv, ReadingTypes, Tree
<1> HIDE DEF e
<1>6. \A x \in {e} : /\ x.node = n /\ x.edit # "mark" /\ x.edit \in Jobs
                    /\ n \in Reading!Nodes => gen'[n] = Stage(x.edit)
  BY <1>1, <1>5
<1>7. n \in Reading!Nodes => gen'[n] \notin {"idle", "working"}
  BY <1>3, <1>5
<1>8. OnlyNode(0, n, {e})
  BY <1>1, <1>2, <1>5, <1>6, <1>7 DEF OnlyNode, At
<1>9. \A a \in Actions : CardStays(a, 0, n, {e})
  BY <1>1, <1>5 DEF CardStays, Jobs
<1> QED BY <1>1, <1>4, <1>8, <1>9, NodeStep

LEMMA RetryTrue == ASSUME ReadInv, NEW n \in Reading!Nodes, Reading!Retry(n) PROVE ReadInv' /\ Stays
<1>1. n \in Tree /\ At(n) \in {"failed", "interrupted"} /\ gen[n] = "idle"
  BY DEF Reading!Retry, Reading!Idle, Reading!Status, Tree, At
<1>2. Clear(0, n)
  BY <1>1 DEF ReadInv, OneEdit, Clear, OnNode, Jobs, Stage
<1>3. \A a \in Actions : advance[a].at \in {"recording", "marking"} => advance[a].node # n
  BY <1>1 DEF ReadInv, Turns
<1>4. Stage("open") = "opening"
  BY DEF Stage
<1> QED BY <1>1, <1>2, <1>3, <1>4, StageStep DEF Reading!Retry, Reading!Start

LEMMA AbortTrue == ASSUME ReadInv, NEW n \in Reading!Nodes, Reading!Abort(n) PROVE ReadInv' /\ Stays
<1>1. Moves(0, {})
  BY QueueMoves DEF Reading!Abort
<1>2. ReadingTypes'
  BY DEF Reading!Abort, ReadInv, ReadingTypes
<1> QED BY <1>1, <1>2, NoNodeStep DEF Reading!Abort

(* A working generation has no edit and no card.                           *)
LEMMA Working ==
  ASSUME ReadInv, NEW n \in Reading!Nodes, gen[n] = "working"
  PROVE  /\ n \in Tree /\ At(n) # "done" /\ Clear(0, n)
         /\ \A a \in Actions : advance[a].at \in {"recording", "marking"} => advance[a].node # n
  BY DEF ReadInv, OneEdit, Clear, Turns

LEMMA AnswerTrue == ASSUME ReadInv, NEW n \in Reading!Nodes, Reading!Answer(n) PROVE ReadInv' /\ Stays
<1>1. gen[n] = "working" /\ Stage("finish") = "closing"
  BY DEF Reading!Answer, Stage
<1> QED BY <1>1, Working, StageStep DEF Reading!Answer

LEMMA FailsTrue == ASSUME ReadInv, NEW n \in Reading!Nodes, Reading!Fails(n) PROVE ReadInv' /\ Stays
<1>1. gen[n] = "working" /\ Stage("fail") = "failing"
  BY DEF Reading!Fails, Stage
<1> QED BY <1>1, Working, StageStep DEF Reading!Fails, Reading!Throw

-----------------------------------------------------------------------------
(* The steps of the cards.                                                 *)

LEMMA PrepareTrue == ASSUME ReadInv, NEW b \in Actions, Reading!Prepare(b) PROVE ReadInv' /\ Stays
<1>1. Moves(0, {})
  BY QueueMoves DEF Reading!Prepare
<1>2. /\ act[b].state = "none" /\ act[b].node = 0 /\ act'[b].state = "prepared" /\ act'[b].node = 0
      /\ act'[b].exec = "none" /\ \A a \in Actions \ {b} : act'[a] = act[a]
  BY DEF Reading!Prepare, Reading!NoCard, ReadInv, ReadingTypes
<1>3. act' \in [Actions -> Card]
  <2>1. Reading!Last(session, Reading!Main) \in Nat
    BY Basics DEF Reading!Prepare, Reading!Done, Tree
  <2> QED BY <2>1 DEF Reading!Prepare, Reading!NoCard, ReadInv, ReadingTypes, Card
<1>4. ReadingTypes'
  BY <1>3 DEF Reading!Prepare, ReadInv, ReadingTypes
<1>5. Turns(b)' /\ Owns(b)'
  BY <1>2 DEF Reading!Prepare, ReadInv, Turns, Owns, Waits, Tree, OnNode, Asks, At
<1> QED BY <1>1, <1>2, <1>4, <1>5, NoNodeStep DEF Reading!Prepare

LEMMA DispatchTrue == ASSUME ReadInv, NEW b \in Actions, Reading!Dispatch(b) PROVE ReadInv' /\ Stays
<1>1. Moves(0, {})
  BY QueueMoves DEF Reading!Dispatch
<1>2. /\ advance[b].at = "idle" /\ act[b].state = "prepared" /\ advance'[b].at = "opening"
      /\ advance' \in [Actions -> Doing] /\ \A a \in Actions \ {b} : advance'[a] = advance[a]
  BY DEF Reading!Dispatch, ReadInv, ReadingTypes, Doing
<1>3. ReadingTypes'
  BY <1>2 DEF Reading!Dispatch, ReadInv, ReadingTypes
<1>4. Turns(b)' /\ Owns(b)'
  BY <1>2 DEF Reading!Dispatch, ReadInv, Turns, Owns, Waits, Tree, OnNode, Asks, At
<1> QED BY <1>1, <1>2, <1>3, <1>4, NoNodeStep DEF Reading!Dispatch

LEMMA OpenCardTrue == ASSUME ReadInv, NEW b \in Actions, Reading!OpenCard(b) PROVE ReadInv' /\ Stays
<1>1. Moves(0, {})
  BY QueueMoves DEF Reading!OpenCard
<1>2. /\ act \in [Actions -> Card] /\ advance \in [Actions -> Doing] /\ advance[b].at = "opening"
      /\ UNCHANGED <<session, waiting, gen, halted, unmarked>>
  BY DEF Reading!OpenCard, ReadInv, ReadingTypes
<1>3. /\ act' \in [Actions -> Card] /\ advance' \in [Actions -> Doing]
      /\ \A a \in Actions \ {b} : advance'[a] = advance[a] /\ act'[a] = act[a]
      /\ act'[b].node = act[b].node /\ act'[b].on = act[b].on
      /\ \/ advance'[b].at = "handing" /\ act'[b].state = "opened" /\ act'[b].exec = "waiting"
         \/ advance'[b].at = "idle" /\ act'[b] = act[b]
  <2>1. CASE /\ act' = [act EXCEPT ![b].state = "opened", ![b].exec = "waiting"]
             /\ advance' = [advance EXCEPT ![b].at = "handing"]
    <3>1. [act[b] EXCEPT !.state = "opened", !.exec = "waiting"] \in Card
      BY <1>2 DEF Card
    <3>2. [advance[b] EXCEPT !.at = "handing"] \in Doing
      BY <1>2 DEF Doing
    <3>3. act'[b] = [act[b] EXCEPT !.state = "opened", !.exec = "waiting"] /\ act[b] \in Card
      BY <1>2, <2>1
    <3>4. act'[b].node = act[b].node /\ act'[b].on = act[b].on /\ act'[b].state = "opened"
          /\ act'[b].exec = "waiting"
      BY <3>3 DEF Card
    <3>5. advance'[b].at = "handing"
      BY <1>2, <2>1 DEF Doing
    <3>6. act' \in [Actions -> Card] /\ advance' \in [Actions -> Doing]
      BY <1>2, <2>1, <3>1, <3>2
    <3> QED BY <1>2, <2>1, <3>4, <3>5, <3>6
  <2>2. CASE advance' = [advance EXCEPT ![b].at = "idle"] /\ UNCHANGED act
    BY <1>2, <2>2 DEF Doing
  <2> QED BY <2>1, <2>2 DEF Reading!OpenCard
<1>4. ReadingTypes'
  BY <1>2, <1>3 DEF ReadInv, ReadingTypes
<1>5. Turns(b)' /\ Owns(b)'
  BY <1>2, <1>3 DEF ReadInv, Turns, Owns, Waits, Tree, OnNode, Asks, At
<1> QED BY <1>1, <1>2, <1>3, <1>4, <1>5, NoNodeStep

LEMMA HandOverTrue == ASSUME ReadInv, NEW b \in Actions, Reading!HandOver(b) PROVE ReadInv' /\ Stays
<1> DEFINE e == Reading!Add(Reading!Main, act[b].on, b)
<1>1. /\ act \in [Actions -> Card] /\ advance \in [Actions -> Doing] /\ advance[b].at = "handing"
      /\ UNCHANGED <<session, gen, halted, unmarked, act>> /\ waiting \in Seq(Edits)
  BY DEF Reading!HandOver, ReadInv, ReadingTypes
<1>2. /\ e \in Edits /\ e.edit = "add" /\ e.by = b /\ e.to = Reading!Main /\ e.at = act[b].on
  BY <1>1 DEF Reading!Add, Reading!Main, Edits, Askers, Card
<1> HIDE DEF e
<1>3. \A k \in Waits : ~Asks(k, b)
  BY <1>1 DEF ReadInv, Turns
<1>4. CASE waiting' = Append(waiting, e) /\ advance' = [advance EXCEPT ![b].at = "adding"]
  <2>1. Moves(0, {e})
    BY <1>2, <1>4, QueueMoves
  <2>2. /\ advance' \in [Actions -> Doing] /\ advance'[b].at = "adding"
        /\ \A a \in Actions \ {b} : advance'[a] = advance[a]
    BY <1>1, <1>4 DEF Doing
  <2>3. ReadingTypes'
    BY <1>1, <2>1, <2>2 DEF ReadInv, ReadingTypes, Moves
  <2>4. Owns(b)'
    BY <1>1, <2>2 DEF ReadInv, Owns, Tree, At
  <2>5. ASSUME NEW k \in Waits', waiting'[k].edit = "add", waiting'[k].by = b
        PROVE  k = Len(waiting) + 1 /\ waiting'[k] = e
    BY <1>1, <1>3, <2>1, <2>5 DEF Moves, Asks, Waits
  <2>6. Turns(b)'
    BY <1>1, <1>2, <2>2, <2>5 DEF Turns, Asks, OnNode
  <2>7. e.edit \notin Jobs /\ \A a \in Actions \ {b} : e.by # a
    BY <1>2 DEF Jobs
  <2> QED BY <1>1, <2>1, <2>2, <2>3, <2>4, <2>6, <2>7, NoNodeStep
<1>5. CASE advance' = [advance EXCEPT ![b].at = "reporting"] /\ UNCHANGED waiting
  <2>1. Moves(0, {})
    BY <1>5, QueueMoves
  <2>2. /\ advance' \in [Actions -> Doing] /\ advance'[b].at = "reporting"
        /\ \A a \in Actions \ {b} : advance'[a] = advance[a]
    BY <1>1, <1>5 DEF Doing
  <2>3. ReadingTypes'
    BY <1>1, <1>5, <2>2 DEF ReadInv, ReadingTypes
  <2> QED BY <1>1, <1>3, <2>1, <2>2, <2>3, NoNodeStep
<1> QED BY <1>4, <1>5 DEF Reading!HandOver, e

LEMMA ReportTrue == ASSUME ReadInv, NEW b \in Actions, Reading!Report(b) PROVE ReadInv' /\ Stays
<1>1. /\ act \in [Actions -> Card] /\ advance \in [Actions -> Doing] /\ advance[b].at = "reporting"
      /\ UNCHANGED <<session, waiting, gen, halted, unmarked>>
  BY DEF Reading!Report, ReadInv, ReadingTypes
<1>2. Moves(0, {})
  BY <1>1, QueueMoves
<1>3. /\ advance' \in [Actions -> Doing] /\ advance'[b].at = "idle"
      /\ \A a \in Actions \ {b} : advance'[a] = advance[a]
  BY <1>1 DEF Doing, Reading!Report, Reading!AtRest
<1>4. /\ act' \in [Actions -> Card] /\ \A a \in Actions \ {b} : act'[a] = act[a]
      /\ act'[b].state = act[b].state /\ act'[b].on = act[b].on /\ act'[b].node = act[b].node
      /\ act'[b].exec \in {act[b].exec, "failed"}
  BY <1>1 DEF Card, Statuses, Reading!Report
<1>5. ReadingTypes'
  BY <1>1, <1>3, <1>4 DEF ReadInv, ReadingTypes
<1>6. Turns(b)' /\ Owns(b)'
  BY <1>1, <1>3, <1>4 DEF ReadInv, Turns, Owns, Waits, Tree, OnNode, Asks, At
<1> QED BY <1>1, <1>2, <1>3, <1>4, <1>5, <1>6, NoNodeStep

LEMMA RefreshTrue == ASSUME ReadInv, NEW b \in Actions, Reading!Refresh(b) PROVE ReadInv' /\ Stays
<1> DEFINE m == act[b].node
           x == Reading!Resolved(m)
<1>1. /\ act \in [Actions -> Card] /\ m # 0 /\ act' = [act EXCEPT ![b].exec = x]
      /\ UNCHANGED <<session, waiting, gen, halted, unmarked, advance>>
  BY DEF Reading!Refresh, ReadInv, ReadingTypes
<1>2. m \in Tree /\ session.nodes[m] \in Node
  BY <1>1 DEF ReadInv, Owns, ReadingTypes, Tree
<1>3. /\ x \in {"succeeded"} \cup Statuses
      /\ x = "succeeded" => At(m) = "done"
  BY <1>2 DEF Node, Statuses, At, Tree, Reading!Resolved, Reading!Status, Reading!Unsettled
<1> HIDE DEF x
<1>4. Moves(0, {})
  BY <1>1, QueueMoves
<1>5. /\ act' \in [Actions -> Card] /\ \A a \in Actions \ {b} : act'[a] = act[a]
      /\ act'[b].state = act[b].state /\ act'[b].on = act[b].on /\ act'[b].node = act[b].node
      /\ act'[b].exec = x
  BY <1>1, <1>3 DEF Card
<1>6. ReadingTypes'
  BY <1>1, <1>5 DEF ReadInv, ReadingTypes
<1>7. Turns(b)' /\ Owns(b)'
  BY <1>1, <1>2, <1>3, <1>5 DEF ReadInv, Turns, Owns, Waits, Tree, OnNode, Asks, At
<1> QED BY <1>1, <1>4, <1>5, <1>6, <1>7, NoNodeStep

LEMMA LinkTrue == ASSUME ReadInv, NEW b \in Actions, Reading!Link(b) PROVE ReadInv' /\ Stays
<1> DEFINE n == advance[b].node
           Job(job) == [edit |-> job, node |-> n]
<1>1. /\ act \in [Actions -> Card] /\ advance \in [Actions -> Doing] /\ advance[b].at = "recording"
      /\ UNCHANGED <<session, halted, unmarked>> /\ n \in Nat
  BY DEF Reading!Link, ReadInv, ReadingTypes, Doing
<1>2. /\ n \in Tree /\ session.nodes[n].by = b /\ At(n) = "pending" /\ Clear(0, n) /\ Tree' = Tree
      /\ n \in Reading!Nodes => gen[n] = "idle"
  BY <1>1 DEF ReadInv, Turns, Clear, Tree
<1>3. \A k \in Waits : ~Asks(k, b)
  BY <1>1 DEF ReadInv, Turns
<1>4. ASSUME NEW a \in Actions \ {b}, advance[a].at \in {"recording", "marking"} PROVE advance[a].node # n
  BY <1>2, <1>4 DEF ReadInv, Turns
<1>5. \A job \in {"open", "mark"} : /\ Job(job) \in Edits /\ Job(job).edit = job /\ Job(job).node = n
                                   /\ job \in Jobs
  BY <1>1 DEF Edits, Jobs
<1> HIDE DEF Job
<1>6. ASSUME NEW job \in {"open", "mark"}, waiting' = Append(waiting, Job(job)),
             gen' = IF job = "open" THEN [gen EXCEPT ![n] = "opening"] ELSE gen,
             act' = IF job = "open" THEN [act EXCEPT ![b].exec = "running", ![b].node = n] ELSE act,
             advance' = [advance EXCEPT ![b].at = IF job = "open" THEN "generating" ELSE "marking"]
      PROVE  ReadInv' /\ Stays
  <2> DEFINE e == Job(job)
  <2>1. Moves(0, {e})
    BY <1>5, <1>6, QueueMoves
  <2>2. /\ advance' \in [Actions -> Doing] /\ advance'[b].node = n
        /\ advance'[b].at = IF job = "open" THEN "generating" ELSE "marking"
        /\ \A a \in Actions \ {b} : advance'[a] = advance[a]
    BY <1>1, <1>6 DEF Doing
  <2>3. /\ act' \in [Actions -> Card] /\ \A a \in Actions \ {b} : act'[a] = act[a]
        /\ act'[b].state = act[b].state /\ act'[b].on = act[b].on
        /\ act'[b].node \in {act[b].node, n}
        /\ act'[b].exec = "succeeded" => act'[b] = act[b]
    <3>1. CASE job = "mark"
      BY <1>1, <1>6, <3>1
    <3>2. CASE job = "open"
      <4>1. act'[b] = [act[b] EXCEPT !.exec = "running", !.node = n] /\ act[b] \in Card
        BY <1>1, <1>6, <3>2
      <4>2. /\ act'[b] \in Card /\ act'[b].state = act[b].state /\ act'[b].on = act[b].on
            /\ act'[b].node = n /\ act'[b].exec = "running"
        BY <1>1, <4>1 DEF Card, Statuses
      <4> QED BY <1>1, <1>6, <3>2, <4>2
    <3> QED BY <3>1, <3>2
  <2>4. /\ gen' \in [Reading!Nodes -> {"idle", "opening", "working", "closing", "failing"}]
        /\ n \in Reading!Nodes => gen'[n] = Stage(job)
        /\ \A m \in Reading!Nodes \ {n} : gen'[m] = gen[m]
    BY <1>2, <1>6 DEF ReadInv, ReadingTypes, Stage
  <2>5. ReadingTypes'
    BY <1>1, <2>1, <2>2, <2>3, <2>4 DEF ReadInv, ReadingTypes, Moves
  <2>6. /\ e.edit = job /\ e.node = n /\ job \in Jobs
        /\ Stage("open") = "opening" /\ Stage("mark") = "idle"
    BY <1>5 DEF Stage
  <2> HIDE DEF e
  <2>7. OnlyNode(0, n, {e})
    <3>1. CASE job = "open"
      BY <1>1, <1>2, <1>4, <2>1, <2>2, <2>4, <2>6, <3>1 DEF OnlyNode, At
    <3>2. CASE job = "mark"
      BY <1>1, <1>2, <1>4, <2>1, <2>2, <2>4, <2>6, <3>2 DEF OnlyNode, At
    <3> QED BY <3>1, <3>2
  <2>8. \A a \in Actions \ {b} : CardStays(a, 0, n, {e})
    BY <1>2, <1>4, <2>2, <2>3, <2>6 DEF CardStays, Jobs
  <2>9. Owns(b)'
    BY <1>1, <1>2, <2>2, <2>3 DEF ReadInv, Owns, At, Tree
  <2>10. ASSUME NEW k \in Waits' PROVE ~(waiting'[k].edit = "add" /\ waiting'[k].by = b)
    BY <1>3, <2>1, <2>6 DEF Moves, Asks, Jobs
  <2>11. ASSUME NEW k \in Waits', job = "mark", waiting'[k].edit \in Jobs, waiting'[k].node = n
         PROVE  waiting'[k].edit = "mark"
    BY <1>1, <1>2, <2>1, <2>6, <2>11 DEF Moves, ReadInv, Turns, OnNode
  <2>12. Turns(b)'
    BY <1>1, <1>2, <2>2, <2>4, <2>6, <2>10, <2>11 DEF Turns, Asks, OnNode, At
  <2> QED BY <1>1, <2>5, <2>7, <2>8, <2>9, <2>12, NodeStep
<1>7. CASE /\ act' = [act EXCEPT ![b].exec = "running", ![b].node = n]
           /\ advance' = [advance EXCEPT ![b].at = "generating"]
           /\ gen' = [gen EXCEPT ![n] = "opening"] /\ waiting' = Append(waiting, Job("open"))
  BY <1>6, <1>7
<1>8. CASE /\ waiting' = Append(waiting, Job("mark")) /\ UNCHANGED <<act, gen>>
           /\ advance' = [advance EXCEPT ![b].at = "marking"]
  BY <1>6, <1>8
<1> QED BY <1>7, <1>8 DEF Reading!Link, Reading!Start, Job

-----------------------------------------------------------------------------
(* The steps of the queue: edits of a node.                                *)

LEMMA JobFirst ==
  ASSUME ReadInv, NEW job \in Jobs, Reading!Edit(job)
  PROVE  LET n == Head(waiting).node IN
         /\ n \in Tree /\ n \in Nat /\ At(n) # "done" /\ Clear(1, n) /\ waiting # <<>>
         /\ n \in Reading!Nodes => gen[n] = Stage(job)
         /\ job = "mark" => At(n) = "pending"
         /\ \A a \in Actions : advance[a].at \in {"recording", "marking"} /\ advance[a].node = n =>
              job = "mark" /\ advance[a].at = "marking"
<1> DEFINE n == Head(waiting).node
<1>1. waiting # <<>> /\ 1 \in Waits /\ Head(waiting) = waiting[1] /\ waiting[1].edit = job
  BY First DEF Reading!Edit
<1>2. OnNode(1, n)
  BY <1>1 DEF OnNode
<1>3. Clear(1, n)
  BY <1>1, <1>2, First
<1>4. /\ n \in Tree /\ At(n) # "done"
      /\ n \in Reading!Nodes => gen[n] = Stage(job)
      /\ job = "mark" => At(n) = "pending"
  BY <1>1 DEF ReadInv, OneEdit
<1>5. \A a \in Actions : advance[a].at \in {"recording", "marking"} /\ advance[a].node = n =>
        job = "mark" /\ advance[a].at = "marking"
  BY <1>1, <1>2 DEF ReadInv, Turns
<1> QED BY <1>1, <1>3, <1>4, <1>5, Basics

(* Such an edit is written, or not, and its generation goes on or ends.    *)
JobDone(n, new, st, g) ==
  /\ n \in Tree /\ At(n) # "done" /\ Clear(1, n) /\ Moves(1, new)
  /\ (UNCHANGED session /\ st = At(n)) \/ Marked(session', n, st)
  /\ \A m \in Reading!Nodes : gen'[m] = IF m = n THEN g ELSE gen[m]
  /\ \A x \in new : x.edit = "fail" /\ x.node = n /\ g = "failing"
  /\ g # "idle" => st # "done"
  /\ g = "working" => new = {}
  /\ UNCHANGED act /\ unmarked \subseteq unmarked'
  /\ \A a \in Actions :
       \/ /\ advance'[a] = advance[a]
          /\ advance[a].at \in {"recording", "marking"} => advance[a].node # n
       \/ /\ advance[a].at \in {"generating", "marking"} /\ advance[a].node = n
          /\ advance'[a].at \in {"idle", "reporting"}
  /\ st \in {"pending", "running"} => g # "idle" \/ n \in unmarked'

LEMMA JobStep ==
  ASSUME ReadInv, ReadingTypes', NEW n, NEW new, NEW st, NEW g, JobDone(n, new, st, g)
  PROVE  ReadInv' /\ Stays
<1> USE DEF JobDone
<1>1. /\ Tree' = Tree /\ n \in Nat /\ session'.nodes[n].status = st
      /\ session'.nodes[n].parent = session.nodes[n].parent
      /\ session'.nodes[n].by = session.nodes[n].by
      /\ \A m \in Tree \ {n} : session'.nodes[m] = session.nodes[m]
  BY Basics DEF Marked, Tree, At
<1>2. \A x \in new : x.edit \in Jobs /\ x.edit # "mark" /\ x.edit # "add" /\ Stage(x.edit) = "failing"
  BY DEF Jobs, Stage
<1>3. OnlyNode(1, n, new)
  BY <1>1, <1>2 DEF OnlyNode
<1>4. ASSUME NEW a \in Actions PROVE CardStays(a, 1, n, new)
  <2>1. advance[a].at \in {"generating", "marking"} => \A k \in Waits : ~Asks(k, a)
    BY DEF ReadInv, Turns
  <2> QED BY <1>1, <1>2, <2>1 DEF CardStays
<1> QED BY <1>1, <1>3, <1>4, NodeStep

LEMMA OpenNodeTrue == ASSUME ReadInv, Reading!OpenNode PROVE ReadInv' /\ Stays
<1> DEFINE n == Head(waiting).node
           e == [edit |-> "fail", node |-> n]
<1>1. /\ n \in Tree /\ n \in Nat /\ At(n) # "done" /\ Clear(1, n) /\ waiting # <<>>
      /\ \A a \in Actions : advance[a].at \in {"recording", "marking"} => advance[a].node # n
  BY JobFirst DEF Reading!OpenNode, Jobs
<1>2. UNCHANGED <<halted, unmarked, act, advance>>
  BY DEF Reading!OpenNode
<1> HIDE DEF n
<1>3. CASE /\ session' = Reading!Set(session, n, "running")
           /\ gen' = [gen EXCEPT ![n] = "working"] /\ waiting' = Tail(waiting)
  <2>1. Moves(1, {})
    BY <1>1, <1>3, QueueMoves
  <2>2. Marked(session', n, "running")
    BY <1>1, <1>3, SetMarks DEF Statuses
  <2>3. /\ gen' \in [Reading!Nodes -> {"idle", "opening", "working", "closing", "failing"}]
        /\ \A m \in Reading!Nodes : gen'[m] = IF m = n THEN "working" ELSE gen[m]
    BY <1>3 DEF ReadInv, ReadingTypes
  <2>4. ReadingTypes'
    BY <1>2, <2>1, <2>2, <2>3 DEF ReadInv, ReadingTypes, Moves, Marked
  <2>5. JobDone(n, {}, "running", "working")
    BY <1>1, <1>2, <2>1, <2>2, <2>3 DEF JobDone
  <2> QED BY <2>4, <2>5, JobStep
<1>4. CASE UNCHANGED session /\ gen' = [gen EXCEPT ![n] = "failing"] /\ waiting' = Append(Tail(waiting), e)
  <2>1. e \in Edits /\ e.edit = "fail" /\ e.node = n
    BY <1>1 DEF Edits, Jobs
  <2>2. Moves(1, {e})
    BY <1>1, <1>4, <2>1, QueueMoves
  <2>3. /\ gen' \in [Reading!Nodes -> {"idle", "opening", "working", "closing", "failing"}]
        /\ \A m \in Reading!Nodes : gen'[m] = IF m = n THEN "failing" ELSE gen[m]
    BY <1>4 DEF ReadInv, ReadingTypes
  <2>4. ReadingTypes'
    BY <1>2, <1>4, <2>2, <2>3 DEF ReadInv, ReadingTypes, Moves
  <2>5. JobDone(n, {e}, At(n), "failing")
    BY <1>1, <1>2, <1>4, <2>1, <2>2, <2>3 DEF JobDone
  <2> QED BY <2>4, <2>5, JobStep
<1> QED BY <1>3, <1>4 DEF Reading!OpenNode, Reading!Throw, n

(* What the end of a generation does to the cards.                         *)
LEMMA EndsCards ==
  ASSUME ReadInv, NEW n \in Nat, NEW next \in {"idle", "reporting"}, Reading!Ends(n, next),
         \A a \in Actions : advance[a].at \in {"recording", "marking"} => advance[a].node # n
  PROVE  /\ gen' \in [Reading!Nodes -> {"idle", "opening", "working", "closing", "failing"}]
         /\ \A m \in Reading!Nodes : gen'[m] = IF m = n THEN "idle" ELSE gen[m]
         /\ advance' \in [Actions -> Doing]
         /\ \A a \in Actions :
              \/ /\ advance'[a] = advance[a]
                 /\ advance[a].at \in {"recording", "marking"} => advance[a].node # n
              \/ /\ advance[a].at \in {"generating", "marking"} /\ advance[a].node = n
                 /\ advance'[a].at \in {"idle", "reporting"}
<1>1. /\ gen' \in [Reading!Nodes -> {"idle", "opening", "working", "closing", "failing"}]
      /\ \A m \in Reading!Nodes : gen'[m] = IF m = n THEN "idle" ELSE gen[m]
  BY DEF Reading!Ends, ReadInv, ReadingTypes
<1>2. ASSUME NEW a \in Actions
      PROVE  /\ advance'[a] \in Doing
             /\ \/ /\ advance'[a] = advance[a]
                   /\ advance[a].at \in {"recording", "marking"} => advance[a].node # n
                \/ /\ advance[a].at \in {"generating", "marking"} /\ advance[a].node = n
                   /\ advance'[a].at \in {"idle", "reporting"}
  <2>1. /\ advance[a] \in Doing
        /\ advance'[a] = IF advance[a].at = "generating" /\ advance[a].node = n
                         THEN [advance[a] EXCEPT !.at = next] ELSE advance[a]
    BY DEF Reading!Ends, ReadInv, ReadingTypes
  <2> QED BY <2>1 DEF Doing
<1>3. advance' \in [Actions -> Doing]
  BY <1>2 DEF Reading!Ends
<1> QED BY <1>1, <1>2, <1>3

LEMMA FinishNodeTrue == ASSUME ReadInv, Reading!FinishNode PROVE ReadInv' /\ Stays
<1> DEFINE n == Head(waiting).node
           e == [edit |-> "fail", node |-> n]
<1>1. /\ n \in Tree /\ n \in Nat /\ At(n) # "done" /\ Clear(1, n) /\ waiting # <<>>
      /\ \A a \in Actions : advance[a].at \in {"recording", "marking"} => advance[a].node # n
  BY JobFirst DEF Reading!FinishNode, Jobs
<1>2. UNCHANGED <<unmarked, act>>
  BY DEF Reading!FinishNode
<1> HIDE DEF n
<1>3. CASE /\ \E whole : session' = [Reading!Set(session, n, "done") EXCEPT !.complete = whole]
           /\ Reading!Ends(n, "idle") /\ waiting' = Tail(waiting)
  <2>1. Moves(1, {})
    BY <1>1, <1>3, QueueMoves
  <2>2. Marked(session', n, "done")
    BY <1>1, <1>3, SetMarks DEF Statuses
  <2>3. /\ gen' \in [Reading!Nodes -> {"idle", "opening", "working", "closing", "failing"}]
        /\ \A m \in Reading!Nodes : gen'[m] = IF m = n THEN "idle" ELSE gen[m]
        /\ advance' \in [Actions -> Doing]
        /\ \A a \in Actions :
             \/ /\ advance'[a] = advance[a]
                /\ advance[a].at \in {"recording", "marking"} => advance[a].node # n
             \/ /\ advance[a].at \in {"generating", "marking"} /\ advance[a].node = n
                /\ advance'[a].at \in {"idle", "reporting"}
    BY <1>1, <1>3, EndsCards
  <2>4. ReadingTypes'
    BY <1>2, <2>1, <2>2, <2>3 DEF ReadInv, ReadingTypes, Moves, Marked
  <2>5. JobDone(n, {}, "done", "idle")
    BY <1>1, <1>2, <2>1, <2>2, <2>3 DEF JobDone
  <2> QED BY <2>4, <2>5, JobStep
<1>4. CASE /\ UNCHANGED <<session, halted, advance>>
           /\ gen' = [gen EXCEPT ![n] = "failing"] /\ waiting' = Append(Tail(waiting), e)
  <2>1. e \in Edits /\ e.edit = "fail" /\ e.node = n
    BY <1>1 DEF Edits, Jobs
  <2>2. Moves(1, {e})
    BY <1>1, <1>4, <2>1, QueueMoves
  <2>3. /\ gen' \in [Reading!Nodes -> {"idle", "opening", "working", "closing", "failing"}]
        /\ \A m \in Reading!Nodes : gen'[m] = IF m = n THEN "failing" ELSE gen[m]
    BY <1>4 DEF ReadInv, ReadingTypes
  <2>4. ReadingTypes'
    BY <1>2, <1>4, <2>2, <2>3 DEF ReadInv, ReadingTypes, Moves
  <2>5. JobDone(n, {e}, At(n), "failing")
    BY <1>1, <1>2, <1>4, <2>1, <2>2, <2>3 DEF JobDone
  <2> QED BY <2>4, <2>5, JobStep
<1> QED BY <1>3, <1>4 DEF Reading!FinishNode, Reading!Throw, n

LEMMA FailNodeTrue == ASSUME ReadInv, Reading!FailNode PROVE ReadInv' /\ Stays
<1> DEFINE n == Head(waiting).node
           st == IF n \in halted THEN "interrupted" ELSE "failed"
<1>1. /\ n \in Tree /\ n \in Nat /\ At(n) # "done" /\ Clear(1, n) /\ waiting # <<>>
      /\ \A a \in Actions : advance[a].at \in {"recording", "marking"} => advance[a].node # n
  BY JobFirst DEF Reading!FailNode, Jobs
<1>2. UNCHANGED act /\ waiting' = Tail(waiting) /\ Reading!Ends(n, "reporting")
  BY DEF Reading!FailNode
<1>3. \/ session' = Reading!Set(session, n, st) /\ UNCHANGED unmarked
      \/ unmarked' = unmarked \cup {n} /\ UNCHANGED session
  BY DEF Reading!FailNode
<1> HIDE DEF n
<1>4. st \in Statuses /\ st \in {"interrupted", "failed"}
  BY DEF Statuses
<1> HIDE DEF st
<1>5. Moves(1, {})
  BY <1>1, <1>2, QueueMoves
<1>6. /\ gen' \in [Reading!Nodes -> {"idle", "opening", "working", "closing", "failing"}]
      /\ \A m \in Reading!Nodes : gen'[m] = IF m = n THEN "idle" ELSE gen[m]
      /\ advance' \in [Actions -> Doing]
      /\ \A a \in Actions :
           \/ /\ advance'[a] = advance[a]
              /\ advance[a].at \in {"recording", "marking"} => advance[a].node # n
           \/ /\ advance[a].at \in {"generating", "marking"} /\ advance[a].node = n
              /\ advance'[a].at \in {"idle", "reporting"}
  BY <1>1, <1>2, EndsCards
<1>7. CASE session' = Reading!Set(session, n, st) /\ UNCHANGED unmarked
  <2>1. Marked(session', n, st)
    BY <1>1, <1>4, <1>7, SetMarks
  <2>2. ReadingTypes'
    BY <1>2, <1>5, <1>6, <2>1 DEF ReadInv, ReadingTypes, Moves, Marked
  <2>3. JobDone(n, {}, st, "idle")
    BY <1>1, <1>2, <1>4, <1>5, <1>6, <1>7, <2>1 DEF JobDone
  <2> QED BY <2>2, <2>3, JobStep
<1>8. CASE unmarked' = unmarked \cup {n} /\ UNCHANGED session
  <2>1. ReadingTypes'
    BY <1>2, <1>5, <1>6, <1>8 DEF ReadInv, ReadingTypes, Moves
  <2>2. JobDone(n, {}, At(n), "idle")
    BY <1>1, <1>2, <1>5, <1>6, <1>8 DEF JobDone
  <2> QED BY <2>1, <2>2, JobStep
<1> QED BY <1>3, <1>7, <1>8

LEMMA MarkNodeTrue == ASSUME ReadInv, Reading!MarkNode PROVE ReadInv' /\ Stays
<1> DEFINE n == Head(waiting).node
<1>1. /\ n \in Tree /\ n \in Nat /\ At(n) # "done" /\ Clear(1, n) /\ waiting # <<>>
      /\ n \in Reading!Nodes => gen[n] = "idle"
      /\ \A a \in Actions : advance[a].at \in {"recording", "marking"} /\ advance[a].node = n =>
           advance[a].at = "marking"
  BY JobFirst DEF Reading!MarkNode, Jobs, Stage
<1>2. UNCHANGED <<gen, halted, act>> /\ waiting' = Tail(waiting)
  BY DEF Reading!MarkNode
<1>3. \/ session' = Reading!Set(session, n, "failed") /\ UNCHANGED unmarked
      \/ unmarked' = unmarked \cup {n} /\ UNCHANGED session
  BY DEF Reading!MarkNode
<1>4. advance' = [a \in Actions |-> IF advance[a] = [at |-> "marking", node |-> n]
                                   THEN [advance[a] EXCEPT !.at = "reporting"] ELSE advance[a]]
  BY DEF Reading!MarkNode
<1> HIDE DEF n
<1>5. Moves(1, {})
  BY <1>1, <1>2, QueueMoves
<1>6. ASSUME NEW a \in Actions
      PROVE  /\ advance'[a] \in Doing
             /\ \/ /\ advance'[a] = advance[a]
                   /\ advance[a].at \in {"recording", "marking"} => advance[a].node # n
                \/ /\ advance[a].at \in {"generating", "marking"} /\ advance[a].node = n
                   /\ advance'[a].at \in {"idle", "reporting"}
  <2>1. /\ advance[a] \in Doing
        /\ advance'[a] = IF advance[a] = [at |-> "marking", node |-> n]
                         THEN [advance[a] EXCEPT !.at = "reporting"] ELSE advance[a]
    BY <1>4 DEF ReadInv, ReadingTypes
  <2>2. advance[a] = [at |-> "marking", node |-> n] <=> advance[a].at = "marking" /\ advance[a].node = n
    BY <2>1 DEF Doing
  <2> QED BY <1>1, <2>1, <2>2 DEF Doing
<1>7. advance' \in [Actions -> Doing]
  BY <1>4, <1>6
<1>8. \A m \in Reading!Nodes : gen'[m] = IF m = n THEN "idle" ELSE gen[m]
  BY <1>1, <1>2
<1>9. CASE session' = Reading!Set(session, n, "failed") /\ UNCHANGED unmarked
  <2>1. Marked(session', n, "failed")
    BY <1>1, <1>9, SetMarks DEF Statuses
  <2>2. ReadingTypes'
    BY <1>2, <1>5, <1>7, <2>1 DEF ReadInv, ReadingTypes, Moves, Marked
  <2>3. JobDone(n, {}, "failed", "idle")
    BY <1>1, <1>2, <1>5, <1>6, <1>8, <1>9, <2>1 DEF JobDone
  <2> QED BY <2>2, <2>3, JobStep
<1>10. CASE unmarked' = unmarked \cup {n} /\ UNCHANGED session
  <2>1. ReadingTypes'
    BY <1>2, <1>5, <1>7, <1>10 DEF ReadInv, ReadingTypes, Moves
  <2>2. JobDone(n, {}, At(n), "idle")
    BY <1>1, <1>2, <1>5, <1>6, <1>8, <1>10 DEF JobDone
  <2> QED BY <2>1, <2>2, JobStep
<1> QED BY <1>3, <1>9, <1>10

-----------------------------------------------------------------------------
(* A new node.                                                             *)

(* What is added is one node that hangs on nothing or on an answer.        *)
LEMMA NodeAdded ==
  ASSUME ReadInv, NEW e \in Edits, e.edit = "add", Reading!CanAdd(session, e),
         session' = Reading!Added(session, e)
  PROVE  LET n == Len(session.nodes) + 1 IN
         /\ Len(session'.nodes) = n /\ Tree' = Tree \cup {n}
         /\ DOMAIN session' = {"nodes", "complete"} /\ session'.nodes \in Seq(Node)
         /\ \A m \in Tree : session'.nodes[m] = session.nodes[m]
         /\ session'.nodes[n].status = "pending" /\ session'.nodes[n].by = e.by
         /\ session'.nodes[n].parent # 0 =>
              session'.nodes[n].parent \in Tree /\ At(session'.nodes[n].parent) = "done"
         /\ e.to = Reading!Main /\ e.by # Reading!User => session'.nodes[n].parent = e.at
<1> DEFINE n == Len(session.nodes) + 1
           p == IF e.to = Reading!Fresh THEN e.at ELSE Reading!Last(session, e.to)
           x == [chain |-> IF e.to = Reading!Fresh THEN n ELSE e.to, parent |-> p,
                 status |-> "pending", by |-> e.by]
<1>1. /\ DOMAIN session = {"nodes", "complete"} /\ session.nodes \in Seq(Node) /\ n \in Nat
      /\ Tree = 1 .. Len(session.nodes) /\ Tree \subseteq Nat
      /\ MaxNodes \in Nat
  BY Basics DEF ReadInv, ReadingTypes
<1>2. e.to \in Nat /\ e.by \in Askers
  BY DEF Edits, Jobs
<1>3. Reading!Fresh # Reading!Main
  BY <1>1 DEF Reading!Fresh, Reading!Main
<1>4. p # 0 => p \in Tree /\ At(p) = "done"
  BY DEF Reading!CanAdd, Reading!Done, Reading!Status, Tree, At
<1>5. e.to = Reading!Main /\ e.by # Reading!User => p = e.at
  BY <1>3 DEF Reading!CanAdd
<1>6. session' = [session EXCEPT !.nodes = Append(@, x)]
  BY DEF Reading!Added
<1> HIDE DEF p
<1>7. x \in Node /\ x.parent = p /\ x.status = "pending" /\ x.by = e.by
  BY <1>1, <1>2, <1>4 DEF Node, Statuses
<1> HIDE DEF x
<1>8. DOMAIN session' = {"nodes", "complete"} /\ session'.nodes = Append(session.nodes, x)
  BY <1>1, <1>6
<1>9. /\ session'.nodes \in Seq(Node) /\ Len(session'.nodes) = n
      /\ \A k \in 1 .. n : session'.nodes[k] = IF k = n THEN x ELSE session.nodes[k]
  BY <1>1, <1>7, <1>8, SequenceMoves
<1>10. Tree' = 1 .. n
  BY <1>9 DEF Tree
<1>11. n \in 1 .. n /\ 1 .. n = Tree \cup {n} /\ n \notin Tree
  BY <1>1
<1>12. session'.nodes[n] = x
  BY <1>9, <1>11
<1>13. \A m \in Tree : session'.nodes[m] = session.nodes[m]
  BY <1>9, <1>11
<1> QED BY <1>4, <1>5, <1>7, <1>8, <1>9, <1>10, <1>11, <1>12, <1>13

LEMMA AddNodeTrue == ASSUME ReadInv, Reading!AddNode PROVE ReadInv' /\ Stays
<1> DEFINE e == Head(waiting)
           n == Len(session.nodes) + 1
           j == [edit |-> "open", node |-> n]
<1>1. /\ waiting # <<>> /\ e \in Edits /\ e.edit = "add" /\ 1 \in Waits /\ e = waiting[1]
      /\ UNCHANGED <<halted, unmarked, act>>
  BY First DEF Reading!AddNode, Reading!Edit
<1>2. /\ n \in Nat /\ n \notin Tree /\ Clear(1, n) /\ Reading!User \notin Actions
      /\ n \in Reading!Nodes => gen[n] = "idle"
  BY Basics DEF ReadInv, OneEdit
<1>3. \A a \in Actions : e.by = a => /\ advance[a].at = "adding" /\ e.to = Reading!Main
                                    /\ e.at = act[a].on /\ \A k \in Waits : k > 1 => ~Asks(k, a)
  <2> SUFFICES ASSUME NEW a \in Actions, e.by = a
               PROVE  /\ advance[a].at = "adding" /\ e.to = Reading!Main
                      /\ e.at = act[a].on /\ \A k \in Waits : k > 1 => ~Asks(k, a)
    OBVIOUS
  <2>1. Asks(1, a)
    BY <1>1 DEF Asks
  <2> QED BY <1>1, <2>1, First DEF ReadInv, Turns
<1>4. \A a \in Actions : advance[a].at \in {"recording", "marking"} => advance[a].node # n
  BY <1>2 DEF ReadInv, Turns
<1>5. act \in [Actions -> Card] /\ advance \in [Actions -> Doing]
  BY DEF ReadInv, ReadingTypes
<1>6. e.by \in Askers
  BY <1>1 DEF Edits, Jobs
<1> HIDE DEF e
<1>7. CASE Reading!CanAdd(session, e) /\ session' = Reading!Added(session, e)
           /\ IF e.by = Reading!User
              THEN Reading!Start(Len(session'.nodes), Tail(waiting)) /\ UNCHANGED advance
              ELSE /\ advance' = [advance EXCEPT ![e.by] = [at |-> "recording", node |-> Len(session'.nodes)]]
                   /\ waiting' = Tail(waiting) /\ UNCHANGED gen
  <2>1. /\ Len(session'.nodes) = n /\ Tree' = Tree \cup {n}
        /\ DOMAIN session' = {"nodes", "complete"} /\ session'.nodes \in Seq(Node)
        /\ \A m \in Tree : session'.nodes[m] = session.nodes[m]
        /\ session'.nodes[n].status = "pending" /\ session'.nodes[n].by = e.by
        /\ session'.nodes[n].parent # 0 =>
             session'.nodes[n].parent \in Tree /\ At(session'.nodes[n].parent) = "done"
        /\ e.to = Reading!Main /\ e.by # Reading!User => session'.nodes[n].parent = e.at
    BY <1>1, <1>7, NodeAdded
  <2> HIDE DEF n
  <2>2. CASE e.by = Reading!User
    <3>1. j \in Edits /\ j.edit = "open" /\ j.node = n /\ Stage("open") = "opening"
      BY <1>2 DEF Edits, Jobs, Stage
    <3>2. waiting' = Append(Tail(waiting), j) /\ gen' = [gen EXCEPT ![n] = "opening"] /\ UNCHANGED advance
      BY <1>7, <2>1, <2>2 DEF Reading!Start
    <3>3. Moves(1, {j})
      BY <1>1, <3>1, <3>2, QueueMoves
    <3>4. /\ gen' \in [Reading!Nodes -> {"idle", "opening", "working", "closing", "failing"}]
          /\ \A m \in Reading!Nodes : gen'[m] = IF m = n THEN "opening" ELSE gen[m]
      BY <3>2 DEF ReadInv, ReadingTypes
    <3>5. ReadingTypes'
      BY <1>1, <2>1, <3>2, <3>3, <3>4 DEF ReadInv, ReadingTypes, Moves
    <3> HIDE DEF j
    <3>6. OnlyNode(1, n, {j})
      BY <1>1, <1>2, <2>1, <3>1, <3>2, <3>3, <3>4 DEF OnlyNode
    <3>7. \A a \in Actions : CardStays(a, 1, n, {j})
      BY <1>1, <1>2, <1>4, <2>1, <2>2, <3>1, <3>2 DEF CardStays
    <3> QED BY <1>2, <3>5, <3>6, <3>7, NodeStep
  <2>3. ASSUME NEW b \in Actions, e.by = b PROVE ReadInv' /\ Stays
    <3>1. /\ advance' = [advance EXCEPT ![b] = [at |-> "recording", node |-> n]]
          /\ waiting' = Tail(waiting) /\ UNCHANGED gen
      BY <1>2, <1>7, <2>1, <2>3
    <3>2. Moves(1, {})
      BY <1>1, <3>1, QueueMoves
    <3>3. /\ advance' \in [Actions -> Doing] /\ advance'[b].at = "recording" /\ advance'[b].node = n
          /\ \A a \in Actions \ {b} : advance'[a] = advance[a]
      BY <1>2, <1>5, <3>1 DEF Doing
    <3>4. ReadingTypes'
      BY <1>1, <2>1, <3>1, <3>2, <3>3 DEF ReadInv, ReadingTypes, Moves
    <3>5. OnlyNode(1, n, {})
      BY <1>1, <1>2, <1>3, <2>1, <2>3, <3>1, <3>2, <3>3 DEF OnlyNode
    <3>6. \A a \in Actions \ {b} : CardStays(a, 1, n, {})
      BY <1>1, <1>4, <2>1, <2>3, <3>3 DEF CardStays
    <3>7. /\ advance[b].at = "adding" /\ session'.nodes[n].parent = act[b].on
          /\ \A k \in Waits : k > 1 => ~Asks(k, b)
      BY <1>2, <1>3, <2>1, <2>3
    <3>8. \A m \in Tree : session.nodes[m].by # b
      BY <3>7 DEF ReadInv, Owns
    <3>9. Owns(b)'
      BY <1>1, <1>2, <2>1, <3>3, <3>7, <3>8 DEF ReadInv, Owns, At
    <3>10. Len(waiting) \in Nat /\ Waits' \subseteq Nat /\ \A k \in Waits' : k + 1 > 1
      BY <3>2 DEF ReadInv, ReadingTypes, Waits, Moves
    <3>11. \A k \in Waits' : ~(waiting'[k].edit = "add" /\ waiting'[k].by = b)
      BY <3>2, <3>7, <3>10 DEF Moves, Asks
    <3>12. \A k \in Waits' : ~(waiting'[k].edit \in Jobs /\ waiting'[k].node = n)
      BY <1>2, <3>2, <3>10 DEF Moves, Clear, OnNode
    <3>13. Turns(b)'
      BY <1>2, <2>1, <2>3, <3>1, <3>3, <3>11, <3>12 DEF Turns, Asks, OnNode, At
    <3> QED BY <1>2, <3>4, <3>5, <3>6, <3>9, <3>13, NodeStep
  <2> QED BY <1>6, <2>2, <2>3 DEF Askers
<1>8. CASE /\ waiting' = Tail(waiting)
           /\ advance' = [a \in Actions |->
                IF a = e.by THEN [at |-> "reporting", node |-> 0] ELSE advance[a]]
           /\ UNCHANGED <<session, gen>>
  <2>1. Moves(1, {})
    BY <1>1, <1>8, QueueMoves
  <2>2. ASSUME NEW a \in Actions
        PROVE  /\ advance'[a] \in Doing
               /\ a = e.by => advance'[a].at = "reporting"
               /\ a # e.by => advance'[a] = advance[a]
    BY <1>5, <1>8 DEF Doing
  <2>3. ReadingTypes'
    <3>1. advance' \in [Actions -> Doing]
      BY <1>8, <2>2
    <3> QED BY <1>1, <1>8, <2>1, <3>1 DEF ReadInv, ReadingTypes, Moves
  <2>4. \A a \in Actions : advance[a].at \in {"recording", "marking"} => advance'[a] = advance[a]
    BY <1>3, <2>2
  <2>5. ASSUME NEW a \in Actions
        PROVE  \/ advance'[a] = advance[a]
               \/ /\ advance[a].at \notin {"idle", "opening"} /\ advance'[a].at \in {"idle", "reporting"}
                  /\ \A k \in Waits : k > 1 => ~Asks(k, a)
    BY <1>3, <2>2
  <2> QED BY <1>1, <1>8, <2>1, <2>3, <2>4, <2>5, NoNodeStep
<1> QED BY <1>7, <1>8 DEF Reading!AddNode, e

-----------------------------------------------------------------------------
(* The program dies, and its successor loads the session.                  *)

LEMMA RestartTrue == ASSUME ReadInv, Reading!Restart PROVE ReadInv' /\ Stays
<1>1. /\ session' = Reading!Loaded(session) /\ waiting' = <<>> /\ gen' = [n \in Reading!Nodes |-> "idle"]
      /\ advance' = [a \in Actions |-> Reading!AtRest] /\ act' = act
  BY DEF Reading!Restart
<1>2. DOMAIN session = {"nodes", "complete"} /\ session.nodes \in Seq(Node) /\ Tree = 1 .. Len(session.nodes)
      /\ Len(session.nodes) \in Nat
  BY Basics DEF ReadInv, ReadingTypes
<1> DEFINE f == [m \in Tree |-> IF At(m) \in {"pending", "running"}
                               THEN [session.nodes[m] EXCEPT !.status = "interrupted"]
                               ELSE session.nodes[m]]
<1>3. f = [m \in DOMAIN session.nodes |-> IF Reading!Unsettled(session, m)
                               THEN [session.nodes[m] EXCEPT !.status = "interrupted"]
                               ELSE session.nodes[m]]
  BY DEF Tree, At, Reading!Unsettled, Reading!Status
<1>4. session' = [session EXCEPT !.nodes = f]
  BY <1>1, <1>3 DEF Reading!Loaded
<1>5. \A m \in Tree : session.nodes[m] \in Node
  BY <1>2
<1>6. ASSUME NEW m \in Tree
      PROVE  /\ f[m] \in Node /\ f[m].parent = session.nodes[m].parent /\ f[m].by = session.nodes[m].by
             /\ f[m].status \notin {"pending", "running"}
             /\ At(m) = "done" => f[m] = session.nodes[m]
  BY <1>5 DEF Node, Statuses, At
<1>7. f \in Seq(Node) /\ DOMAIN f = Tree
  BY <1>2, <1>6
<1> HIDE DEF f
<1>8. DOMAIN session' = {"nodes", "complete"} /\ session'.nodes = f /\ Tree' = Tree
  BY <1>2, <1>4, <1>7 DEF Tree
<1>9. ReadingTypes'
  BY <1>1, <1>7, <1>8 DEF ReadInv, ReadingTypes, Reading!AtRest, Doing
<1>10. Waits' = {}
  BY <1>1 DEF Waits
<1>11. OneEdit'
  BY <1>1, <1>10 DEF OneEdit
<1>12. Stays
  BY <1>6, <1>8 DEF Stays
<1>13. Context'
  BY <1>6, <1>8 DEF ReadInv, Context, At
<1>14. Attended'
  BY <1>6, <1>8 DEF Attended, At
<1>15. ASSUME NEW a \in Actions PROVE Turns(a)' /\ Owns(a)'
  <2>1. advance'[a].at = "idle"
    BY <1>1 DEF Reading!AtRest
  <2>2. Turns(a)'
    BY <1>10, <2>1 DEF Turns
  <2>3. Owns(a)'
    BY <1>1, <1>6, <1>8, <2>1 DEF ReadInv, Owns, At
  <2> QED BY <2>2, <2>3
<1> QED BY <1>9, <1>11, <1>12, <1>13, <1>14, <1>15 DEF ReadInv

LEMMA ReadingStart == ASSUME Reading!Init PROVE ReadInv
<1>1. /\ session = [nodes |-> <<>>, complete |-> FALSE] /\ waiting = <<>>
      /\ gen = [n \in Reading!Nodes |-> "idle"] /\ act = [a \in Actions |-> Reading!NoCard]
      /\ advance = [a \in Actions |-> Reading!AtRest]
  BY DEF Reading!Init
<1>2. Tree = {} /\ Waits = {} /\ session.nodes = <<>> /\ DOMAIN session = {"nodes", "complete"}
  BY <1>1 DEF Tree, Waits
<1>3. ReadingTypes
  BY <1>1, <1>2 DEF ReadingTypes, Reading!NoCard, Reading!AtRest, Card, Doing
<1>4. OneEdit /\ Context /\ Attended
  BY <1>1, <1>2 DEF OneEdit, Context, Attended
<1>5. \A a \in Actions : Turns(a) /\ Owns(a)
  BY <1>1, <1>2 DEF Turns, Owns, Reading!NoCard, Reading!AtRest
<1> QED BY <1>3, <1>4, <1>5 DEF ReadInv

LEMMA ReadingStep == ASSUME ReadInv, [Reading!Next]_readingVars PROVE ReadInv' /\ Stays
<1>1. CASE Reading!Next
  BY <1>1, AskTrue, AddNodeTrue, OpenNodeTrue, FinishNodeTrue, FailNodeTrue, MarkNodeTrue, RestartTrue,
     RetryTrue, AbortTrue, AnswerTrue, FailsTrue, PrepareTrue, DispatchTrue, OpenCardTrue,
     HandOverTrue, LinkTrue, ReportTrue, RefreshTrue
     DEF Reading!Next, Reading!Write, Reading!Stop, Reading!TimeOut
<1>2. CASE UNCHANGED readingVars
  BY <1>2 DEF readingVars, ReadInv, ReadingTypes, OneEdit, Turns, Owns, Context, Attended, Stays,
     Tree, Waits, At, OnNode, Asks
<1> QED BY <1>1, <1>2

(* GuidedReading: for any number of nodes and cards, whatever is stopped,  *)
(* retried, not written or cut off: answers have their context, a card     *)
(* advances the main line once, and no node waits for nobody.              *)
THEOREM ReadingStaysTrue == MCSpec => []ReadingTrue
<1>1. MCInit => ReadInv
  BY ReadingStart DEF MCInit
<1>2. ASSUME ReadInv, [MCNext]_allVars PROVE ReadInv'
  <2>1. [Reading!Next]_readingVars
    BY <1>2 DEF MCNext, Only, allVars
  <2> QED BY <1>2, <2>1, ReadingStep
<1>3. ASSUME ReadInv PROVE ReadingTrue
  <2>1. Reading!ContextDone
    BY <1>3 DEF ReadInv, Context, Reading!ContextDone, Reading!Done, Reading!Status, Tree, At
  <2>2. Reading!OneAdvance
    <3> SUFFICES ASSUME NEW a \in Actions
                 PROVE  LET own == {n \in DOMAIN session.nodes : session.nodes[n].by = a}
                        IN /\ \A n \in own : /\ own = {n} /\ act[a].state = "opened"
                                            /\ session.nodes[n].parent = act[a].on
                           /\ act[a].node # 0 => act[a].node \in own
                           /\ act[a].exec = "succeeded" => Reading!Done(session, act[a].node)
      BY DEF Reading!OneAdvance
    <3> QED BY <1>3 DEF ReadInv, Owns, Tree, At, Reading!Done, Reading!Status
  <2>3. Reading!NoneAbandoned
    BY <1>3 DEF ReadInv, Attended, Reading!NoneAbandoned, Reading!Unsettled, Reading!Status,
       Reading!InWork, Reading!Idle, Tree, At
  <2> QED BY <2>1, <2>2, <2>3 DEF ReadingTrue, Reading!ReadingTrue
<1> QED BY <1>1, <1>2, <1>3, PTL DEF MCSpec

(* GuidedReading: an answer, once given, is never touched again.           *)
THEOREM AnswersStay == MCSpec => AnswersKept
<1>1. MCInit => ReadInv
  BY ReadingStart DEF MCInit
<1>2. ASSUME ReadInv, [MCNext]_allVars
      PROVE  ReadInv' /\ [\A n \in DOMAIN session.nodes : Reading!Done(session, n) =>
               n \in DOMAIN session'.nodes /\ session'.nodes[n] = session.nodes[n]]_readingVars
  <2>1. [Reading!Next]_readingVars
    BY <1>2 DEF MCNext, Only, allVars
  <2>2. ReadInv' /\ Stays
    BY <1>2, <2>1, ReadingStep
  <2> QED BY <2>2 DEF Stays, Tree, At, Reading!Done, Reading!Status
<1> QED BY <1>1, <1>2, PTL DEF MCSpec, AnswersKept, Reading!AnswersKept, Reading!readingVars, readingVars

-----------------------------------------------------------------------------
(* Excerpts.  What is known of the file, and of what a window was asked.   *)
Quoted(x) == x # Missing => /\ DOMAIN x = {"note", "versions", "done", "foreign"}
                            /\ x.versions \in Seq(Texts)

ExcerptTypes ==
  /\ Quoted(excerpt)
  /\ steps = [w \in Windows |-> steps[w]] /\ ask = [w \in Windows |-> ask[w]]
  /\ views = [w \in Windows |-> views[w]] /\ intended = [w \in Windows |-> intended[w]]
  /\ \A w \in Windows :
       /\ steps[w] \in {"look", "create"} => ask[w].kind = "new" /\ ask[w].text \in Texts
       /\ steps[w] \in {"load", "apply"} => ask[w] \in Excerpt!Edits
       /\ steps[w] = "queued" => \/ ask[w].kind = "new" /\ ask[w].text \in Texts
                                 \/ ask[w] \in Excerpt!Edits

(* What a change of a file leaves of it.                                   *)
Continues(c, d) ==
  /\ Quoted(d) /\ Excerpt!IsPrefix(c.versions, d.versions)
  /\ c.done /\ d.done => c.note = d.note /\ c.versions = d.versions

LEMMA PrefixGrows ==
  ASSUME NEW S, NEW s \in Seq(S), NEW t \in S
  PROVE  Excerpt!IsPrefix(s, s) /\ Excerpt!IsPrefix(s, Append(s, t)) /\ Append(s, t) \in Seq(S)
<1>1. /\ Append(s, t) \in Seq(S) /\ Len(s) \in Nat /\ Len(Append(s, t)) = Len(s) + 1
      /\ \A k \in 1 .. Len(s) : Append(s, t)[k] = s[k]
  OBVIOUS
<1>2. SubSeq(s, 1, Len(s)) = SubSeq(Append(s, t), 1, Len(s))
  BY <1>1
<1> QED BY <1>1, <1>2 DEF Excerpt!IsPrefix

LEMMA PatchContinues ==
  ASSUME NEW c, c # Missing, Quoted(c), NEW e \in Excerpt!Edits, Excerpt!HasRoom(c, e)
  PROVE  Continues(c, Excerpt!Patched(c, e))
<1>1. /\ DOMAIN c = {"note", "versions", "done", "foreign"} /\ c.versions \in Seq(Texts)
      /\ Excerpt!IsPrefix(c.versions, c.versions)
  BY PrefixGrows, StoresAssumption DEF Quoted, Excerpt!ExcerptAssumption
<1>2. ASSUME NEW t \in Texts PROVE Continues(c, Excerpt!WithVersion(c, t))
  <2>1. CASE t = Excerpt!Last(c.versions)
    BY <1>1, <2>1 DEF Continues, Quoted, Excerpt!WithVersion
  <2>2. CASE t # Excerpt!Last(c.versions)
    <3> DEFINE d == [[c EXCEPT !.versions = Append(@, t)] EXCEPT !.done = FALSE]
    <3>1. Excerpt!WithVersion(c, t) = d
      BY <2>2 DEF Excerpt!WithVersion, Excerpt!Reopened
    <3>2. /\ DOMAIN d = {"note", "versions", "done", "foreign"} /\ d.done = FALSE
          /\ d.versions = Append(c.versions, t)
      BY <1>1
    <3> QED BY <1>1, <3>1, <3>2, PrefixGrows DEF Continues, Quoted
  <2> QED BY <2>1, <2>2
<1>3. CASE e.kind = "version"
  BY <1>2, <1>3 DEF Excerpt!Patched, Excerpt!Edits
<1>4. CASE e.kind = "restore"
  <2>1. e.index \in 1 .. MaxVersions /\ e.index <= Len(c.versions)
    BY <1>4 DEF Excerpt!HasRoom, Excerpt!Edits
  <2>2. c.versions[e.index] \in Texts
    BY <1>1, <2>1, StoresAssumption DEF Excerpt!ExcerptAssumption
  <2> QED BY <1>2, <1>4, <2>2 DEF Excerpt!Patched
<1>5. CASE e.kind = "note"
  BY <1>1, <1>5 DEF Excerpt!Patched, Excerpt!Reopened, Continues, Quoted
<1>6. CASE e.kind = "done"
  BY <1>1, <1>6 DEF Excerpt!Patched, Continues, Quoted
<1> QED BY <1>3, <1>4, <1>5, <1>6 DEF Excerpt!Edits

(* What the three properties say of a step.                                *)
ExcerptStep ==
  /\ \A w \in Windows : Excerpt!Rewrites(w) =>
       views[w] = excerpt /\ Excerpt!IsPrefix(excerpt.versions, excerpt'.versions)
  /\ \A w \in Windows : views'[w] \notin {views[w], Missing} => excerpt = views'[w]
  /\ excerpt # Missing /\ excerpt' # Missing /\ excerpt.done /\ excerpt'.done =>
       excerpt.note = excerpt'.note /\ excerpt.versions = excerpt'.versions

(* A window, and what it is at, is the only one that changes.              *)
LEMMA WindowEnds ==
  ASSUME ExcerptTypes, NEW w \in Windows, UNCHANGED excerpt,
         \/ Excerpt!Ends(w) /\ UNCHANGED views
         \/ Excerpt!Shows(w, excerpt)
  PROVE  ExcerptTypes' /\ ExcerptStep
  BY DEF ExcerptTypes, ExcerptStep, Excerpt!Ends, Excerpt!Shows, Excerpt!Goes, Excerpt!Rewrites

LEMMA WindowGoes ==
  ASSUME ExcerptTypes, NEW w \in Windows, NEW place, Excerpt!Goes(w, place),
         place \in {"look", "create"} => ask[w].kind = "new" /\ ask[w].text \in Texts,
         place \in {"load", "apply"} => ask[w] \in Excerpt!Edits, place # "queued",
         UNCHANGED <<excerpt, views, ask, intended>>
  PROVE  ExcerptTypes' /\ ExcerptStep
  BY DEF ExcerptTypes, ExcerptStep, Excerpt!Goes, Excerpt!Rewrites

LEMMA WindowSteps ==
  ASSUME ExcerptTypes, NEW w \in Windows,
         Excerpt!Open(w) \/ Excerpt!Starts(w) \/ Excerpt!Refused(w) \/ Excerpt!Look(w)
         \/ Excerpt!Confirm(w) \/ Excerpt!LoadFirst(w) \/ Excerpt!Recover(w) \/ Excerpt!Verify(w)
  PROVE  ExcerptTypes' /\ ExcerptStep
<1>1. CASE Excerpt!Open(w)
  BY <1>1, WindowEnds DEF Excerpt!Open
<1>2. CASE Excerpt!Starts(w)
  <2>1. steps[w] = "queued" /\ UNCHANGED <<excerpt, views, ask, intended>>
        /\ Excerpt!Goes(w, IF ask[w].kind = "new" THEN "look" ELSE "load")
    BY <1>2 DEF Excerpt!Starts
  <2>2. ask[w].kind = "new" => ask[w].text \in Texts
    BY <2>1 DEF ExcerptTypes, Excerpt!Edits
  <2>3. ask[w].kind # "new" => ask[w] \in Excerpt!Edits
    BY <2>1 DEF ExcerptTypes
  <2> QED BY <2>1, <2>2, <2>3, WindowGoes
<1>3. CASE Excerpt!Refused(w)
  BY <1>3, WindowEnds DEF Excerpt!Refused
<1>4. CASE Excerpt!Look(w)
  BY <1>4, WindowEnds, WindowGoes DEF Excerpt!Look, ExcerptTypes
<1>5. CASE Excerpt!Confirm(w)
  BY <1>5, WindowEnds DEF Excerpt!Confirm
<1>6. CASE Excerpt!LoadFirst(w)
  BY <1>6, WindowEnds, WindowGoes DEF Excerpt!LoadFirst, ExcerptTypes
<1>7. CASE Excerpt!Recover(w)
  BY <1>7, WindowEnds, WindowGoes DEF Excerpt!Recover
<1>8. CASE Excerpt!Verify(w)
  BY <1>8, WindowEnds DEF Excerpt!Verify
<1> QED BY <1>1, <1>2, <1>3, <1>4, <1>5, <1>6, <1>7, <1>8

LEMMA OtherSteps ==
  ASSUME ExcerptTypes,
         (\E w \in Windows : Excerpt!Request(w) \/ Excerpt!Create(w)) \/ Excerpt!Foreign \/ Excerpt!Restart
  PROVE  ExcerptTypes' /\ ExcerptStep
<1>1. ASSUME NEW w \in Windows, Excerpt!Request(w) PROVE ExcerptTypes' /\ ExcerptStep
  <2>1. \A t \in Texts : LET e == [kind |-> "new", text |-> t] IN e.kind = "new" /\ e.text \in Texts
    OBVIOUS
  <2>2. /\ Excerpt!Goes(w, "queued") /\ UNCHANGED <<excerpt, views, intended>>
        /\ \/ \E t \in Texts : ask' = [ask EXCEPT ![w] = [kind |-> "new", text |-> t]]
           \/ \E e \in Excerpt!Edits : ask' = [ask EXCEPT ![w] = e]
    BY <1>1 DEF Excerpt!Request
  <2>3. PICK e : /\ ask' = [ask EXCEPT ![w] = e]
                 /\ e \in Excerpt!Edits \/ (e.kind = "new" /\ e.text \in Texts)
    BY <2>1, <2>2
  <2> QED BY <2>2, <2>3 DEF ExcerptTypes, ExcerptStep, Excerpt!Goes, Excerpt!Rewrites
<1>2. ASSUME NEW w \in Windows, Excerpt!Create(w) PROVE ExcerptTypes' /\ ExcerptStep
  <2>1. /\ steps[w] = "create" /\ Excerpt!Goes(w, "confirm") /\ UNCHANGED <<views, ask, intended>>
        /\ UNCHANGED excerpt \/ (excerpt = Missing /\ excerpt' = Excerpt!Excerpt(ask[w].text))
    BY <1>2 DEF Excerpt!Create
  <2>2. Quoted(Excerpt!Excerpt(ask[w].text))
    <3>1. <<NoWords>> \in Seq(Texts)
      BY StoresAssumption DEF Excerpt!ExcerptAssumption
    <3> QED BY <3>1 DEF Quoted, Excerpt!Excerpt
  <2> QED BY <2>1, <2>2 DEF ExcerptTypes, ExcerptStep, Excerpt!Goes, Excerpt!Rewrites
<1>3. CASE Excerpt!Foreign
  <2>1. /\ excerpt # Missing /\ UNCHANGED <<views, steps, ask, intended>>
        /\ \/ \E t \in Texts : excerpt' = [excerpt EXCEPT !.note = t, !.done = FALSE]
           \/ excerpt' = [excerpt EXCEPT !.foreign = @ + 1]
           \/ excerpt' = Missing
    BY <1>3 DEF Excerpt!Foreign
  <2>2. Quoted(excerpt') /\ (excerpt' # Missing /\ excerpt'.done =>
          excerpt'.note = excerpt.note /\ excerpt'.versions = excerpt.versions)
    BY <2>1 DEF ExcerptTypes, Quoted
  <2> QED BY <2>1, <2>2 DEF ExcerptTypes, ExcerptStep, Excerpt!Rewrites
<1>4. CASE Excerpt!Restart
  BY <1>4 DEF Excerpt!Restart, ExcerptTypes, ExcerptStep, Excerpt!Rewrites
<1> QED BY <1>1, <1>2, <1>3, <1>4

LEMMA WindowApplies ==
  ASSUME ExcerptTypes, NEW w \in Windows, Excerpt!Apply(w)
  PROVE  ExcerptTypes' /\ ExcerptStep
<1>1. CASE ~Excerpt!Accepts(w)
  BY <1>1, WindowEnds DEF Excerpt!Apply
<1>2. CASE Excerpt!Accepts(w)
  <2> DEFINE d == Excerpt!Patched(excerpt, ask[w])
  <2>1. /\ steps[w] = "apply" /\ excerpt # Missing /\ views[w] = excerpt
        /\ Excerpt!HasRoom(excerpt, ask[w])
    BY <1>2 DEF Excerpt!Apply, Excerpt!Accepts, Excerpt!Readable
  <2>2. intended' = [intended EXCEPT ![w] = d] /\ intended'[w] = d
    BY <1>2 DEF Excerpt!Apply, ExcerptTypes
  <2>3. Continues(excerpt, d)
    BY <2>1, PatchContinues DEF ExcerptTypes
  <2>4. /\ \E place \in {"verify", "recover"} : Excerpt!Goes(w, place)
        /\ excerpt' \in {excerpt, d} /\ UNCHANGED <<views, ask>>
    BY <1>2, <2>2 DEF Excerpt!Apply
  <2> HIDE DEF d
  <2>5. ExcerptTypes'
    BY <2>2, <2>3, <2>4 DEF ExcerptTypes, Continues, Excerpt!Goes
  <2>6. \A v \in Windows \ {w} : steps'[v] = steps[v]
    BY <2>4 DEF Excerpt!Goes, ExcerptTypes
  <2>7. ExcerptStep
    BY <2>1, <2>3, <2>4, <2>6 DEF ExcerptStep, Excerpt!Rewrites, Continues
  <2> QED BY <2>5, <2>7
<1> QED BY <1>1, <1>2

LEMMA ExcerptsKeep == ASSUME ExcerptTypes, [Excerpt!Next]_excerptVars PROVE ExcerptTypes' /\ ExcerptStep
<1>1. CASE \E w \in Windows : Excerpt!Open(w) \/ Excerpt!Request(w) \/ Excerpt!Starts(w) \/ Excerpt!Refused(w)
                              \/ Excerpt!Look(w) \/ Excerpt!Create(w) \/ Excerpt!Confirm(w)
                              \/ Excerpt!LoadFirst(w) \/ Excerpt!Apply(w) \/ Excerpt!Recover(w)
                              \/ Excerpt!Verify(w)
  BY <1>1, WindowSteps, OtherSteps, WindowApplies
<1>2. CASE Excerpt!Foreign \/ Excerpt!Restart
  BY <1>2, OtherSteps
<1>3. CASE UNCHANGED excerptVars
  BY <1>3 DEF excerptVars, ExcerptTypes, ExcerptStep, Excerpt!Rewrites
<1> QED BY <1>1, <1>2, <1>3 DEF Excerpt!Next

LEMMA ExcerptsStart == ASSUME Excerpt!Init PROVE ExcerptTypes
<1>1. <<NoWords>> \in Seq(Texts)
  BY StoresAssumption DEF Excerpt!ExcerptAssumption
<1>2. \A t \in Texts : Quoted(Excerpt!Excerpt(t))
  BY <1>1 DEF Quoted, Excerpt!Excerpt
<1> QED BY <1>2 DEF Excerpt!Init, ExcerptTypes, Quoted

(* Excerpts: for any number of windows and edits by others, nothing that a *)
(* window has not read is replaced, what is shown as saved is in the file, *)
(* and no text changes under a mark of completion.                         *)
THEOREM ExcerptsStand ==
  MCSpec => Excerpt!NothingUnseen /\ Excerpt!ToldTrue /\ Excerpt!MarkStands
<1>1. MCInit => ExcerptTypes
  BY ExcerptsStart DEF MCInit
<1>2. ASSUME ExcerptTypes, [MCNext]_allVars
      PROVE  /\ ExcerptTypes'
             /\ [\A w \in Windows : Excerpt!Rewrites(w) =>
                   views[w] = excerpt /\ Excerpt!IsPrefix(excerpt.versions, excerpt'.versions)]_excerptVars
             /\ [\A w \in Windows : views'[w] \notin {views[w], Missing} => excerpt = views'[w]]_excerptVars
             /\ [excerpt # Missing /\ excerpt' # Missing /\ excerpt.done /\ excerpt'.done =>
                   excerpt.note = excerpt'.note /\ excerpt.versions = excerpt'.versions]_excerptVars
  <2>1. [Excerpt!Next]_excerptVars
    BY <1>2 DEF MCNext, Only, allVars
  <2>2. ExcerptTypes' /\ ExcerptStep
    BY <1>2, <2>1, ExcerptsKeep
  <2> QED BY <2>2 DEF ExcerptStep
<1> QED BY <1>1, <1>2, PTL DEF MCSpec, Excerpt!NothingUnseen, Excerpt!ToldTrue, Excerpt!MarkStands,
                              Excerpt!excerptVars, excerptVars

(* Neither a registration nor the revision of a note loses what others     *)
(* have written in a file, an undo included, and no excerpt replaces what  *)
(* its window has not read (VaultTextKept, TextKept, NothingUnseen,        *)
(* ToldTrue, MarkStands).                                                  *)
THEOREM TextOfOthersKept == MCSpec => VaultTextKept
<1>1. MCInit => RegisterInv /\ ChangeInv
  BY RegisterStarts, ChangeStarts DEF MCInit
<1>2. ASSUME RegisterInv, ChangeInv, [MCNext]_allVars
      PROVE  /\ RegisterInv' /\ ChangeInv'
             /\ [\A p \in Register!InVault : file[p].has \subseteq file'[p].has
                                             /\ file[p].rest <= file'[p].rest]_(Register!vars)
             /\ [\A p \in Curation!Paths :
                   /\ wiki[p].rest <= wiki'[p].rest
                   /\ p \notin Curated => wiki[p].has \subseteq wiki'[p].has]_curationVars
  <2>1. [Register!Next]_registerVars
    BY <1>2 DEF MCNext, Only, allVars
  <2>2. [Curation!Next]_curationVars
    BY <1>2 DEF MCNext, Only, allVars
  <2>3. RegisterInv' /\ ChangeInv'
    BY <1>2, <2>1, <2>2, RegistersOn, RegisterIdle, ChangeKeeps
  <2>4. Register!Next => TextGrows
    BY <1>2, RegisterGrows
  <2>5. UNCHANGED registerVars => UNCHANGED Register!vars
    BY DEF registerVars, Register!vars, Register!bounds
  <2> QED BY <1>2, <2>1, <2>2, <2>3, <2>4, <2>5, ChangeGrows DEF TextGrows
<1>3. MCSpec => Register!VaultTextKept
  BY <1>1, <1>2, PTL DEF MCSpec, Register!VaultTextKept, Register!vars, Register!bounds
<1>4. MCSpec => Curation!TextKept
  BY <1>1, <1>2, PTL DEF MCSpec, Curation!TextKept, Curation!curationVars, curationVars
<1> QED BY <1>3, <1>4, ExcerptsStand DEF VaultTextKept

-----------------------------------------------------------------------------
(* SourceIntake.                                                           *)

Opened == 1 .. opened

PlanTypes ==
  /\ plan = [n \in Intake!Plans |-> plan[n]]
  /\ \A n \in Intake!Plans : DOMAIN plan[n] = DOMAIN Intake!NoPlan
JournalTypes ==
  /\ plansKept = [r \in Intake!Plans |-> plansKept[r]]
  /\ durable = [r \in Intake!Plans |-> durable[r]]
  /\ \A r \in Intake!Plans : DOMAIN durable[r] = {"service", "paper", "before"}
TaskTypes ==
  /\ tasks = [s \in Services |-> tasks[s]]
  /\ \A s \in Services : DOMAIN tasks[s] = {"pc", "plan", "before"}
FileTypes ==
  /\ papers = [s \in Services |-> papers[s]]
  /\ \A s \in Services : papers[s] = [i \in 1 .. 3 |-> papers[s][i]]
OtherTypes ==
  /\ plans = [s \in Services |-> plans[s]]
  /\ \A s \in Services : plans[s] = [r \in Intake!Plans |-> plans[s][r]]
  /\ queues = [s \in Services |-> queues[s]]
  /\ \A s \in Services : queues[s] \in Seq(Intake!Plans)
  /\ first = [n \in Intake!Plans |-> first[n]] /\ author = [s \in Services |-> author[s]]
  /\ opened \in 0 .. MaxPlans /\ entries \in Nat

IntakeTypes == PlanTypes /\ JournalTypes /\ TaskTypes /\ FileTypes /\ OtherTypes

(* A plan is of one service; one that was saved is in the journal as it is *)
(* in memory.                                                              *)
Known ==
  /\ \A s \in Services, r \in Intake!Plans : plans[s][r] # 0 =>
       plans[s][r] \in Opened /\ plan[plans[s][r]].service = s
  /\ \A n \in Intake!Plans : plan[n].service # "none" => plan[n].request \in Intake!Plans
  /\ \A n \in Intake!Plans : plan[n].saved =>
       /\ plan[n].request \in Intake!Plans /\ plansKept[plan[n].request] = "whole"
       /\ durable[plan[n].request].paper = plan[n].paper

(* The files of a package are written in their order, each in full before  *)
(* the next, and by one plan.                                              *)
Packed(s) ==
  /\ s \notin made => \A i \in 1 .. 3 : papers[s][i] = Intake!None
  /\ papers[s][3] # Intake!None =>
       /\ papers[s][1] \in Intake!Plans /\ papers[s][2] = papers[s][1]
       /\ papers[s][3] \in {Intake!Torn, papers[s][1]}
  /\ Intake!Committed(s) => plansKept[papers[s][3]] = "whole"

Filling(s, k, torn) ==
  \A i \in 1 .. 3 : papers[s][i] = IF i < k THEN Intake!Request(s)
                                   ELSE IF i = k /\ torn THEN Intake!Torn ELSE Intake!None

(* What a save has found out, and what it has done.                        *)
Saves(s) ==
  LET n == tasks[s].plan IN
  /\ tasks[s].pc # "none" => n \in Opened /\ plan[n].service = s
  /\ s = "pdf" /\ tasks[s].pc = "check" => first[n] \subseteq Intake!Ids
  /\ s = "pdf" /\ tasks[s].pc \in {"plan", "journal", "own", "write", "fill"} =>
       first[n] \subseteq {plan[n].paper}
  /\ tasks[s].pc \in {"own", "write", "fill"} => plan[n].saved
  /\ tasks[s].pc \in {"write", "fill"} => s \in made
  /\ tasks[s].pc = "write" => \E k \in 1 .. 3 : Filling(s, k, FALSE)
  /\ tasks[s].pc = "fill" => \E k \in 1 .. 3 : Filling(s, k, TRUE)

(* The plan that wrote the manifest of the PDF.                            *)
Authored ==
  author["pdf"] # 0 =>
    /\ author["pdf"] \in Opened
    /\ \A s \in Services, r \in Intake!Plans : plans[s][r] = author["pdf"] => s = "pdf"

IntakeInv ==
  /\ IntakeTypes /\ Known /\ (\A s \in Services : Packed(s) /\ Saves(s)) /\ Authored
  /\ Intake!IndexKept /\ Intake!StalePlanStopped

-----------------------------------------------------------------------------
(* What a step may do to each of these, and that this is enough.           *)

PlansKeep ==
  /\ PlanTypes'
  /\ \A n \in Intake!Plans :
       /\ plan'[n].service = plan[n].service /\ plan'[n].request = plan[n].request
       /\ plan'[n].paper = plan[n].paper
       /\ plan[n].saved => plan'[n].saved
       /\ plan'[n].saved /\ ~plan[n].saved =>
            /\ plan[n].request \in Intake!Plans /\ plansKept'[plan[n].request] = "whole"
            /\ durable'[plan[n].request].paper = plan[n].paper

JournalGrows ==
  /\ JournalTypes'
  /\ \A r \in Intake!Plans : plansKept[r] = "whole" =>
       plansKept'[r] = "whole" /\ durable'[r].paper = durable[r].paper

IndexGrows ==
  /\ index \subseteq index'
  /\ \/ entries' = entries
     \/ entries' = entries + 1 /\ <<"edit", entries + 1>> \in index'

TaskGoes(s) ==
  LET n == tasks[s].plan
      q == tasks'[s].pc
  IN
  \/ q = "none"
  \/ /\ tasks'[s].plan = n /\ tasks[s].pc # "none"
     /\ \/ q = tasks[s].pc
        \/ q \in {"register", "index", "link"}
        \/ /\ tasks[s].pc = "check" /\ q \in {"plan", "own"}
           /\ s = "pdf" => Intake!Ids \subseteq {plan[n].paper}
           /\ q = "own" => plan[n].saved
        \/ tasks[s].pc = "plan" /\ q = "journal"
        \/ tasks[s].pc = "journal" /\ q = "own" /\ plan'[n].saved
        \/ tasks[s].pc = "own" /\ q = "write" /\ s \in made' /\ \E k \in 1 .. 3 : Filling(s, k, FALSE)

FilesStay == UNCHANGED papers /\ made \subseteq made'

LEMMA OpenedPlans ==
  ASSUME IntakeTypes PROVE \A n \in Opened : n \in Intake!Plans
BY StoresAssumption DEF IntakeTypes, OtherTypes, Opened, Intake!Plans, Intake!IntakeAssumption

LEMMA IdsGrow ==
  ASSUME IntakeTypes, \A s \in Services : Packed(s), JournalGrows, records \subseteq records',
         \A s \in Services : Intake!Committed(s) => papers'[s][3] = papers[s][3]
  PROVE  Intake!PackageIds \subseteq Intake!PackageIds' /\ Intake!Ids \subseteq Intake!Ids'
<1>1. ASSUME NEW s \in Services, Intake!Committed(s)
      PROVE  /\ Intake!Committed(s)'
             /\ (durable[papers[s][3]].paper)' = durable[papers[s][3]].paper
  BY <1>1 DEF Packed, JournalGrows, Intake!Committed, Intake!Plans
<1>2. Intake!PackageIds \subseteq Intake!PackageIds'
  BY <1>1 DEF Intake!PackageIds
<1> QED BY <1>2 DEF Intake!Ids

LEMMA KnownKept ==
  ASSUME IntakeTypes, Known, PlansKeep, JournalGrows, UNCHANGED <<plans, opened>>
  PROVE  Known'
<1>1. \A n \in Opened : n \in Intake!Plans
  BY OpenedPlans
<1>2. ASSUME NEW s \in Services, NEW r \in Intake!Plans, plans'[s][r] # 0
      PROVE  plans'[s][r] \in Opened' /\ plan'[plans'[s][r]].service = s
  BY <1>1, <1>2 DEF Known, PlansKeep, Opened
<1>3. ASSUME NEW n \in Intake!Plans, plan'[n].service # "none"
      PROVE  plan'[n].request \in Intake!Plans
  BY <1>3 DEF Known, PlansKeep
<1>4. ASSUME NEW n \in Intake!Plans, plan'[n].saved
      PROVE  /\ plan'[n].request \in Intake!Plans /\ plansKept'[plan'[n].request] = "whole"
             /\ durable'[plan'[n].request].paper = plan'[n].paper
  <2>1. CASE plan[n].saved
    BY <2>1 DEF Known, PlansKeep, JournalGrows
  <2>2. CASE ~plan[n].saved
    BY <1>4, <2>2 DEF PlansKeep
  <2> QED BY <2>1, <2>2
<1> QED BY <1>2, <1>3, <1>4 DEF Known, Intake!Plans

LEMMA PackedKept ==
  ASSUME IntakeTypes, NEW s \in Services, Packed(s), JournalGrows, papers'[s] = papers[s],
         made \subseteq made'
  PROVE  Packed(s)'
BY DEF Packed, JournalGrows, Intake!Committed, Intake!Plans, Intake!None, Intake!Torn

LEMMA SavesKept ==
  ASSUME IntakeTypes, NEW s \in Services, Saves(s), PlansKeep, TaskGoes(s),
         papers'[s] = papers[s], made \subseteq made', opened' = opened, Intake!Ids \subseteq Intake!Ids',
         tasks[s].pc # "none" => first'[tasks[s].plan] = first[tasks[s].plan]
  PROVE  Saves(s)'
<1>1. CASE tasks'[s].pc = "none"
  BY <1>1 DEF Saves
<1> SUFFICES ASSUME tasks'[s].pc # "none" PROVE Saves(s)'
  BY <1>1
<1> DEFINE n == tasks[s].plan
<1>0. tasks[s].pc # "none" /\ tasks'[s].plan = n
  BY DEF TaskGoes
<1>1a. n \in Opened /\ n \in Intake!Plans
  BY <1>0, OpenedPlans DEF Saves
<1>2. /\ n \in Opened /\ n \in Intake!Plans /\ tasks'[s].plan = n /\ first'[n] = first[n]
      /\ plan'[n].service = s /\ plan'[n].paper = plan[n].paper
      /\ plan[n].saved => plan'[n].saved
      /\ Intake!Request(s)' = Intake!Request(s)
  BY <1>0, <1>1a DEF Saves, PlansKeep, Intake!Request, Intake!Here
<1>3. \A k \in 1 .. 3, b \in BOOLEAN : Filling(s, k, b) => Filling(s, k, b)'
  BY <1>2 DEF Filling, Intake!None, Intake!Torn
<1>4. s = "pdf" /\ tasks'[s].pc = "check" => first'[n] \subseteq Intake!Ids'
  BY <1>2 DEF Saves, TaskGoes
<1>5. s = "pdf" /\ tasks'[s].pc \in {"plan", "journal", "own", "write", "fill"} =>
        first'[n] \subseteq {plan[n].paper}
  BY <1>2 DEF Saves, TaskGoes
<1>6. tasks'[s].pc \in {"own", "write", "fill"} => plan'[n].saved
  BY <1>2 DEF Saves, TaskGoes
<1>6a. tasks'[s].pc \in {"write", "fill"} => s \in made'
  BY <1>2 DEF Saves, TaskGoes
<1>7. tasks'[s].pc = "write" => \E k \in 1 .. 3 : Filling(s, k, FALSE)
  BY DEF Saves, TaskGoes
<1>8. tasks'[s].pc = "fill" => \E k \in 1 .. 3 : Filling(s, k, TRUE)
  BY DEF Saves, TaskGoes
<1>9. n \in Opened'
  BY <1>2 DEF Opened
<1> QED BY <1>2, <1>3, <1>4, <1>5, <1>6, <1>6a, <1>7, <1>8, <1>9 DEF Saves

LEMMA IndexGrown ==
  ASSUME entries \in Nat, Intake!IndexKept, IndexGrows
  PROVE  Intake!IndexKept' /\ entries' \in Nat
BY DEF Intake!IndexKept, IndexGrows

LEMMA StaysStopped ==
  ASSUME Authored, Intake!StalePlanStopped, UNCHANGED <<author, first>>,
         Intake!PackageIds \subseteq Intake!PackageIds'
  PROVE  Intake!StalePlanStopped'
BY DEF Intake!StalePlanStopped

(* A step that leaves the files of packages, and what it has not opened.   *)
MindStep ==
  /\ IntakeTypes' /\ PlansKeep /\ JournalGrows /\ IndexGrows /\ FilesStay
  /\ \A s \in Services : TaskGoes(s)
  /\ records \subseteq records' /\ UNCHANGED <<plans, opened, first, author>>

LEMMA MindKeeps ==
  ASSUME IntakeInv, MindStep PROVE IntakeInv'
<1>1. Intake!PackageIds \subseteq Intake!PackageIds' /\ Intake!Ids \subseteq Intake!Ids'
  BY IdsGrow DEF IntakeInv, MindStep, FilesStay
<1>2. Known'
  BY KnownKept DEF IntakeInv, MindStep
<1>3. \A s \in Services : Packed(s)'
  BY PackedKept DEF IntakeInv, MindStep, FilesStay
<1>4. \A s \in Services : Saves(s)'
  BY <1>1, SavesKept DEF IntakeInv, MindStep, FilesStay
<1>5. Authored'
  BY DEF IntakeInv, MindStep, Authored, Opened
<1>6. Intake!IndexKept'
  BY IndexGrown DEF IntakeInv, MindStep, IntakeTypes, OtherTypes
<1>7. Intake!StalePlanStopped'
  BY <1>1, StaysStopped DEF IntakeInv, MindStep
<1> QED BY <1>2, <1>3, <1>4, <1>5, <1>6, <1>7 DEF IntakeInv, MindStep

-----------------------------------------------------------------------------
(* The steps of a save that write no file of a package.                    *)

PlansMarked ==
  /\ PlanTypes'
  /\ \A n \in Intake!Plans :
       /\ plan'[n].service = plan[n].service /\ plan'[n].request = plan[n].request
       /\ plan'[n].paper = plan[n].paper /\ plan'[n].saved = plan[n].saved

OneTask(s) == TaskTypes' /\ \A t \in Services \ {s} : tasks'[t] = tasks[t]

SamePlan(p, n) ==
  /\ DOMAIN p = DOMAIN Intake!NoPlan
  /\ p.service = plan[n].service /\ p.request = plan[n].request
  /\ p.paper = plan[n].paper /\ p.saved = plan[n].saved

LEMMA PlanMarked ==
  ASSUME PlanTypes, NEW n, NEW p, SamePlan(p, n), plan' = [plan EXCEPT ![n] = p]
  PROVE  PlansMarked
BY DEF PlanTypes, PlansMarked, SamePlan

LEMMA CatchMarks ==
  ASSUME IntakeTypes, NEW s \in Services, tasks[s].plan \in Intake!Plans, Intake!Catch(s)
  PROVE  PlansMarked /\ OneTask(s) /\ tasks'[s].pc = "none" /\ UNCHANGED queues
<1> DEFINE n == tasks[s].plan
           p == plan[n]
           q == [p EXCEPT !.phase = IF p.committed THEN "pending"
                                    ELSE IF p.aborted THEN "cancelled" ELSE "failed",
                          !.committing = FALSE, !.recovering = p.saved]
<1>1. plan' = [plan EXCEPT ![n] = q] /\ tasks' = [tasks EXCEPT ![s] = Intake!NoTask]
      /\ UNCHANGED queues
  BY DEF Intake!Catch, Intake!Ends, Intake!Here
<1>2. SamePlan(q, n)
  BY DEF SamePlan, IntakeTypes, PlanTypes, Intake!NoPlan
<1>3. PlansMarked
  BY <1>1, <1>2, PlanMarked DEF IntakeTypes
<1>4. OneTask(s) /\ tasks'[s].pc = "none"
  BY <1>1 DEF OneTask, IntakeTypes, TaskTypes, Intake!NoTask
<1> QED BY <1>1, <1>3, <1>4

LEMMA GoMoves ==
  ASSUME IntakeTypes, NEW s \in Services, NEW to, Intake!Go(s, to)
  PROVE  /\ OneTask(s) /\ tasks'[s].pc = to /\ tasks'[s].plan = tasks[s].plan
         /\ UNCHANGED queues
BY DEF OneTask, IntakeTypes, TaskTypes, Intake!Go

LEMMA ReadMoves ==
  ASSUME IntakeTypes, NEW s \in Services, NEW to, NEW b,
         tasks' = [tasks EXCEPT ![s].pc = to, ![s].before = b]
  PROVE  OneTask(s) /\ tasks'[s].pc = to /\ tasks'[s].plan = tasks[s].plan
BY DEF OneTask, IntakeTypes, TaskTypes

LEMMA SaveMinds ==
  ASSUME IntakeInv, NEW s \in Services, PlansKeep, OneTask(s), TaskGoes(s), JournalGrows,
         UNCHANGED <<papers, plans, opened, first, author, entries, queues, records>>,
         made \subseteq made', index \subseteq index'
  PROVE  MindStep
<1>1. \A t \in Services : TaskGoes(t)
  BY DEF OneTask, TaskGoes
<1>2. IntakeTypes'
  BY DEF IntakeInv, IntakeTypes, PlansKeep, OneTask, JournalGrows, FileTypes, OtherTypes, Intake!Plans
<1> QED BY <1>1, <1>2 DEF MindStep, IndexGrows, FilesStay

LEMMA MarkedKeep == ASSUME PlansMarked PROVE PlansKeep
BY DEF PlansMarked, PlansKeep

LEMMA JournalStays ==
  ASSUME IntakeInv, UNCHANGED <<plansKept, durable>> PROVE JournalGrows
BY DEF IntakeInv, IntakeTypes, JournalTypes, JournalGrows, Intake!Plans

LEMMA TaskPlans ==
  ASSUME IntakeInv, NEW s \in Services, tasks[s].pc # "none"
  PROVE  tasks[s].plan \in Intake!Plans /\ tasks[s].plan \in Opened
BY OpenedPlans DEF IntakeInv, Saves

(* A save that gives up, here or where the disk fails.                     *)
LEMMA CatchMinds ==
  ASSUME IntakeInv, NEW s \in Services, tasks[s].pc # "none", Intake!Catch(s), JournalGrows,
         UNCHANGED <<papers, plans, opened, first, author, entries, records>>,
         made \subseteq made', index \subseteq index'
  PROVE  IntakeInv'
<1>1. PlansMarked /\ OneTask(s) /\ tasks'[s].pc = "none" /\ UNCHANGED queues
  BY TaskPlans, CatchMarks DEF IntakeInv
<1> QED BY <1>1, MarkedKeep, SaveMinds, MindKeeps DEF TaskGoes

LEMMA CheckKeeps ==
  ASSUME IntakeInv, NEW s \in Services, Intake!Check(s) PROVE IntakeInv'
<1> DEFINE n == tasks[s].plan
<1>1. /\ tasks[s].pc = "check" /\ n \in Intake!Plans /\ JournalGrows
      /\ UNCHANGED <<papers, plans, opened, first, author, entries, records, made, index>>
  BY TaskPlans, JournalStays DEF Intake!Check, Intake!At, Intake!SaveFrame, Intake!disk
<1>2. CASE Intake!Catch(s)
  BY <1>1, <1>2, CatchMinds
<1>3. CASE ~Intake!Catch(s)
  <2>1. ~(~Intake!Live(s, Intake!Request(s)) \/ ~Intake!Associated \/ ~Intake!Same(s, Intake!Here(s)))
    BY <1>3 DEF Intake!Check
  <2>2. Intake!Same(s, plan[n])
    BY <2>1 DEF Intake!Here
  <2>3. CASE Intake!Committed(s)
    <3>1. Intake!Go(s, "register") /\ plan' = [plan EXCEPT ![n].existing = TRUE]
      BY <2>1, <2>3 DEF Intake!Check
    <3>2. PlansMarked
      BY <3>1, <1>1, PlanMarked DEF IntakeInv, IntakeTypes, PlanTypes, SamePlan, Intake!NoPlan
    <3>3. OneTask(s) /\ TaskGoes(s) /\ UNCHANGED queues
      BY <1>1, <3>1, GoMoves DEF IntakeInv, TaskGoes
    <3> QED BY <1>1, <3>2, <3>3, MarkedKeep, SaveMinds, MindKeeps
  <2>4. CASE ~Intake!Committed(s)
    <3>1. /\ Intake!Go(s, IF plan[n].saved THEN "own" ELSE "plan")
          /\ plan' = [plan EXCEPT ![n].phase = "saving"]
      BY <2>1, <2>4 DEF Intake!Check, Intake!Here
    <3>2. PlansMarked
      BY <3>1, <1>1, PlanMarked DEF IntakeInv, IntakeTypes, PlanTypes, SamePlan, Intake!NoPlan
    <3>3. s = "pdf" => Intake!Ids \subseteq {plan[n].paper}
      BY <2>2 DEF Intake!Same
    <3>4. OneTask(s) /\ UNCHANGED queues
      BY <3>1, GoMoves DEF IntakeInv
    <3>5. TaskGoes(s)
      BY <1>1, <3>1, <3>3, GoMoves DEF IntakeInv, TaskGoes
    <3> QED BY <1>1, <3>2, <3>4, <3>5, MarkedKeep, SaveMinds, MindKeeps
  <2> QED BY <2>3, <2>4
<1> QED BY <1>2, <1>3

LEMMA ReadIndexKeeps ==
  ASSUME IntakeInv, NEW s \in Services, Intake!ReadIndex(s) PROVE IntakeInv'
<1>1. /\ tasks[s].pc = "plan" /\ JournalGrows
      /\ UNCHANGED <<papers, plans, opened, first, author, entries, records, made, index>>
  BY JournalStays DEF Intake!ReadIndex, Intake!At, Intake!SaveFrame, Intake!disk
<1>2. CASE Intake!Catch(s)
  BY <1>1, <1>2, CatchMinds
<1>3. CASE ~Intake!Catch(s)
  <2>1. /\ tasks' = [tasks EXCEPT ![s].pc = "journal", ![s].before = index]
        /\ UNCHANGED <<queues, plan>>
    BY <1>3 DEF Intake!ReadIndex
  <2>2. PlansKeep
    BY <2>1 DEF PlansKeep, IntakeInv, IntakeTypes, PlanTypes, Intake!Plans
  <2>3. OneTask(s) /\ TaskGoes(s)
    BY <1>1, <2>1, ReadMoves DEF IntakeInv, TaskGoes
  <2> QED BY <1>1, <2>1, <2>2, <2>3, SaveMinds, MindKeeps
<1> QED BY <1>2, <1>3

LEMMA LinkKeeps ==
  ASSUME IntakeInv, NEW s \in Services, Intake!Link(s) PROVE IntakeInv'
<1>1. /\ tasks[s].pc = "link" /\ JournalGrows
      /\ UNCHANGED <<papers, plans, opened, first, author, entries, records, made, index>>
      /\ \E b : tasks' = [tasks EXCEPT ![s].pc = "index", ![s].before = b]
      /\ UNCHANGED <<queues, plan>>
  BY JournalStays DEF Intake!Link, Intake!At, Intake!SaveFrame, Intake!disk
<1>2. PlansKeep
  BY <1>1 DEF PlansKeep, IntakeInv, IntakeTypes, PlanTypes, Intake!Plans
<1>3. OneTask(s) /\ TaskGoes(s)
  <2>1. PICK b : tasks' = [tasks EXCEPT ![s].pc = "index", ![s].before = b]
    BY <1>1
  <2>2. OneTask(s) /\ tasks'[s].pc = "index" /\ tasks'[s].plan = tasks[s].plan
    BY <2>1, ReadMoves DEF IntakeInv
  <2> QED BY <1>1, <2>2 DEF TaskGoes
<1> QED BY <1>1, <1>2, <1>3, SaveMinds, MindKeeps

LEMMA RegisterKeeps ==
  ASSUME IntakeInv, NEW s \in Services, Intake!Register(s) PROVE IntakeInv'
<1> DEFINE n == tasks[s].plan
<1>1. /\ tasks[s].pc = "register" /\ n \in Intake!Plans /\ JournalGrows
      /\ UNCHANGED <<papers, plans, opened, first, author, entries, records, made, index>>
  BY TaskPlans, JournalStays DEF Intake!Register, Intake!At, Intake!SaveFrame, Intake!disk
<1>2. CASE Intake!Catch(s)
  BY <1>1, <1>2, CatchMinds
<1>3. CASE ~Intake!Catch(s)
  <2>1. /\ tasks' = [tasks EXCEPT ![s].pc = "index", ![s].before = index]
        /\ plan' = [plan EXCEPT ![n].committing = TRUE, ![n].committed = TRUE, ![n].phase = "pending"]
        /\ UNCHANGED queues
    BY <1>3 DEF Intake!Register
  <2>2. PlansMarked
    <3> DEFINE q == [plan[n] EXCEPT !.committing = TRUE, !.committed = TRUE, !.phase = "pending"]
    <3>1. plan' = [plan EXCEPT ![n] = q] /\ SamePlan(q, n)
      BY <1>1, <2>1 DEF IntakeInv, IntakeTypes, PlanTypes, SamePlan, Intake!NoPlan
    <3> QED BY <3>1, PlanMarked DEF IntakeInv, IntakeTypes
  <2>3. OneTask(s) /\ TaskGoes(s)
    BY <1>1, <2>1, ReadMoves DEF IntakeInv, TaskGoes
  <2> QED BY <1>1, <2>1, <2>2, <2>3, MarkedKeep, SaveMinds, MindKeeps
<1> QED BY <1>2, <1>3

LEMMA EnterKeeps ==
  ASSUME IntakeInv, NEW s \in Services, Intake!Enter(s) PROVE IntakeInv'
<1> DEFINE n == tasks[s].plan
<1>1. /\ tasks[s].pc = "index" /\ n \in Intake!Plans /\ JournalGrows
      /\ UNCHANGED <<papers, plans, opened, first, author, entries, records, made>>
  BY TaskPlans, JournalStays DEF Intake!Enter, Intake!At, Intake!SaveFrame
<1>2. CASE Intake!Catch(s) /\ UNCHANGED index
  BY <1>1, <1>2, CatchMinds
<1>3. CASE ~(Intake!Catch(s) /\ UNCHANGED index)
  <2>1. /\ index \in {tasks[s].before, tasks[s].before \cup {Intake!Entry(s)}}
        /\ index' = tasks[s].before \cup {Intake!Entry(s)}
        /\ Intake!Ends(s, [plan[n] EXCEPT !.phase = "saved"])
    BY <1>3 DEF Intake!Enter, Intake!Apply, Intake!Here
  <2>2. PlansMarked /\ UNCHANGED queues
    <3> DEFINE q == [plan[n] EXCEPT !.phase = "saved"]
    <3>1. plan' = [plan EXCEPT ![n] = q] /\ SamePlan(q, n) /\ UNCHANGED queues
      BY <1>1, <2>1 DEF IntakeInv, IntakeTypes, PlanTypes, SamePlan, Intake!NoPlan, Intake!Ends
    <3> QED BY <3>1, PlanMarked DEF IntakeInv, IntakeTypes
  <2>3. OneTask(s) /\ TaskGoes(s)
    BY <2>1 DEF IntakeInv, IntakeTypes, TaskTypes, OneTask, TaskGoes, Intake!Ends, Intake!NoTask
  <2>4. index \subseteq index'
    BY <2>1
  <2> QED BY <1>1, <2>2, <2>3, <2>4, MarkedKeep, SaveMinds, MindKeeps
<1> QED BY <1>2, <1>3

LEMMA RegisterFailsKeeps ==
  ASSUME IntakeInv, NEW s \in Services, Intake!RegisterFails(s) PROVE IntakeInv'
<1>1. /\ tasks[s].pc # "none" /\ JournalGrows /\ Intake!Catch(s)
      /\ UNCHANGED <<papers, plans, opened, first, author, entries, records, made, index>>
  BY JournalStays DEF Intake!RegisterFails, Intake!SaveFrame, Intake!disk
<1> QED BY <1>1, CatchMinds

-----------------------------------------------------------------------------
(* The journal of plans, and the directory of a package.                   *)

LEMMA JournalPlans ==
  ASSUME IntakeInv, NEW s \in Services, NEW state, Intake!Planned(s, state),
         plansKept[Intake!Request(s)] # "whole"
  PROVE  JournalGrows
BY DEF IntakeInv, IntakeTypes, JournalTypes, JournalGrows, Intake!Planned

LEMMA WritePlanKeeps ==
  ASSUME IntakeInv, NEW s \in Services, Intake!WritePlan(s) PROVE IntakeInv'
<1> DEFINE n == tasks[s].plan
<1>1. /\ tasks[s].pc = "journal" /\ n \in Intake!Plans
      /\ UNCHANGED <<papers, plans, opened, first, author, entries, records, made, index>>
  BY TaskPlans DEF Intake!WritePlan, Intake!At, Intake!SaveFrame
<1>2. CASE plansKept[Intake!Request(s)] = "none"
  <2>1. /\ Intake!Planned(s, "whole") /\ Intake!Go(s, "own")
        /\ plan' = [plan EXCEPT ![n].saved = TRUE]
    BY <1>2 DEF Intake!WritePlan
  <2>2. JournalGrows
    BY <1>2, <2>1, JournalPlans
  <2>3. plan[n].service = s /\ plan[n].request \in Intake!Plans
    <3>1. plan[n].service = s
      BY <1>1 DEF IntakeInv, Saves
    <3>2. s # "none"
      BY StoresAssumption DEF Intake!IntakeAssumption
    <3> QED BY <1>1, <3>1, <3>2 DEF IntakeInv, Known
  <2>4. /\ plansKept'[plan[n].request] = "whole"
        /\ durable'[plan[n].request].paper = plan[n].paper
    BY <2>1, <2>3 DEF Intake!Planned, Intake!Request, Intake!Here, IntakeInv, IntakeTypes, JournalTypes
  <2>5. PlanTypes' /\ \A m \in Intake!Plans :
          /\ plan'[m].service = plan[m].service /\ plan'[m].request = plan[m].request
          /\ plan'[m].paper = plan[m].paper
          /\ m # n => plan'[m].saved = plan[m].saved
          /\ m = n => plan'[m].saved
    BY <1>1, <2>1 DEF IntakeInv, IntakeTypes, PlanTypes, Intake!NoPlan
  <2>6. PlansKeep
    BY <2>3, <2>4, <2>5 DEF PlansKeep
  <2>7. OneTask(s) /\ TaskGoes(s) /\ UNCHANGED queues
    BY <1>1, <2>1, <2>5, GoMoves DEF IntakeInv, TaskGoes
  <2> QED BY <1>1, <2>2, <2>6, <2>7, SaveMinds, MindKeeps
<1>3. CASE plansKept[Intake!Request(s)] # "none"
  <2>1. Intake!Catch(s) /\ JournalGrows
    BY <1>3, JournalStays DEF Intake!WritePlan
  <2> QED BY <1>1, <2>1, CatchMinds
<1> QED BY <1>2, <1>3

LEMMA PlanFailsKeeps ==
  ASSUME IntakeInv, NEW s \in Services, Intake!PlanFails(s) PROVE IntakeInv'
<1>1. /\ tasks[s].pc # "none" /\ Intake!Catch(s)
      /\ UNCHANGED <<papers, plans, opened, first, author, entries, records, made, index>>
  BY DEF Intake!PlanFails, Intake!At, Intake!SaveFrame
<1>2. JournalGrows
  BY JournalPlans DEF Intake!PlanFails
<1> QED BY <1>1, <1>2, CatchMinds

(* What is in a directory that a plan may write in.                        *)
LEMMA OwnedFills ==
  ASSUME IntakeInv, NEW s \in Services, tasks[s].pc = "own", Intake!Owns(s)
  PROVE  \E k \in 1 .. 3 : Filling(s, k, FALSE)
<1>1. CASE s \notin made
  BY <1>1 DEF IntakeInv, Packed, Filling, Intake!None
<1>2. CASE /\ papers[s][1] = Intake!Request(s)
           /\ papers[s][2] \in {Intake!None, Intake!Request(s)} /\ papers[s][3] = Intake!None
  <2>0. \A i \in 1 .. 3 : i \in {1, 2, 3}
    OBVIOUS
  <2>1. CASE papers[s][2] = Intake!None
    <3>1. Filling(s, 2, FALSE)
      BY <1>2, <2>0, <2>1 DEF Filling
    <3>2. 2 \in 1 .. 3
      OBVIOUS
    <3> QED BY <3>1, <3>2, Zenon
  <2>2. CASE papers[s][2] = Intake!Request(s)
    <3>1. Filling(s, 3, FALSE)
      BY <1>2, <2>0, <2>2 DEF Filling
    <3>2. 3 \in 1 .. 3
      OBVIOUS
    <3> QED BY <3>1, <3>2, Zenon
  <2> QED BY <1>2, <2>1, <2>2
<1> QED BY <1>1, <1>2 DEF Intake!Owns

LEMMA OwnKeeps ==
  ASSUME IntakeInv, NEW s \in Services, Intake!Own(s) PROVE IntakeInv'
<1>1. /\ tasks[s].pc = "own" /\ JournalGrows
      /\ UNCHANGED <<papers, plans, opened, first, author, entries, records, index>>
      /\ made \subseteq made'
  BY JournalStays DEF Intake!Own, Intake!At, Intake!SaveFrame
<1>2. CASE Intake!Catch(s)
  BY <1>1, <1>2, CatchMinds
<1>3. CASE ~Intake!Catch(s)
  <2>1. Intake!Owns(s) /\ Intake!Go(s, "write") /\ UNCHANGED plan /\ s \in made'
    BY <1>3 DEF Intake!Own
  <2>2. PlansKeep
    BY <2>1 DEF PlansKeep, IntakeInv, IntakeTypes, PlanTypes, Intake!Plans
  <2>3. OneTask(s) /\ TaskGoes(s) /\ UNCHANGED queues
    <3>1. OneTask(s) /\ tasks'[s].pc = "write" /\ tasks'[s].plan = tasks[s].plan /\ UNCHANGED queues
      BY <2>1, GoMoves DEF IntakeInv
    <3>2. \E k \in 1 .. 3 : Filling(s, k, FALSE)
      BY <1>1, <2>1, OwnedFills
    <3> QED BY <1>1, <2>1, <3>1, <3>2 DEF TaskGoes
  <2> QED BY <1>1, <2>2, <2>3, SaveMinds, MindKeeps
<1> QED BY <1>2, <1>3

LEMMA OwnFailsKeeps ==
  ASSUME IntakeInv, NEW s \in Services, Intake!OwnFails(s) PROVE IntakeInv'
<1>1. /\ tasks[s].pc # "none" /\ JournalGrows /\ Intake!Catch(s)
      /\ UNCHANGED <<papers, plans, opened, first, author, entries, records, index>>
      /\ made \subseteq made'
  BY JournalStays DEF Intake!OwnFails, Intake!At, Intake!SaveFrame
<1> QED BY <1>1, CatchMinds

-----------------------------------------------------------------------------
(* The files of a package.                                                 *)

(* A step on the files of one package, by the plan that saves there.       *)
PackStep(s) ==
  /\ tasks[s].pc \in {"write", "fill"}
  /\ PlansMarked /\ OneTask(s) /\ JournalGrows /\ FileTypes'
  /\ \A t \in Services \ {s} : papers'[t] = papers[t]
  /\ UNCHANGED <<plans, opened, first, entries, queues, records, made, index>>
  /\ author' = [t \in Services |-> author'[t]]
  /\ \A t \in Services : author'[t] # author[t] =>
       t = s /\ author'[t] = tasks[s].plan /\ papers'[s][3] = Intake!Request(s)

LEMMA PackKeeps ==
  ASSUME IntakeInv, NEW s \in Services, PackStep(s),
         papers[s][3] \in {Intake!None, Intake!Torn}, Packed(s)', Saves(s)'
  PROVE  IntakeInv'
<1> DEFINE n == tasks[s].plan
<1>0. /\ n \in Intake!Plans /\ n \in Opened /\ plan[n].service = s /\ plan[n].saved
      /\ "pdf" \in Services
  BY TaskPlans, StoresAssumption DEF IntakeInv, Saves, PackStep, Intake!IntakeAssumption
<1>1. Intake!PackageIds \subseteq Intake!PackageIds' /\ Intake!Ids \subseteq Intake!Ids'
  <2>1. \A t \in Services : Intake!Committed(t) => papers'[t][3] = papers[t][3]
    BY DEF PackStep, Intake!Committed, Intake!None, Intake!Torn, Intake!Plans
  <2> QED BY <2>1, IdsGrow DEF IntakeInv, PackStep
<1>2. Known'
  BY KnownKept, MarkedKeep DEF IntakeInv, PackStep
<1>3. \A t \in Services : Packed(t)'
  BY PackedKept DEF IntakeInv, PackStep
<1>4. \A t \in Services \ {s} : Saves(t)'
  <2>1. \A t \in Services \ {s} : TaskGoes(t)
    BY DEF PackStep, OneTask, TaskGoes
  <2> QED BY <1>1, <2>1, MarkedKeep, SavesKept DEF IntakeInv, PackStep
<1>5. IntakeTypes'
  BY DEF IntakeInv, IntakeTypes, PackStep, PlansMarked, OneTask, JournalGrows, OtherTypes, Intake!Plans
<1>6. Intake!IndexKept'
  BY IndexGrown DEF IntakeInv, PackStep, IntakeTypes, OtherTypes, IndexGrows
<1>7. CASE author'["pdf"] = author["pdf"]
  <2>1. Authored'
    BY <1>7 DEF IntakeInv, Authored, PackStep, Opened, Intake!Plans
  <2>2. Intake!StalePlanStopped'
    BY <1>1, <1>7 DEF IntakeInv, PackStep, Intake!StalePlanStopped
  <2> QED BY <1>2, <1>3, <1>4, <1>5, <1>6, <2>1, <2>2 DEF IntakeInv
<1>8. CASE author'["pdf"] # author["pdf"]
  <2>1. s = "pdf" /\ author'["pdf"] = n /\ papers'[s][3] = plan[n].request
    BY <1>0, <1>8 DEF PackStep, Intake!Request, Intake!Here
  <2>2. Authored'
    BY <1>0, <2>1 DEF IntakeInv, Authored, PackStep, Known, Opened, Intake!Plans
  <2>3. first'[n] \subseteq {plan[n].paper}
    BY <2>1 DEF IntakeInv, Saves, PackStep
  <2>4. /\ Intake!Committed(s)'
        /\ durable'[papers'[s][3]].paper = plan[n].paper
    BY <1>0, <2>1 DEF IntakeInv, Known, PackStep, JournalGrows, Intake!Committed, Intake!Plans
  <2>5. plan[n].paper \in Intake!PackageIds'
    BY <2>4 DEF Intake!PackageIds
  <2>6. Intake!StalePlanStopped'
    BY <2>1, <2>3, <2>5 DEF Intake!StalePlanStopped
  <2> QED BY <1>2, <1>3, <1>4, <1>5, <1>6, <2>2, <2>6 DEF IntakeInv
<1> QED BY <1>7, <1>8

LEMMA CreateFileKeeps ==
  ASSUME IntakeInv, NEW s \in Services, Intake!CreateFile(s) PROVE IntakeInv'
<1> DEFINE n == tasks[s].plan
           i == Intake!NextFile(s)
           r == Intake!Request(s)
<1>1. /\ tasks[s].pc = "write" /\ n \in Intake!Plans /\ n \in Opened /\ JournalGrows
      /\ UNCHANGED <<plans, opened, first, author, entries, records, made, index>>
  BY TaskPlans, JournalStays DEF Intake!CreateFile, Intake!At, Intake!SaveFrame
<1>2. CASE Intake!Catch(s) /\ UNCHANGED papers
  BY <1>1, <1>2, CatchMinds
<1>3. CASE ~(Intake!Catch(s) /\ UNCHANGED papers)
  <2>1. /\ papers' = [papers EXCEPT ![s][i] = Intake!Torn] /\ Intake!Go(s, "fill")
        /\ plan' = [plan EXCEPT ![n].committing = (i = 3)]
    BY <1>3 DEF Intake!CreateFile
  <2>2. PlansMarked
    BY <1>1, <2>1, PlanMarked DEF IntakeInv, IntakeTypes, PlanTypes, SamePlan, Intake!NoPlan
  <2>3. OneTask(s) /\ UNCHANGED queues /\ tasks'[s].pc = "fill" /\ tasks'[s].plan = n
    BY <2>1, GoMoves DEF IntakeInv
  <2>4. PICK k \in 1 .. 3 : Filling(s, k, FALSE)
    BY <1>1 DEF IntakeInv, Saves
  <2>5. plan[n].saved /\ plan[n].service = s /\ r = plan[n].request /\ r \in Intake!Plans
    BY <1>1 DEF IntakeInv, Saves, Known, Intake!Request, Intake!Here
  <2>6. i = k /\ papers[s][3] = Intake!None
    BY <2>4, <2>5 DEF Filling, Intake!NextFile, Intake!None, Intake!Plans
  <2>7. /\ \A j \in 1 .. 3 : papers'[s][j] = IF j = k THEN Intake!Torn ELSE papers[s][j]
        /\ \A t \in Services \ {s} : papers'[t] = papers[t]
        /\ FileTypes'
    BY <2>1, <2>6 DEF IntakeInv, IntakeTypes, FileTypes
  <2>8. Intake!Request(s)' = r
    BY <1>1, <2>2, <2>3 DEF PlansMarked, Intake!Request, Intake!Here
  <2>9. Filling(s, k, TRUE)'
    BY <2>4, <2>7, <2>8 DEF Filling, Intake!Torn, Intake!None
  <2>10. PackStep(s)
    BY <1>1, <2>2, <2>3, <2>7 DEF PackStep, IntakeInv, IntakeTypes, OtherTypes
  <2>11. Saves(s)'
    <3>1. s = "pdf" => first'[n] \subseteq {plan[n].paper}
      BY <1>1 DEF IntakeInv, Saves
    <3>2. s \in made'
      BY <1>1 DEF IntakeInv, Saves
    <3>3. n \in Opened' /\ plan'[n].service = s /\ plan'[n].saved /\ plan'[n].paper = plan[n].paper
      BY <1>1, <2>2, <2>5 DEF PlansMarked, Opened
    <3>4. (\E m \in 1 .. 3 : Filling(s, m, TRUE))'
      BY <2>9, Zenon
    <3> QED BY <2>3, <3>1, <3>2, <3>3, <3>4 DEF Saves
  <2>12. s \in made
    BY <1>1 DEF IntakeInv, Saves
  <2>13. Packed(s)'
    BY <1>1, <2>4, <2>5, <2>6, <2>7, <2>12
       DEF Filling, Packed, Intake!Committed, Intake!Torn, Intake!None, Intake!Plans
  <2> QED BY <2>6, <2>10, <2>11, <2>13, PackKeeps
<1> QED BY <1>2, <1>3

(* The file that was begun is now whole.                                   *)
LEMMA FilledPacks ==
  ASSUME IntakeInv, NEW s \in Services, tasks[s].pc = "fill", Intake!Filled(s), JournalGrows,
         UNCHANGED made
  PROVE  \E k \in 1 .. 3 :
           /\ papers[s][3] = (IF k = 3 THEN Intake!Torn ELSE Intake!None)
           /\ \A j \in 1 .. 3 : papers'[s][j] = IF j <= k THEN Intake!Request(s) ELSE Intake!None
           /\ \A t \in Services \ {s} : papers'[t] = papers[t]
           /\ FileTypes' /\ Packed(s)' /\ Intake!Request(s) \in Intake!Plans
           /\ author' = [t \in Services |-> author'[t]]
           /\ \A t \in Services : author'[t] # author[t] =>
                t = s /\ author'[t] = tasks[s].plan /\ papers'[s][3] = Intake!Request(s)
<1> DEFINE n == tasks[s].plan
           r == Intake!Request(s)
           i == CHOOSE i \in 1 .. 3 : papers[s][i] = Intake!Torn
<1>1. PICK k \in 1 .. 3 : Filling(s, k, TRUE)
  BY DEF IntakeInv, Saves
<1>2. /\ n \in Intake!Plans /\ plan[n].saved /\ r = plan[n].request /\ r \in Intake!Plans
      /\ plansKept[r] = "whole" /\ s \in made
  BY TaskPlans DEF IntakeInv, Saves, Known, Intake!Request, Intake!Here
<1>3. \A j \in 1 .. 3 : papers[s][j] = Intake!Torn <=> j = k
  BY <1>1, <1>2 DEF Filling, Intake!None, Intake!Torn, Intake!Plans
<1>4. i = k
  BY <1>3
<1>5. /\ papers' = [papers EXCEPT ![s][k] = r]
      /\ author' = IF k = 3 THEN [author EXCEPT ![s] = n] ELSE author
  BY <1>4 DEF Intake!Filled
<1>6. /\ \A j \in 1 .. 3 : papers'[s][j] = IF j = k THEN r ELSE papers[s][j]
      /\ \A t \in Services \ {s} : papers'[t] = papers[t]
      /\ FileTypes'
  BY <1>5 DEF IntakeInv, IntakeTypes, FileTypes
<1>7. \A j \in 1 .. 3 : papers'[s][j] = IF j <= k THEN r ELSE Intake!None
  BY <1>1, <1>6 DEF Filling
<1>8. papers[s][3] = IF k = 3 THEN Intake!Torn ELSE Intake!None
  BY <1>1 DEF Filling
<1>9. Packed(s)'
  <2>1. plansKept'[r] = "whole" /\ s \in made'
    BY <1>2 DEF JournalGrows
  <2>2. papers'[s][3] # Intake!None => k = 3 /\ papers'[s][1] = r /\ papers'[s][2] = r /\ papers'[s][3] = r
    BY <1>7
  <2> QED BY <1>2, <2>1, <2>2
          DEF Packed, Intake!Committed, Intake!Torn, Intake!None, Intake!Plans
<1>10. author = [t \in Services |-> author[t]]
  BY DEF IntakeInv, IntakeTypes, OtherTypes
<1>11. CASE k = 3
  <2>1. author' = [author EXCEPT ![s] = n] /\ papers'[s][3] = r
    BY <1>5, <1>7, <1>11
  <2>2. /\ author' = [t \in Services |-> author'[t]]
        /\ \A t \in Services : author'[t] # author[t] => t = s /\ author'[t] = n
    BY <1>10, <2>1
  <2> QED BY <1>2, <1>6, <1>7, <1>8, <1>9, <2>1, <2>2
<1>12. CASE k # 3
  <2>1. author' = author
    BY <1>5, <1>12
  <2> QED BY <1>2, <1>6, <1>7, <1>8, <1>9, <1>10, <2>1
<1> QED BY <1>11, <1>12

LEMMA FillFileKeeps ==
  ASSUME IntakeInv, NEW s \in Services, Intake!FillFile(s) PROVE IntakeInv'
<1> DEFINE n == tasks[s].plan
           r == Intake!Request(s)
<1>1. /\ tasks[s].pc = "fill" /\ n \in Intake!Plans /\ n \in Opened /\ JournalGrows
      /\ UNCHANGED <<plans, opened, first, entries, records, made, index>>
      /\ Intake!Filled(s)
  BY TaskPlans, JournalStays DEF Intake!FillFile, Intake!At, Intake!SaveFrame
<1>2. PICK k \in 1 .. 3 :
        /\ papers[s][3] = (IF k = 3 THEN Intake!Torn ELSE Intake!None)
        /\ \A j \in 1 .. 3 : papers'[s][j] = IF j <= k THEN r ELSE Intake!None
        /\ \A t \in Services \ {s} : papers'[t] = papers[t]
        /\ FileTypes' /\ Packed(s)' /\ r \in Intake!Plans
        /\ author' = [t \in Services |-> author'[t]]
        /\ \A t \in Services : author'[t] # author[t] =>
             t = s /\ author'[t] = n /\ papers'[s][3] = r
  BY <1>1, FilledPacks
<1>3. /\ Intake!Go(s, IF k = 3 THEN "link" ELSE "write")
      /\ plan' = IF k = 3 THEN [plan EXCEPT ![n].committed = TRUE, ![n].phase = "pending"] ELSE plan
  BY <1>2 DEF Intake!FillFile, Intake!Torn, Intake!None
<1>4. PlansMarked
  <2> DEFINE q == [plan[n] EXCEPT !.committed = TRUE, !.phase = "pending"]
  <2>1. CASE k = 3
    <3>1. plan' = [plan EXCEPT ![n] = q] /\ SamePlan(q, n)
      BY <1>1, <1>3, <2>1 DEF IntakeInv, IntakeTypes, PlanTypes, SamePlan, Intake!NoPlan
    <3> QED BY <3>1, PlanMarked DEF IntakeInv, IntakeTypes
  <2>2. CASE k # 3
    BY <1>3, <2>2 DEF PlansMarked, IntakeInv, IntakeTypes, PlanTypes, Intake!Plans
  <2> QED BY <2>1, <2>2
<1>5. /\ OneTask(s) /\ UNCHANGED queues /\ tasks'[s].plan = n
      /\ tasks'[s].pc = IF k = 3 THEN "link" ELSE "write"
  BY <1>3, GoMoves DEF IntakeInv
<1>6. Intake!Request(s)' = r
  BY <1>1, <1>4, <1>5 DEF PlansMarked, Intake!Request, Intake!Here
<1>7. PackStep(s)
  BY <1>1, <1>2, <1>4, <1>5 DEF PackStep
<1>8. Saves(s)'
  <2>1. /\ n \in Opened' /\ plan'[n].service = s /\ plan'[n].saved /\ s \in made'
        /\ s = "pdf" => first'[n] \subseteq {plan'[n].paper}
    BY <1>1, <1>4 DEF IntakeInv, Saves, PlansMarked, Opened
  <2>2. CASE k = 3
    BY <1>5, <2>1, <2>2 DEF Saves
  <2>3. CASE k # 3
    <3>1. k + 1 \in 1 .. 3
      BY <2>3
    <3>2. Filling(s, k + 1, FALSE)'
      BY <1>2, <1>6 DEF Filling
    <3>3. (\E m \in 1 .. 3 : Filling(s, m, FALSE))'
      BY <3>1, <3>2, Zenon
    <3> QED BY <1>5, <2>1, <2>3, <3>3 DEF Saves
  <2> QED BY <2>2, <2>3
<1> QED BY <1>2, <1>7, <1>8, PackKeeps

LEMMA FillFailsKeeps ==
  ASSUME IntakeInv, NEW s \in Services, Intake!FillFails(s) PROVE IntakeInv'
<1> DEFINE n == tasks[s].plan
           r == Intake!Request(s)
<1>1. /\ tasks[s].pc = "fill" /\ n \in Intake!Plans /\ n \in Opened /\ JournalGrows
      /\ UNCHANGED <<plans, opened, first, entries, records, made, index>>
      /\ Intake!Catch(s)
  BY TaskPlans, JournalStays DEF Intake!FillFails, Intake!At, Intake!SaveFrame
<1>2. CASE UNCHANGED <<papers, author>>
  BY <1>1, <1>2, CatchMinds
<1>3. CASE Intake!Filled(s)
  <2>1. PICK k \in 1 .. 3 :
          /\ papers[s][3] = (IF k = 3 THEN Intake!Torn ELSE Intake!None)
          /\ \A j \in 1 .. 3 : papers'[s][j] = IF j <= k THEN r ELSE Intake!None
          /\ \A t \in Services \ {s} : papers'[t] = papers[t]
          /\ FileTypes' /\ Packed(s)' /\ r \in Intake!Plans
          /\ author' = [t \in Services |-> author'[t]]
          /\ \A t \in Services : author'[t] # author[t] =>
               t = s /\ author'[t] = n /\ papers'[s][3] = r
    BY <1>1, <1>3, FilledPacks
  <2>2. PlansMarked /\ OneTask(s) /\ tasks'[s].pc = "none" /\ UNCHANGED queues
    BY <1>1, CatchMarks DEF IntakeInv
  <2>3. PackStep(s)
    BY <1>1, <2>1, <2>2 DEF PackStep
  <2>4. Saves(s)'
    BY <2>2 DEF Saves
  <2>5. papers[s][3] \in {Intake!None, Intake!Torn}
    BY <2>1
  <2> QED BY <2>1, <2>3, <2>4, <2>5, PackKeeps
<1> QED BY <1>1, <1>2, <1>3 DEF Intake!FillFails

-----------------------------------------------------------------------------
(* A save that begins, and the windows.                                    *)

LEMMA PlansStay ==
  ASSUME IntakeInv, UNCHANGED plan PROVE PlansKeep /\ PlansMarked
BY DEF IntakeInv, IntakeTypes, PlanTypes, PlansKeep, PlansMarked, Intake!Plans

LEMMA TasksStay ==
  ASSUME IntakeInv, UNCHANGED tasks
  PROVE  TaskTypes' /\ \A s \in Services : TaskGoes(s)
BY DEF IntakeInv, IntakeTypes, TaskTypes, TaskGoes

LEMMA SaveKeeps ==
  ASSUME IntakeInv, NEW s \in Services, NEW r \in Intake!Plans, Intake!Save(s, r)
  PROVE  IntakeInv'
<1>1. /\ queues[s] = <<>> /\ queues' = [queues EXCEPT ![s] = Append(@, r)]
      /\ UNCHANGED <<plansKept, durable, made, papers, records, index, plan, plans, opened, tasks,
                     entries, first, author>>
  BY DEF Intake!Save, Intake!disk, Intake!windows, Intake!counters, Intake!ghosts
<1>2. OtherTypes'
  <2>1. queues = [t \in Services |-> queues[t]] /\ \A t \in Services : queues[t] \in Seq(Intake!Plans)
    BY DEF IntakeInv, IntakeTypes, OtherTypes
  <2>2. Append(queues[s], r) \in Seq(Intake!Plans)
    BY <2>1
  <2>3. /\ queues' = [t \in Services |-> queues'[t]]
        /\ \A t \in Services : queues'[t] \in Seq(Intake!Plans)
    BY <1>1, <2>1, <2>2
  <2> QED BY <1>1, <2>3 DEF IntakeInv, IntakeTypes, OtherTypes, Intake!Plans
<1>3. MindStep
  BY <1>1, <1>2, PlansStay, TasksStay, JournalStays
     DEF MindStep, IndexGrows, FilesStay, IntakeInv, IntakeTypes, FileTypes, PlansKeep, JournalGrows
<1> QED BY <1>3, MindKeeps

LEMMA MetaKeeps ==
  ASSUME IntakeInv, records \subseteq records', index \subseteq index',
         UNCHANGED <<plansKept, durable, made, papers, plan, plans, opened, queues, tasks, first, author>>,
         \/ entries' = entries
         \/ entries' = entries + 1 /\ <<"edit", entries + 1>> \in index'
  PROVE  IntakeInv'
<1>1. OtherTypes'
  BY DEF IntakeInv, IntakeTypes, OtherTypes, Intake!Plans
<1>2. MindStep
  BY <1>1, PlansStay, TasksStay, JournalStays
     DEF MindStep, IndexGrows, FilesStay, IntakeInv, IntakeTypes, FileTypes, PlansKeep, JournalGrows
<1> QED BY <1>2, MindKeeps

LEMMA CancelKeeps ==
  ASSUME IntakeInv, NEW s \in Services, NEW r \in Intake!Plans, Intake!Cancel(s, r)
  PROVE  IntakeInv'
<1> DEFINE n == plans[s][r]
           q == [plan[n] EXCEPT !.aborted = TRUE, !.phase = "cancelled"]
<1>1. /\ n # 0 /\ plan' = [plan EXCEPT ![n] = q]
      /\ UNCHANGED <<plansKept, durable, made, papers, records, index, plans, opened, queues, tasks,
                     entries, first, author>>
  BY DEF Intake!Cancel, Intake!disk, Intake!counters
<1>2. n \in Intake!Plans
  BY <1>1, OpenedPlans DEF IntakeInv, Known
<1>3. SamePlan(q, n)
  BY <1>2 DEF SamePlan, IntakeInv, IntakeTypes, PlanTypes, Intake!NoPlan
<1>4. PlansKeep
  BY <1>1, <1>3, PlanMarked, MarkedKeep DEF IntakeInv, IntakeTypes
<1>5. OtherTypes'
  BY <1>1 DEF IntakeInv, IntakeTypes, OtherTypes, Intake!Plans
<1>6. MindStep
  BY <1>1, <1>4, <1>5, TasksStay, JournalStays
     DEF MindStep, IndexGrows, FilesStay, IntakeInv, IntakeTypes, FileTypes, PlansKeep, JournalGrows
<1> QED BY <1>6, MindKeeps

LEMMA DisposeKeeps ==
  ASSUME IntakeInv, Intake!Dispose PROVE IntakeInv'
<1>1. /\ plan' = [n \in Intake!Plans |->
                    IF ~plan[n].committing /\ \E s \in Services, r \in Intake!Plans : plans[s][r] = n
                    THEN [plan[n] EXCEPT !.aborted = TRUE] ELSE plan[n]]
      /\ UNCHANGED <<plansKept, durable, made, papers, records, index, plans, opened, queues, tasks,
                     entries, first, author>>
  BY DEF Intake!Dispose, Intake!disk, Intake!ghosts
<1>2. PlansMarked
  <2>1. \A n \in Intake!Plans : plan'[n] \in {plan[n], [plan[n] EXCEPT !.aborted = TRUE]}
    BY <1>1
  <2>2. ASSUME NEW n \in Intake!Plans
        PROVE  /\ DOMAIN plan'[n] = DOMAIN Intake!NoPlan
               /\ plan'[n].service = plan[n].service /\ plan'[n].request = plan[n].request
               /\ plan'[n].paper = plan[n].paper /\ plan'[n].saved = plan[n].saved
    BY <2>1 DEF IntakeInv, IntakeTypes, PlanTypes, Intake!NoPlan
  <2>3. plan' = [n \in Intake!Plans |-> plan'[n]]
    BY <1>1
  <2>4. PlanTypes'
    BY <2>2, <2>3 DEF PlanTypes, Intake!Plans, Intake!NoPlan
  <2> QED BY <2>2, <2>4 DEF PlansMarked
<1>3. OtherTypes'
  BY <1>1 DEF IntakeInv, IntakeTypes, OtherTypes, Intake!Plans
<1>4. MindStep
  BY <1>1, <1>2, <1>3, MarkedKeep, TasksStay, JournalStays
     DEF MindStep, IndexGrows, FilesStay, IntakeInv, IntakeTypes, FileTypes, PlansKeep, JournalGrows
<1> QED BY <1>4, MindKeeps

LEMMA TakeKeeps ==
  ASSUME IntakeInv, NEW s \in Services, Intake!Take(s) PROVE IntakeInv'
<1> DEFINE r == Head(queues[s])
           n == plans[s][r]
<1>1. /\ queues[s] # <<>> /\ tasks[s] = Intake!NoTask /\ queues' = [queues EXCEPT ![s] = Tail(@)]
      /\ UNCHANGED <<plansKept, durable, made, papers, records, index, plan, plans, opened,
                     entries, author>>
  BY DEF Intake!Take, Intake!disk, Intake!SaveFrame
<1>2. /\ r \in Intake!Plans
      /\ queues' = [t \in Services |-> queues'[t]]
      /\ \A t \in Services : queues'[t] \in Seq(Intake!Plans)
  <2>1. queues = [t \in Services |-> queues[t]] /\ \A t \in Services : queues[t] \in Seq(Intake!Plans)
    BY DEF IntakeInv, IntakeTypes, OtherTypes
  <2>2. Tail(queues[s]) \in Seq(Intake!Plans) /\ r \in Intake!Plans
    BY <1>1, <2>1
  <2> QED BY <1>1, <2>1, <2>2
<1>3. PlansKeep /\ JournalGrows
  BY <1>1, PlansStay, JournalStays
<1>4. CASE ~(Intake!Live(s, r) /\ plan[n].phase # "saved")
  <2>1. UNCHANGED <<tasks, first>>
    BY <1>4 DEF Intake!Take
  <2>2. OtherTypes'
    BY <1>1, <1>2, <2>1 DEF IntakeInv, IntakeTypes, OtherTypes, Intake!Plans
  <2>3. MindStep
    BY <1>1, <1>3, <2>1, <2>2, TasksStay
       DEF MindStep, IndexGrows, FilesStay, IntakeInv, IntakeTypes, FileTypes, PlansKeep, JournalGrows
  <2> QED BY <2>3, MindKeeps
<1>5. CASE Intake!Live(s, r) /\ plan[n].phase # "saved"
  <2>1. /\ n # 0
        /\ tasks' = [tasks EXCEPT ![s] = [Intake!NoTask EXCEPT !.plan = n,
                        !.pc = IF plan[n].existing THEN "register" ELSE "check"]]
        /\ first' = IF author[s] = n THEN first ELSE [first EXCEPT ![n] = Intake!Ids]
    BY <1>5 DEF Intake!Take, Intake!Live
  <2>2. n \in Opened /\ n \in Intake!Plans /\ plan[n].service = s
    BY <1>2, <2>1, OpenedPlans DEF IntakeInv, Known
  <2>3. /\ TaskTypes' /\ \A t \in Services \ {s} : tasks'[t] = tasks[t]
        /\ tasks'[s].plan = n /\ tasks'[s].pc \in {"register", "check"}
    BY <2>1 DEF IntakeInv, IntakeTypes, TaskTypes, Intake!NoTask
  <2>4. /\ first' = [m \in Intake!Plans |-> first'[m]]
        /\ \A m \in Intake!Plans : m # n => first'[m] = first[m]
        /\ author[s] = n => first' = first
        /\ author[s] # n => first'[n] = Intake!Ids
    BY <2>1, <2>2 DEF IntakeInv, IntakeTypes, OtherTypes
  <2>5. IntakeTypes'
    BY <1>1, <1>2, <1>3, <2>3, <2>4
       DEF IntakeInv, IntakeTypes, OtherTypes, FileTypes, PlansKeep, JournalGrows, Intake!Plans
  <2>6. /\ Intake!PackageIds' = Intake!PackageIds /\ Intake!Ids' = Intake!Ids
        /\ Known' /\ Authored' /\ Intake!IndexKept' /\ \A t \in Services : Packed(t)'
    BY <1>1 DEF IntakeInv, Intake!PackageIds, Intake!Ids, Intake!Committed, Intake!Plans, Known,
                Authored, Intake!IndexKept, Packed, Opened
  <2>7. \A t \in Services \ {s} : Saves(t)'
    <3>1. ASSUME NEW t \in Services \ {s} PROVE Saves(t)'
      <4>1. TaskGoes(t)
        BY <2>3 DEF TaskGoes
      <4>2. tasks[t].pc # "none" => first'[tasks[t].plan] = first[tasks[t].plan]
        BY <2>2, <2>4, TaskPlans DEF IntakeInv, Saves
      <4> QED BY <1>1, <1>3, <2>6, <4>1, <4>2, SavesKept DEF IntakeInv
    <3> QED BY <3>1
  <2>8. s = "pdf" /\ author["pdf"] = n => first[n] \subseteq Intake!Ids
    BY <2>1 DEF IntakeInv, Intake!StalePlanStopped, Intake!Ids
  <2>9. s = "pdf" => first'[n] \subseteq Intake!Ids
    BY <2>4, <2>8
  <2>10. Saves(s)'
    BY <1>1, <2>2, <2>3, <2>6, <2>9 DEF Saves, Opened
  <2>11. author["pdf"] # 0 => first'[author["pdf"]] = first[author["pdf"]]
    BY <1>2, <2>1, <2>2, <2>4, OpenedPlans DEF IntakeInv, Authored
  <2>12. Intake!StalePlanStopped'
    BY <1>1, <2>6, <2>11 DEF IntakeInv, Intake!StalePlanStopped
  <2> QED BY <2>5, <2>6, <2>7, <2>10, <2>12 DEF IntakeInv
<1> QED BY <1>4, <1>5

(* A plan that is shown.                                                   *)
LEMMA ShownKeeps ==
  ASSUME IntakeInv, NEW s \in Services, NEW p, opened < MaxPlans, opened' = opened + 1,
         DOMAIN p = DOMAIN Intake!NoPlan, p.service = s, p.request \in Intake!Plans,
         p.saved => plansKept[p.request] = "whole" /\ durable[p.request].paper = p.paper,
         plan' = [plan EXCEPT ![opened + 1] = p],
         plans' = [plans EXCEPT ![s][p.request] = opened + 1],
         UNCHANGED <<plansKept, durable, made, papers, records, index, queues, tasks, entries,
                     first, author>>
  PROVE  IntakeInv'
<1> DEFINE n == opened + 1
<1>1. /\ n \in Intake!Plans /\ n \notin Opened /\ Opened' = Opened \cup {n} /\ n # 0
      /\ opened' \in 0 .. MaxPlans /\ "pdf" \in Services
  BY StoresAssumption
     DEF IntakeInv, IntakeTypes, OtherTypes, Opened, Intake!Plans, Intake!IntakeAssumption
<1>2. /\ plan' = [m \in Intake!Plans |-> plan'[m]] /\ plan'[n] = p
      /\ \A m \in Intake!Plans : m # n => plan'[m] = plan[m]
  BY <1>1 DEF IntakeInv, IntakeTypes, PlanTypes
<1>3. /\ plans' = [t \in Services |-> plans'[t]]
      /\ \A t \in Services : plans'[t] = [q \in Intake!Plans |-> plans'[t][q]]
      /\ \A t \in Services, q \in Intake!Plans :
           plans'[t][q] = IF t = s /\ q = p.request THEN n ELSE plans[t][q]
  BY DEF IntakeInv, IntakeTypes, OtherTypes
<1>4. PlanTypes'
  BY <1>2 DEF IntakeInv, IntakeTypes, PlanTypes, Intake!Plans, Intake!NoPlan
<1>5. IntakeTypes'
  <2>1. OtherTypes'
    BY <1>1, <1>3 DEF IntakeInv, IntakeTypes, OtherTypes, Intake!Plans
  <2>2. JournalTypes' /\ TaskTypes' /\ FileTypes'
    BY DEF IntakeInv, IntakeTypes, FileTypes, TaskTypes, JournalTypes, Intake!Plans
  <2> QED BY <1>4, <2>1, <2>2 DEF IntakeTypes
<1>6. Known'
  <2>1. ASSUME NEW t \in Services, NEW q \in Intake!Plans, plans'[t][q] # 0
        PROVE  plans'[t][q] \in Opened' /\ plan'[plans'[t][q]].service = t
    <3>1. CASE t = s /\ q = p.request
      BY <1>1, <1>2, <1>3, <3>1
    <3>2. CASE ~(t = s /\ q = p.request)
      <4>1. plans'[t][q] = plans[t][q] /\ plans[t][q] \in Opened /\ plan[plans[t][q]].service = t
        BY <1>3, <2>1, <3>2 DEF IntakeInv, Known
      <4> QED BY <1>1, <1>2, <4>1, OpenedPlans DEF IntakeInv
    <3> QED BY <3>1, <3>2
  <2>2. ASSUME NEW m \in Intake!Plans, plan'[m].service # "none"
        PROVE  plan'[m].request \in Intake!Plans
    BY <1>2, <2>2 DEF IntakeInv, Known
  <2>3. ASSUME NEW m \in Intake!Plans, plan'[m].saved
        PROVE  /\ plan'[m].request \in Intake!Plans /\ plansKept'[plan'[m].request] = "whole"
               /\ durable'[plan'[m].request].paper = plan'[m].paper
    BY <1>2, <2>3 DEF IntakeInv, Known
  <2> QED BY <2>1, <2>2, <2>3 DEF Known, Intake!Plans
<1>7. /\ Intake!PackageIds' = Intake!PackageIds /\ Intake!Ids' = Intake!Ids
      /\ Intake!IndexKept' /\ Intake!StalePlanStopped' /\ \A t \in Services : Packed(t)'
  BY DEF IntakeInv, Intake!PackageIds, Intake!Ids, Intake!Committed, Intake!Plans,
         Intake!IndexKept, Intake!StalePlanStopped, Packed
<1>8. ASSUME NEW t \in Services PROVE Saves(t)'
  <2>1. CASE tasks[t].pc = "none"
    BY <2>1 DEF Saves
  <2>2. CASE tasks[t].pc # "none"
    <3>1. tasks[t].plan \in Opened /\ tasks[t].plan \in Intake!Plans
      BY <2>2, TaskPlans
    <3>2. plan'[tasks[t].plan] = plan[tasks[t].plan]
      BY <1>1, <1>2, <3>1
    <3>3. Intake!Request(t)' = Intake!Request(t)
      BY <3>2 DEF Intake!Request, Intake!Here
    <3>4. \A k \in 1 .. 3, b \in BOOLEAN : Filling(t, k, b) => Filling(t, k, b)'
      BY <3>3 DEF Filling, Intake!None, Intake!Torn
    <3>5. /\ tasks[t].pc = "write" => (\E k \in 1 .. 3 : Filling(t, k, FALSE))'
          /\ tasks[t].pc = "fill" => (\E k \in 1 .. 3 : Filling(t, k, TRUE))'
      BY <3>4 DEF IntakeInv, Saves
    <3>6. /\ tasks'[t] = tasks[t] /\ first' = first /\ made' = made
          /\ tasks[t].plan \in Opened'
      BY <1>1, <3>1
    <3>7. /\ plan[tasks[t].plan].service = t
          /\ t = "pdf" /\ tasks[t].pc = "check" => first[tasks[t].plan] \subseteq Intake!Ids
          /\ t = "pdf" /\ tasks[t].pc \in {"plan", "journal", "own", "write", "fill"} =>
               first[tasks[t].plan] \subseteq {plan[tasks[t].plan].paper}
          /\ tasks[t].pc \in {"own", "write", "fill"} => plan[tasks[t].plan].saved
          /\ tasks[t].pc \in {"write", "fill"} => t \in made
      BY <2>2 DEF IntakeInv, Saves
    <3>8. /\ t = "pdf" /\ tasks[t].pc = "check" => (first[tasks[t].plan] \subseteq Intake!Ids)'
      BY <1>7, <3>6, <3>7
    <3>9. /\ plan'[tasks'[t].plan].service = t
          /\ t = "pdf" /\ tasks'[t].pc \in {"plan", "journal", "own", "write", "fill"} =>
               first'[tasks'[t].plan] \subseteq {plan'[tasks'[t].plan].paper}
          /\ tasks'[t].pc \in {"own", "write", "fill"} => plan'[tasks'[t].plan].saved
          /\ tasks'[t].pc \in {"write", "fill"} => t \in made'
      BY <3>2, <3>6, <3>7
    <3> QED BY <3>5, <3>6, <3>8, <3>9 DEF Saves
  <2> QED BY <2>1, <2>2
<1>9. Authored'
  <2>1. author["pdf"] # 0 => author["pdf"] # n /\ author["pdf"] \in Opened'
    BY <1>1 DEF IntakeInv, Authored
  <2> QED BY <1>3, <2>1 DEF IntakeInv, Authored, Intake!Plans
<1> QED BY <1>5, <1>6, <1>7, <1>8, <1>9 DEF IntakeInv

LEMMA PrepareKeeps ==
  ASSUME IntakeInv, NEW s \in Services, Intake!Prepare(s) PROVE IntakeInv'
<1> DEFINE n == opened + 1
           new == [Intake!NoPlan EXCEPT !.service = s, !.request = n, !.phase = "open",
                     !.paper = IF Intake!Ids = {} THEN n ELSE CHOOSE i \in Intake!Ids : TRUE]
           old == [new EXCEPT !.existing = TRUE, !.phase = IF s = "jats" THEN "open" ELSE "pending"]
           again(r) == [new EXCEPT !.request = r, !.paper = durable[r].paper,
                                   !.recovering = TRUE, !.saved = TRUE]
           showing(p) == /\ plan' = [plan EXCEPT ![n] = p]
                       /\ plans' = [plans EXCEPT ![s][p.request] = n]
<1>1. /\ opened < MaxPlans /\ opened' = n
      /\ UNCHANGED <<plansKept, durable, made, papers, records, index, queues, tasks, entries,
                     first, author>>
      /\ showing(old) \/ showing(new) \/ \E r \in Intake!Mine(s, "whole") : showing(again(r))
  BY DEF Intake!Prepare, Intake!disk, Intake!counters, Intake!ghosts
<1>2. n \in Intake!Plans
  <2>1. opened < MaxPlans
    BY <1>1
  <2> QED BY <2>1, StoresAssumption
          DEF IntakeInv, IntakeTypes, OtherTypes, Intake!Plans, Intake!IntakeAssumption
<1>3. /\ DOMAIN new = DOMAIN Intake!NoPlan /\ new.service = s /\ new.request = n /\ new.saved = FALSE
      /\ DOMAIN old = DOMAIN Intake!NoPlan /\ old.service = s /\ old.request = n /\ old.saved = FALSE
  BY DEF Intake!NoPlan
<1>4. \A r : /\ DOMAIN again(r) = DOMAIN Intake!NoPlan /\ again(r).service = s
             /\ again(r).request = r /\ again(r).paper = durable[r].paper
  BY DEF Intake!NoPlan
<1> HIDE DEF new, old, again
<1>5. CASE showing(old)
  BY <1>1, <1>2, <1>3, <1>5, ShownKeeps
<1>6. CASE showing(new)
  BY <1>1, <1>2, <1>3, <1>6, ShownKeeps
<1>7. ASSUME NEW r \in Intake!Mine(s, "whole"), showing(again(r)) PROVE IntakeInv'
  <2>1. r \in Intake!Plans /\ plansKept[r] = "whole"
    BY <1>7 DEF Intake!Mine
  <2>2. again(r).request \in Intake!Plans /\ durable[again(r).request].paper = again(r).paper
        /\ plansKept[again(r).request] = "whole" /\ DOMAIN again(r) = DOMAIN Intake!NoPlan
        /\ again(r).service = s
    BY <1>4, <2>1
  <2> QED BY <1>1, <1>7, <2>2, ShownKeeps
<1> QED BY <1>1, <1>5, <1>6, <1>7

(* What is left when the memory is gone.                                   *)
LEMMA ForgottenKeeps ==
  ASSUME IntakeInv, Intake!Forgotten, JournalGrows, made \subseteq made',
         UNCHANGED <<papers, records, index, opened, entries, first, author>>
  PROVE  IntakeInv'
<1>1. /\ plan' = [n \in Intake!Plans |-> Intake!NoPlan]
      /\ plans' = [s \in Services |-> [r \in Intake!Plans |-> 0]]
      /\ queues' = [s \in Services |-> <<>>] /\ tasks' = [s \in Services |-> Intake!NoTask]
  BY DEF Intake!Forgotten
<1>2. \A s \in Services : tasks'[s].pc = "none"
  BY <1>1 DEF Intake!NoTask
<1>3. IntakeTypes'
  <2>1. PlanTypes'
    BY <1>1 DEF PlanTypes, Intake!Plans, Intake!NoPlan
  <2>2. TaskTypes'
    BY <1>1 DEF TaskTypes, Intake!NoTask
  <2>3. OtherTypes'
    BY <1>1 DEF IntakeInv, IntakeTypes, OtherTypes, Intake!Plans
  <2> QED BY <2>1, <2>2, <2>3 DEF IntakeInv, IntakeTypes, FileTypes, JournalGrows
<1>4. Known'
  <2>1. \A n \in Intake!Plans : plan'[n].service = "none" /\ plan'[n].saved = FALSE
    BY <1>1 DEF Intake!NoPlan
  <2> QED BY <1>1, <2>1 DEF Known, Intake!Plans
<1>5. \A s \in Services : Packed(s)' /\ Saves(s)'
  BY <1>2, PackedKept DEF IntakeInv, Saves
<1>6. Intake!PackageIds \subseteq Intake!PackageIds'
  BY IdsGrow DEF IntakeInv
<1>7. Authored'
  BY <1>1 DEF IntakeInv, Authored, Opened, Intake!Plans
<1>8. Intake!StalePlanStopped'
  BY <1>6, StaysStopped DEF IntakeInv
<1>9. Intake!IndexKept'
  BY DEF IntakeInv, Intake!IndexKept
<1> QED BY <1>3, <1>4, <1>5, <1>7, <1>8, <1>9 DEF IntakeInv

LEMMA CrashKeeps ==
  ASSUME IntakeInv, Intake!Crash PROVE IntakeInv'
<1>1. /\ Intake!Forgotten /\ UNCHANGED <<papers, records, index, opened, entries, first, author>>
      /\ made \subseteq made'
  BY DEF Intake!Crash, Intake!ghosts
<1>2. JournalGrows
  BY JournalStays, JournalPlans DEF Intake!Crash
<1> QED BY <1>1, <1>2, ForgottenKeeps

-----------------------------------------------------------------------------
LEMMA IntakeStep ==
  ASSUME IntakeInv, [MCNext]_allVars PROVE IntakeInv'
<1>1. CASE Intake!Next
  <2>1. ASSUME NEW s \in Services, Intake!Commit(s) PROVE IntakeInv'
    BY <2>1, TakeKeeps, CheckKeeps, ReadIndexKeeps, WritePlanKeeps, PlanFailsKeeps, OwnKeeps,
       OwnFailsKeeps, CreateFileKeeps, FillFileKeeps, FillFailsKeeps, RegisterKeeps, LinkKeeps,
       EnterKeeps, RegisterFailsKeeps DEF Intake!Commit
  <2>2. ASSUME Intake!MetaPrepare \/ Intake!MetaSave \/ Intake!MetaAppend PROVE IntakeInv'
    <3>1. /\ records \subseteq records'
          /\ UNCHANGED <<plansKept, durable, made, papers, index, plan, plans, opened, queues, tasks,
                         entries, first, author>>
      BY <2>2 DEF Intake!MetaPrepare, Intake!MetaSave, Intake!MetaAppend, Intake!MetaFrame,
                  Intake!windows, Intake!ghosts
    <3> QED BY <3>1, MetaKeeps
  <2>3. ASSUME Intake!EditIndex PROVE IntakeInv'
    <3>1. /\ index \subseteq index' /\ entries' = entries + 1 /\ <<"edit", entries + 1>> \in index'
          /\ UNCHANGED <<plansKept, durable, made, papers, records, plan, plans, opened, queues, tasks,
                         first, author>>
      BY <2>3 DEF Intake!EditIndex, Intake!windows, Intake!ghosts
    <3> QED BY <3>1, MetaKeeps
  <2>4. ASSUME Intake!Disposed PROVE IntakeInv'
    <3>1. /\ Intake!Forgotten
          /\ UNCHANGED <<plansKept, durable, made, papers, records, index, opened, entries, first, author>>
      BY <2>4 DEF Intake!Disposed, Intake!disk, Intake!counters, Intake!ghosts
    <3> QED BY <3>1, JournalStays, ForgottenKeeps
  <2>5. ASSUME Intake!Restart PROVE IntakeInv'
    <3>1. UNCHANGED <<plansKept, durable, made, papers, records, index, plan, plans, opened, queues,
                      tasks, entries, first, author>>
      BY <2>5 DEF Intake!Restart, Intake!disk, Intake!windows, Intake!counters, Intake!ghosts
    <3> QED BY <3>1, MetaKeeps
  <2> QED BY <1>1, <2>1, <2>2, <2>3, <2>4, <2>5, PrepareKeeps, SaveKeeps, CancelKeeps, DisposeKeeps,
             CrashKeeps DEF Intake!Next
<1>2. CASE UNCHANGED intakeVars
  <2>1. UNCHANGED <<plansKept, durable, made, papers, records, index, plan, plans, opened, queues,
                    tasks, entries, first, author>>
    BY <1>2 DEF intakeVars
  <2> QED BY <2>1, MetaKeeps
<1> QED BY <1>1, <1>2 DEF MCNext, Only, allVars

(* SourceIntake: a package with a manifest is whole and of one plan, the   *)
(* entries of others stay in the index, and no PDF is committed under      *)
(* another id than the paper had when its save began                       *)
(* (source-intake.ts, jats/intake.ts, vault-catalog.ts).                   *)
THEOREM IntakeStaysSafe == MCSpec => []IntakeSafe
<1>1. MCInit => IntakeInv
  <2> SUFFICES ASSUME MCInit PROVE IntakeInv
    OBVIOUS
  <2>0. Intake!Init /\ "pdf" \in Services /\ MaxPlans \in Nat
    BY StoresAssumption DEF MCInit, Intake!IntakeAssumption
  <2>1. /\ \A n \in Intake!Plans : plan[n] = Intake!NoPlan
        /\ \A s \in Services : tasks[s].pc = "none"
        /\ \A s \in Services, r \in Intake!Plans : plans[s][r] = 0
    BY <2>0 DEF Intake!Init, Intake!NoTask
  <2>2. \A n \in Intake!Plans : plan[n].service = "none" /\ plan[n].saved = FALSE
    BY <2>1 DEF Intake!NoPlan
  <2>3. IntakeTypes
    <3>1. PlanTypes /\ TaskTypes
      BY <2>0 DEF Intake!Init, PlanTypes, TaskTypes, Intake!NoPlan, Intake!NoTask
    <3>2. JournalTypes /\ FileTypes /\ OtherTypes
      BY <2>0 DEF Intake!Init, JournalTypes, FileTypes, OtherTypes
    <3> QED BY <3>1, <3>2 DEF IntakeTypes
  <2>4. Known /\ \A s \in Services : Saves(s)
    BY <2>1, <2>2 DEF Known, Saves
  <2>5. Authored /\ Intake!StalePlanStopped /\ Intake!IndexKept
    BY <2>0 DEF Intake!Init, Authored, Intake!StalePlanStopped, Intake!IndexKept
  <2>6. \A s \in Services : Packed(s)
    BY <2>0 DEF Intake!Init, Packed, Intake!Committed, Intake!None, Intake!Plans
  <2> QED BY <2>3, <2>4, <2>5, <2>6 DEF IntakeInv
<1>2. IntakeInv /\ [MCNext]_allVars => IntakeInv'
  BY IntakeStep
<1>3. IntakeInv => IntakeSafe
  <2> SUFFICES ASSUME IntakeInv, NEW s \in Services, Intake!Committed(s), NEW i \in 1 .. 3
               PROVE  papers[s][i] = papers[s][3]
    BY DEF IntakeInv, IntakeSafe, Intake!PackageWhole
  <2> QED BY DEF IntakeInv, Packed, Intake!Committed, Intake!None, Intake!Torn, Intake!Plans
<1> QED BY <1>1, <1>2, <1>3, PTL DEF MCSpec

=============================================================================
