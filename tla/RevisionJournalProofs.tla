------------------------ MODULE RevisionJournalProofs -----------------------
(***************************************************************************)
(* Proofs about RevisionJournal, for any number of windows, revisions and  *)
(* values and any failures: of two saves reported as done one knows the    *)
(* other (the files implement RevisionLedger), and a draft has at most one *)
(* successor.                                                              *)
(***************************************************************************)
EXTENDS RevisionJournal, WellFoundedInduction, FiniteSetTheorems, TLAPS

-----------------------------------------------------------------------------
(* The inductive invariant.                                                *)

(* Files come with their ids, and a marker after the whole of its body.    *)
Files ==
  \A i \in Ids : /\ body[i] # "none" => i <= ids
                 /\ mark[i] # "none" => body[i] = "whole"
                 /\ i > ids => rev[i] = NoRev

(* A window at work has an id, and one revision with the heads it edits.   *)
AtWork == {"body", "fill", "recheck", "mark", "seal", "after"}
Work ==
  \A w \in Windows : pc[w] \in AtWork =>
    work[w] \in 1 .. ids /\ rev[work[w]].parents = seen[w]

(* What a window has created is as it left it, and nobody else fills it.   *)
Made ==
  \A w \in Windows :
    /\ pc[w] = "fill" => body[work[w]] = "torn"
    /\ pc[w] \in {"recheck", "mark", "seal", "after"} => body[work[w]] = "whole"
    /\ pc[w] = "seal" => mark[work[w]] = "torn"
    /\ pc[w] = "after" => mark[work[w]] = "whole"

Alone ==
  \A v, w \in Windows : v # w /\ pc[v] = pc[w] /\ pc[w] \in {"fill", "seal"} =>
                          work[v] # work[w]

(* The past of a revision holds its parents and the past of each of those, *)
(* of earlier ids, all of them committed.                                  *)
Ancestry ==
  \A i \in Ids : /\ rev[i].parents \subseteq rev[i].past
                 /\ \A j \in rev[i].past : j < i /\ rev[j].past \subseteq rev[i].past

Known == /\ \A i \in Ids : rev[i].past \subseteq Committed
         /\ \A w \in Windows : seen[w] \subseteq Committed
         /\ told \subseteq Committed

(* The windows that may commit a draft have passed the recheck with the    *)
(* one revision that was there; it succeeds the only head.                 *)
Sealing(w) == pc[w] \in {"mark", "seal"} /\ mark[work[w]] # "whole"
Drafts ==
  style = "draft" =>
    /\ Heads = {} \/ \E h \in Ids : Heads = {h}
    /\ \A w \in Windows : Sealing(w) => Heads = rev[work[w]].parents
    /\ \A v, w \in Windows : Sealing(v) /\ Sealing(w) => work[v] = work[w]

IInv == TypeOK /\ Files /\ Work /\ Made /\ Alone /\ Ancestry /\ Known /\ Drafts

-----------------------------------------------------------------------------
(* Numbers and sets.                                                       *)

LEMMA HasMaximum ==
  ASSUME NEW N \in Nat, NEW S \in SUBSET (1 .. N), S # {}
  PROVE  \E m \in S : \A k \in S : k <= m
<1> DEFINE T == {N - k : k \in S}
<1>1. T \subseteq Nat
  OBVIOUS
<1>2. T # {}
  OBVIOUS
<1>3. PICK t \in T : \A y \in T : ~(<<y, t>> \in OpToRel(<, Nat))
  <2> HIDE DEF T
  <2> QED BY <1>1, <1>2, WFMin, NatLessThanWellFounded
<1>4. PICK m \in S : t = N - m
  BY <1>3
<1>5. ASSUME NEW k \in S PROVE k <= m
  <2>1. ~(<<N - k, t>> \in OpToRel(<, Nat))
    BY <1>3
  <2>2. ~(N - k < t)
    BY <2>1, <1>4 DEF OpToRel
  <2> QED BY <2>2, <1>4
<1> QED BY <1>5

(* What is committed and not in the past of the only head would have a     *)
(* last one, whose successor would be a head too, or later still.          *)
LEMMA HeadKnowsAll ==
  ASSUME TypeOK, Ancestry, NEW h \in Ids, Heads = {h}
  PROVE  Committed \ {h} \subseteq rev[h].past
<1> DEFINE Ignored == {k \in Committed \ {h} : k \notin rev[h].past}
<1>1. SUFFICES ASSUME Ignored # {} PROVE FALSE
  OBVIOUS
<1>2. MaxRevisions \in Nat /\ Ignored \in SUBSET (1 .. MaxRevisions)
  BY JournalAssumption DEF Committed, Ids
<1>3. PICK m \in Ignored : \A k \in Ignored : k <= m
  <2> HIDE DEF Ignored
  <2> QED BY <1>1, <1>2, HasMaximum
<1>4. m \in Committed /\ m # h /\ m \notin rev[h].past /\ m \in Ids
  BY <1>3 DEF Committed
<1>5. m \notin Heads
  BY <1>4
<1>6. PICK j \in Committed : m \in rev[j].parents
  BY <1>4, <1>5 DEF Heads
<1>7. j \in Ids /\ m \in rev[j].past
  BY <1>6 DEF Ancestry, Committed
<1>8. j # h
  BY <1>4, <1>7
<1>9. CASE j \in rev[h].past
  BY <1>4, <1>7, <1>9 DEF Ancestry
<1>10. CASE j \notin rev[h].past
  <2>1. j <= m
    BY <1>3, <1>6, <1>8, <1>10
  <2>2. m < j
    BY <1>7 DEF Ancestry
  <2> QED BY <2>1, <2>2, <1>4, <1>7 DEF Ids
<1> QED BY <1>9, <1>10

-----------------------------------------------------------------------------
(* Initially.                                                              *)
LEMMA NoRevTyped == NoRev \in [parents : SUBSET Ids, past : SUBSET Ids, value : Values]
<1>1. (CHOOSE v \in Values : TRUE) \in Values
  BY JournalAssumption
<1> QED BY <1>1 DEF NoRev

LEMMA InitIInv == Init => IInv
<1> SUFFICES ASSUME Init PROVE IInv
  OBVIOUS
<1> USE DEF Init
<1>1. TypeOK
  BY NoRevTyped, JournalAssumption DEF TypeOK, NoRev
<1>2. Committed = {} /\ Heads = {}
  BY DEF Committed, Heads
<1>3. Files /\ Work /\ Made /\ Alone
  BY DEF Files, Work, Made, Alone, AtWork
<1>4. \A i \in Ids : rev[i].parents = {} /\ rev[i].past = {}
  BY DEF NoRev
<1>5. Ancestry /\ Known
  BY <1>2, <1>4 DEF Ancestry, Known
<1>6. Drafts
  BY <1>2 DEF Drafts, Sealing
<1> QED BY <1>1, <1>3, <1>5, <1>6 DEF IInv

-----------------------------------------------------------------------------
(* The types.                                                              *)
Step(w) ==
  \/ Open(w) \/ (\E v \in Values : Save(w, v)) \/ (\E i \in Ids : Resume(w, i))
  \/ Report(w) \/ Refuse(w) \/ Begin(w)
  \/ CreateBody(w) \/ FillBody(w) \/ HasBody(w) \/ FailBody(w) \/ Recheck(w)
  \/ CreateMark(w) \/ FillMark(w) \/ HasMark(w) \/ FailMark(w) \/ After(w)
  \/ Cancel(w) \/ Crash(w)

LEMMA Steps == Next => \E w \in Windows : Step(w)
  BY DEF Next, Step

Places == {"idle", "open", "check", "body", "fill", "recheck", "mark", "seal", "after"}
WindowsOK == /\ pc \in [Windows -> Places] /\ seen \in [Windows -> SUBSET Ids]
             /\ val \in [Windows -> Values] /\ work \in [Windows -> 0 .. MaxRevisions]
FilesOK == /\ style \in Styles /\ ids \in 0 .. MaxRevisions
           /\ rev \in [Ids -> [parents : SUBSET Ids, past : SUBSET Ids, value : Values]]
           /\ body \in [Ids -> {"none", "torn", "whole"}]
           /\ mark \in [Ids -> {"none", "torn", "whole"}] /\ told \subseteq Ids

LEMMA TypesParted == TypeOK <=> WindowsOK /\ FilesOK
  BY DEF TypeOK, WindowsOK, FilesOK, Places

LEMMA HeadsAreIds == Heads \in SUBSET Ids /\ Committed \in SUBSET Ids
  BY DEF Heads, Committed

(* Windows go on, or leave.                                                *)
LEMMA WindowsGo ==
  ASSUME WindowsOK, NEW w \in Windows, Leaves(w) \/ \E to \in Places : Goes(w, to)
  PROVE  WindowsOK'
<1>1. CASE Leaves(w)
  <2>1. NoRev.value \in Values /\ 0 \in 0 .. MaxRevisions
    BY NoRevTyped, JournalAssumption DEF NoRev
  <2> QED BY <1>1, <2>1 DEF Leaves, WindowsOK, Places
<1>2. CASE \E to \in Places : Goes(w, to)
  BY <1>2 DEF Goes, WindowsOK
<1> QED BY <1>1, <1>2

LEMMA BeginTyped ==
  ASSUME WindowsOK, FilesOK, NEW w \in Windows, Begin(w)
  PROVE  WindowsOK' /\ FilesOK'
<1>1. "body" \in Places /\ pc' = [pc EXCEPT ![w] = "body"]
      /\ UNCHANGED <<style, body, mark, seen, val, told, faults>>
  BY DEF Begin, Places
<1>2. CASE \E i \in Same(w) : work' = [work EXCEPT ![w] = i] /\ UNCHANGED <<rev, ids>>
  <2>1. PICK i \in Same(w) : work' = [work EXCEPT ![w] = i] /\ UNCHANGED <<rev, ids>>
    BY <1>2
  <2>2. i \in 0 .. MaxRevisions
    BY JournalAssumption DEF Same, FilesOK
  <2> QED BY <1>1, <2>1, <2>2 DEF WindowsOK, FilesOK
<1>3. CASE /\ ids < MaxRevisions /\ ids' = ids + 1
           /\ work' = [work EXCEPT ![w] = ids + 1]
           /\ rev' = [rev EXCEPT ![ids + 1] =
                        [parents |-> seen[w], value |-> val[w],
                         past |-> seen[w] \cup UNION {rev[j].past : j \in seen[w]}]]
  <2>1. ids + 1 \in 0 .. MaxRevisions
    BY <1>3, JournalAssumption DEF FilesOK
  <2>2. seen[w] \subseteq Ids /\ val[w] \in Values
    BY DEF WindowsOK
  <2>3. seen[w] \cup UNION {rev[j].past : j \in seen[w]} \in SUBSET Ids
    BY <2>2 DEF FilesOK
  <2>4. [parents |-> seen[w], value |-> val[w],
         past |-> seen[w] \cup UNION {rev[j].past : j \in seen[w]}]
          \in [parents : SUBSET Ids, past : SUBSET Ids, value : Values]
    BY <2>2, <2>3
  <2>5. rev' \in [Ids -> [parents : SUBSET Ids, past : SUBSET Ids, value : Values]]
    BY <1>3, <2>4 DEF FilesOK
  <2> QED BY <1>1, <1>3, <2>1, <2>5 DEF WindowsOK, FilesOK
<1> QED BY <1>2, <1>3 DEF Begin

(* Most steps take a window to a place, and touch one file.                *)
LEMMA TypesKept ==
  ASSUME WindowsOK, FilesOK, NEW w \in Windows, Step(w)
  PROVE  WindowsOK' /\ FilesOK'
<1> USE DEF journalFiles
<1>1. CASE Open(w)
  BY <1>1, HeadsAreIds DEF Open, WindowsOK, FilesOK, Places
<1>2. CASE \E v \in Values : Save(w, v)
  BY <1>2 DEF Save, WindowsOK, FilesOK, Places
<1>3. CASE \E i \in Ids : Resume(w, i)
  BY <1>3 DEF Resume, WindowsOK, FilesOK, Places
<1>4. CASE Report(w)
  <2>1. WindowsOK'
    BY <1>4, WindowsGo DEF Report
  <2>2. FilesOK'
    BY <1>4 DEF Report, FilesOK
  <2> QED BY <2>1, <2>2
<1>5. CASE Refuse(w) \/ Cancel(w) \/ Crash(w)
  <2>1. WindowsOK'
    BY <1>5, WindowsGo DEF Refuse, Cancel, Crash
  <2>2. FilesOK'
    BY <1>5 DEF Refuse, Cancel, Crash, FilesOK
  <2> QED BY <2>1, <2>2
<1>6. CASE Begin(w)
  BY <1>6, BeginTyped
<1>7. CASE CreateBody(w) \/ FillBody(w) \/ FailBody(w) \/ HasBody(w)
  <2>1. Leaves(w) \/ \E to \in Places : Goes(w, to)
    BY <1>7 DEF CreateBody, FillBody, FailBody, HasBody, Places
  <2>2. WindowsOK'
    BY <2>1, WindowsGo
  <2>3. FilesOK'
    BY <1>7 DEF CreateBody, FillBody, FailBody, HasBody, FilesOK
  <2> QED BY <2>2, <2>3
<1>8. CASE CreateMark(w) \/ FillMark(w) \/ FailMark(w) \/ HasMark(w) \/ Recheck(w)
  <2>1. Leaves(w) \/ \E to \in Places : Goes(w, to)
    BY <1>8 DEF CreateMark, FillMark, FailMark, HasMark, Recheck, Places
  <2>2. WindowsOK'
    BY <2>1, WindowsGo
  <2>3. FilesOK'
    BY <1>8 DEF CreateMark, FillMark, FailMark, HasMark, Recheck, FilesOK
  <2> QED BY <2>2, <2>3
<1>9. CASE After(w)
  <2>1. WindowsOK'
    BY <1>9, WindowsGo DEF After
  <2>2. told' \subseteq told \cup Heads /\ UNCHANGED <<style, journalFiles>>
    BY <1>9 DEF After
  <2>3. FilesOK'
    BY <2>2, HeadsAreIds DEF FilesOK
  <2> QED BY <2>1, <2>3
<1> QED BY <1>1, <1>2, <1>3, <1>4, <1>5, <1>6, <1>7, <1>8, <1>9 DEF Step

-----------------------------------------------------------------------------
(* The files and the windows at work.                                      *)

(* A step goes to the journal's files in one of four ways.                 *)
Quiet(w)  == UNCHANGED journalFiles
Bodies(w) == CreateBody(w) \/ FillBody(w) \/ FailBody(w)
Marks(w)  == CreateMark(w) \/ FillMark(w) \/ FailMark(w)

LEMMA FourWays ==
  ASSUME NEW w \in Windows, Step(w)
  PROVE  Quiet(w) \/ Begin(w) \/ Bodies(w) \/ Marks(w)
BY DEF Step, Quiet, Bodies, Marks, Open, Save, Resume, Report, Refuse, HasBody, Recheck,
   HasMark, After, Cancel, Crash, Goes, Leaves

(* A new revision has the next id; one that is there is taken as it is.    *)
LEMMA Begins ==
  ASSUME WindowsOK, FilesOK, NEW w \in Windows, Begin(w)
  PROVE  \/ /\ UNCHANGED <<rev, ids>> /\ style = "draft"
            /\ \E i \in 1 .. ids : rev[i].parents = seen[w] /\ work' = [work EXCEPT ![w] = i]
         \/ \E n \in Ids, r \in [parents : SUBSET Ids, past : SUBSET Ids, value : Values] :
              /\ n = ids + 1 /\ ids' = n /\ work' = [work EXCEPT ![w] = n]
              /\ rev' = [rev EXCEPT ![n] = r] /\ r.parents = seen[w]
              /\ r.past = seen[w] \cup UNION {rev[j].past : j \in seen[w]}
<1>1. CASE \E i \in Same(w) : work' = [work EXCEPT ![w] = i] /\ UNCHANGED <<rev, ids>>
  BY <1>1 DEF Same
<1>2. CASE /\ ids < MaxRevisions /\ ids' = ids + 1
           /\ work' = [work EXCEPT ![w] = ids + 1]
           /\ rev' = [rev EXCEPT ![ids + 1] =
                        [parents |-> seen[w], value |-> val[w],
                         past |-> seen[w] \cup UNION {rev[j].past : j \in seen[w]}]]
  <2> DEFINE r == [parents |-> seen[w], value |-> val[w],
                   past |-> seen[w] \cup UNION {rev[j].past : j \in seen[w]}]
  <2>1. ids + 1 \in Ids
    BY <1>2, JournalAssumption DEF FilesOK, Ids
  <2>2. seen[w] \subseteq Ids /\ val[w] \in Values
    BY DEF WindowsOK
  <2>3. seen[w] \cup UNION {rev[j].past : j \in seen[w]} \in SUBSET Ids
    BY <2>2 DEF FilesOK
  <2>4. r \in [parents : SUBSET Ids, past : SUBSET Ids, value : Values]
    BY <2>2, <2>3
  <2>5. r.parents = seen[w] /\ r.past = seen[w] \cup UNION {rev[j].past : j \in seen[w]}
    OBVIOUS
  <2> QED BY <1>2, <2>1, <2>4, <2>5
<1> QED BY <1>1, <1>2 DEF Begin

LEMMA FilesKept ==
  ASSUME WindowsOK, FilesOK, Files, Work, Made, NEW w \in Windows, Step(w)
  PROVE  Files'
<1>1. CASE Quiet(w)
  BY <1>1 DEF Quiet, Files, journalFiles
<1>2. CASE Begin(w)
  <2>1. UNCHANGED <<body, mark>>
    BY <1>2 DEF Begin
  <2>2. CASE UNCHANGED <<rev, ids>>
    BY <2>1, <2>2 DEF Files
  <2>3. CASE \E n \in Ids, r \in [parents : SUBSET Ids, past : SUBSET Ids, value : Values] :
               n = ids + 1 /\ ids' = n /\ rev' = [rev EXCEPT ![n] = r]
    BY <2>1, <2>3 DEF Files, FilesOK, Ids
  <2> QED BY <1>2, <2>2, <2>3, Begins
<1>3. CASE Bodies(w)
  <2>1. work[w] \in 1 .. ids /\ UNCHANGED <<rev, mark, ids>>
    BY <1>3 DEF Bodies, CreateBody, FillBody, FailBody, Work, AtWork
  <2>2. body[work[w]] # "whole"
    BY <1>3 DEF Bodies, CreateBody, FillBody, FailBody, Made
  <2>3. \E left \in {"torn", "whole"} : body' = [body EXCEPT ![work[w]] = left]
    BY <1>3 DEF Bodies, CreateBody, FillBody, FailBody
  <2> QED BY <2>1, <2>2, <2>3 DEF Files, FilesOK
<1>4. CASE Marks(w)
  <2>1. work[w] \in 1 .. ids /\ UNCHANGED <<rev, body, ids>>
    BY <1>4 DEF Marks, CreateMark, FillMark, FailMark, Work, AtWork
  <2>2. body[work[w]] = "whole"
    BY <1>4 DEF Marks, CreateMark, FillMark, FailMark, Made
  <2>3. \E left \in {"torn", "whole"} : mark' = [mark EXCEPT ![work[w]] = left]
    BY <1>4 DEF Marks, CreateMark, FillMark, FailMark
  <2> QED BY <2>1, <2>2, <2>3 DEF Files, FilesOK
<1> QED BY <1>1, <1>2, <1>3, <1>4, FourWays

(* Where the window that takes a step may go.                              *)
LEMMA Moves ==
  ASSUME WindowsOK, NEW w \in Windows, Step(w)
  PROVE  /\ \A v \in Windows : v # w => /\ pc'[v] = pc[v] /\ work'[v] = work[v]
                                        /\ seen'[v] = seen[v]
         /\ pc'[w] \in AtWork => \/ /\ pc[w] \in AtWork
                                    /\ work'[w] = work[w] /\ seen'[w] = seen[w]
                                 \/ Begin(w)
<1>1. CASE Open(w) \/ (\E v \in Values : Save(w, v)) \/ (\E i \in Ids : Resume(w, i))
  BY <1>1 DEF Open, Save, Resume, WindowsOK, AtWork
<1>2. CASE Report(w) \/ Refuse(w) \/ After(w) \/ Cancel(w) \/ Crash(w)
  BY <1>2 DEF Report, Refuse, After, Cancel, Crash, Leaves, WindowsOK, AtWork
<1>3. CASE Begin(w)
  <2>1. UNCHANGED seen /\ pc' = [pc EXCEPT ![w] = "body"]
        /\ \E i : work' = [work EXCEPT ![w] = i]
    BY <1>3 DEF Begin
  <2> QED BY <1>3, <2>1 DEF WindowsOK
<1>4. CASE CreateBody(w) \/ FillBody(w) \/ HasBody(w) \/ FailBody(w) \/ Recheck(w)
  BY <1>4 DEF CreateBody, FillBody, HasBody, FailBody, Recheck, Goes, Leaves, WindowsOK, AtWork
<1>5. CASE CreateMark(w) \/ FillMark(w) \/ HasMark(w) \/ FailMark(w)
  BY <1>5 DEF CreateMark, FillMark, HasMark, FailMark, Goes, Leaves, WindowsOK, AtWork
<1> QED BY <1>1, <1>2, <1>3, <1>4, <1>5 DEF Step

(* A revision never changes once it has its id.                            *)
LEMMA RevKept ==
  ASSUME WindowsOK, FilesOK, NEW w \in Windows, Step(w)
  PROVE  /\ ids' \in Nat /\ ids <= ids' /\ \A i \in 1 .. ids : rev'[i] = rev[i]
         /\ ~Begin(w) => UNCHANGED <<rev, ids>>
<1>1. ids \in Nat /\ 1 .. ids \subseteq Ids /\ rev \in [Ids -> [parents : SUBSET Ids, past : SUBSET Ids, value : Values]]
  BY JournalAssumption DEF FilesOK, Ids
<1>2. CASE Begin(w)
  <2>1. CASE UNCHANGED <<rev, ids>>
    BY <1>1, <1>2, <2>1
  <2>2. CASE \E n \in Ids, r \in [parents : SUBSET Ids, past : SUBSET Ids, value : Values] :
               n = ids + 1 /\ ids' = n /\ rev' = [rev EXCEPT ![n] = r]
    BY <1>1, <1>2, <2>2
  <2> QED BY <1>2, <2>1, <2>2, Begins
<1>3. CASE ~Begin(w)
  <2>1. UNCHANGED <<rev, ids>>
    BY <1>3, FourWays DEF Quiet, journalFiles, Bodies, CreateBody, FillBody, FailBody,
       Marks, CreateMark, FillMark, FailMark
  <2> QED BY <1>1, <2>1, <1>3
<1> QED BY <1>2, <1>3

LEMMA WorkKept ==
  ASSUME WindowsOK, FilesOK, Work, NEW w \in Windows, Step(w)
  PROVE  Work'
<1>1. SUFFICES ASSUME NEW v \in Windows, pc'[v] \in AtWork
               PROVE  work'[v] \in 1 .. ids' /\ rev'[work'[v]].parents = seen'[v]
  BY DEF Work, AtWork
<1>2. CASE v # w \/ ~Begin(w)
  <2>1. pc[v] \in AtWork /\ work'[v] = work[v] /\ seen'[v] = seen[v]
    BY <1>1, <1>2, Moves
  <2>2. work[v] \in 1 .. ids /\ rev[work[v]].parents = seen[v]
    BY <2>1 DEF Work
  <2>3. work[v] \in 1 .. ids' /\ rev'[work[v]] = rev[work[v]]
    BY <2>2, RevKept DEF FilesOK
  <2> QED BY <2>1, <2>2, <2>3
<1>3. CASE v = w /\ Begin(w)
  <2>1. UNCHANGED seen
    BY <1>3 DEF Begin
  <2>2. CASE /\ UNCHANGED <<rev, ids>>
             /\ \E i \in 1 .. ids : rev[i].parents = seen[w] /\ work' = [work EXCEPT ![w] = i]
    BY <1>3, <2>1, <2>2 DEF WindowsOK
  <2>3. CASE \E n \in Ids, r \in [parents : SUBSET Ids, past : SUBSET Ids, value : Values] :
               /\ n = ids + 1 /\ ids' = n /\ work' = [work EXCEPT ![w] = n]
               /\ rev' = [rev EXCEPT ![n] = r] /\ r.parents = seen[w]
    <3>1. PICK n \in Ids, r \in [parents : SUBSET Ids, past : SUBSET Ids, value : Values] :
               /\ n = ids + 1 /\ ids' = n /\ work' = [work EXCEPT ![w] = n]
               /\ rev' = [rev EXCEPT ![n] = r] /\ r.parents = seen[w]
      BY <2>3
    <3>2. work'[w] = n /\ rev'[n] = r
      BY <3>1 DEF WindowsOK, FilesOK
    <3>3. n \in 1 .. ids'
      BY <3>1 DEF Ids
    <3> QED BY <1>3, <2>1, <3>1, <3>2, <3>3
  <2> QED BY <1>3, <2>2, <2>3, Begins
<1> QED BY <1>2, <1>3

(* What a step does to a file, and that no other window is filling it.     *)
LEMMA BodySteps ==
  ASSUME WindowsOK, FilesOK, Work, Made, Alone, NEW w \in Windows, Bodies(w)
  PROVE  /\ work[w] \in Ids /\ body[work[w]] # "whole"
         /\ \E left \in {"torn", "whole"} : body' = [body EXCEPT ![work[w]] = left]
         /\ \A v \in Windows : v # w /\ pc[v] = "fill" => work[v] # work[w]
         /\ UNCHANGED <<rev, mark, ids>>
<1>1. work[w] \in Ids
  BY JournalAssumption DEF Bodies, CreateBody, FillBody, FailBody, Work, AtWork, FilesOK, Ids
<1>2. body[work[w]] # "whole" /\ UNCHANGED <<rev, mark, ids>>
  BY DEF Bodies, CreateBody, FillBody, FailBody, Made
<1>3. \E left \in {"torn", "whole"} : body' = [body EXCEPT ![work[w]] = left]
  BY DEF Bodies, CreateBody, FillBody, FailBody
<1>4. ASSUME NEW v \in Windows, v # w, pc[v] = "fill" PROVE work[v] # work[w]
  BY <1>4 DEF Bodies, CreateBody, FillBody, FailBody, Made, Alone
<1> QED BY <1>1, <1>2, <1>3, <1>4

LEMMA MarkSteps ==
  ASSUME WindowsOK, FilesOK, Work, Made, Alone, NEW w \in Windows, Marks(w)
  PROVE  /\ work[w] \in Ids /\ mark[work[w]] # "whole" /\ body[work[w]] = "whole"
         /\ \E left \in {"torn", "whole"} : mark' = [mark EXCEPT ![work[w]] = left]
         /\ \A v \in Windows : v # w /\ pc[v] = "seal" => work[v] # work[w]
         /\ UNCHANGED <<rev, body, ids>>
<1>1. work[w] \in Ids
  BY JournalAssumption DEF Marks, CreateMark, FillMark, FailMark, Work, AtWork, FilesOK, Ids
<1>2. mark[work[w]] # "whole" /\ body[work[w]] = "whole" /\ UNCHANGED <<rev, body, ids>>
  BY DEF Marks, CreateMark, FillMark, FailMark, Made
<1>3. \E left \in {"torn", "whole"} : mark' = [mark EXCEPT ![work[w]] = left]
  BY DEF Marks, CreateMark, FillMark, FailMark
<1>4. ASSUME NEW v \in Windows, v # w, pc[v] = "seal" PROVE work[v] # work[w]
  BY <1>4 DEF Marks, CreateMark, FillMark, FailMark, Made, Alone
<1> QED BY <1>1, <1>2, <1>3, <1>4

LEMMA MadeKept ==
  ASSUME WindowsOK, FilesOK, Work, Made, Alone, NEW w \in Windows, Step(w)
  PROVE  Made'
<1>1. \A v \in Windows : pc[v] \in AtWork => work[v] \in Ids
  BY JournalAssumption DEF Work, FilesOK, Ids
<1>2. \A v \in Windows : v # w => pc'[v] = pc[v] /\ work'[v] = work[v]
  BY Moves
(* The other windows.                                                      *)
<1>3. ASSUME NEW v \in Windows, v # w
      PROVE  /\ pc[v] = "fill" => body'[work[v]] = "torn"
             /\ pc[v] \in {"recheck", "mark", "seal", "after"} => body'[work[v]] = "whole"
             /\ pc[v] = "seal" => mark'[work[v]] = "torn"
             /\ pc[v] = "after" => mark'[work[v]] = "whole"
  <2>1. CASE Quiet(w) \/ Begin(w)
    BY <2>1 DEF Quiet, journalFiles, Begin, Made
  <2>2. CASE Bodies(w)
    BY <2>2, <1>1, <1>3, BodySteps DEF Made, FilesOK, AtWork
  <2>3. CASE Marks(w)
    BY <2>3, <1>1, <1>3, MarkSteps DEF Made, FilesOK, AtWork
  <2> QED BY <2>1, <2>2, <2>3, FourWays
(* The one that takes the step.                                            *)
<1>4. /\ pc'[w] = "fill" => body'[work'[w]] = "torn"
      /\ pc'[w] \in {"recheck", "mark", "seal", "after"} => body'[work'[w]] = "whole"
      /\ pc'[w] = "seal" => mark'[work'[w]] = "torn"
      /\ pc'[w] = "after" => mark'[work'[w]] = "whole"
  <2>1. CASE pc'[w] \notin {"fill", "recheck", "mark", "seal", "after"}
    BY <2>1
  <2>2. CASE CreateBody(w) \/ FillBody(w) \/ FailBody(w) \/ HasBody(w)
    BY <2>2, <1>1 DEF CreateBody, FillBody, FailBody, HasBody, Goes, Leaves, WindowsOK,
       FilesOK, AtWork, journalFiles
  <2>3. CASE Recheck(w) \/ HasMark(w)
    BY <2>3, <1>1 DEF Recheck, HasMark, Goes, Leaves, WindowsOK, AtWork, Made, journalFiles
  <2>4. CASE CreateMark(w) \/ FillMark(w) \/ FailMark(w)
    BY <2>4, <1>1 DEF CreateMark, FillMark, FailMark, Goes, Leaves, WindowsOK, AtWork, Made,
       FilesOK
  <2>5. CASE Begin(w)
    BY <2>5 DEF Begin, WindowsOK
  <2>6. CASE \/ Open(w) \/ (\E v \in Values : Save(w, v)) \/ (\E i \in Ids : Resume(w, i))
             \/ Report(w) \/ Refuse(w) \/ After(w) \/ Cancel(w) \/ Crash(w)
    BY <2>6 DEF Open, Save, Resume, Report, Refuse, After, Cancel, Crash, Leaves, WindowsOK
  <2> QED BY <2>2, <2>3, <2>4, <2>5, <2>6 DEF Step
<1> QED BY <1>2, <1>3, <1>4 DEF Made

LEMMA AloneKept ==
  ASSUME WindowsOK, FilesOK, Work, Made, Alone, NEW w \in Windows, Step(w)
  PROVE  Alone'
<1>1. \A v \in Windows : v # w => pc'[v] = pc[v] /\ work'[v] = work[v]
  BY Moves
<1>2. pc'[w] = "fill" => CreateBody(w) /\ work'[w] = work[w]
  BY DEF Step, Open, Save, Resume, Report, Refuse, Begin, CreateBody, FillBody, HasBody,
     FailBody, Recheck, CreateMark, FillMark, HasMark, FailMark, After, Cancel, Crash,
     Goes, Leaves, WindowsOK
<1>3. pc'[w] = "seal" => CreateMark(w) /\ work'[w] = work[w]
  BY DEF Step, Open, Save, Resume, Report, Refuse, Begin, CreateBody, FillBody, HasBody,
     FailBody, Recheck, CreateMark, FillMark, HasMark, FailMark, After, Cancel, Crash,
     Goes, Leaves, WindowsOK
<1>4. CreateBody(w) => Bodies(w)
  BY DEF Bodies
<1>5. CreateMark(w) => Marks(w)
  BY DEF Marks
<1>6. ASSUME NEW v \in Windows, v # w, pc'[v] = pc'[w], pc'[w] \in {"fill", "seal"}
      PROVE  work'[v] # work'[w]
  BY <1>1, <1>2, <1>3, <1>4, <1>5, <1>6, BodySteps, MarkSteps
<1> QED BY <1>1, <1>6 DEF Alone

-----------------------------------------------------------------------------
(* The ancestry, and what everybody knows.                                 *)

(* A revision is committed by the step that makes its marker whole.        *)
Committing(w) == /\ pc[w] = "seal" /\ work[w] \in Ids /\ work[w] \notin Committed
                 /\ mark' = [mark EXCEPT ![work[w]] = "whole"]
                 /\ Committed' = Committed \cup {work[w]} /\ UNCHANGED <<style, rev, ids, told>>

LEMMA Commits ==
  ASSUME WindowsOK, FilesOK, Files, Work, Made, Alone, NEW w \in Windows, Step(w)
  PROVE  Committed' = Committed \/ Committing(w)
<1>1. CASE Quiet(w) \/ Begin(w)
  BY <1>1 DEF Quiet, Begin, journalFiles, Committed
<1>2. CASE Bodies(w)
  <2>1. mark[work[w]] = "none"
    BY <1>2, BodySteps DEF Files, FilesOK
  <2> QED BY <1>2, <2>1, BodySteps DEF Committed, FilesOK
<1>3. CASE Marks(w)
  <2>1. PICK left \in {"torn", "whole"} : mark' = [mark EXCEPT ![work[w]] = left]
    BY <1>3, MarkSteps
  <2>2. work[w] \in Ids /\ mark[work[w]] # "whole" /\ body[work[w]] = "whole" /\ UNCHANGED body
    BY <1>3, MarkSteps
  <2>3. CASE left = "torn"
    BY <2>1, <2>2, <2>3 DEF Committed, FilesOK
  <2>4. CASE left = "whole"
    <3>1. mark'[work[w]] = "whole"
      BY <2>1, <2>2, <2>4 DEF FilesOK
    <3>2. pc[w] = "seal" /\ UNCHANGED <<style, rev, ids, told>>
      BY <1>3, <2>2, <3>1 DEF Marks, CreateMark, FillMark, FailMark, FilesOK
    <3>3. work[w] \notin Committed /\ Committed' = Committed \cup {work[w]}
      BY <2>1, <2>2, <2>4 DEF Committed, FilesOK
    <3> QED BY <2>1, <2>2, <2>4, <3>2, <3>3 DEF Committing
  <2> QED BY <2>3, <2>4
<1> QED BY <1>1, <1>2, <1>3, FourWays

LEMMA CommittedIssued ==
  ASSUME FilesOK, Files PROVE Committed \subseteq 1 .. ids
BY JournalAssumption DEF Committed, Files, FilesOK, Ids

LEMMA AncestryKept ==
  ASSUME WindowsOK, FilesOK, Files, Ancestry, Known, NEW w \in Windows, Step(w)
  PROVE  Ancestry'
<1>1. CASE UNCHANGED rev
  BY <1>1 DEF Ancestry
<1>2. CASE ~UNCHANGED rev
  <2>1. Begin(w)
    BY <1>2, RevKept
  <2>2. PICK n \in Ids, r \in [parents : SUBSET Ids, past : SUBSET Ids, value : Values] :
           /\ n = ids + 1 /\ rev' = [rev EXCEPT ![n] = r] /\ r.parents = seen[w]
           /\ r.past = seen[w] \cup UNION {rev[j].past : j \in seen[w]}
    BY <1>2, <2>1, Begins
  <2>3. seen[w] \subseteq 1 .. ids
    BY CommittedIssued DEF Known
  <2>4. \A j \in 1 .. ids : j \in Ids /\ j # n /\ j < n /\ rev'[j] = rev[j]
    BY <2>2, JournalAssumption DEF FilesOK, Ids
  <2>5. rev'[n] = r
    BY <2>2 DEF FilesOK
  <2>6. \A j \in 1 .. ids : rev[j].past \subseteq 1 .. ids
    BY <2>4, JournalAssumption DEF Ancestry, FilesOK, Ids
  <2>7. ASSUME NEW j \in r.past
        PROVE  j \in 1 .. ids /\ rev[j].past \subseteq r.past
    <3>1. CASE j \in seen[w]
      BY <2>2, <2>3, <3>1
    <3>2. CASE \E k \in seen[w] : j \in rev[k].past
      <4>1. PICK k \in seen[w] : j \in rev[k].past
        BY <3>2
      <4>2. k \in Ids /\ rev[k].past \subseteq r.past /\ k \in 1 .. ids
        BY <2>2, <2>3, <2>4
      <4>3. rev[j].past \subseteq rev[k].past /\ j \in 1 .. ids
        BY <4>1, <4>2, <2>6 DEF Ancestry
      <4> QED BY <4>2, <4>3
    <3> QED BY <2>2, <2>7, <3>1, <3>2
  <2>8. \A i \in Ids : i # n => rev'[i] = rev[i]
    BY <2>2 DEF FilesOK
  <2>9. ASSUME NEW i \in Ids, i # n, NEW j \in rev[i].past
        PROVE  j < i /\ rev'[j].past \subseteq rev[i].past
    <3>1. i \in 1 .. ids
      BY <2>2, <2>9, JournalAssumption DEF Files, FilesOK, Ids, NoRev
    <3>2. j \in 1 .. ids
      BY <2>6, <2>9, <3>1
    <3> QED BY <2>4, <2>9, <3>2 DEF Ancestry
  <2>10. ASSUME NEW i \in Ids, i # n
         PROVE  rev'[i].parents \subseteq rev'[i].past
    BY <2>8, <2>10 DEF Ancestry
  <2>11. rev'[n].parents \subseteq rev'[n].past
    BY <2>2, <2>5
  <2>12. ASSUME NEW j \in rev'[n].past PROVE j < n /\ rev'[j].past \subseteq rev'[n].past
    BY <2>4, <2>5, <2>7, <2>12
  <2> QED BY <2>8, <2>9, <2>10, <2>11, <2>12 DEF Ancestry
<1> QED BY <1>1, <1>2

LEMMA KnownKept ==
  ASSUME WindowsOK, FilesOK, Files, Work, Made, Alone, Ancestry, Known,
         NEW w \in Windows, Step(w)
  PROVE  Known'
<1>1. Committed \subseteq Committed'
  BY Commits DEF Committing
<1>2. \A i \in Ids : rev'[i].past \subseteq Committed
  <2>1. CASE UNCHANGED rev
    BY <2>1 DEF Known
  <2>2. CASE ~UNCHANGED rev
    <3>1. Begin(w)
      BY <2>2, RevKept
    <3>2. PICK n \in Ids, r \in [parents : SUBSET Ids, past : SUBSET Ids, value : Values] :
             /\ rev' = [rev EXCEPT ![n] = r]
             /\ r.past = seen[w] \cup UNION {rev[j].past : j \in seen[w]}
      BY <2>2, <3>1, Begins
    <3>3. seen[w] \subseteq Committed /\ \A j \in seen[w] : rev[j].past \subseteq Committed
      BY HeadsAreIds DEF Known
    <3> QED BY <3>2, <3>3 DEF Known, FilesOK
  <2> QED BY <2>1, <2>2
<1>3. \A v \in Windows : seen'[v] \subseteq Committed
  <2>1. CASE Open(w)
    BY <2>1 DEF Open, Known, Heads, WindowsOK
  <2>2. CASE \E i \in Ids : Resume(w, i)
    BY <2>2 DEF Resume, Known, Ancestry, WindowsOK
  <2>3. CASE UNCHANGED seen \/ Leaves(w)
    BY <2>3 DEF Leaves, Known, WindowsOK
  <2>4. Open(w) \/ (\E i \in Ids : Resume(w, i)) \/ UNCHANGED seen \/ Leaves(w)
    BY DEF Step, Save, Report, Refuse, Begin, CreateBody, FillBody, HasBody,
       FailBody, Recheck, CreateMark, FillMark, HasMark, FailMark, After, Cancel, Crash, Goes
  <2> QED BY <2>1, <2>2, <2>3, <2>4
<1>4. told' \subseteq Committed
  <2>1. CASE Report(w)
    BY <2>1 DEF Report, Unchanged, Heads, Known
  <2>2. CASE After(w)
    BY <2>2 DEF After, Heads, Known
  <2>3. CASE UNCHANGED told
    BY <2>3 DEF Known
  <2>4. Report(w) \/ After(w) \/ UNCHANGED told
    BY DEF Step, Open, Save, Resume, Refuse, Begin, CreateBody, FillBody, HasBody,
       FailBody, Recheck, CreateMark, FillMark, HasMark, FailMark, Cancel, Crash
  <2> QED BY <2>1, <2>2, <2>3, <2>4
<1> QED BY <1>1, <1>2, <1>3, <1>4 DEF Known

-----------------------------------------------------------------------------
(* Drafts.                                                                 *)
LEMMA HeadsKept ==
  ASSUME Committed' = Committed, \A i \in Committed : rev'[i] = rev[i]
  PROVE  Heads' = Heads
BY DEF Heads

(* A revision that is committed takes the place of its parents.            *)
LEMMA HeadsReplaced ==
  ASSUME FilesOK, Ancestry, Known, NEW w \in Windows, Committing(w)
  PROVE  Heads' = {work[w]} \cup (Heads \ rev[work[w]].parents)
<1>1. /\ work[w] \in Ids /\ work[w] \notin Committed
      /\ Committed' = Committed \cup {work[w]} /\ UNCHANGED rev
  BY DEF Committing
<1>2. \A i \in Ids : rev[i].parents \subseteq Committed
  BY DEF Ancestry, Known
<1>3. \A i \in Committed : i \in Ids
  BY HeadsAreIds
<1>4. ASSUME NEW i PROVE i \in Heads' <=> i \in {work[w]} \cup (Heads \ rev[work[w]].parents)
  BY <1>1, <1>2, <1>3 DEF Heads
<1> QED BY <1>4

(* Whoever is about to commit was, or has just passed the recheck.         *)
LEMMA Seals ==
  ASSUME WindowsOK, FilesOK, Work, Made, Alone, style = "draft",
         NEW w \in Windows, Step(w), NEW v \in Windows, Sealing(v)'
  PROVE  /\ work'[v] = work[v] /\ mark[work[v]] # "whole" /\ pc[v] \in AtWork
         /\ Sealing(v) \/ (v = w /\ Recheck(w) /\ Passes(w, {work[w]}))
<1>1. pc'[v] \in {"mark", "seal"} /\ mark'[work'[v]] # "whole" /\ pc'[v] \in AtWork
  BY DEF Sealing, AtWork
<1>2. ~Begin(w) \/ v # w
  BY <1>1 DEF Begin, WindowsOK
<1>3. work'[v] = work[v] /\ pc[v] \in AtWork
  BY <1>1, <1>2, Moves
<1>4. work[v] \in Ids
  BY <1>3, JournalAssumption DEF Work, FilesOK, Ids
<1>5. mark[work[v]] # "whole"
  <2>1. CASE UNCHANGED mark
    BY <1>1, <1>3, <2>1
  <2>2. CASE Marks(w)
    BY <1>1, <1>3, <1>4, <2>2, MarkSteps DEF FilesOK
  <2>3. UNCHANGED mark \/ Marks(w)
    BY FourWays, BodySteps DEF Quiet, Begin, journalFiles
  <2> QED BY <2>1, <2>2, <2>3
<1>6. CASE v # w
  <2>1. pc'[v] = pc[v]
    BY <1>6, Moves
  <2> QED BY <1>1, <1>3, <1>5, <2>1 DEF Sealing
<1>7. CASE v = w
  <2>1. pc[w] \in {"mark", "seal"} \/ (Recheck(w) /\ Passes(w, {work[w]}))
    BY <1>1, <1>7 DEF Step, Open, Save, Resume, Report, Refuse, Begin, CreateBody, FillBody,
       HasBody, FailBody, Recheck, CreateMark, FillMark, HasMark, FailMark, After, Cancel,
       Crash, Goes, Leaves, WindowsOK
  <2> QED BY <1>3, <1>5, <1>7, <2>1 DEF Sealing
<1> QED BY <1>6, <1>7

LEMMA DraftsKept ==
  ASSUME IInv, NEW w \in Windows, Step(w)
  PROVE  Drafts'
<1>1. WindowsOK /\ FilesOK /\ Files /\ Work /\ Made /\ Alone /\ Ancestry /\ Known /\ Drafts
  BY TypesParted DEF IInv
<1>2. UNCHANGED style
  BY DEF Step, Open, Save, Resume, Report, Refuse, Begin, CreateBody, FillBody, HasBody,
     FailBody, Recheck, CreateMark, FillMark, HasMark, FailMark, After, Cancel, Crash
<1>3. SUFFICES ASSUME style = "draft"
               PROVE  /\ Heads' = {} \/ \E h \in Ids : Heads' = {h}
                      /\ \A v \in Windows : Sealing(v)' => Heads' = rev'[work'[v]].parents
                      /\ \A u, v \in Windows : Sealing(u)' /\ Sealing(v)' => work'[u] = work'[v]
  BY <1>2 DEF Drafts
<1>4. \A v \in Windows : Sealing(v)' =>
         /\ work'[v] = work[v] /\ mark[work[v]] # "whole" /\ pc[v] \in AtWork
         /\ Sealing(v) \/ (v = w /\ Recheck(w) /\ Passes(w, {work[w]}))
  BY <1>1, <1>3, Seals
<1>5. CASE Committing(w)
  <2>1. Sealing(w) /\ work[w] \in Ids
    BY <1>1, <1>5 DEF Committing, Sealing, Made
  <2>2. Heads' = {work[w]}
    BY <1>1, <1>3, <1>5, <2>1, HeadsReplaced DEF Drafts
  <2>3. ASSUME NEW v \in Windows, Sealing(v)' PROVE FALSE
    <3>1. Sealing(v)
      BY <1>4, <1>5, <2>3 DEF Recheck, Committing
    <3>2. work'[v] = work[w]
      BY <1>1, <1>3, <1>4, <2>1, <2>3, <3>1 DEF Drafts
    <3>3. mark'[work[w]] = "whole"
      BY <1>1, <1>5, <2>1 DEF Committing, FilesOK
    <3> QED BY <2>3, <3>2, <3>3 DEF Sealing
  <2> QED BY <2>1, <2>2, <2>3
<1>6. CASE Committed' = Committed
  <2>1. \A i \in 1 .. ids : rev'[i] = rev[i]
    BY <1>1, RevKept
  <2>2. Heads' = Heads
    BY <1>1, <1>6, <2>1, HeadsKept, CommittedIssued
  <2>3. ASSUME Recheck(w), Passes(w, {work[w]}), mark[work[w]] # "whole"
        PROVE  /\ Heads = rev[work[w]].parents
               /\ \A v \in Windows : Sealing(v) => work[v] = work[w]
    <3>1. work[w] \in 1 .. ids /\ rev[work[w]].parents = seen[w]
      BY <1>1, <2>3 DEF Recheck, Work, AtWork
    <3>2. work[w] \notin Heads
      BY <2>3 DEF Heads, Committed
    <3>3. Heads = seen[w] /\ Pending \subseteq {work[w]} /\ ~Broken
      BY <1>3, <2>3, <3>2 DEF Passes
    <3>4. ASSUME NEW v \in Windows, Sealing(v) PROVE work[v] = work[w]
      <4>1. work[v] \in Ids /\ body[work[v]] = "whole"
        BY <1>1, <3>4, JournalAssumption DEF Sealing, Work, AtWork, Made, FilesOK, Ids
      <4>2. mark[work[v]] = "none"
        BY <1>1, <3>3, <3>4, <4>1 DEF Sealing, Broken, FilesOK
      <4> QED BY <3>3, <4>1, <4>2 DEF Pending
    <3> QED BY <3>1, <3>3, <3>4
  <2>4. ASSUME NEW v \in Windows, Sealing(v)' PROVE Heads' = rev'[work'[v]].parents
    <3>1. Heads = rev[work[v]].parents
      BY <1>1, <1>3, <1>4, <2>3, <2>4 DEF Drafts
    <3>2. work[v] \in 1 .. ids
      BY <1>1, <1>4, <2>4 DEF Work
    <3> QED BY <1>4, <2>1, <2>2, <2>4, <3>1, <3>2
  <2>5. ASSUME NEW u \in Windows, NEW v \in Windows, Sealing(u)', Sealing(v)'
        PROVE  work'[u] = work'[v]
    <3>1. /\ work'[u] = work[u] /\ mark[work[u]] # "whole"
          /\ Sealing(u) \/ (u = w /\ Recheck(w) /\ Passes(w, {work[w]}))
      BY <1>4, <2>5
    <3>2. /\ work'[v] = work[v] /\ mark[work[v]] # "whole"
          /\ Sealing(v) \/ (v = w /\ Recheck(w) /\ Passes(w, {work[w]}))
      BY <1>4, <2>5
    <3>3. Sealing(u) /\ Sealing(v) => work[u] = work[v]
      BY <1>1, <1>3 DEF Drafts
    <3> QED BY <2>3, <3>1, <3>2, <3>3
  <2> QED BY <1>1, <1>3, <2>2, <2>4, <2>5 DEF Drafts
<1> QED BY <1>1, <1>5, <1>6, Commits

-----------------------------------------------------------------------------
(* The invariant, and what follows.                                        *)
LEMMA NextIInv == IInv /\ [Next]_journalVars => IInv'
<1> SUFFICES ASSUME IInv, [Next]_journalVars PROVE IInv'
  OBVIOUS
<1>1. CASE Next
  <2>1. PICK w \in Windows : Step(w)
    BY <1>1, Steps
  <2>2. WindowsOK /\ FilesOK /\ Files /\ Work /\ Made /\ Alone /\ Ancestry /\ Known
    BY TypesParted DEF IInv
  <2>3. TypeOK'
    <3>1. WindowsOK' /\ FilesOK'
      BY <2>1, <2>2, TypesKept
    <3> QED BY <3>1 DEF TypeOK, WindowsOK, FilesOK, Places
  <2>4. Files' /\ Work'
    BY <2>1, <2>2, FilesKept, WorkKept
  <2>5. Made' /\ Alone'
    BY <2>1, <2>2, MadeKept, AloneKept
  <2>6. Ancestry' /\ Known'
    BY <2>1, <2>2, AncestryKept, KnownKept
  <2>7. Drafts'
    BY <2>1, DraftsKept
  <2> QED BY <2>3, <2>4, <2>5, <2>6, <2>7 DEF IInv
<1>2. CASE UNCHANGED journalVars
  BY <1>2 DEF journalVars, journalFiles, windowState, IInv, TypeOK, Files, Work, Made, Alone,
     Ancestry, Known, Drafts, Sealing, Committed, Heads
<1> QED BY <1>1, <1>2

LEMMA Invariance == Spec => []IInv
BY InitIInv, NextIInv, PTL DEF Spec

(* Every reachable state of a journal is well typed, for any number of     *)
(* windows and revisions.                                                  *)
THEOREM TypeCorrect == Spec => []TypeOK
<1>1. IInv => TypeOK
  BY DEF IInv
<1> QED BY <1>1, Invariance, PTL

(* Two windows that save the same draft at the same time may both be       *)
(* refused but never both commit (draft-store.ts:102): what is committed   *)
(* of a draft has at most one head.                                        *)
THEOREM DraftsNeverFork == Spec => []DraftNeverForks
<1>1. IInv => DraftNeverForks
  <2> SUFFICES ASSUME IInv, style = "draft" PROVE Cardinality(Heads) <= 1
    BY DEF DraftNeverForks
  <2>1. CASE Heads = {}
    <3>1. Cardinality(Heads) = 0
      BY <2>1, FS_EmptySet
    <3> QED BY <3>1
  <2>2. ASSUME NEW h \in Ids, Heads = {h} PROVE Cardinality(Heads) <= 1
    <3>1. Cardinality(Heads) = 1
      BY <2>2, FS_Singleton
    <3> QED BY <3>1
  <2> QED BY <2>1, <2>2 DEF IInv, Drafts
<1> QED BY <1>1, Invariance, PTL

(* A save is reported when its revision is the only head, and then it      *)
(* knows all the others.                                                   *)
LEMMA StepImplements ==
  ASSUME IInv, Next PROVE [Ledger!Next]_(Ledger!ledger)
<1>1. PICK w \in Windows : Step(w)
  BY Steps
<1>2. TypeOK /\ WindowsOK /\ FilesOK /\ Files /\ Work /\ Made /\ Alone /\ Ancestry /\ Known
  BY TypesParted DEF IInv
<1> DEFINE history == [i \in Committed |-> rev[i].past]
<1>3. CASE Committing(w)
  <2>1. /\ work[w] \in Ids /\ work[w] \notin Committed /\ UNCHANGED told
        /\ Committed' = Committed \cup {work[w]} /\ UNCHANGED rev
    BY <1>3 DEF Committing
  <2>2. PICK i \in Ids, past \in SUBSET Ids : i = work[w] /\ past = rev[work[w]].past
    BY <1>2, <2>1 DEF FilesOK
  <2>3. past \in SUBSET Committed /\ i \notin Committed
    BY <1>2, <2>1, <2>2 DEF Known
  <2>4. history' = [j \in Committed \cup {i} |-> IF j = i THEN past ELSE history[j]]
    BY <2>1, <2>2
  <2>5. Ledger!Commit(i, past)
    BY <2>1, <2>3, <2>4 DEF Ledger!Commit
  <2> QED BY <2>3, <2>5 DEF Ledger!Next
<1>4. CASE Committed' = Committed
  <2>1. \A i \in Committed : rev'[i] = rev[i]
    BY <1>1, <1>2, RevKept, CommittedIssued
  <2>2. history' = history
    BY <1>4, <2>1
  <2>3. ASSUME NEW i \in Ids, Heads = {i}, told' = told \cup {i}
        PROVE  Ledger!Next
    <3>1. i \in Committed
      BY <2>3 DEF Heads
    <3>2. Committed \ {i} \subseteq rev[i].past
      BY <1>2, <2>3, HeadKnowsAll
    <3>3. Ledger!Tell(i)
      BY <2>2, <2>3, <3>1, <3>2 DEF Ledger!Tell
    <3> QED BY <3>3 DEF Ledger!Next
  <2>4. CASE Report(w)
    BY <2>3, <2>4 DEF Report, Unchanged
  <2>5. CASE After(w)
    <3>1. work[w] \in Ids
      BY <1>2, <2>5, JournalAssumption DEF After, Work, AtWork, FilesOK, Ids
    <3> QED BY <2>2, <2>3, <2>5, <3>1 DEF After, Ledger!ledger
  <2>6. CASE UNCHANGED told
    BY <2>2, <2>6 DEF Ledger!ledger
  <2>7. Report(w) \/ After(w) \/ UNCHANGED told
    BY <1>1 DEF Step, Open, Save, Resume, Refuse, Begin, CreateBody, FillBody, HasBody,
       FailBody, Recheck, CreateMark, FillMark, HasMark, FailMark, Cancel, Crash
  <2> QED BY <2>4, <2>5, <2>6, <2>7
<1> QED BY <1>1, <1>2, <1>3, <1>4, Commits

(* "Append-only journal: no replace, delete, lock eviction, startup repair *)
(* or time-based winner" (record-store.ts:143): the files of each of the   *)
(* four stores implement the ledger, so of two saves reported as done one  *)
(* was made with knowledge of the other.                                   *)
THEOREM JournalImplementsLedger == Spec => ImplementsLedger
<1>1. Init => Ledger!Init
  <2>1. Init => Committed = {} /\ told = {}
    BY DEF Init, Committed
  <2> QED BY <2>1 DEF Ledger!Init
<1>2. IInv /\ [Next]_journalVars => [Ledger!Next]_(Ledger!ledger)
  <2>1. ASSUME UNCHANGED journalVars PROVE UNCHANGED Ledger!ledger
    BY <2>1 DEF journalVars, journalFiles, Ledger!ledger, Committed
  <2> QED BY <2>1, StepImplements
<1> QED BY <1>1, <1>2, Invariance, PTL DEF Spec, ImplementsLedger, Ledger!Spec
=============================================================================
