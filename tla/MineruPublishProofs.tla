------------------------- MODULE MineruPublishProofs -------------------------
(***************************************************************************)
(* Proofs about publishMineruPackage, for any number of publishers,        *)
(* crashes and restarts.                                                   *)
(***************************************************************************)
EXTENDS MineruPublish, SequenceTheorems, TLAPS

Places == {"idle", "open", "inspect", "compare", "unlink", "reopen", "write",
           "done", "crashed"} \cup Critical

(* The lock files ever made, and who has which.                            *)
LockFiles == [by : Publishers, inc : Nat, known : BOOLEAN, written : BOOLEAN]

LockType ==
  /\ inodes \in Seq(LockFiles) /\ lock \in 0 .. Len(inodes)
  /\ fd \in [Publishers -> 0 .. Len(inodes)] /\ seen \in [Publishers -> Nat]

WorkType ==
  /\ pc \in [Publishers -> Places] /\ inc \in [Publishers -> Nat]
  /\ aborted \in [Publishers -> BOOLEAN]
  /\ target \in [by : Publishers \cup {Nobody}, inc : Nat, whole : BOOLEAN]
  /\ box \in [Publishers -> {"none", "partial", "full"}]
  /\ stage \in [Publishers -> {"none", "present", "removed"}]
  /\ child \in [Publishers -> BOOLEAN] /\ preserve \in [Publishers -> BOOLEAN]
  /\ result \in [Publishers -> {"none", "failed", "published"}]
  /\ crashes \in Nat /\ restarts \in Nat

PublishType == LockType /\ WorkType

(* What is renamed has been copied and checked.                            *)
Copied == \A p \in Publishers : pc[p] \in {"recheck", "rename"} => box[p] = "full"

(* Who is told it has published did so, in its present incarnation.        *)
Receipts ==
  \A p \in Publishers :
    result[p] = "published" =>
      target # NoPackage /\ target.by = p /\ target.inc = inc[p]

(* The staging tree of a command that may be alive is preserved, and goes  *)
(* only after everything that works in it.                                 *)
Staging ==
  \A p \in Publishers :
    /\ child[p] => preserve[p] /\ stage[p] # "removed"
    /\ stage[p] = "removed" => pc[p] \in {"release", "unlock", "done", "crashed"}

(* As long as nobody has died nobody can be proved to have, so nobody gets *)
(* as far as to compare or unlink a lock; and a lock that was created is   *)
(* its creator's until it is released.                                     *)
NobodyDied ==
  /\ \A p \in Publishers : /\ inc[p] = 0
                           /\ pc[p] \notin {"crashed", "compare", "unlink", "reopen"}
  /\ \A i \in 1 .. Len(inodes) : inodes[i].inc = 0

Holding == Critical \cup {"write"}

OwnLocks ==
  /\ \A p \in Publishers : pc[p] \in Holding => lock = fd[p] /\ fd[p] # NoLock
  /\ \A p, q \in Publishers : fd[p] = fd[q] /\ fd[p] # NoLock => p = q

Live == crashes = 0 => NobodyDied /\ OwnLocks

IInv == PublishType /\ PublishedWhole /\ Copied /\ Receipts /\ Staging /\ Live

LEMMA InitIInv == Init => IInv
<1> SUFFICES ASSUME Init PROVE IInv
  OBVIOUS
<1> USE DEF Init, NoPackage, NoLock, Nobody
<1>1. PublishType
  BY DEF PublishType, LockType, LockFiles, WorkType, Places, Critical
<1>2. PublishedWhole /\ Copied /\ Receipts /\ Staging
  BY DEF PublishedWhole, Copied, Receipts, Staging
<1>3. Live
  BY DEF Live, NobodyDied, OwnLocks, Holding, Critical
<1> QED BY <1>1, <1>2, <1>3 DEF IInv

(* A lock file is created at its path, or the publisher gives up.          *)
LEMMA OpenKeeps ==
  ASSUME PublishType, Live, NEW p \in Publishers, Open(p, "write"),
         pc[p] \in {"open", "reopen"}
  PROVE  PublishType' /\ Live'
<1> USE DEF Go, Throw, fs, work, fate, NoLock, Places, Critical, Holding, PublishType
<1>1. ASSUME Throw(p, "done"), UNCHANGED <<lock, inodes, fd>>
      PROVE  PublishType' /\ Live'
  <2>1. LockType'
    BY <1>1 DEF Open, LockType
  <2>2. WorkType' /\ Live'
    BY <1>1 DEF Open, LockType, WorkType, Live, NobodyDied, OwnLocks
  <2> QED BY <2>1, <2>2
<1>2. ASSUME NEW known \in BOOLEAN, lock = NoLock,
             inodes' = Append(inodes, [by |-> p, inc |-> inc[p], known |-> known,
                                       written |-> FALSE]),
             lock' = Len(inodes'), fd' = [fd EXCEPT ![p] = Len(inodes')],
             pc' = [pc EXCEPT ![p] = "write"], UNCHANGED result
      PROVE  PublishType' /\ Live'
  <2>0. UNCHANGED <<aborted, seen, target, box, stage, child, preserve, inc, crashes,
                    restarts>>
    BY DEF Open
  <2> DEFINE file == [by |-> p, inc |-> inc[p], known |-> known, written |-> FALSE]
  <2>1. file \in LockFiles /\ inodes \in Seq(LockFiles)
    BY DEF LockType, WorkType, LockFiles
  <2>2. /\ inodes' \in Seq(LockFiles) /\ Len(inodes') = Len(inodes) + 1
        /\ \A i \in 1 .. Len(inodes) : inodes'[i] = inodes[i]
        /\ inodes'[Len(inodes) + 1] = file
    BY <2>1, <1>2
  <2>3. Len(inodes) \in Nat
    BY <2>1
  <2>4. fd' \in [Publishers -> 0 .. Len(inodes')] /\ lock' \in 0 .. Len(inodes')
    BY <1>2, <2>2, <2>3 DEF LockType
  <2>5. PublishType'
    BY <1>2, <2>0, <2>2, <2>4 DEF LockType, WorkType
  <2>6. CASE crashes = 0
    <3>1. NobodyDied /\ OwnLocks
      BY <2>6 DEF Live
    <3>2. file.inc = 0
      BY <3>1 DEF NobodyDied
    <3>3. NobodyDied'
      BY <1>2, <2>0, <2>2, <2>3, <3>1, <3>2 DEF NobodyDied, WorkType
    <3>4. \A q \in Publishers : q # p => pc[q] \notin Holding
      BY <1>2, <3>1 DEF OwnLocks
    <3>5. \A q \in Publishers : /\ q # p => fd'[q] = fd[q] /\ pc'[q] = pc[q]
                                /\ fd[q] <= Len(inodes) /\ fd[q] \in Nat
      BY <1>2, <2>3 DEF LockType, WorkType
    <3>6. fd'[p] = Len(inodes) + 1 /\ lock' = Len(inodes) + 1
      BY <1>2, <2>2 DEF LockType
    <3>7. OwnLocks'
      BY <2>3, <3>1, <3>4, <3>5, <3>6 DEF OwnLocks
    <3> QED BY <2>5, <3>3, <3>7 DEF Live
  <2>7. CASE crashes # 0
    <3>1. crashes' = crashes
      BY <2>0
    <3> QED BY <2>5, <2>7, <3>1 DEF Live
  <2> QED BY <2>5, <2>6, <2>7
<1> QED BY <1>1, <1>2 DEF Open

(* The record of a lock is written to its file.                            *)
LEMMA WrittenKeeps ==
  ASSUME PublishType, NEW p \in Publishers, Written(p)
  PROVE  /\ inodes' \in Seq(LockFiles)
         /\ Len(inodes') = Len(inodes) /\ Len(inodes) \in Nat
         /\ \A i \in 1 .. Len(inodes) : inodes'[i].inc = inodes[i].inc
<1>1. inodes \in Seq(LockFiles) /\ Len(inodes) \in Nat
  BY DEF PublishType, LockType
<1>2. CASE fd[p] \in 1 .. Len(inodes)
  <2> DEFINE file == [inodes[fd[p]] EXCEPT !.written = TRUE]
  <2>1. inodes[fd[p]] \in LockFiles
    BY <1>1, <1>2
  <2>2. file \in LockFiles /\ file.inc = inodes[fd[p]].inc
    BY <2>1 DEF LockFiles
  <2>3. inodes' = [inodes EXCEPT ![fd[p]] = file]
    BY DEF Written
  <2> HIDE DEF file
  <2> QED BY <1>1, <1>2, <2>2, <2>3, ExceptSeq
<1>3. CASE fd[p] \notin 1 .. Len(inodes)
  <2>1. inodes' = inodes
    BY <1>1, <1>3 DEF Written
  <2> QED BY <1>1, <2>1
<1> QED BY <1>2, <1>3

(* Every step keeps the invariant.                                         *)
LEMMA NextIInv == IInv /\ [Next]_vars => IInv'
<1> SUFFICES ASSUME IInv, [Next]_vars PROVE IInv'
  OBVIOUS
<1> USE DEF IInv, PublishType, At, Go, Throw, fs, work, fate, NoPackage, Package,
        Nobody, NoLock, Places, Critical, Holding
<1>0. Len(inodes) \in Nat /\ NoLock \in 0 .. Len(inodes)
  BY DEF LockType
<1>1. ASSUME NEW p \in Publishers, Start(p) PROVE IInv'
  <2>1. WorkType'
    BY <1>1 DEF Start, Cancelled, WorkType
  <2>2. Copied'
    BY <1>1 DEF Start, Cancelled, WorkType, Copied
  <2>3. Receipts'
    BY <1>1 DEF Start, Cancelled, WorkType, Receipts
  <2>4. Staging'
    BY <1>1 DEF Start, Cancelled, WorkType, Staging
  <2>5. Live'
    BY <1>1 DEF Start, Cancelled, LockType, WorkType, Live, NobodyDied,
       OwnLocks
  <2>6. LockType' /\ PublishedWhole'
    BY <1>1 DEF Start, Cancelled, LockType, PublishedWhole
  <2> QED BY <2>1, <2>2, <2>3, <2>4, <2>5, <2>6
<1>2. ASSUME NEW p \in Publishers, CreateLock(p) PROVE IInv'
  <2>1. LockType'
    BY <1>2, OpenKeeps DEF CreateLock
  <2>2. WorkType'
    BY <1>2, OpenKeeps DEF CreateLock
  <2>3. Copied'
    BY <1>2 DEF CreateLock, Open, WorkType, Copied
  <2>4. Receipts'
    BY <1>2 DEF CreateLock, Open, WorkType, Receipts
  <2>5. Staging'
    BY <1>2 DEF CreateLock, Open, WorkType, Staging
  <2>6. Live'
    BY <1>2, OpenKeeps DEF CreateLock
  <2>7. PublishedWhole'
    BY <1>2 DEF CreateLock, Open, PublishedWhole
  <2> QED BY <2>1, <2>2, <2>3, <2>4, <2>5, <2>6, <2>7
<1>3. ASSUME NEW p \in Publishers, LockExists(p) PROVE IInv'
  <2>1. WorkType'
    BY <1>3 DEF LockExists, WorkType
  <2>2. Copied'
    BY <1>3 DEF LockExists, WorkType, Copied
  <2>3. Staging'
    BY <1>3 DEF LockExists, WorkType, Staging
  <2>4. Live'
    BY <1>3 DEF LockExists, LockType, WorkType, Live, NobodyDied, OwnLocks
  <2>5. LockType' /\ PublishedWhole' /\ Receipts'
    BY <1>3 DEF LockExists, LockType, PublishedWhole, Receipts
  <2> QED BY <2>1, <2>2, <2>3, <2>4, <2>5
<1>4. ASSUME NEW p \in Publishers, RecordLock(p) PROVE IInv'
  <2>1. LockType'
    <3>1. CASE Written(p) /\ UNCHANGED <<lock, fd>>
      <4>1. seen' = seen
        BY <1>4 DEF RecordLock
      <4> QED BY <3>1, <4>1, WrittenKeeps DEF LockType
    <3>2. CASE inodes' = inodes /\ lock' = NoLock /\ fd' = [fd EXCEPT ![p] = NoLock]
      BY <1>4, <1>0, <3>2 DEF RecordLock, LockType
    <3> QED BY <1>4, <3>1, <3>2 DEF RecordLock
  <2>2. WorkType'
    BY <1>4 DEF RecordLock, Written, WorkType
  <2>3. Copied'
    BY <1>4 DEF RecordLock, Written, WorkType, Copied
  <2>4. Receipts'
    BY <1>4 DEF RecordLock, Written, WorkType, Receipts
  <2>5. Staging'
    BY <1>4 DEF RecordLock, Written, WorkType, Staging
  <2>6. Live'
    <3>1. /\ UNCHANGED <<inc, crashes>>
          /\ \A q \in Publishers : q # p => pc'[q] = pc[q]
      BY <1>4 DEF RecordLock, WorkType
    <3>2. CASE Written(p) /\ pc' = [pc EXCEPT ![p] = "locked"] /\ UNCHANGED <<lock, fd>>
      <4>1. crashes = 0 => NobodyDied'
        BY <3>1, <3>2, WrittenKeeps DEF WorkType, Live, NobodyDied
      <4>2. crashes = 0 => OwnLocks'
        BY <1>4, <3>1, <3>2 DEF RecordLock, WorkType, Live, OwnLocks
      <4> QED BY <3>1, <4>1, <4>2 DEF Live
    <3>3. CASE /\ inodes' = inodes /\ lock' = NoLock /\ fd' = [fd EXCEPT ![p] = NoLock]
               /\ pc' = [pc EXCEPT ![p] = "done"]
      BY <1>4, <3>1, <3>3 DEF RecordLock, LockType, WorkType, Live, NobodyDied, OwnLocks
    <3> QED BY <1>4, <3>2, <3>3 DEF RecordLock
  <2>7. PublishedWhole'
    BY <1>4 DEF RecordLock, Written, PublishedWhole
  <2> QED BY <2>1, <2>2, <2>3, <2>4, <2>5, <2>6, <2>7
<1>5. ASSUME NEW p \in Publishers, Inspect(p) PROVE IInv'
  <2>1. LockType'
    <3>1. /\ UNCHANGED <<inodes, lock, fd>>
          /\ seen' = seen \/ seen' = [seen EXCEPT ![p] = lock]
      BY <1>5 DEF Inspect
    <3>2. lock \in Nat
      BY <1>0 DEF LockType
    <3> QED BY <3>1, <3>2 DEF LockType
  <2>2. WorkType'
    BY <1>5 DEF Inspect, Dead, Stale, WorkType
  <2>3. Copied'
    BY <1>5 DEF Inspect, Dead, Stale, WorkType, Copied
  <2>4. Receipts'
    BY <1>5 DEF Inspect, Dead, Stale, WorkType, Receipts
  <2>5. Staging'
    BY <1>5 DEF Inspect, Dead, Stale, WorkType, Staging
  <2>6. Live'
    <3>1. crashes = 0 => ~(lock # NoLock /\ Dead(lock))
      <4>1. CASE crashes = 0 /\ lock # NoLock
        <5>1. lock \in 1 .. Len(inodes) /\ inodes[lock] \in LockFiles
          BY <1>0, <4>1 DEF LockType
        <5>2. inodes[lock].by \in Publishers
          BY <5>1 DEF LockFiles
        <5> QED BY <4>1, <5>1, <5>2 DEF Live, NobodyDied, Dead
      <4> QED BY <4>1
    <3>2. crashes = 0 => Throw(p, "done")
      BY <1>5, <3>1 DEF Inspect, Stale
    <3> QED BY <1>5, <3>2 DEF Inspect, LockType, WorkType, Live, NobodyDied, OwnLocks
  <2>7. PublishedWhole'
    BY <1>5 DEF Inspect, Dead, Stale, PublishedWhole
  <2> QED BY <2>1, <2>2, <2>3, <2>4, <2>5, <2>6, <2>7
<1>6. ASSUME NEW p \in Publishers, Compare(p) PROVE IInv'
  <2>1. WorkType'
    BY <1>6 DEF Compare, WorkType
  <2>2. Copied'
    BY <1>6 DEF Compare, WorkType, Copied
  <2>3. Receipts'
    BY <1>6 DEF Compare, WorkType, Receipts
  <2>4. Staging'
    BY <1>6 DEF Compare, WorkType, Staging
  <2>5. Live'
    BY <1>6 DEF Compare, LockType, WorkType, Live, NobodyDied, OwnLocks
  <2>6. LockType' /\ PublishedWhole'
    BY <1>6 DEF Compare, LockType, PublishedWhole
  <2> QED BY <2>1, <2>2, <2>3, <2>4, <2>5, <2>6
<1>7. ASSUME NEW p \in Publishers, RemoveStale(p) PROVE IInv'
  <2>1. LockType'
    BY <1>7, <1>0 DEF RemoveStale, LockType
  <2>2. WorkType'
    BY <1>7 DEF RemoveStale, WorkType
  <2>3. Copied'
    BY <1>7 DEF RemoveStale, WorkType, Copied
  <2>4. Receipts'
    BY <1>7 DEF RemoveStale, WorkType, Receipts
  <2>5. Staging'
    BY <1>7 DEF RemoveStale, WorkType, Staging
  <2>6. Live'
    BY <1>7 DEF RemoveStale, LockType, WorkType, Live, NobodyDied, OwnLocks
  <2>7. PublishedWhole'
    BY <1>7 DEF RemoveStale, PublishedWhole
  <2> QED BY <2>1, <2>2, <2>3, <2>4, <2>5, <2>6, <2>7
<1>8. ASSUME NEW p \in Publishers, RecreateLock(p) PROVE IInv'
  <2>1. LockType'
    BY <1>8, OpenKeeps DEF RecreateLock
  <2>2. WorkType'
    BY <1>8, OpenKeeps DEF RecreateLock
  <2>3. Copied'
    BY <1>8 DEF RecreateLock, Open, WorkType, Copied
  <2>4. Receipts'
    BY <1>8 DEF RecreateLock, Open, WorkType, Receipts
  <2>5. Staging'
    BY <1>8 DEF RecreateLock, Open, WorkType, Staging
  <2>6. Live'
    BY <1>8, OpenKeeps DEF RecreateLock
  <2>7. PublishedWhole'
    BY <1>8 DEF RecreateLock, Open, PublishedWhole
  <2> QED BY <2>1, <2>2, <2>3, <2>4, <2>5, <2>6, <2>7
<1>9. ASSUME NEW p \in Publishers, Prepare(p) PROVE IInv'
  <2>1. WorkType'
    BY <1>9 DEF Prepare, Cancelled, WorkType
  <2>2. Copied'
    BY <1>9 DEF Prepare, Cancelled, WorkType, Copied
  <2>3. Receipts'
    BY <1>9 DEF Prepare, Cancelled, WorkType, Receipts
  <2>4. Staging'
    <3>1. CASE Throw(p, "release") /\ UNCHANGED stage
      BY <1>9, <3>1 DEF Prepare, WorkType, Staging
    <3>2. ASSUME stage' = [stage EXCEPT ![p] = "present"],
                 NEW there \in {"cleanup", "version"},
                 Go(p, there)
          PROVE  Staging'
      BY <1>9, <3>2 DEF Prepare, WorkType, Staging
    <3> QED BY <1>9, <3>1, <3>2 DEF Prepare
  <2>5. Live'
    BY <1>9 DEF Prepare, Cancelled, LockType, WorkType, Live, NobodyDied,
       OwnLocks
  <2>6. LockType' /\ PublishedWhole'
    BY <1>9 DEF Prepare, Cancelled, LockType, PublishedWhole
  <2> QED BY <2>1, <2>2, <2>3, <2>4, <2>5, <2>6
<1>10. ASSUME NEW p \in Publishers, Version(p) PROVE IInv'
  <2>1. WorkType'
    <3>1. CASE Unconfirmed(p)
      BY <1>10, <3>1 DEF Version, Unconfirmed, CommandFrame, WorkType
    <3>2. CASE UNCHANGED <<child, preserve>>
      BY <1>10, <3>2 DEF Version, Unconfirmed, CommandFrame, WorkType
    <3> QED BY <1>10, <3>1, <3>2 DEF Version
  <2>2. Copied'
    BY <1>10 DEF Version, Unconfirmed, CommandFrame, Cancelled, WorkType,
       Copied
  <2>3. Receipts'
    BY <1>10 DEF Version, Unconfirmed, CommandFrame, Cancelled, WorkType,
       Receipts
  <2>4. Staging'
    <3>1. CASE Unconfirmed(p)
      BY <1>10, <3>1 DEF Version, Unconfirmed, CommandFrame, WorkType, Staging
    <3>2. CASE UNCHANGED <<child, preserve>>
      BY <1>10, <3>2 DEF Version, Unconfirmed, CommandFrame, WorkType, Staging
    <3> QED BY <1>10, <3>1, <3>2 DEF Version
  <2>5. Live'
    BY <1>10 DEF Version, Unconfirmed, CommandFrame, Cancelled, LockType,
       WorkType, Live, NobodyDied, OwnLocks
  <2>6. LockType' /\ PublishedWhole'
    BY <1>10 DEF Version, Unconfirmed, CommandFrame, Cancelled, LockType,
       PublishedWhole
  <2> QED BY <2>1, <2>2, <2>3, <2>4, <2>5, <2>6
<1>11. ASSUME NEW p \in Publishers, Extract(p) PROVE IInv'
  <2>1. WorkType'
    <3>1. CASE Unconfirmed(p)
      BY <1>11, <3>1 DEF Extract, Unconfirmed, CommandFrame, WorkType
    <3>2. CASE UNCHANGED <<child, preserve>>
      BY <1>11, <3>2 DEF Extract, Unconfirmed, CommandFrame, WorkType
    <3> QED BY <1>11, <3>1, <3>2 DEF Extract
  <2>2. Copied'
    BY <1>11 DEF Extract, Unconfirmed, CommandFrame, Cancelled, WorkType,
       Copied
  <2>3. Receipts'
    BY <1>11 DEF Extract, Unconfirmed, CommandFrame, Cancelled, WorkType,
       Receipts
  <2>4. Staging'
    <3>1. CASE Unconfirmed(p)
      BY <1>11, <3>1 DEF Extract, Unconfirmed, CommandFrame, WorkType, Staging
    <3>2. CASE UNCHANGED <<child, preserve>>
      BY <1>11, <3>2 DEF Extract, Unconfirmed, CommandFrame, WorkType, Staging
    <3> QED BY <1>11, <3>1, <3>2 DEF Extract
  <2>5. Live'
    BY <1>11 DEF Extract, Unconfirmed, CommandFrame, Cancelled, LockType,
       WorkType, Live, NobodyDied, OwnLocks
  <2>6. LockType' /\ PublishedWhole'
    BY <1>11 DEF Extract, Unconfirmed, CommandFrame, Cancelled, LockType,
       PublishedWhole
  <2> QED BY <2>1, <2>2, <2>3, <2>4, <2>5, <2>6
<1>12. ASSUME NEW p \in Publishers, Verify(p) PROVE IInv'
  <2>1. WorkType'
    BY <1>12 DEF Verify, Cancelled, WorkType
  <2>2. Copied'
    BY <1>12 DEF Verify, Cancelled, WorkType, Copied
  <2>3. Receipts'
    BY <1>12 DEF Verify, Cancelled, WorkType, Receipts
  <2>4. Staging'
    BY <1>12 DEF Verify, Cancelled, WorkType, Staging
  <2>5. Live'
    BY <1>12 DEF Verify, Cancelled, LockType, WorkType, Live, NobodyDied,
       OwnLocks
  <2>6. LockType' /\ PublishedWhole'
    BY <1>12 DEF Verify, Cancelled, LockType, PublishedWhole
  <2> QED BY <2>1, <2>2, <2>3, <2>4, <2>5, <2>6
<1>13. ASSUME NEW p \in Publishers, Contain(p) PROVE IInv'
  <2>1. WorkType'
    BY <1>13 DEF Contain, PublishFrame, WorkType
  <2>2. Copied'
    BY <1>13 DEF Contain, PublishFrame, WorkType, Copied
  <2>3. Receipts'
    BY <1>13 DEF Contain, PublishFrame, WorkType, Receipts
  <2>4. Staging'
    BY <1>13 DEF Contain, PublishFrame, WorkType, Staging
  <2>5. Live'
    BY <1>13 DEF Contain, PublishFrame, LockType, WorkType, Live, NobodyDied,
       OwnLocks
  <2>6. LockType' /\ PublishedWhole'
    BY <1>13 DEF Contain, PublishFrame, LockType, PublishedWhole
  <2> QED BY <2>1, <2>2, <2>3, <2>4, <2>5, <2>6
<1>14. ASSUME NEW p \in Publishers, Copy(p) PROVE IInv'
  <2>1. WorkType'
    BY <1>14 DEF Copy, CleanBox, PublishFrame, Cancelled, WorkType
  <2>2. Copied'
    <3>1. CASE Throw(p, "cleanup") /\ CleanBox(p)
      BY <1>14, <3>1 DEF CleanBox, WorkType, Copied
    <3>2. CASE box' = [box EXCEPT ![p] = "full"] /\ Go(p, "recheck")
      BY <1>14, <3>2 DEF WorkType, Copied
    <3> QED BY <1>14, <3>1, <3>2 DEF Copy
  <2>3. Receipts'
    BY <1>14 DEF Copy, CleanBox, PublishFrame, Cancelled, WorkType, Receipts
  <2>4. Staging'
    BY <1>14 DEF Copy, CleanBox, PublishFrame, Cancelled, WorkType, Staging
  <2>5. Live'
    BY <1>14 DEF Copy, CleanBox, PublishFrame, Cancelled, LockType, WorkType,
       Live, NobodyDied, OwnLocks
  <2>6. LockType' /\ PublishedWhole'
    BY <1>14 DEF Copy, CleanBox, PublishFrame, Cancelled, LockType,
       PublishedWhole
  <2> QED BY <2>1, <2>2, <2>3, <2>4, <2>5, <2>6
<1>15. ASSUME NEW p \in Publishers, Recheck(p) PROVE IInv'
  <2>1. WorkType'
    BY <1>15 DEF Recheck, CleanBox, PublishFrame, WorkType
  <2>2. Copied'
    BY <1>15 DEF Recheck, CleanBox, PublishFrame, WorkType, Copied
  <2>3. Receipts'
    BY <1>15 DEF Recheck, CleanBox, PublishFrame, WorkType, Receipts
  <2>4. Staging'
    BY <1>15 DEF Recheck, CleanBox, PublishFrame, WorkType, Staging
  <2>5. Live'
    BY <1>15 DEF Recheck, CleanBox, PublishFrame, LockType, WorkType, Live,
       NobodyDied, OwnLocks
  <2>6. LockType' /\ PublishedWhole'
    BY <1>15 DEF Recheck, CleanBox, PublishFrame, LockType, PublishedWhole
  <2> QED BY <2>1, <2>2, <2>3, <2>4, <2>5, <2>6
<1>16. ASSUME NEW p \in Publishers, Rename(p) PROVE IInv'
  <2>1. PublishType'
    <3>1. LockType'
      BY <1>16 DEF Rename, PublishFrame, LockType
    <3>2. UNCHANGED <<inc, aborted, stage, child, preserve, crashes, restarts>>
      BY <1>16 DEF Rename, PublishFrame
    <3>3. /\ pc' \in [Publishers -> Places]
          /\ result' \in [Publishers -> {"none", "failed", "published"}]
          /\ box' \in [Publishers -> {"none", "partial", "full"}]
      BY <1>16 DEF Rename, CleanBox, WorkType
    <3>4. target' = target \/ target' = Package(p)
      BY <1>16 DEF Rename
    <3>5. Package(p) \in [by : Publishers \cup {Nobody}, inc : Nat, whole : BOOLEAN]
      BY DEF WorkType
    <3>6. target' \in [by : Publishers \cup {Nobody}, inc : Nat, whole : BOOLEAN]
      BY <3>4, <3>5 DEF WorkType
    <3> QED BY <3>1, <3>2, <3>3, <3>6 DEF WorkType
  <2>2. PublishedWhole'
    <3>1. target' = target \/ target' = Package(p)
      BY <1>16 DEF Rename
    <3>2. Package(p).whole
      BY <1>16 DEF Rename, Copied
    <3> QED BY <3>1, <3>2 DEF PublishedWhole
  <2>3. Copied'
    <3>1. /\ pc' = [pc EXCEPT ![p] = "cleanup"]
          /\ \A q \in Publishers : q # p => box'[q] = box[q]
      BY <1>16 DEF Rename, CleanBox, WorkType
    <3> QED BY <3>1 DEF WorkType, Copied
  <2>4. Receipts'
    <3>1. inc' = inc
      BY <1>16 DEF Rename, PublishFrame
    <3>2. CASE target = NoPackage
      <4>1. \A q \in Publishers : q # p => result'[q] # "published"
        BY <1>16, <3>2 DEF Rename, WorkType, Receipts
      <4>2. result'[p] = "published" => target' = Package(p) /\ box[p] = "full"
        BY <1>16 DEF Rename, WorkType, Copied
      <4>3. /\ Package(p).by = p /\ Package(p).inc = inc[p]
            /\ box[p] = "full" => Package(p).whole
        OBVIOUS
      <4>4. ~NoPackage.whole
        OBVIOUS
      <4> QED BY <3>1, <4>1, <4>2, <4>3, <4>4 DEF Receipts
    <3>3. CASE target # NoPackage
      BY <1>16, <3>1, <3>3 DEF Rename, WorkType, Receipts
    <3> QED BY <3>2, <3>3
  <2>5. Staging'
    BY <1>16 DEF Rename, CleanBox, PublishFrame, WorkType, Staging
  <2>6. Live'
    BY <1>16 DEF Rename, CleanBox, PublishFrame, LockType, WorkType, Live,
       NobodyDied, OwnLocks
  <2> QED BY <2>1, <2>2, <2>3, <2>4, <2>5, <2>6
<1>17. ASSUME NEW p \in Publishers, CleanStage(p) PROVE IInv'
  <2>1. WorkType'
    BY <1>17 DEF CleanStage, WorkType
  <2>2. Copied'
    BY <1>17 DEF CleanStage, WorkType, Copied
  <2>3. Staging'
    BY <1>17 DEF CleanStage, WorkType, Staging
  <2>4. Live'
    BY <1>17 DEF CleanStage, LockType, WorkType, Live, NobodyDied, OwnLocks
  <2>5. LockType' /\ PublishedWhole' /\ Receipts'
    BY <1>17 DEF CleanStage, LockType, PublishedWhole, Receipts
  <2> QED BY <2>1, <2>2, <2>3, <2>4, <2>5
<1>18. ASSUME NEW p \in Publishers, Release(p) PROVE IInv'
  <2>1. LockType'
    <3>1. /\ UNCHANGED <<inodes, lock, seen>>
          /\ fd' = fd \/ fd' = [fd EXCEPT ![p] = NoLock]
      BY <1>18 DEF Release
    <3> QED BY <1>0, <3>1 DEF LockType
  <2>2. WorkType'
    BY <1>18 DEF Release, WorkType
  <2>3. Copied'
    BY <1>18 DEF Release, WorkType, Copied
  <2>4. Staging'
    BY <1>18 DEF Release, WorkType, Staging
  <2>5. Live'
    BY <1>18 DEF Release, LockType, WorkType, Live, NobodyDied, OwnLocks
  <2>6. PublishedWhole' /\ Receipts'
    BY <1>18 DEF Release, PublishedWhole, Receipts
  <2> QED BY <2>1, <2>2, <2>3, <2>4, <2>5, <2>6
<1>19. ASSUME NEW p \in Publishers, Unlock(p) PROVE IInv'
  <2>1. LockType'
    BY <1>19, <1>0 DEF Unlock, LockType
  <2>2. WorkType'
    BY <1>19 DEF Unlock, WorkType
  <2>3. Copied'
    BY <1>19 DEF Unlock, WorkType, Copied
  <2>4. Staging'
    BY <1>19 DEF Unlock, WorkType, Staging
  <2>5. Live'
    BY <1>19 DEF Unlock, LockType, WorkType, Live, NobodyDied, OwnLocks
  <2>6. PublishedWhole' /\ Receipts'
    BY <1>19 DEF Unlock, PublishedWhole, Receipts
  <2> QED BY <2>1, <2>2, <2>3, <2>4, <2>5, <2>6
<1>20. ASSUME NEW p \in Publishers, Abort(p) PROVE IInv'
  <2>1. WorkType'
    BY <1>20 DEF Abort, WorkType
  <2>2. LockType' /\ PublishedWhole' /\ Copied' /\ Receipts' /\ Staging' /\ Live'
    BY <1>20 DEF Abort, LockType, PublishedWhole, Copied, Receipts, Staging,
       Live, NobodyDied, OwnLocks
  <2> QED BY <2>1, <2>2
<1>21. ASSUME NEW p \in Publishers, ChildExits(p) PROVE IInv'
  <2>1. WorkType'
    BY <1>21 DEF ChildExits, WorkType
  <2>2. Staging'
    BY <1>21 DEF ChildExits, WorkType, Staging
  <2>3. LockType' /\ PublishedWhole' /\ Copied' /\ Receipts' /\ Live'
    BY <1>21 DEF ChildExits, LockType, PublishedWhole, Copied, Receipts,
       Live, NobodyDied, OwnLocks
  <2> QED BY <2>1, <2>2, <2>3
<1>22. ASSUME NEW p \in Publishers, Crash(p) PROVE IInv'
  <2>1. LockType'
    BY <1>22, <1>0 DEF Crash, LockType
  <2>2. WorkType'
    BY <1>22 DEF Crash, WorkType
  <2>3. Copied'
    BY <1>22 DEF Crash, WorkType, Copied
  <2>4. Staging'
    BY <1>22 DEF Crash, WorkType, Staging
  <2>5. Live'
    BY <1>22 DEF Crash, LockType, WorkType, Live, NobodyDied, OwnLocks
  <2>6. PublishedWhole' /\ Receipts'
    BY <1>22 DEF Crash, PublishedWhole, Receipts
  <2> QED BY <2>1, <2>2, <2>3, <2>4, <2>5, <2>6
<1>23. ASSUME NEW p \in Publishers, Restart(p) PROVE IInv'
  <2>1. WorkType'
    BY <1>23 DEF Restart, WorkType
  <2>2. Copied'
    BY <1>23 DEF Restart, WorkType, Copied
  <2>3. Receipts'
    BY <1>23 DEF Restart, WorkType, Receipts
  <2>4. Staging'
    BY <1>23 DEF Restart, WorkType, Staging
  <2>5. Live'
    BY <1>23 DEF Restart, LockType, WorkType, Live, NobodyDied, OwnLocks
  <2>6. LockType' /\ PublishedWhole'
    BY <1>23 DEF Restart, LockType, PublishedWhole
  <2> QED BY <2>1, <2>2, <2>3, <2>4, <2>5, <2>6
<1>24. CASE UNCHANGED vars
  BY <1>24 DEF vars, LockType, WorkType, PublishedWhole, Copied, Receipts,
     Staging, Live, NobodyDied, OwnLocks
<1> QED
  BY <1>1, <1>2, <1>3, <1>4, <1>5, <1>6, <1>7, <1>8, <1>9, <1>10, <1>11,
     <1>12, <1>13, <1>14, <1>15, <1>16, <1>17, <1>18, <1>19, <1>20, <1>21,
     <1>22, <1>23, <1>24 DEF Next, Locking, Publishing, Finishing

LEMMA Invariance == Spec => []IInv
BY InitIInv, NextIInv, PTL DEF Spec

(* A package that is visible is whole and its receipt true, live locks and *)
(* the trees of live commands are kept: for any number of publishers,      *)
(* crashes and restarts.                                                   *)
THEOREM PublishesSafely == Spec => []PublicationSafe
<1>1. IInv => PublicationSafe
  <2> SUFFICES ASSUME IInv PROVE PublicationSafe
    OBVIOUS
  <2>1. ReceiptTrue /\ StageNotPulled
    BY DEF IInv, Receipts, Staging, ReceiptTrue, StageNotPulled
  <2>2. LiveLockKept
    BY DEF IInv, Live, OwnLocks, Holding, LiveLockKept, LockHeld
  <2> QED BY <2>1, <2>2 DEF IInv, PublicationSafe
<1> QED BY Invariance, <1>1, PTL

(* What is visible is never replaced nor taken away, whoever holds or has  *)
(* lost the lock.                                                          *)
THEOREM NothingReplaced == Spec => CreateOnly
<1>1. Next => (target # NoPackage => target' = target)
  <2> SUFFICES ASSUME NEW p \in Publishers, target # NoPackage,
                      \/ Locking(p) \/ Publishing(p) \/ Finishing(p)
                      \/ Abort(p) \/ ChildExits(p) \/ Crash(p) \/ Restart(p)
               PROVE  target' = target
    BY DEF Next
  <2> USE DEF fs
  <2>1. CASE Locking(p)
    BY <2>1 DEF Locking, Start, CreateLock, LockExists, RecordLock, Inspect, Compare,
       RemoveStale, RecreateLock, Open
  <2>2. CASE Publishing(p)
    BY <2>2 DEF Publishing, Prepare, Version, Extract, Verify, Contain, Copy, Recheck,
       Rename, CommandFrame
  <2>3. CASE Finishing(p)
    BY <2>3 DEF Finishing, CleanStage, Release, Unlock
  <2>4. CASE Abort(p) \/ ChildExits(p) \/ Crash(p) \/ Restart(p)
    BY <2>4 DEF Abort, ChildExits, Crash, Restart
  <2> QED BY <2>1, <2>2, <2>3, <2>4
<1>2. [Next]_vars => [target # NoPackage => target' = target]_vars
  BY <1>1
<1> QED BY <1>2, PTL DEF Spec, CreateOnly
==============================================================================
