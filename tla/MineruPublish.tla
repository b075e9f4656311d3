---------------------------- MODULE MineruPublish ----------------------------
(***************************************************************************)
(* publishMineruPackage: several publishers of one citekey, each in an     *)
(* operating-system process of its own, that share the papers directory:   *)
(* the lock file, the staging trees and the package directory that one     *)
(* rename exposes.  The code of a publisher between two awaits is          *)
(* synchronous for its own process only, so every system call on the       *)
(* shared directory is a step here; a process may crash between two.       *)
(*                                                                         *)
(* Not modelled: a papers directory that is itself replaced by another, a  *)
(* lock file of one's own that cannot be unlinked (the code leaves it) and *)
(* the content of a package.  Any other I/O may fail.                      *)
(***************************************************************************)
EXTENDS Integers, Sequences

CONSTANTS Publishers,
          MaxCrashes, MaxRestarts,   \* bounds of the model
          Retain                     \* context.retainStaging

PublishAssumption ==
  MaxCrashes \in Nat /\ MaxRestarts \in Nat /\ Retain \in BOOLEAN

NoLock == 0
Nobody == "nobody"

VARIABLES pc,        \* where each publisher is
          inc,       \* its incarnation: the identity of its process
          aborted,   \* context.signal.aborted
          lock,      \* the inode at the path of the lock, or NoLock
          inodes,    \* what each lock file ever created records
          fd,        \* the inode of the lock a publisher created
          seen,      \* the inode of the lock it found
          target,    \* the package: who published it, and is it whole?
          box,       \* the hidden container in papers: none, partial, full
          stage,     \* the private staging tree: none, present, removed
          child,     \* may a process of its command still be alive?
          preserve,  \* preserveStage
          result,    \* what it reported
          crashes, restarts

fs    == <<lock, inodes, target>>
work  == <<box, stage, child, preserve>>
fate  == <<inc, crashes, restarts>>
vars  == <<pc, aborted, fd, seen, result, fs, work, fate>>

NoPackage == [by |-> Nobody, inc |-> 0, whole |-> FALSE]

Package(p) == [by |-> p, inc |-> inc[p], whole |-> (box[p] = "full")]

Init == /\ pc = [p \in Publishers |-> "idle"]
        /\ inc = [p \in Publishers |-> 0]
        /\ aborted = [p \in Publishers |-> FALSE]
        /\ lock = NoLock /\ inodes = <<>>
        /\ fd = [p \in Publishers |-> NoLock]
        /\ seen = [p \in Publishers |-> NoLock]
        /\ target = NoPackage
        /\ box = [p \in Publishers |-> "none"]
        /\ stage = [p \in Publishers |-> "none"]
        /\ child = [p \in Publishers |-> FALSE]
        /\ preserve = [p \in Publishers |-> FALSE]
        /\ result = [p \in Publishers |-> "none"]
        /\ crashes = 0 /\ restarts = 0

-----------------------------------------------------------------------------
At(p, here) == pc[p] = here
Go(p, there) == pc' = [pc EXCEPT ![p] = there]

(* Throwing: with the lock and a staging tree, there are two finally       *)
(* clauses to run; without the lock, none.                                 *)
Throw(p, there) == Go(p, there) /\ result' = [result EXCEPT ![p] = "failed"]

Cancelled(p) == aborted[p]

-----------------------------------------------------------------------------
(* acquirePublishLock.                                                     *)

Start(p) ==
  /\ At(p, "idle")
  /\ \/ Throw(p, "done")
     \/ ~Cancelled(p) /\ Go(p, "open") /\ UNCHANGED result
  /\ UNCHANGED <<aborted, fd, seen, fs, work, fate>>

(* openSync(lockPath, "wx"): EEXIST, or any other error.                   *)
Open(p, there) ==
  /\ \/ /\ lock = NoLock
        /\ \E known \in BOOLEAN :
             inodes' = Append(inodes, [by |-> p, inc |-> inc[p],
                                       known |-> known, written |-> FALSE])
        /\ lock' = Len(inodes') /\ fd' = [fd EXCEPT ![p] = Len(inodes')]
        /\ Go(p, there) /\ UNCHANGED result
     \/ Throw(p, "done") /\ UNCHANGED <<lock, inodes, fd>>
  /\ UNCHANGED <<aborted, seen, target, work, fate>>

CreateLock(p) == At(p, "open") /\ Open(p, "write")

LockExists(p) ==
  /\ At(p, "open") /\ lock # NoLock /\ Go(p, "inspect")
  /\ UNCHANGED <<aborted, fd, seen, result, fs, work, fate>>

Written(p) == inodes' = [inodes EXCEPT ![fd[p]].written = TRUE]

RecordLock(p) ==
  /\ At(p, "write")
  /\ \/ Written(p) /\ Go(p, "locked") /\ UNCHANGED <<lock, fd, result>>
     \/ /\ lock' = NoLock /\ fd' = [fd EXCEPT ![p] = NoLock]
        /\ Throw(p, "done") /\ UNCHANGED inodes
  /\ UNCHANGED <<aborted, seen, target, work, fate>>

(* Is the process that created a lock file gone?                           *)
Dead(i) == \/ inodes[i].inc # inc[inodes[i].by]
           \/ pc[inodes[i].by] = "crashed"

(* Faulty variant: an identity that cannot be read counts as a different   *)
(* one.                                                                    *)
StaleIfUnreadable(i, pidTaken, readable) ==
  ~pidTaken \/ ~(inodes[i].known /\ readable) \/ Dead(i)

(* No process has the recorded pid, or one with another start identity.    *)
Stale(i, pidTaken, readable) ==
  ~pidTaken \/ (inodes[i].known /\ readable /\ Dead(i))

(* The lock that was found is opened, read and judged; one whose record is *)
(* not complete, or that cannot be proved stale, is left alone.            *)
Inspect(p) ==
  /\ At(p, "inspect")
  /\ \E pidTaken, readable \in BOOLEAN :
       IF /\ lock # NoLock
          /\ inodes[lock].written
          /\ ~Dead(lock) => pidTaken
          /\ Stale(lock, pidTaken, readable)
       THEN Go(p, "compare") /\ seen' = [seen EXCEPT ![p] = lock]
            /\ UNCHANGED result
       ELSE Throw(p, "done") /\ UNCHANGED seen
  /\ UNCHANGED <<aborted, fd, fs, work, fate>>

(* lstat: is it still the file that was read?                              *)
Compare(p) ==
  /\ At(p, "compare")
  /\ IF lock = seen[p] THEN Go(p, "unlink") /\ UNCHANGED result
                       ELSE Throw(p, "done")
  /\ UNCHANGED <<aborted, fd, seen, fs, work, fate>>

(* unlink takes the path, whatever file it leads to by now.                *)
RemoveStale(p) ==
  /\ At(p, "unlink")
  /\ \/ lock # NoLock /\ lock' = NoLock /\ Go(p, "reopen") /\ UNCHANGED result
     \/ Throw(p, "done") /\ UNCHANGED lock
  /\ UNCHANGED <<aborted, fd, seen, inodes, target, work, fate>>

RecreateLock(p) == At(p, "reopen") /\ Open(p, "write")

-----------------------------------------------------------------------------
(* publishMineruPackage, with the lock.                                    *)

Prepare(p) ==
  /\ At(p, "locked")
  /\ \/ Throw(p, "release") /\ UNCHANGED stage
     \/ /\ target = NoPackage
        /\ stage' = [stage EXCEPT ![p] = "present"]
        /\ \/ Throw(p, "cleanup")
           \/ ~Cancelled(p) /\ Go(p, "version") /\ UNCHANGED result
  /\ UNCHANGED <<aborted, fd, seen, fs, box, child, preserve, fate>>

(* A command whose termination is not confirmed: its processes may live,   *)
(* and the staging tree is not taken from under them.                      *)
Unconfirmed(p) ==
  /\ child' = [child EXCEPT ![p] = TRUE]
  /\ preserve' = [preserve EXCEPT ![p] = TRUE]
  /\ Throw(p, "cleanup")

CommandFrame == UNCHANGED <<aborted, fd, seen, fs, box, stage, fate>>

(* Faulty variant: every failure of the version command is ignored.        *)
VersionSwallows(p) ==
  /\ At(p, "version")
  /\ child' \in {child, [child EXCEPT ![p] = TRUE]}
  /\ IF Cancelled(p) THEN Throw(p, "cleanup")
                     ELSE Go(p, "extract") /\ UNCHANGED result
  /\ UNCHANGED preserve /\ CommandFrame

(* The version command may fail: the version is then unknown.              *)
Version(p) ==
  /\ At(p, "version")
  /\ \/ Unconfirmed(p)
     \/ /\ IF Cancelled(p) THEN Throw(p, "cleanup")
                           ELSE Go(p, "extract") /\ UNCHANGED result
        /\ UNCHANGED <<child, preserve>>
  /\ CommandFrame

(* The extraction, the validation of its output and the package built from *)
(* it in the private staging tree.                                         *)
Extract(p) ==
  /\ At(p, "extract")
  /\ \/ Unconfirmed(p)
     \/ /\ \/ Throw(p, "cleanup")
           \/ ~Cancelled(p) /\ Go(p, "verify") /\ UNCHANGED result
        /\ UNCHANGED <<child, preserve>>
  /\ CommandFrame

(* verifySourceBeforePublish, and the signal once more.                    *)
Verify(p) ==
  /\ At(p, "verify")
  /\ \/ Throw(p, "cleanup")
     \/ ~Cancelled(p) /\ Go(p, "contain") /\ UNCHANGED result
  /\ UNCHANGED <<aborted, fd, seen, fs, work, fate>>

PublishFrame == UNCHANGED <<aborted, fd, seen, lock, inodes, stage, child,
                            preserve, fate>>

(* publishValidatedPackageAtomically: a hidden container in papers.        *)
Contain(p) ==
  /\ At(p, "contain")
  /\ \/ Throw(p, "cleanup") /\ box' \in {box, [box EXCEPT ![p] = "partial"]}
     \/ /\ target = NoPackage
        /\ box' = [box EXCEPT ![p] = "partial"]
        /\ Go(p, "copy") /\ UNCHANGED result
  /\ UNCHANGED target /\ PublishFrame

(* Cleaning a container is attempted, unless staging is retained.          *)
CleanBox(p) ==
  box' \in {box, IF Retain THEN box ELSE [box EXCEPT ![p] = "none"]}

(* Faulty variant: the commit does not depend on the copy.                 *)
CopyUnchecked(p) ==
  /\ At(p, "copy")
  /\ box' \in {box, [box EXCEPT ![p] = "full"]}
  /\ Go(p, "recheck") /\ UNCHANGED result
  /\ UNCHANGED target /\ PublishFrame

(* The copy, its inventory and validateBeforeCommit, or a failure of one.  *)
Copy(p) ==
  /\ At(p, "copy")
  /\ \/ Throw(p, "cleanup") /\ CleanBox(p)
     \/ /\ ~Cancelled(p)
        /\ box' = [box EXCEPT ![p] = "full"]
        /\ Go(p, "recheck") /\ UNCHANGED result
  /\ UNCHANGED target /\ PublishFrame

Recheck(p) ==
  /\ At(p, "recheck")
  /\ IF target = NoPackage
     THEN Go(p, "rename") /\ UNCHANGED <<result, box>>
     ELSE Throw(p, "cleanup") /\ CleanBox(p)
  /\ UNCHANGED target /\ PublishFrame

(* Faulty variant: an existing package makes way for the new one.          *)
RenameReplaces(p) ==
  /\ At(p, "rename")
  /\ target' = Package(p)
  /\ box' = [box EXCEPT ![p] = "none"]
  /\ result' = [result EXCEPT ![p] = "published"] /\ Go(p, "cleanup")
  /\ PublishFrame

(* Faulty variant: a rename that fails has been done by somebody else.     *)
RenameIdempotent(p) ==
  /\ At(p, "rename")
  /\ target' = IF target = NoPackage
               THEN Package(p) ELSE target
  /\ box' = [box EXCEPT ![p] = "none"]
  /\ result' = [result EXCEPT ![p] = "published"] /\ Go(p, "cleanup")
  /\ PublishFrame

(* rename, which does not replace a directory that is not empty; a failure *)
(* of the identity check after it is reported, with the package published. *)
Rename(p) ==
  /\ At(p, "rename")
  /\ \/ /\ target = NoPackage
        /\ target' = Package(p)
        /\ box' = [box EXCEPT ![p] = "none"]
        /\ \/ result' = [result EXCEPT ![p] = "published"] /\ Go(p, "cleanup")
           \/ Throw(p, "cleanup")
     \/ Throw(p, "cleanup") /\ CleanBox(p) /\ UNCHANGED target
  /\ PublishFrame

-----------------------------------------------------------------------------
(* The finally clauses: the staging tree, then the lock.                   *)
CleanStage(p) ==
  /\ At(p, "cleanup") /\ Go(p, "release")
  /\ \/ ~preserve[p] /\ ~Retain /\ stage' = [stage EXCEPT ![p] = "removed"]
     \/ UNCHANGED stage
  /\ UNCHANGED <<aborted, fd, seen, result, fs, box, child, preserve, fate>>

(* release compares the file at the path with the one it opened...         *)
Release(p) ==
  /\ At(p, "release")
  /\ IF lock = fd[p] THEN Go(p, "unlock") /\ UNCHANGED fd
                     ELSE Go(p, "done") /\ fd' = [fd EXCEPT ![p] = NoLock]
  /\ UNCHANGED <<aborted, seen, result, fs, work, fate>>

(* ... and then unlinks the path.                                          *)
Unlock(p) ==
  /\ At(p, "unlock") /\ Go(p, "done")
  /\ lock' = NoLock /\ fd' = [fd EXCEPT ![p] = NoLock]
  /\ UNCHANGED <<aborted, seen, result, inodes, target, work, fate>>

-----------------------------------------------------------------------------
(* Events.                                                                 *)

(* The signal can only be aborted while the publisher awaits something.    *)
Abort(p) ==
  /\ pc[p] \in {"idle", "version", "extract", "verify"} /\ ~aborted[p]
  /\ aborted' = [aborted EXCEPT ![p] = TRUE]
  /\ UNCHANGED <<pc, fd, seen, result, fs, work, fate>>

ChildExits(p) ==
  /\ child[p] /\ child' = [child EXCEPT ![p] = FALSE]
  /\ UNCHANGED <<pc, aborted, fd, seen, result, fs, box, stage, preserve, fate>>

(* The process dies; its files stay.                                       *)
Crash(p) ==
  /\ pc[p] \notin {"idle", "done", "crashed"} /\ crashes < MaxCrashes
  /\ Go(p, "crashed") /\ crashes' = crashes + 1
  /\ fd' = [fd EXCEPT ![p] = NoLock]
  /\ UNCHANGED <<aborted, seen, result, fs, work, inc, restarts>>

(* The user runs the ingestion again in a new process.                     *)
Restart(p) ==
  /\ At(p, "crashed") /\ restarts < MaxRestarts
  /\ Go(p, "idle") /\ restarts' = restarts + 1
  /\ inc' = [inc EXCEPT ![p] = @ + 1]
  /\ aborted' = [aborted EXCEPT ![p] = FALSE]
  /\ result' = [result EXCEPT ![p] = "none"]
  /\ box' = [box EXCEPT ![p] = "none"] /\ stage' = [stage EXCEPT ![p] = "none"]
  /\ child' = [child EXCEPT ![p] = FALSE]
  /\ preserve' = [preserve EXCEPT ![p] = FALSE]
  /\ UNCHANGED <<fd, seen, fs, crashes>>

Locking(p) == \/ Start(p) \/ CreateLock(p) \/ LockExists(p) \/ RecordLock(p) \/ Inspect(p)
              \/ Compare(p) \/ RemoveStale(p) \/ RecreateLock(p)

Publishing(p) == \/ Prepare(p) \/ Version(p) \/ Extract(p) \/ Verify(p)
                 \/ Contain(p) \/ Copy(p) \/ Recheck(p) \/ Rename(p)

Finishing(p) == CleanStage(p) \/ Release(p) \/ Unlock(p)

Next == \E p \in Publishers :
          \/ Locking(p) \/ Publishing(p) \/ Finishing(p)
          \/ Abort(p) \/ ChildExits(p) \/ Crash(p) \/ Restart(p)

Spec == Init /\ [][Next]_vars

-----------------------------------------------------------------------------
Critical == {"locked", "version", "extract", "verify", "contain", "copy",
             "recheck", "rename", "cleanup", "release", "unlock"}

(* "will not overwrite": whoever holds or has lost the lock, a package     *)
(* that is visible is never replaced, nor taken away.                      *)
CreateOnly == [][target # NoPackage => target' = target]_vars

(* "The final citekey directory is never populated incrementally": what is *)
(* visible is whole, also after a crash at any point of the publication.   *)
PublishedWhole == target # NoPackage => target.whole

(* A receipt is given for the publisher's own package and for no other: of *)
(* those that saw no package before their rename, one is told it has       *)
(* published.                                                              *)
ReceiptTrue ==
  \A p \in Publishers :
    result[p] = "published" => target.by = p /\ target.inc = inc[p]

(* The staging tree of a command is not removed while a process of it may  *)
(* still be writing there.                                                 *)
StageNotPulled ==
  \A p \in Publishers : stage[p] = "removed" => ~child[p]

(* "preserve any lock that cannot be proved stale": as long as a publisher *)
(* is at work under its lock, the file at the lock's path is its own; so   *)
(* no two publishers are at work at once.                                  *)
LockHeld == \A p \in Publishers : pc[p] \in Critical => lock = fd[p]

(* The same, as long as no publisher has died: a lock is only ever taken   *)
(* from a process that is gone, whatever the checks of its record can and  *)
(* cannot tell.                                                            *)
LiveLockKept == crashes = 0 => LockHeld

(* The four together, as they are checked and proved.                      *)
PublicationSafe == PublishedWhole /\ ReceiptTrue /\ StageNotPulled /\ LiveLockKept
=============================================================================
