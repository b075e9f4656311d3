------------------------------ MODULE Excerpts ------------------------------
(***************************************************************************)
(* One saved excerpt, of a paper (ExcerptLibraryService, createExcerpt) or *)
(* of an answer of a model (AnswerExcerptService), as a file that several  *)
(* windows create, annotate and mark as done, while it may be edited or    *)
(* removed by others and the answer of a write may be lost.                *)
(*                                                                         *)
(* What was quoted never changes, so it is left out; a source that changed *)
(* is one of the reasons to refuse.  Times are left out as well: the code  *)
(* also refuses a file that was changed and changed back.                  *)
(***************************************************************************)
EXTENDS Naturals, Sequences, SequencesExt

CONSTANTS Windows,
          Texts, NoWords,        \* notes and revisions by hand
          MaxVersions,         \* of a revision by hand (code: 64)
          Missing, NoOne,
          MaxUpsets, MaxAsked  \* bounds of the model

ExcerptAssumption == NoWords \in Texts /\ MaxVersions \in Nat \ {0}

VARIABLES style,    \* "source" or "answer"; never changes
          file,     \* Missing or what it says
          shown,    \* what each window has read
          at,       \* where each window is
          ask,      \* what it wants
          intended, \* what it has computed
          turn,     \* the window that AnswerExcerptService works for
          upsets, asked

excerptVars == <<style, file, shown, at, ask, intended, turn, upsets, asked>>

Excerpt(note) == [note |-> note, versions |-> <<NoWords>>, done |-> FALSE, foreign |-> 0]

(* A note of an answer that others have edited no longer agrees with its   *)
(* credential.                                                             *)
Readable == file # Missing /\ (style = "source" \/ file.foreign = 0)

Edits == [kind : {"note", "version"}, text : Texts]
         \cup [kind : {"done"}, set : BOOLEAN]
         \cup [kind : {"restore"}, index : 1..MaxVersions]

NoEdit == [kind |-> "none"]

Init ==
  /\ style \in {"source", "answer"}
  /\ file \in {Missing} \cup {Excerpt(t) : t \in Texts}
  /\ shown = [w \in Windows |-> Missing]
  /\ at = [w \in Windows |-> "idle"] /\ ask = [w \in Windows |-> NoEdit]
  /\ intended = [w \in Windows |-> Missing] /\ turn = NoOne
  /\ upsets = 0 /\ asked = 0

-----------------------------------------------------------------------------
Upset == upsets < MaxUpsets /\ upsets' = upsets + 1

Goes(w, pc) == at' = [at EXCEPT ![w] = pc]

(* What a window was asked to do is over; the queue goes on.               *)
Ends(w) ==
  /\ Goes(w, "idle") /\ ask' = [ask EXCEPT ![w] = NoEdit]
  /\ intended' = [intended EXCEPT ![w] = Missing]
  /\ turn' = IF turn = w THEN NoOne ELSE turn

Shows(w, content) == Ends(w) /\ shown' = [shown EXCEPT ![w] = content]

Open(w) ==
  /\ at[w] = "idle" /\ Readable /\ shown[w] # file /\ Shows(w, file)
  /\ UNCHANGED <<style, file, upsets, asked>>

(* A confirmed window.                                                     *)
Request(w) ==
  /\ at[w] = "idle" /\ asked < MaxAsked /\ asked' = asked + 1
  /\ \/ \E t \in Texts : ask' = [ask EXCEPT ![w] = [kind |-> "new", text |-> t]]
     \/ /\ shown[w] # Missing
        /\ \E e \in Edits :
             /\ style = "source" => e.kind \in {"note", "done"}
             /\ e.kind = "restore" => e.index <= Len(shown[w].versions)
             /\ ask' = [ask EXCEPT ![w] = e]
  /\ Goes(w, "queued")
  /\ UNCHANGED <<style, file, shown, intended, turn, upsets>>

(* serial; the other service has no queue.                                 *)
Starts(w) ==
  /\ at[w] = "queued"
  /\ turn = NoOne /\ turn' = IF style = "answer" THEN w ELSE NoOne
  /\ Goes(w, IF ask[w].kind = "new" THEN "look" ELSE "load")
  /\ UNCHANGED <<style, file, shown, ask, intended, upsets, asked>>

(* A read fails, the source has changed, or the caller gives up.           *)
Refused(w) ==
  /\ at[w] \in {"look", "create", "load", "apply", "confirm", "verify", "recover"}
  /\ Upset /\ Ends(w)
  /\ UNCHANGED <<style, file, shown, asked>>

-----------------------------------------------------------------------------
(* createExcerpt, save                                                     *)

Look(w) ==
  /\ at[w] = "look"
  /\ \/ file = Missing /\ Goes(w, "create") /\ UNCHANGED <<shown, ask, intended, turn>>
     \/ Readable /\ Shows(w, file)
     \/ file # Missing /\ ~Readable /\ Ends(w) /\ UNCHANGED shown
  /\ UNCHANGED <<style, file, upsets, asked>>

(* The file is created unless it exists, or it fails.  What the caller is  *)
(* told of that does not matter.                                           *)
Create(w) ==
  /\ at[w] = "create" /\ Goes(w, "confirm")
  /\ \/ file = Missing /\ file' = Excerpt(ask[w].text) /\ UNCHANGED upsets
     \/ file # Missing /\ UNCHANGED <<file, upsets>>
     \/ file = Missing /\ UNCHANGED file /\ Upset
  /\ UNCHANGED <<style, shown, ask, intended, turn, asked>>

(* Whoever created it, it is read again.                                   *)
Confirm(w) ==
  /\ at[w] = "confirm"
  /\ IF Readable THEN Shows(w, file) ELSE Ends(w) /\ UNCHANGED shown
  /\ UNCHANGED <<style, file, upsets, asked>>

-----------------------------------------------------------------------------
(* mutate                                                                  *)

LoadFirst(w) ==
  /\ at[w] = "load"
  /\ IF Readable THEN Goes(w, "apply") /\ UNCHANGED <<ask, intended, turn>> ELSE Ends(w)
  /\ UNCHANGED <<style, file, shown, upsets, asked>>

(* Faulty variant: a mark of completion stays when the text changes.       *)
ReopenedNever(next) == next

(* reopen                                                                  *)
Reopened(next) == [next EXCEPT !.done = FALSE]

(* appendHumanRevision                                                     *)
WithVersion(c, text) ==
  IF text = Last(c.versions) THEN c
  ELSE Reopened([c EXCEPT !.versions = Append(@, text)])

HasRoom(c, e) ==
  CASE e.kind = "version" -> e.text = Last(c.versions) \/ Len(c.versions) < MaxVersions
    [] e.kind = "restore" -> /\ Len(c.versions) > 1 /\ e.index <= Len(c.versions)
                             /\ \/ c.versions[e.index] = Last(c.versions)
                                \/ Len(c.versions) < MaxVersions
    [] OTHER -> TRUE

Patched(c, e) ==
  CASE e.kind = "note"    -> IF e.text = c.note THEN c ELSE Reopened([c EXCEPT !.note = e.text])
    [] e.kind = "done"    -> [c EXCEPT !.done = e.set]
    [] e.kind = "version" -> WithVersion(c, e.text)
    [] e.kind = "restore" -> WithVersion(c, c.versions[e.index])

(* Faulty variant: the file is patched as it is.                           *)
AcceptsAny(w) == Readable /\ HasRoom(file, ask[w])

(* In Vault.process: the whole file is what the window has read.           *)
Accepts(w) == Readable /\ file = shown[w] /\ HasRoom(file, ask[w])

Apply(w) ==
  /\ at[w] = "apply"
  /\ IF ~Accepts(w) THEN Ends(w) /\ UNCHANGED <<file, upsets>>
     ELSE /\ intended' = [intended EXCEPT ![w] = Patched(file, ask[w])]
          /\ \/ file' = intended'[w] /\ Goes(w, "verify") /\ UNCHANGED upsets
             \/ file' \in {file, intended'[w]} /\ Goes(w, "recover") /\ Upset
          /\ UNCHANGED <<ask, turn>>
  /\ UNCHANGED <<style, shown, asked>>

(* Faulty variant: a failed write is taken for a written one.              *)
RecoverBlindly(w) ==
  /\ at[w] = "recover" /\ Shows(w, intended[w])
  /\ UNCHANGED <<style, file, upsets, asked>>

(* A write can commit before its response fails: the exact file counts.    *)
(* AnswerExcerptService then reads it once more.                           *)
Recover(w) ==
  /\ at[w] = "recover"
  /\ \/ file # intended[w] /\ Ends(w) /\ UNCHANGED shown
     \/ file = intended[w] /\ style = "source" /\ Shows(w, file)
     \/ /\ file = intended[w] /\ style = "answer" /\ Goes(w, "verify")
        /\ UNCHANGED <<shown, ask, intended, turn>>
  /\ UNCHANGED <<style, file, upsets, asked>>

Verify(w) ==
  /\ at[w] = "verify"
  /\ IF file = intended[w] THEN Shows(w, file) ELSE Ends(w) /\ UNCHANGED shown
  /\ UNCHANGED <<style, file, upsets, asked>>

-----------------------------------------------------------------------------
(* Others: another device saves a note, somebody edits the file, removes   *)
(* it, or the plugin is started again.                                     *)
Foreign ==
  /\ file # Missing /\ Upset
  /\ \/ \E t \in Texts \ {file.note} : file' = [file EXCEPT !.note = t, !.done = FALSE]
     \/ file' = [file EXCEPT !.foreign = @ + 1]
     \/ file' = Missing
  /\ UNCHANGED <<style, shown, at, ask, intended, turn, asked>>

Restart ==
  /\ Upset /\ turn' = NoOne
  /\ shown' = [w \in Windows |-> Missing] /\ at' = [w \in Windows |-> "idle"]
  /\ ask' = [w \in Windows |-> NoEdit] /\ intended' = [w \in Windows |-> Missing]
  /\ UNCHANGED <<style, file, asked>>

Next ==
  \/ \E w \in Windows :
       \/ Open(w) \/ Request(w) \/ Starts(w) \/ Refused(w)
       \/ Look(w) \/ Create(w) \/ Confirm(w)
       \/ LoadFirst(w) \/ Apply(w) \/ Recover(w) \/ Verify(w)
  \/ Foreign \/ Restart

Spec == Init /\ [][Next]_excerptVars

-----------------------------------------------------------------------------
Rewrites(w) == at'[w] # at[w] /\ file # Missing /\ file' # file

(* What a window replaces is what it shows, whatever other windows, other  *)
(* devices and lost answers did meanwhile, and no version of a revision by *)
(* hand is ever removed.                                                   *)
NothingUnseen ==
  [][\A w \in Windows : Rewrites(w) =>
       shown[w] = file /\ IsPrefix(file.versions, file'.versions)]_excerptVars

(* What a window shows as read or saved is in the file when it says so: an *)
(* answer that was lost makes no save out of a failure.                    *)
ToldTrue ==
  [][\A w \in Windows : shown'[w] \notin {shown[w], Missing} => file = shown'[w]]_excerptVars

(* A mark of completion is about one text: none of its notes and revisions *)
(* changes under it.                                                       *)
MarkStands ==
  [][file # Missing /\ file' # Missing /\ file.done /\ file'.done =>
       file.note = file'.note /\ file.versions = file'.versions]_excerptVars
=============================================================================
