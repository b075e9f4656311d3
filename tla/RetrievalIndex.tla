--------------------------- MODULE RetrievalIndex ---------------------------
(***************************************************************************)
(* The vector index of the knowledge notes (KnowledgeRetrievalService): a  *)
(* build that sends texts to a model and saves after each batch, may be    *)
(* stopped, may fail and may be cut off by the end of the plugin, while    *)
(* the user edits the notes, asks for changes and asks questions.          *)
(*                                                                         *)
(* A note has one passage, its text, and a batch is one passage.  The      *)
(* notes are read in one step.  The file of the index is replaced by a     *)
(* rename, so a write happens or not.                                      *)
(***************************************************************************)
EXTENDS Naturals, FiniteSets

CONSTANTS Files, Texts,
          NoText,
          MaxUpsets      \* a bound of the model, on edits, failures and reloads

IndexAssumption == IsFiniteSet(Files)

VARIABLES docs,     \* the text of each note, or NoText
          disk,     \* the index file: is it there, its texts with vectors, its notes
          snap,     \* the same in memory
          loaded,   \* "no", "yes", "failed": the one load of an instance
          status,   \* what the settings show: state, the number of changed
                    \* notes, and how many of all passages have vectors
          build,    \* the build under way: pc, the notes it has read, vectors
          stopped,  \* its signal
          inspector, \* an inspection under way: "idle", "load", "read"
          query,    \* a search under way: pc, notes it has read, hits
          upsets,   \* edits, failures and reloads
          paid,     \* ghost: texts in the vault that were sent and need not be again
          seen      \* ghost: the notes that the status was computed of, or NoText

serviceVars == <<snap, loaded, status, build, stopped, inspector, seen>>
indexVars   == <<docs, disk, serviceVars, query, upsets, paid>>

Vaults == [Files -> Texts \cup {NoText}]
NoIndex == [there |-> FALSE, vectors |-> {}, hashes |-> [f \in Files |-> NoText]]
Passages(notes) == {f \in Files : notes[f] # NoText}
TextsOf(notes) == {notes[f] : f \in Passages(notes)}
Changed(a, b) == Cardinality({f \in Files : a[f] # b[f]})
Done(notes, vectors) == Cardinality({f \in Passages(notes) : notes[f] \in vectors})
Total(notes) == Cardinality(Passages(notes))

Idle(pc) == [pc |-> pc, notes |-> NoIndex.hashes, vectors |-> {}]
NoQuery == [pc |-> "idle", notes |-> NoIndex.hashes, hits |-> {}]
NoStatus == [state |-> "idle", changed |-> 0, done |-> 0, total |-> 0]

Init ==
  /\ docs \in Vaults /\ disk = NoIndex
  /\ snap = NoIndex /\ loaded = "no" /\ status = NoStatus
  /\ build = Idle("idle") /\ stopped = FALSE /\ inspector = "idle" /\ query = NoQuery
  /\ upsets = 0 /\ paid = {} /\ seen = NoText

-----------------------------------------------------------------------------
(* A failure of a read, a write or a model, an edit or a reload.           *)
Upset == upsets < MaxUpsets /\ upsets' = upsets + 1

(* load: once per instance, for whoever comes first.  An index that cannot *)
(* be read is taken for none.                                              *)
Load ==
  /\ loaded = "no" /\ "load" \in {build.pc, inspector, query.pc}
  /\ \/ /\ loaded' = "yes" /\ snap' = disk
        /\ LET n == Cardinality(disk.vectors)
           IN status' = IF disk.there THEN [status EXCEPT !.state = "ready", !.done = n, !.total = n]
                        ELSE status
        /\ UNCHANGED <<upsets, paid>>
     \/ /\ Upset /\ loaded' = "failed"
        /\ status' = [status EXCEPT !.state = "error"]
        /\ paid' = {} /\ UNCHANGED snap
  /\ UNCHANGED <<docs, disk, build, stopped, inspector, query, seen>>

-----------------------------------------------------------------------------
(* update                                                                  *)

Update ==
  /\ build.pc = "idle"
  /\ build' = Idle("load") /\ stopped' = FALSE
  /\ UNCHANGED <<docs, disk, snap, loaded, status, inspector, query, upsets, paid, seen>>

Stop ==
  /\ build.pc # "idle" /\ stopped' = TRUE
  /\ UNCHANGED <<docs, disk, snap, loaded, status, build, inspector, query,
                 upsets, paid, seen>>

BuildBegins ==
  /\ build.pc = "load" /\ loaded # "no"
  /\ build' = [build EXCEPT !.pc = "read"]
  /\ status' = [status EXCEPT !.state = "building"]
  /\ UNCHANGED <<docs, disk, snap, loaded, stopped, inspector, query, upsets, paid, seen>>

Ends(state) ==
  /\ build' = Idle("idle")
  /\ status' = [status EXCEPT !.state = state]

(* The signal is looked at after every await but that of a write.          *)
Interrupted ==
  /\ stopped /\ build.pc \in {"read", "embed", "recheck"} /\ Ends("interrupted")
  /\ UNCHANGED <<docs, disk, snap, loaded, stopped, inspector, query, upsets, paid, seen>>

(* What the index has of the passages is taken over.                       *)
ReadNotes ==
  /\ build.pc = "read" /\ ~stopped
  /\ build' = [pc |-> "embed", notes |-> docs, vectors |-> snap.vectors \cap TextsOf(docs)]
  /\ status' = [status EXCEPT !.done = Done(docs, snap.vectors), !.total = Total(docs)]
  /\ UNCHANGED <<docs, disk, snap, loaded, stopped, inspector, query, upsets, paid, seen>>

Wanting == TextsOf(build.notes) \ build.vectors

(* Faulty variant: what was built is saved at the end only.                *)
EmbedUnsaved(t) ==
  /\ build.pc = "embed" /\ ~stopped /\ t \in Wanting
  /\ build' = [build EXCEPT !.vectors = @ \cup {t}]
  /\ paid' = paid \cup ({t} \cap TextsOf(docs))
  /\ UNCHANGED <<docs, disk, snap, loaded, status, stopped, inspector, query,
                 upsets, seen>>

(* The model answers for a batch.                                          *)
Embed(t) ==
  /\ build.pc = "embed" /\ ~stopped /\ t \in Wanting
  /\ build' = [build EXCEPT !.pc = "save", !.vectors = @ \cup {t}]
  /\ paid' = paid \cup ({t} \cap TextsOf(docs))
  /\ UNCHANGED <<docs, disk, snap, loaded, status, stopped, inspector, query,
                 upsets, seen>>

Built ==
  /\ build.pc = "embed" /\ ~stopped /\ Wanting = {}
  /\ build' = [build EXCEPT !.pc = "last"]
  /\ UNCHANGED <<docs, disk, snap, loaded, status, stopped, inspector, query,
                 upsets, paid, seen>>

(* save: after a batch, and at the end.  It is not cut off by a stop.      *)
Save ==
  /\ build.pc \in {"save", "last"}
  /\ disk' = [there |-> TRUE, vectors |-> build.vectors, hashes |-> build.notes]
  /\ snap' = disk'
  /\ IF build.pc = "save"
     THEN /\ build' = [build EXCEPT !.pc = "embed"]
          /\ status' = [status EXCEPT !.done = Done(build.notes, build.vectors)]
     ELSE build' = [build EXCEPT !.pc = "recheck"] /\ UNCHANGED status
  /\ UNCHANGED <<docs, loaded, stopped, inspector, query, upsets, paid, seen>>

(* A read, the model or a write fails.                                     *)
BuildFails ==
  /\ build.pc \in {"read", "embed", "save", "last", "recheck"} /\ Upset
  /\ Ends(IF stopped THEN "interrupted" ELSE "error")
  /\ paid' = IF build.pc = "save" THEN paid \cap snap.vectors ELSE paid
  /\ UNCHANGED <<docs, disk, snap, loaded, stopped, inspector, query, seen>>

(* Faulty variant: the notes are not read again.                           *)
RecheckNothing ==
  /\ build.pc = "recheck" /\ build' = Idle("idle")
  /\ status' = [status EXCEPT !.state = "ready", !.changed = 0] /\ seen' = docs
  /\ UNCHANGED <<docs, disk, snap, loaded, stopped, inspector, query, upsets, paid>>

(* The notes are read again for what has changed meanwhile.  A stop that   *)
(* comes with the last of them is not noticed.                             *)
Recheck ==
  /\ build.pc = "recheck" /\ build' = Idle("idle")
  /\ status' = [status EXCEPT !.state = "ready", !.changed = Changed(docs, snap.hashes)]
  /\ seen' = docs
  /\ UNCHANGED <<docs, disk, snap, loaded, stopped, inspector, query, upsets, paid>>

-----------------------------------------------------------------------------
(* inspect                                                                 *)

Inspect ==
  /\ inspector = "idle" /\ inspector' = "load"
  /\ UNCHANGED <<docs, disk, snap, loaded, status, build, stopped, query, upsets, paid, seen>>

(* It has nothing to add to a build; one that begins later is not noticed. *)
InspectBegins ==
  /\ inspector = "load" /\ loaded # "no"
  /\ inspector' = IF build.pc = "idle" THEN "read" ELSE "idle"
  /\ UNCHANGED <<docs, disk, snap, loaded, status, build, stopped, query, upsets, paid, seen>>

InspectShows ==
  /\ inspector = "read" /\ inspector' = "idle"
  /\ status' = [status EXCEPT !.changed = Changed(docs, snap.hashes),
                              !.done = Done(docs, snap.vectors), !.total = Total(docs)]
  /\ seen' = docs
  /\ UNCHANGED <<docs, disk, snap, loaded, build, stopped, query, upsets, paid>>

-----------------------------------------------------------------------------
(* search                                                                  *)

(* A new search ends the one before it.                                    *)
Ask ==
  /\ query' = [NoQuery EXCEPT !.pc = "load"]
  /\ UNCHANGED <<docs, disk, serviceVars, upsets, paid>>

ReadAll ==
  /\ query.pc = "load" /\ loaded # "no"
  /\ query' = [query EXCEPT !.pc = "rank", !.notes = docs]
  /\ UNCHANGED <<docs, disk, serviceVars, upsets, paid>>

(* By words, vectors and a model, any of which may be missing: some        *)
(* passages of the notes that were read.                                   *)
Rank ==
  /\ query.pc = "rank"
  /\ \E found \in SUBSET Passages(query.notes) :
       query' = [NoQuery EXCEPT !.pc = "answer", !.hits = {<<f, query.notes[f]>> : f \in found}]
  /\ UNCHANGED <<docs, disk, serviceVars, upsets, paid>>

(* Faulty variant: the answer is what was ranked.                          *)
AnswerRanked ==
  /\ query.pc = "answer" /\ query' = [query EXCEPT !.pc = "answered", !.notes = docs]
  /\ UNCHANGED <<docs, disk, serviceVars, upsets, paid>>

(* What was edited while the models were asked is left out.                *)
Answer ==
  /\ query.pc = "answer"
  /\ query' = [pc |-> "answered", notes |-> docs, hits |-> {h \in query.hits : docs[h[1]] = h[2]}]
  /\ UNCHANGED <<docs, disk, serviceVars, upsets, paid>>

-----------------------------------------------------------------------------
Edit ==
  /\ Upset
  /\ \E f \in Files, t \in Texts \cup {NoText} : t # docs[f] /\ docs' = [docs EXCEPT ![f] = t]
  /\ paid' = paid \cap TextsOf(docs')
  /\ UNCHANGED <<disk, serviceVars, query>>

(* The plugin ends anywhere and is started again.                          *)
Reload ==
  /\ Upset
  /\ snap' = NoIndex /\ loaded' = "no" /\ status' = NoStatus
  /\ build' = Idle("idle") /\ stopped' = FALSE /\ inspector' = "idle"
  /\ query' = NoQuery /\ seen' = NoText
  /\ paid' = IF build.pc = "save" THEN paid \cap disk.vectors ELSE paid
  /\ UNCHANGED <<docs, disk>>

Next ==
  \/ Load \/ Update \/ Stop \/ BuildBegins \/ Interrupted \/ ReadNotes
  \/ \E t \in Texts : Embed(t)
  \/ Built \/ Save \/ BuildFails \/ Recheck
  \/ Inspect \/ InspectBegins \/ InspectShows
  \/ Ask \/ ReadAll \/ Rank \/ Answer \/ Edit \/ Reload

Spec == Init /\ [][Next]_indexVars

-----------------------------------------------------------------------------
(* When the settings show an index without changes and with all passages   *)
(* done, it has a vector for every passage of the vault as it was read for *)
(* that, and no others, in memory and in the file: whatever builds were    *)
(* stopped, cut off or overtaken by edits and inspections.                 *)
UpToDate ==
  /\ status.state = "ready" /\ status.changed = 0 /\ status.done = status.total
  /\ seen # NoText
  => snap = disk /\ snap.hashes = seen /\ snap.vectors = TextsOf(seen)

(* No passage is sent again whose batch was answered, however builds are   *)
(* stopped and continued ("checkpoint successful batches so stop/restart   *)
(* never repeats all uploads"), unless a read or a write has failed or the *)
(* note was changed.                                                       *)
SentOnce == build.pc = "embed" => paid \cap Wanting = {}

(* A search answers with passages that the vault still has when the notes  *)
(* are read for the last time, though its models took their time.          *)
HitsLive == query.pc = "answered" => \A h \in query.hits : query.notes[h[1]] = h[2]
=============================================================================
