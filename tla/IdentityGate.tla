---------------------------- MODULE IdentityGate ----------------------------
(***************************************************************************)
(* The identity phase of an ingestion: a model that may call the tools of  *)
(* buildIdentityTools in any order and then claims what the paper is and   *)
(* whether the vault already has it, and the gate that takes or refuses    *)
(* the claim on what the tools have seen (validateIdentityReceipts).       *)
(*                                                                         *)
(* The vault does not change meanwhile.  A title stands for all spellings  *)
(* that normalise to it.  A call that fails without leaving a trace is no  *)
(* step.                                                                   *)
(***************************************************************************)
EXTENDS Naturals, FiniteSets

CONSTANTS Titles, Dois,
          NoDoi,      \* the DOI of what has none
          Registry,   \* what Crossref knows: records [title, doi]
          Answer(_),  \* the record Crossref gives for a DOI
          Files,      \* Markdown files that may exist: records [layer, key]
          NoCitekey,  \* the citekey of a file in Clippings
          Contents,   \* what the header of a file may say: records [title, doi]
          Nothing,    \* a file that does not exist
          Candidates, \* how many candidates a search lists (code: 8)
          Reads,      \* how many of them may be read (3)
          Searches,   \* how often Crossref may be searched (2)
          Evidence    \* what the PDF may yield: [available, dois, queries]

GateAssumption ==
  /\ Registry \subseteq [title : Titles, doi : Dois \cup {NoDoi}]
  /\ Contents \subseteq [title : Titles, doi : Dois \cup {NoDoi}]
  /\ NoDoi \notin Dois /\ Nothing \notin Contents \cup Registry
  /\ \A d \in Dois : Answer(d) # Nothing => Answer(d) \in Registry /\ Answer(d).doi # NoDoi
  /\ Evidence \subseteq [available : BOOLEAN, dois : SUBSET Dois,
                         queries : SUBSET Titles]
  /\ {Candidates, Reads, Searches} \subseteq Nat

VARIABLES files,     \* what each file of the vault says
          pdf,       \* the local evidence: is it there, DOIs, fixed queries
          preflight, \* vault_candidates: "open", "spent", "done"
          listed, terms,         \* its candidates, the titles its terms cover
          allowed, attempted,    \* exactDoiCandidates, attemptedExactDois
          tries, found,          \* crossref_search
          looked, checked, read, \* crossref_doi, vault_doi_search, reads
          verdict

tools    == <<preflight, listed, terms, allowed, attempted, tries, found,
              looked, checked, read>>
gateVars == <<files, pdf, tools, verdict>>

Present == {f \in Files : files[f] # Nothing}
DoiOf(f)   == files[f].doi
TitleOf(f) == files[f].title
DoisOf(fs) == {DoiOf(f) : f \in fs} \ {NoDoi}

NoVerdict == [status |-> "open", dup |-> "none", title |-> Nothing, doi |-> NoDoi,
              bound |-> FALSE, saw |-> {}]

Init ==
  /\ files \in [Files -> Contents \cup {Nothing}]
  /\ pdf \in Evidence
  /\ preflight = "open" /\ listed = {} /\ terms = {}
  /\ allowed = pdf.dois /\ attempted = {}
  /\ tries = 0 /\ found = {}
  /\ looked = {} /\ checked = {} /\ read = {}
  /\ verdict = NoVerdict

-----------------------------------------------------------------------------
(* The tools.                                                              *)

(* What the fixed queries list: every file whose title their terms cover,  *)
(* and any other; full, the list may lack some, and queries go unasked.    *)
Lists(some, asked, covered) ==
  /\ some \subseteq Present /\ Cardinality(some) <= Candidates
  /\ asked \subseteq covered /\ (asked = {} => covered = {} /\ some = {})
  /\ Cardinality(some) < Candidates =>
       /\ asked = pdf.queries
       /\ {f \in Present : TitleOf(f) \in covered} \subseteq some

(* vault_candidates, once; a search that fails is spent all the same.      *)
VaultCandidates ==
  /\ preflight = "open"
  /\ \/ preflight' = "spent" /\ UNCHANGED <<listed, terms, allowed>>
     \/ /\ preflight' = "done"
        /\ \E some \in SUBSET Files, asked \in SUBSET pdf.queries,
              covered \in SUBSET Titles :
             /\ Lists(some, asked, covered)
             /\ listed' = some /\ terms' = covered
             /\ allowed' = allowed \cup DoisOf(some)
  /\ UNCHANGED <<files, pdf, attempted, tries, found, looked, checked, read, verdict>>

(* vault_candidate_read: the header of a listed file.                      *)
CandidateRead(f) ==
  /\ f \in listed \ read /\ Cardinality(read) < Reads
  /\ read' = read \cup {f}
  /\ UNCHANGED <<files, pdf, preflight, listed, terms, allowed, attempted, tries,
                 found, looked, checked, verdict>>

Preflown == preflight = "done"

(* crossref_doi: a DOI of the PDF, the vault or a search, attempted even   *)
(* when the call fails.                                                    *)
CrossrefDoi(d) ==
  /\ Preflown /\ d \in allowed
  /\ attempted' = attempted \cup {d}
  /\ looked' \in {looked} \cup (IF Answer(d) = Nothing THEN {} ELSE {looked \cup {d}})
  /\ UNCHANGED <<files, pdf, preflight, listed, terms, allowed, tries, found,
                 checked, read, verdict>>

(* crossref_search, when no candidate DOI is left unattempted.             *)
CrossrefSearch ==
  /\ Preflown /\ allowed \subseteq attempted /\ tries < Searches
  /\ tries' = tries + 1
  /\ \E hits \in SUBSET Registry :
       /\ found' = found \cup hits
       /\ allowed' = allowed \cup ({r.doi : r \in hits} \ {NoDoi})
  /\ UNCHANGED <<files, pdf, preflight, listed, terms, attempted, looked,
                 checked, read, verdict>>

Verified == {d \in looked : Answer(d).doi = d}

(* vault_doi_search: the files with a DOI that Crossref has verified.      *)
VaultDoiSearch(d) ==
  /\ d \in Verified \ checked
  /\ checked' = checked \cup {d}
  /\ UNCHANGED <<files, pdf, preflight, listed, terms, allowed, attempted, tries,
                 found, looked, read, verdict>>

-----------------------------------------------------------------------------
(* The gate.  A claim is the model's final answer; one of "possible", or   *)
(* of "none" with duplicates, is for the user to look at or is refused.    *)

Claims == [title : Titles, doi : Dois \cup {NoDoi}, dup : {"none", "exact"},
           key : {f.key : f \in Files} \ {NoCitekey}]

(* The records Crossref returned; what the web says is none.               *)
Observed == found \cup {Answer(d) : d \in looked}
Matching(c) == {r \in Observed : r.title = c.title}

LookedUp(c) == c.doi \in looked /\ Answer(c.doi) = [title |-> c.title, doi |-> c.doi]

(* bindIdentityMetadataFromReceipts: the record that replaces the fields   *)
(* of the claim; r is the first of a search with its title.                *)
Selects(c, r) ==
  IF LookedUp(c) THEN r = Answer(c.doi)
  ELSE IF Matching(c) \cap found = {} THEN r = Nothing
  ELSE r \in Matching(c) \cap found

Bound(c, r) == IF r = Nothing THEN c ELSE [c EXCEPT !.doi = r.doi]

Holding(d) == {f \in Present : d # NoDoi /\ DoiOf(f) = d}
Covered(c) == c.title \in terms
Same(f, c) == TitleOf(f) = c.title \/ (c.doi # NoDoi /\ DoiOf(f) = c.doi)

(* collectTrustedExactDuplicateRecords                                     *)
Trusted(c) ==
       (IF c.doi \in checked THEN Holding(c.doi) ELSE {})
  \cup {f \in listed : Covered(c) /\ TitleOf(f) = c.title}
  \cup {f \in read : Same(f, c)}

KeysOf(fs) == {f.key : f \in fs} \ {NoCitekey}

ShownBy(c) == listed \cup read \cup UNION {Holding(d) : d \in checked}

(* Faulty variant: a paper with a DOI is searched by its title only.       *)
NoneByTitle(c) ==
  /\ Covered(c)
  /\ ~\E f \in ShownBy(c) : f.key = c.key \/ TitleOf(f) = c.title
  /\ ~\E f \in read : Same(f, c)

(* "none": searched by title and DOI, and nothing that was shown is it.    *)
NoneSupported(c) ==
  /\ Covered(c)
  /\ c.doi # NoDoi => c.doi \in checked /\ Holding(c.doi) = {}
  /\ ~\E f \in ShownBy(c) : f.key = c.key \/ TitleOf(f) = c.title
  /\ ~\E f \in read : Same(f, c)

(* Faulty variant: the records may have several citekeys.                  *)
ExactOfAny(c) == Trusted(c) # {}

(* "exact": a tool has shown it, under one citekey at most.                *)
ExactSupported(c) == Trusted(c) # {} /\ Cardinality(KeysOf(Trusted(c))) <= 1

(* Faulty variant: what a web page says counts as a record.                *)
RecordOrPage(c) ==
  IF c.doi = NoDoi THEN \A r \in Matching(c) : r.doi = NoDoi ELSE LookedUp(c)

(* The title is that of a record, with its DOI looked up exactly; without  *)
(* a DOI, no record of the title has one.                                  *)
RecordSupported(c) ==
  /\ Matching(c) # {}
  /\ IF c.doi = NoDoi THEN \A r \in Matching(c) : r.doi = NoDoi ELSE LookedUp(c)

Supported(c) ==
  /\ pdf.available /\ Preflown /\ RecordSupported(c)
  /\ IF c.dup = "none" THEN NoneSupported(c) ELSE ExactSupported(c)

(* The model's answer, bound and validated.  The loop may end, or the      *)
(* model give up, at any time.                                             *)
Decide ==
  /\ verdict.status = "open"
  /\ \/ verdict' = [verdict EXCEPT !.status = "refused"]
     \/ \E claim \in Claims, r \in Registry \cup {Nothing} :
          LET c == Bound(claim, r) IN
          /\ Selects(claim, r)
          /\ Supported(c)
          /\ verdict' = [status |-> "accepted", dup |-> c.dup, title |-> c.title,
                         doi |-> c.doi, bound |-> r # Nothing,
                         saw |-> IF c.dup = "exact" THEN Trusted(c) ELSE {}]
  /\ UNCHANGED <<files, pdf, tools>>

Next ==
  /\ verdict.status = "open"
  /\ \/ VaultCandidates
     \/ \E f \in Files : CandidateRead(f)
     \/ \E d \in Dois : CrossrefDoi(d) \/ VaultDoiSearch(d)
     \/ CrossrefSearch \/ Decide

Spec == Init /\ [][Next]_gateVars

-----------------------------------------------------------------------------
Accepted == verdict.status = "accepted"

(* An identity that is taken is a record of Crossref, title, DOI and the   *)
(* rest, whatever the model has claimed                                    *)
(* (bindIdentityMetadataFromReceipts, validateIdentityReceipts).           *)
IdentityGrounded ==
  Accepted => verdict.bound /\ [title |-> verdict.title, doi |-> verdict.doi] \in Registry

(* A paper taken for new is in no file of the vault: none has its DOI, and *)
(* none has its title, unless the search was cut off.                      *)
NewIsNew ==
  Accepted /\ verdict.dup = "none" =>
    \A f \in Present :
      /\ verdict.doi # NoDoi => DoiOf(f) # verdict.doi
      /\ Cardinality(listed) < Candidates => TitleOf(f) # verdict.title

(* A paper taken for a duplicate has files, of its title or DOI, that do   *)
(* not disagree on its citekey; so a run that completes it adds to one     *)
(* record (PaperIngest!Searched).                                          *)
DuplicateIsOne ==
  Accepted /\ verdict.dup = "exact" =>
    /\ verdict.saw # {} /\ Cardinality(KeysOf(verdict.saw)) <= 1
    /\ \A f \in verdict.saw : Same(f, verdict)
=============================================================================
