---------------------------- MODULE GuidedReading ----------------------------
(***************************************************************************)
(* Guided reading: one session, a main line of lessons and branches of     *)
(* questions.  A node is added first and answered later; the answer takes  *)
(* minutes of model calls, may be stopped, time out or fail, and may then  *)
(* be retried on the same node.  Every change of the session is an edit of *)
(* a copy that is written to its file and only then becomes the session:   *)
(* the edits wait in one queue.  The reading assistant prepares "go on"    *)
(* actions, which the user opens; its own record is saved before anything  *)
(* is handed to the reading.                                               *)
(*                                                                         *)
(* The program may die between any two steps.  The file of the session     *)
(* holds what `session` holds, except that a load that cannot write its    *)
(* marks keeps them in memory and makes them again the next time; the      *)
(* record of an action is `act`, written before memory too.  Texts, quotes *)
(* and corrections, the usage entries (their failing saves fail a          *)
(* generation) and the unload of the plugin while it lives are left out.   *)
(***************************************************************************)
EXTENDS Naturals, Sequences, FiniteSetsExt

CONSTANTS MaxNodes,   \* bound: how many nodes are asked for at most
          Actions     \* the "go on" cards of the assistant

VARIABLES
  session,   \* the nodes in the order of their creation; is the line complete?
  queue,     \* the edits that wait for their write, the first one under way
  gen,       \* of each node: the stage of its generation
  halted,   \* the nodes whose generation was aborted
  unmarked,  \* history: the nodes whose last edit, to "failed", was not written
  act,       \* the saved cards of the assistant
  advance    \* what the plugin does for an opened card

readingVars == <<session, queue, gen, halted, unmarked, act, advance>>

Nodes == 1..MaxNodes
Main  == 0
Fresh == MaxNodes + 1     \* "a new branch", where a chain is expected
User  == "user"

ReadingAssumption == MaxNodes \in Nat /\ User \notin Actions

(* A chain is named by its first node, the main line by Main.              *)
Status(s, n) == s.nodes[n].status
Chain(s, c)  == {n \in DOMAIN s.nodes : s.nodes[n].chain = c}
Last(s, c)   == IF Chain(s, c) = {} THEN 0 ELSE Max(Chain(s, c))
Done(s, n)   == n \in DOMAIN s.nodes /\ Status(s, n) = "done"
Unsettled(s, n) == n \in DOMAIN s.nodes /\ Status(s, n) \in {"pending", "running"}
Set(s, n, status) == [s EXCEPT !.nodes[n].status = status]

NoCard == [state |-> "none", on |-> 0, exec |-> "none", node |-> 0]
AtRest == [at |-> "idle", node |-> 0]

Init == /\ session = [nodes |-> <<>>, complete |-> FALSE]
        /\ queue = <<>> /\ gen = [n \in Nodes |-> "idle"]
        /\ halted = {} /\ unmarked = {}
        /\ act = [a \in Actions |-> NoCard]
        /\ advance = [a \in Actions |-> AtRest]

-----------------------------------------------------------------------------
(* Asking for a node: the arrow of the main line, a question on a new      *)
(* branch at a node, or one more on a branch.                              *)

Add(to, at, by) == [edit |-> "add", to |-> to, at |-> at, by |-> by]

Asked == Len(session.nodes) + Len(SelectSeq(queue, LAMBDA e : e.edit = "add"))

Ask == /\ Asked < MaxNodes
       /\ \/ queue' = Append(queue, Add(Main, 0, User))
          \/ \E n \in DOMAIN session.nodes :
               \/ queue' = Append(queue, Add(Fresh, n, User))
               \/ /\ session.nodes[n].chain = n
                  /\ queue' = Append(queue, Add(n, 0, User))
       /\ UNCHANGED <<session, gen, halted, unmarked, act, advance>>

(* A mutant: the card goes on from wherever the main line is by now.       *)
CanAddAnywhere(s, e) ==
  IF e.to = Fresh THEN Done(s, e.at)
  ELSE /\ Last(s, e.to) # 0 => Done(s, Last(s, e.to))
       /\ e.to = Main => ~s.complete

(* addReadingBranch and addReadingNode, with the expectation of advance.   *)
CanAdd(s, e) ==
  IF e.to = Fresh THEN Done(s, e.at)
  ELSE /\ Last(s, e.to) # 0 => Done(s, Last(s, e.to))
       /\ e.to = Main => ~s.complete
       /\ e.by # User => Last(s, Main) = e.at

Added(s, e) ==
  LET n == Len(s.nodes) + 1
  IN [s EXCEPT !.nodes = Append(@,
        [chain  |-> IF e.to = Fresh THEN n ELSE e.to,
         parent |-> IF e.to = Fresh THEN e.at ELSE Last(s, e.to),
         status |-> "pending", by |-> e.by])]

-----------------------------------------------------------------------------
(* One generation at a time for a node.                                    *)

Idle(n) == gen[n] = "idle"

(* generate: the node becomes "running" when its edit is written.          *)
Start(n, q) == /\ gen' = [gen EXCEPT ![n] = "opening"]
               /\ queue' = Append(q, [edit |-> "open", node |-> n])

(* A mutant: two clicks start two generations of the node.                 *)
RetryAgain(n) == /\ n \in DOMAIN session.nodes
                 /\ Status(session, n) \in {"failed", "interrupted"}
                 /\ Start(n, queue)
                 /\ UNCHANGED <<session, halted, unmarked, act, advance>>

(* The view offers a retry of failed and interrupted nodes only; while one *)
(* runs, generate returns at once.                                         *)
Retry(n) == /\ n \in DOMAIN session.nodes
            /\ Status(session, n) \in {"failed", "interrupted"}
            /\ Idle(n)
            /\ Start(n, queue)
            /\ UNCHANGED <<session, halted, unmarked, act, advance>>

Abort(n) == /\ ~Idle(n) /\ n \notin halted
            /\ halted' = halted \cup {n}
            /\ UNCHANGED <<session, queue, gen, unmarked, act, advance>>

(* The user stops a node the view shows as pending or running.             *)
Stop(n) == Unsettled(session, n) /\ Abort(n)

(* The timer of a generation.                                              *)
TimeOut(n) == Abort(n)

(* The model calls are over and nobody has aborted.                        *)
Answer(n) == /\ gen[n] = "working" /\ n \notin halted
             /\ gen' = [gen EXCEPT ![n] = "closing"]
             /\ queue' = Append(queue, [edit |-> "finish", node |-> n])
             /\ UNCHANGED <<session, halted, unmarked, act, advance>>

(* A model call, a check of the answer, the source, or the abort, throws.  *)
Throw(n, q) == /\ gen' = [gen EXCEPT ![n] = "failing"]
               /\ queue' = Append(q, [edit |-> "fail", node |-> n])

(* A mutant: the signal is not handed to the model call.                   *)
FailsDeaf(n) == /\ gen[n] = "working" /\ n \notin halted
                /\ Throw(n, queue)
                /\ UNCHANGED <<session, halted, unmarked, act, advance>>

Fails(n) == /\ gen[n] = "working"
            /\ Throw(n, queue)
            /\ UNCHANGED <<session, halted, unmarked, act, advance>>

(* The end of generate, and what it means for a card that waits for it.    *)
Ends(n, next) ==
  /\ gen' = [gen EXCEPT ![n] = "idle"] /\ halted' = halted \ {n}
  /\ advance' = [a \in Actions |->
       IF advance[a].at = "generating" /\ advance[a].node = n
       THEN [advance[a] EXCEPT !.at = next] ELSE advance[a]]

-----------------------------------------------------------------------------
(* The first edit of the queue is applied to the session as it is now, and *)
(* written; a write that fails leaves the session as it was.               *)

Edit(kind) == queue # <<>> /\ Head(queue).edit = kind

AddNode ==
  LET e == Head(queue) IN
  /\ Edit("add")
  /\ \/ /\ CanAdd(session, e) /\ session' = Added(session, e)
        /\ LET n == Len(session'.nodes) IN
             IF e.by = User THEN Start(n, Tail(queue)) /\ UNCHANGED advance
             ELSE /\ advance' = [advance EXCEPT ![e.by] = [at |-> "recording", node |-> n]]
                  /\ queue' = Tail(queue) /\ UNCHANGED gen
     \/ /\ queue' = Tail(queue)                  \* refused, or not written
        /\ advance' = [a \in Actions |->
             IF a = e.by THEN [at |-> "reporting", node |-> 0] ELSE advance[a]]
        /\ UNCHANGED <<session, gen>>
  /\ UNCHANGED <<halted, unmarked, act>>

OpenNode ==
  LET n == Head(queue).node IN
  /\ Edit("open")
  /\ \/ /\ session' = Set(session, n, "running")
        /\ gen' = [gen EXCEPT ![n] = "working"] /\ queue' = Tail(queue)
     \/ Throw(n, Tail(queue)) /\ UNCHANGED session
  /\ UNCHANGED <<halted, unmarked, act, advance>>

(* The last lesson of the main line completes it.                          *)
FinishNode ==
  LET n == Head(queue).node IN
  /\ Edit("finish")
  /\ \/ /\ \E whole \in {session.complete, session.nodes[n].chain = Main} :
             session' = [Set(session, n, "done") EXCEPT !.complete = whole]
        /\ Ends(n, "idle") /\ queue' = Tail(queue)
     \/ /\ Throw(n, Tail(queue))
        /\ UNCHANGED <<session, halted, advance>>
  /\ UNCHANGED <<unmarked, act>>

(* The catch of generate: a failing write of this edit is ignored.         *)
FailNode ==
  LET n == Head(queue).node
      s == IF n \in halted THEN "interrupted" ELSE "failed"
  IN /\ Edit("fail")
     /\ \/ session' = Set(session, n, s) /\ UNCHANGED unmarked
        \/ unmarked' = unmarked \cup {n} /\ UNCHANGED session
     /\ Ends(n, "reporting") /\ queue' = Tail(queue)
     /\ UNCHANGED act

(* The catch of advance: the card could not be linked to its node.         *)
MarkNode ==
  LET n == Head(queue).node IN
  /\ Edit("mark")
  /\ \/ session' = Set(session, n, "failed") /\ UNCHANGED unmarked
     \/ unmarked' = unmarked \cup {n} /\ UNCHANGED session
  /\ advance' = [a \in Actions |->
       IF advance[a] = [at |-> "marking", node |-> n]
       THEN [advance[a] EXCEPT !.at = "reporting"] ELSE advance[a]]
  /\ queue' = Tail(queue)
  /\ UNCHANGED <<gen, halted, act>>

Write == AddNode \/ OpenNode \/ FinishNode \/ FailNode \/ MarkNode

-----------------------------------------------------------------------------
(* The cards of the assistant.                                             *)

Current(a) == /\ ~session.complete /\ act[a].on = Last(session, Main)
              /\ Done(session, act[a].on)

(* prepare_action, in an assistant run on a copy of the session.           *)
Prepare(a) ==
  /\ act[a] = NoCard /\ ~session.complete /\ Done(session, Last(session, Main))
  /\ act' = [act EXCEPT ![a] = [NoCard EXCEPT !.state = "prepared",
                                              !.on = Last(session, Main)]]
  /\ UNCHANGED <<session, queue, gen, halted, unmarked, advance>>

(* dispatch: the card is checked, then the source is verified ...          *)
Dispatch(a) ==
  /\ advance[a].at = "idle" /\ act[a].state = "prepared" /\ Current(a)
  /\ advance' = [advance EXCEPT ![a].at = "opening"]
  /\ UNCHANGED <<session, queue, gen, halted, unmarked, act>>

(* A mutant: handed over first, marked only when it is linked.             *)
OpenCardLater(a) ==
  /\ advance[a].at = "opening"
  /\ \/ /\ act' = [act EXCEPT ![a].exec = "waiting"]
        /\ advance' = [advance EXCEPT ![a].at = "handing"]
     \/ advance' = [advance EXCEPT ![a].at = "idle"] /\ UNCHANGED act
  /\ UNCHANGED <<session, queue, gen, halted, unmarked>>

(* ... and it is saved as opened before anything else happens, or it stays *)
(* as it was.                                                              *)
OpenCard(a) ==
  /\ advance[a].at = "opening"
  /\ \/ /\ act' = [act EXCEPT ![a].state = "opened", ![a].exec = "waiting"]
        /\ advance' = [advance EXCEPT ![a].at = "handing"]
     \/ advance' = [advance EXCEPT ![a].at = "idle"] /\ UNCHANGED act
  /\ UNCHANGED <<session, queue, gen, halted, unmarked>>

(* The reading view is shown, or cannot be; then the main line is asked    *)
(* for a node after the one the card was prepared on.                      *)
HandOver(a) ==
  /\ advance[a].at = "handing"
  /\ \/ /\ Asked < MaxNodes
        /\ queue' = Append(queue, Add(Main, act[a].on, a))
        /\ advance' = [advance EXCEPT ![a].at = "adding"]
     \/ advance' = [advance EXCEPT ![a].at = "reporting"] /\ UNCHANGED queue
  /\ UNCHANGED <<session, gen, halted, unmarked, act>>

(* The node is linked to the card before a model is called for it.         *)
Link(a) ==
  LET n == advance[a].node IN
  /\ advance[a].at = "recording"
  /\ \/ /\ act' = [act EXCEPT ![a].exec = "running", ![a].node = n]
        /\ advance' = [advance EXCEPT ![a].at = "generating"]
        /\ Start(n, queue)
     \/ /\ queue' = Append(queue, [edit |-> "mark", node |-> n])
        /\ advance' = [advance EXCEPT ![a].at = "marking"]
        /\ UNCHANGED <<act, gen>>
  /\ UNCHANGED <<session, halted, unmarked>>

(* The failure is saved with the card, or shown only.                      *)
Report(a) ==
  /\ advance[a].at = "reporting"
  /\ \/ act' = [act EXCEPT ![a].exec = "failed"]
     \/ UNCHANGED act
  /\ advance' = [advance EXCEPT ![a] = AtRest]
  /\ UNCHANGED <<session, queue, gen, halted, unmarked>>

(* refreshActions: the card takes the state of its node.                   *)
Resolved(n) == CASE Status(session, n) = "done" -> "succeeded"
                 [] Unsettled(session, n)       -> "running"
                 [] OTHER                       -> Status(session, n)

Refresh(a) == /\ act[a].node # 0
              /\ act' = [act EXCEPT ![a].exec = Resolved(act[a].node)]
              /\ UNCHANGED <<session, queue, gen, halted, unmarked, advance>>

-----------------------------------------------------------------------------
(* A mutant: only what a model was working on is interrupted by the death. *)
LoadedRunning(s) == [s EXCEPT !.nodes = [n \in DOMAIN s.nodes |->
                       IF Status(s, n) = "running"
                       THEN [s.nodes[n] EXCEPT !.status = "interrupted"] ELSE s.nodes[n]]]

(* The program dies, and a later one loads the session: what was not       *)
(* answered is interrupted.                                                *)
Loaded(s) == [s EXCEPT !.nodes = [n \in DOMAIN s.nodes |->
                IF Unsettled(s, n) THEN [s.nodes[n] EXCEPT !.status = "interrupted"]
                                   ELSE s.nodes[n]]]

Restart == /\ session' = Loaded(session)
           /\ queue' = <<>> /\ gen' = [n \in Nodes |-> "idle"]
           /\ halted' = {} /\ unmarked' = {}
           /\ advance' = [a \in Actions |-> AtRest]
           /\ UNCHANGED act

Next == \/ Ask \/ Write \/ Restart
        \/ \E n \in Nodes : Retry(n) \/ Stop(n) \/ TimeOut(n) \/ Answer(n) \/ Fails(n)
        \/ \E a \in Actions : \/ Prepare(a) \/ Dispatch(a) \/ OpenCard(a)
                              \/ HandOver(a) \/ Link(a) \/ Report(a) \/ Refresh(a)

(* A write ends, one way or the other; the timer fires; and what was       *)
(* halted throws.  Neither the model nor the user owes anything.          *)
Fairness == /\ WF_readingVars(Write)
            /\ \A n \in Nodes : /\ WF_readingVars(TimeOut(n))
                                /\ WF_readingVars(n \in halted /\ Fails(n))

Spec == Init /\ [][Next]_readingVars /\ Fairness

-----------------------------------------------------------------------------
(* Properties.                                                             *)

(* An answer, once given, is never touched again: no double retry, late    *)
(* failure, card or restart re-opens its node or moves it in the tree      *)
(* (engine.ts:100, store.ts:72).                                           *)
AnswersKept ==
  [][\A n \in DOMAIN session.nodes : Done(session, n) =>
       n \in DOMAIN session'.nodes /\ session'.nodes[n] = session.nodes[n]]_readingVars

(* What a node is answered from is finished: every node before it in its   *)
(* chain, and the one its branch hangs on (session.ts:30, :52).            *)
ContextDone == \A n \in DOMAIN session.nodes :
                 session.nodes[n].parent # 0 => Done(session, session.nodes[n].parent)

(* A card advances the main line at most once, whatever is clicked twice,  *)
(* not saved or cut off by a crash, and only from the node it was prepared *)
(* on; what its record links is its own node, and is called done only when *)
(* it is (assistant/service.ts:83, workspace.ts:94).                       *)
OneAdvance ==
  \A a \in Actions :
    LET own == {n \in DOMAIN session.nodes : session.nodes[n].by = a}
    IN /\ \A n \in own : own = {n} /\ act[a].state = "opened"
                         /\ session.nodes[n].parent = act[a].on
       /\ act[a].node # 0 => act[a].node \in own
       /\ act[a].exec = "succeeded" => Done(session, act[a].node)

(* A node shown as pending or running, which offers no retry, is really    *)
(* being worked on, or the write of its failure failed (engine.ts:64).     *)
InWork(n) == \/ ~Idle(n)
             \/ \E a \in Actions : advance[a].node = n /\ advance[a].at \in {"recording", "marking"}
NoneAbandoned == \A n \in Nodes : Unsettled(session, n) => InWork(n) \/ n \in unmarked

ReadingTrue == ContextDone /\ OneAdvance /\ NoneAbandoned

(* Every generation ends, even when its model never answers.               *)
GenerationEnds == \A n \in Nodes : ~Idle(n) ~> Idle(n)
=============================================================================
