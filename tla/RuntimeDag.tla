------------------------------ MODULE RuntimeDag ------------------------------
(***************************************************************************)
(* The graphs a Session carries of its execution (assemble.rs).  The       *)
(* runtime reports when rollouts, threads, turns, inferences, code cells,  *)
(* tools and compactions start and end; build_runtime_dag reads the events *)
(* in the order of the captures and says whether the execution is complete.*)
(* build_capture_dag links the calls themselves by previous responses and  *)
(* by spans.  Events and calls can be lost before they are captured, and   *)
(* neighbours can be read in the other order.                              *)
(***************************************************************************)
EXTENDS Integers, Sequences, FiniteSets, SequencesExt, FiniteSetsExt, Functions

CONSTANTS
    Work,        \* what runs in a turn: pairs of a kind and a number
    Outcomes,    \* what the end of a tool may say
    Rollouts,    \* numbers of rollouts
    MaxEvents,   \* events of one execution
    MaxCalls,    \* calls of one conversation
    NoNode       \* an absent node, identity or status

VARIABLES
    happened,    \* the events of the execution, in order
    evidence,    \* those the assembler reads, in the order it reads them
    boundTasks,  \* how many task ids the captures carry
    apiCalls,    \* the calls that were made
    callEvidence,\* those it reads
    dagStage     \* "running", "read"
dagVars == <<happened, evidence, boundTasks, apiCalls, callEvidence, dagStage>>

-----------------------------------------------------------------------------
(* build_runtime_dag.  An event: [type, id, under, turn, status, seq]; a    *)
(* status is what runtime_status makes of it.                              *)

\* runtime_status_is_terminal
TerminalStatus(status) ==
    status \in {"completed", "failed", "cancelled", "aborted", "terminated", "timeout"}
\* A dispatch that says "completed" or "complete" says only that it is over.
ClaimsOutcome(raw) == raw \notin {NoNode, "completed", "complete"}
RuntimeStatus(raw) ==
    CASE raw \in {"completed", "complete", "success", "ok"} -> "completed"
      [] raw \in {"failed", "failure", "error"} -> "failed"
      [] raw \in {"cancelled", "aborted", "terminated", "timeout", "running"} -> raw
      [] OTHER -> "incomplete"

EmptyDag ==
    [nodes |-> <<>>, edges |-> {}, open |-> {}, conflicts |-> {}, roots |-> {},
     terminal |-> {}, events |-> 0]
\* upsert_runtime_node
Unseen ==
    [status |-> "incomplete", started |-> 0, ended |-> 0, runtime |-> NoNode,
     dispatch |-> NoNode, claims |-> FALSE]
NodeOf(d, id) == IF id \in DOMAIN d.nodes THEN d.nodes[id] ELSE Unseen
Put(d, id, node) ==
    [d EXCEPT !.nodes = [i \in DOMAIN @ \cup {id} |-> IF i = id THEN node ELSE @[i]]]
Edge(d, from, to) ==
    IF from = NoNode THEN d ELSE [d EXCEPT !.edges = @ \cup {<<from, to>>}]

\* A tool belongs to the code cell that asked for it, when that cell is known
\* already, and to its turn otherwise.
ParentIn(d, e) ==
    IF e.id[1] # "tool" THEN e.under
    ELSE IF e.under \in DOMAIN d.nodes /\ d.nodes[e.under].started # 0 THEN e.under
         ELSE e.turn
Starts(d, e) ==
    LET n == [NodeOf(d, e.id) EXCEPT !.status = "running", !.started = e.seq]
        opened == [Put(d, e.id, n) EXCEPT !.open = @ \cup {e.id}]
    IN IF e.id[1] = "rollout" THEN [opened EXCEPT !.roots = @ \cup {e.id}]
       ELSE Edge(opened, ParentIn(d, e), e.id)
\* The status of a code cell is kept as it came.
StatusAtEnd(e) ==
    IF e.id[1] # "code_cell" THEN RuntimeStatus(e.status)
    ELSE IF e.status = NoNode THEN "incomplete" ELSE e.status
Ends(d, e) ==
    LET n == [NodeOf(d, e.id) EXCEPT !.status = StatusAtEnd(e), !.ended = e.seq]
        closed == [Put(d, e.id, n) EXCEPT !.open = @ \ {e.id}]
    IN IF e.id[1] = "rollout" /\ RuntimeStatus(e.status) # "incomplete"
       THEN [closed EXCEPT !.terminal = @ \cup {e.id}] ELSE closed
\* code_cell_initial_response
Responds(d, e) == Put(d, e.id, NodeOf(d, e.id))
RuntimeStarts(d, e) == Put(d, e.id, [NodeOf(d, e.id) EXCEPT !.runtime = "running"])

\* The end of the call and the end of its dispatch arrive in either order.
Conflict(d, id, is) == IF is THEN [d EXCEPT !.conflicts = @ \cup {id}] ELSE d
\* Mutant: only the dispatch compares.
RuntimeEnds_Silent(d, e) ==
    LET status == RuntimeStatus(e.status)
        n == NodeOf(d, e.id)
    IN Conflict(Put(d, e.id, [n EXCEPT !.runtime = status,
                    !.status = IF TerminalStatus(status) THEN status ELSE @]),
                e.id, status = "incomplete")
RuntimeEnds(d, e) ==
    LET status == RuntimeStatus(e.status)
        n == NodeOf(d, e.id)
        differs == n.claims /\ TerminalStatus(n.dispatch) /\ n.dispatch # status
    IN Conflict(Put(d, e.id, [n EXCEPT !.runtime = status,
                    !.status = IF TerminalStatus(status) THEN status ELSE @]),
                e.id, status = "incomplete" \/ differs)
DispatchEnds(d, e) ==
    LET status == RuntimeStatus(e.status)
        n == NodeOf(d, e.id)
        differs == ClaimsOutcome(e.status) /\ TerminalStatus(n.runtime) /\ n.runtime # status
        next == [n EXCEPT !.dispatch = status, !.claims = ClaimsOutcome(e.status),
                          !.status = IF TerminalStatus(n.runtime) THEN n.runtime ELSE status,
                          !.ended = e.seq]
    IN Conflict([Put(d, e.id, next) EXCEPT !.open = @ \ {e.id}],
                e.id, status = "incomplete" \/ differs)

Read(d, e) ==
    LET counted == [d EXCEPT !.events = @ + 1]
    IN CASE e.type = "started" -> Starts(counted, e)
         [] e.type = "ended" /\ e.id[1] # "tool" -> Ends(counted, e)
         [] e.type = "ended" /\ e.id[1] = "tool" -> DispatchEnds(counted, e)
         [] e.type = "initial_response" -> Responds(counted, e)
         [] e.type = "runtime_started" -> RuntimeStarts(counted, e)
         [] e.type = "runtime_ended" -> RuntimeEnds(counted, e)
         [] OTHER -> Edge(counted, e.id, e.under)
Dag == FoldLeft(Read, EmptyDag, evidence)

UnresolvedNodes(d) ==
    {n \in UNION {{e[1], e[2]} : e \in d.edges} : n \notin DOMAIN d.nodes}
    \cup {id \in DOMAIN d.nodes :
            LET n == d.nodes[id]
            IN \/ n.started = 0 \/ n.status = "incomplete"
               \/ n.status # "running" /\ n.ended = 0
               \/ n.ended # 0 /\ n.ended < n.started}
TaskBindsRoots(d) == Cardinality(d.roots) <= 1 \/ boundTasks = 1
Complete(d) ==
    /\ d.events > 0 /\ d.roots # {} /\ TaskBindsRoots(d)
    /\ d.terminal = d.roots
    /\ d.open = {} /\ UnresolvedNodes(d) = {} /\ d.conflicts = {}

-----------------------------------------------------------------------------
(* build_capture_dag.  A call: [id, resp, span, prev, parent].             *)

\* capture_node_id
CallNode(c) ==
    CASE c.resp # NoNode -> <<"response", c.resp>>
      [] c.resp = NoNode /\ c.span # NoNode -> <<"span", c.span>>
      [] OTHER -> <<"capture", c.id>>
CallNodes(seq) == {CallNode(c) : c \in ToSet(seq)}
Spans(seq) == {c.span : c \in ToSet(seq)} \ {NoNode}
\* The first record of a span stands for it.
SpanNode(seq, span) ==
    IF span \in Spans(seq)
    THEN CallNode(seq[SelectInSeq(seq, LAMBDA c : c.span = span)])
    ELSE <<"missing", span>>
CallEdges(seq) ==
    {<<<<"response", c.prev>>, CallNode(c)>> : c \in {x \in ToSet(seq) : x.prev # NoNode}}
    \cup {<<SpanNode(seq, c.parent), CallNode(c)>> :
            c \in {x \in ToSet(seq) : x.parent # NoNode}}
UnresolvedCalls(seq) == {e[1] : e \in CallEdges(seq)} \ CallNodes(seq)
\* graph_has_cycle
Above(seq, nodes) ==
    FoldLeft(LAMBDA S, c : S \cup {e[1] : e \in {x \in CallEdges(seq) : x[2] \in S}},
             {e[1] : e \in {x \in CallEdges(seq) : x[2] \in nodes}}, seq)
CallCycle(seq) == \E n \in CallNodes(seq) : n \in Above(seq, {n})
CallRoots(seq) == CallNodes(seq) \ {e[2] : e \in CallEdges(seq)}
CallTips(seq) == CallNodes(seq) \ {e[1] : e \in CallEdges(seq)}

-----------------------------------------------------------------------------
(* The execution and the calls.                                            *)
Begun == {e.id : e \in {x \in ToSet(happened) : x.type = "started"}}
Past == {e.id : e \in {x \in ToSet(happened) : x.type = "ended"}}
Active == Begun \ Past
Did(type, id) == \E e \in ToSet(happened) : e.type = type /\ e.id = id
Thread == <<"thread", 1>>
Child == <<"thread", 2>>
Turn == <<"turn", 1>>
Beneath(id) == {e.id : e \in {x \in ToSet(happened) : x.type = "started" /\
                              (x.under = id \/ x.turn = id)}}
Report(type, id, under, turn, status) ==
    /\ dagStage = "running" /\ apiCalls = <<>> /\ Len(happened) < MaxEvents
    /\ happened' = Append(happened, [type |-> type, id |-> id, under |-> under,
                       turn |-> turn, status |-> status, seq |-> Len(happened) + 1])
    /\ UNCHANGED <<evidence, boundTasks, apiCalls, callEvidence, dagStage>>
BeginRollout(r) ==
    /\ <<"rollout", r>> \notin Begun
    /\ r = 1 \/ <<"rollout", r - 1>> \in Past
    /\ Report("started", <<"rollout", r>>, NoNode, NoNode, NoNode)
BeginThread(t) ==
    /\ <<"rollout", 1>> \in Active /\ t \notin Begun
    /\ t = Child => Turn \in Active
    /\ Report("started", t, IF t = Child THEN Thread ELSE <<"rollout", 1>>, NoNode, NoNode)
BeginTurn ==
    /\ Thread \in Active /\ Turn \notin Begun
    /\ Report("started", Turn, Thread, NoNode, NoNode)
BeginWork(w) ==
    /\ Turn \in Active /\ w \notin Begun
    /\ LET cells == {c \in Active : c[1] = "code_cell"}
       IN Report("started", w,
                 IF w[1] = "tool" THEN IF cells # {} THEN CHOOSE c \in cells : TRUE ELSE NoNode
                 ELSE Turn, Turn, NoNode)
ToolRuns(w) ==
    /\ w \in Begun /\ w[1] = "tool" /\ ~Did("runtime_started", w)
    /\ Report("runtime_started", w, NoNode, NoNode, NoNode)
ToolRan(w, status) ==
    /\ Did("runtime_started", w) /\ ~Did("runtime_ended", w)
    /\ Report("runtime_ended", w, NoNode, NoNode, status)
CellResponds(w) ==
    /\ w \in Active /\ w[1] = "code_cell" /\ ~Did("initial_response", w)
    /\ Report("initial_response", w, NoNode, NoNode, NoNode)
EndActivity(id, status) ==
    /\ id \in Active /\ Beneath(id) \subseteq Past
    /\ id[1] = "tool" \/ status = "success"
    /\ Report("ended", id, NoNode, NoNode, status)
ChildAnswers ==
    /\ Child \in Past /\ ~Did("agent_result", Child)
    /\ Report("agent_result", Child, Thread, NoNode, NoNode)

\* A call that goes on from an earlier response, below an earlier span; a record
\* may share the span of the one before it.
MakeCall(resp, span, prev, parent) ==
    LET n == Len(apiCalls) + 1
    IN /\ dagStage = "running" /\ happened = <<>> /\ n <= MaxCalls
       /\ prev \in {c.resp : c \in ToSet(apiCalls)} \cup {NoNode}
       /\ parent \in Spans(apiCalls) \cup {NoNode} /\ parent # span
       /\ span \in {NoNode, n} \cup (IF n = 1 THEN {} ELSE {apiCalls[n - 1].span})
       /\ apiCalls' = Append(apiCalls, [id |-> n, resp |-> IF resp THEN n ELSE NoNode,
                                  span |-> span, prev |-> prev, parent |-> parent])
       /\ UNCHANGED <<happened, evidence, boundTasks, callEvidence, dagStage>>

Without(seq, i) == RemoveAt(seq, i)
Exchanged(seq, i) == [seq EXCEPT ![i] = seq[i + 1], ![i + 1] = seq[i]]
ReadEvents(n) ==
    /\ dagStage = "running" /\ happened # <<>>
    /\ boundTasks' = n
    /\ n = 1 \/ <<"rollout", 2>> \in Begun
    /\ \/ evidence' = happened
       \/ /\ Active = {}
          /\ \/ \E i \in DOMAIN happened : evidence' = Without(happened, i)
             \/ \E i \in 1 .. Len(happened) - 1 : evidence' = Exchanged(happened, i)
    /\ dagStage' = "read"
    /\ UNCHANGED <<happened, apiCalls, callEvidence>>
ReadCalls ==
    /\ dagStage = "running" /\ apiCalls # <<>>
    /\ \/ callEvidence' = apiCalls
       \/ \E i \in DOMAIN apiCalls : callEvidence' = Without(apiCalls, i)
    /\ dagStage' = "read"
    /\ UNCHANGED <<happened, evidence, boundTasks, apiCalls>>

DagInit ==
    /\ happened = <<>> /\ evidence = <<>> /\ apiCalls = <<>> /\ callEvidence = <<>>
    /\ boundTasks = 0 /\ dagStage = "running"
DagNext ==
    \/ \E r \in Rollouts : BeginRollout(r)
    \/ \E t \in {Thread, Child} : BeginThread(t)
    \/ BeginTurn \/ ChildAnswers
    \/ \E w \in Work : BeginWork(w) \/ ToolRuns(w) \/ CellResponds(w)
    \/ \E w \in Work, s \in Outcomes : ToolRan(w, s)
    \/ \E id \in Active, s \in Outcomes : EndActivity(id, s)
    \/ \E resp \in BOOLEAN, span, prev, parent \in 1 .. MaxCalls \cup {NoNode} :
          MakeCall(resp, span, prev, parent)
    \/ \E n \in 0 .. 2 : ReadEvents(n)
    \/ ReadCalls

-----------------------------------------------------------------------------
(* What the graphs mean.                                                   *)
Seen(type, id) == \E e \in ToSet(evidence) : e.type = type /\ e.id = id
\* The sources of one tool that claim an outcome, and what they claim.
Claims(id) ==
    {RuntimeStatus(e.status) : e \in {x \in ToSet(evidence) : x.id = id /\
        (x.type = "runtime_ended" \/ (x.type = "ended" /\ ClaimsOutcome(x.status)))}}
Finished == Begun # {} /\ Active = {}
\* (A "started" of the runtime that is read after its "ended" hides the latter.)
Hidden(id) == \E i, j \in DOMAIN evidence :
    /\ i < j /\ evidence[i].id = id /\ evidence[i].type = "runtime_ended"
    /\ evidence[j].id = id /\ evidence[j].type = "runtime_started"
Agree == \A w \in Begun : w[1] = "tool" /\ ~Hidden(w) =>
             Cardinality(Claims(w)) <= 1 /\ "incomplete" \notin Claims(w)

\* "complete" is earned: everything an event was read of has started, has ended,
\* and in that order; no start and no end is missing that another event read
\* refers to; and no two sources of a tool claim different outcomes, whichever
\* was read first, unless the start of its runtime was read after the end.  Such
\* tools left out, a tool ends as its runtime says.  An execution that is over,
\* without a contradiction, one task or one rollout, read whole and in order, is
\* complete.  Calls read whole make a graph without cycles or loose ends, whose
\* roots are the calls that go on from nothing; a lost call another one goes on
\* from is missed.
DagsAreTrue ==
    dagStage = "read" =>
        /\ Complete(Dag) =>
            /\ \A e \in ToSet(evidence) : Seen("started", e.id) /\ Seen("ended", e.id)
            /\ \A i, j \in DOMAIN evidence :
                  (evidence[i].id = evidence[j].id /\ evidence[i].type = "started"
                     /\ evidence[j].type = "ended") => i < j
            /\ \A e \in ToSet(evidence) : e.under # NoNode /\ e.id[1] # "tool" =>
                  Seen("started", e.under)
            /\ Agree
            /\ \A w \in Begun : Seen("runtime_ended", w) /\ ~Hidden(w) =>
                  \A e \in ToSet(evidence) : (e.type = "runtime_ended" /\ e.id = w) =>
                     Dag.nodes[w].status = RuntimeStatus(e.status)
        /\ (/\ happened # <<>> /\ evidence = happened /\ Finished /\ Agree
            /\ boundTasks = 1 \/ Cardinality(Dag.roots) = 1) => Complete(Dag)
        /\ (apiCalls # <<>> /\ callEvidence = apiCalls) =>
            /\ UnresolvedCalls(apiCalls) = {} /\ ~CallCycle(apiCalls)
            /\ \A c \in ToSet(apiCalls) : (c.prev = NoNode /\ c.parent = NoNode
                  /\ \A d \in ToSet(apiCalls) : CallNode(d) = CallNode(c) => d = c) =>
                     CallNode(c) \in CallRoots(apiCalls)
            /\ CallRoots(apiCalls) # {} /\ CallTips(apiCalls) # {}
        /\ \A c \in ToSet(callEvidence) : c.prev # NoNode =>
              c.prev \in {d.resp : d \in ToSet(callEvidence)}
              \/ <<"response", c.prev>> \in UnresolvedCalls(callEvidence)
=============================================================================
