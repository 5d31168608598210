----------------------------- MODULE RuntimeSpans -----------------------------
(***************************************************************************)
(* What ran, and whether the evidence of it is complete                    *)
(* (model_interaction.rs, standalone_compaction.rs).                       *)
(*                                                                         *)
(* A run of a coding client leaves captures: the model requests seen on    *)
(* the wire, lifecycle hooks, reports of tool executions, dispatcher       *)
(* messages and native events of a rollout.  They arrive in any order;     *)
(* some arrive twice, some never.  The projection puts each one into a     *)
(* scope (a task, a turn, the Session), joins those of one activity into a *)
(* span, links spans and requests by the ids they share, and says whether  *)
(* the run is complete: root_complete and runtime_complete.                *)
(*                                                                         *)
(* A run is one Session of one source, all of it bound to one task or none *)
(* of it.  A tool has one name, its status stands for its whole result,    *)
(* and no wire header names a parent span, so that span identities of      *)
(* other tracers are left out.  The Session's own root span is a container *)
(* whose state counts for nothing and is left out.                         *)
(***************************************************************************)
EXTENDS Naturals, FiniteSets, SequencesExt

CONSTANTS
    ToolCalls,      \* ids of tool calls
    Turns,          \* turns of the run
    Deliveries,     \* how a response reaches the client
    Plans           \* bound: what a run does (of "task", "turns", "report", "item",
                    \* "dispatch", "agent", "compact", "infer", "lose", "cut"), the
                    \* calls it makes and the most captures it leaves

ASSUME RuntimeAssumption == Turns \cup ToolCalls \subseteq Nat \ {0}

VARIABLES
    plan,       \* what the run does besides turns of requests
    lived,      \* the captures of the run, as they were made
    perused,    \* the captures the projection reads
    readAs      \* "unread", or what happened to the captures on the way

runtimeVars == <<plan, lived, perused, readAs>>

\* The run is bound to a task.
Bound == "task" \in plan.does
Nil == 0
OfKind(S, kind) == {c \in ToSet(S) : c.kind = kind}
Hooks(S, types) == {c \in OfKind(S, "hook") : c.b.type \in types}
Requests(S) == OfKind(S, "wire")
TurnsNamed(S) == {c.root : c \in ToSet(S)} \ {Nil}

-----------------------------------------------------------------------------
(* The scope of a capture: its task, its root turn, the Session (for the   *)
(* boundaries of the Session), the turn of the one request that asked for  *)
(* the call, the one turn of its thread, or that of its parent's thread.   *)
SessionEvents == {"session_start", "session_end"}
TheSession == <<"session", Nil>>
Unique(s) == IF Cardinality(s) = 1 THEN s ELSE {}

TurnOfThread(S, t) ==
    Unique({c.root : c \in {d \in ToSet(S) : d.root # Nil /\ d.thread = t}})
TurnOfCall(S, id) ==
    Unique({w.root : w \in {x \in Requests(S) : x.root # Nil /\ id \in x.b.calls}})

InferredTurn(S, c) ==
    LET ofCall == IF c.kind = "tool" THEN TurnOfCall(S, c.b.call) ELSE {}
        ofThread == TurnOfThread(S, c.thread)
    IN CASE ofCall # {} -> ofCall
         [] ofCall = {} /\ ofThread # {} -> ofThread
         [] OTHER -> IF c.parent # Nil THEN TurnOfThread(S, c.parent)
                                        ELSE {c.turn} \ {Nil}

ScopeOf(S, c) ==
    CASE c.task -> {<<"task", Nil>>}
      [] ~c.task /\ c.root # Nil -> {<<"turn", c.root>>}
      [] ~c.task /\ c.root = Nil /\ c \in Hooks(S, SessionEvents) -> {TheSession}
      [] OTHER -> {<<"turn", t>> : t \in InferredTurn(S, c)}

\* The scope of the span a capture is selected for; what has none of its own
\* counts for the Session.
SpanScope(S, c) ==
    LET scope == ScopeOf(S, c)
    IN IF scope = {} THEN TheSession ELSE CHOOSE s \in scope : TRUE
\* Executions are joined per scope, those without one per thread.
GroupOf(S, c) == IF ScopeOf(S, c) = {} THEN <<"unscoped", c.thread>> ELSE SpanScope(S, c)

-----------------------------------------------------------------------------
(* Compaction: its requests must be bracketed by hooks, and only a turn    *)
(* that is nothing but a manual compaction begins and ends with them.      *)
TurnCaptures(S, t) == SelectSeq(S, LAMBDA c : c.turn = t)
IsBusiness(C) == OfKind(C, "tool") # {} \/ Hooks(C, {"turn_start"}) # {}
Operations(C) == {w.b.compacts : w \in Requests(C)} \ {"no"}

Bracketed(C, trigger) ==
    LET pre == {h \in Hooks(C, {"compaction_start"}) : h.b.trigger = trigger}
        post == {h \in Hooks(C, {"compaction_end"}) : h.b.trigger = trigger}
        n == Cardinality(Operations(C) \cap {trigger})
        Until(hooks, h) == Cardinality({x \in hooks : x.at <= h.at})
    IN /\ Cardinality(pre) = n /\ Cardinality(post) = n
       /\ \A h \in post : Until(pre, h) = Until(post, h)
       /\ \A h \in pre : Until(pre, h) = Until(post, h) + 1

\* (A turn without any trace of a compaction has nothing to complete.)
CompactionComplete(S, t) ==
    LET C == TurnCaptures(S, t)
    IN \/ /\ Operations(C) = {}
          /\ Hooks(C, {"compaction_start", "compaction_end"}) = {}
       \/ /\ Operations(C) # {}
          /\ \A trigger \in {"manual", "auto"} : Bracketed(C, trigger)
          /\ "manual" \in Operations(C) =>
                ~IsBusiness(C) /\ \A w \in Requests(C) : w.b.compacts = "manual"

\* The hooks that begin and end a turn of their own.
CompactionBoundary(S, c) ==
    LET C == TurnCaptures(S, c.turn)
    IN /\ CompactionComplete(S, c.turn) /\ ~IsBusiness(C)
       /\ Operations(C) = {"manual"}
       /\ Cardinality(Hooks(C, {"compaction_start"})) = 1
       /\ Cardinality(Hooks(C, {"compaction_end"})) = 1

-----------------------------------------------------------------------------
(* Spans.                                                                  *)
NoSpan == <<"none">>
Span(id, kind, scope) ==
    [id |-> id, kind |-> kind, scope |-> scope, parent |-> NoSpan,
     required |-> FALSE, call |-> Nil, parentCall |-> Nil,
     status |-> "running", conflict |-> FALSE, closed |-> FALSE,
     failed |-> FALSE, captured |-> TRUE, keys |-> {}]
IsContainer(span) == span.id = <<"root", TheSession>>
IsScopeRoot(span) == span.id[1] = "root"

NormalStatus(status) ==
    CASE status \in {"success", "completed"} -> "completed"
      [] status = "error" -> "failed"
      [] status = "started" -> "running"
      [] OTHER -> status
TerminalStatuses == {"completed", "failed", "cancelled", "incomplete", "closed"}

\* What begins and what ends a root.  A sub-agent's start and end do so too, in
\* the turn they were recorded in.
TurnEnds == {"turn_end", "turn_interrupt", "subagent_join"}
OfRoot(kind, S, c) ==
    CASE kind = "session" -> c \in Hooks(S, SessionEvents)
      [] kind = "task" -> c \in Hooks(S, {"task_start", "task_end"})
      [] kind = "turn" ->
           \/ c.kind = "wire" /\ c.root # Nil
           \/ c \in Hooks(S, TurnEnds \cup {"turn_start", "subagent_spawn",
                                            "compaction_start", "compaction_end"})
StartsRoot(kind, S, c) ==
    \/ kind = "task" /\ c \in Hooks(S, {"task_start"})
    \/ kind = "turn" /\ (c.kind = "wire" \/ c \in Hooks(S, {"turn_start", "subagent_spawn"}))
    \/ kind = "turn" /\ c \in Hooks(S, {"compaction_start"}) /\ CompactionBoundary(S, c)
EndsRoot(kind, S, c) ==
    \/ kind = "task" /\ c \in Hooks(S, {"task_end"})
    \/ kind = "turn" /\ c \in Hooks(S, TurnEnds)
    \/ kind = "turn" /\ c \in Hooks(S, {"compaction_end"}) /\ CompactionBoundary(S, c)

RootObservations(S, s) ==
    {c \in ToSet(S) : s \in ScopeOf(S, c) /\ OfRoot(s[1], S, c)}
RootSpan(S, s) ==
    LET kind == s[1]
        observed == RootObservations(S, s)
        starts == {c \in observed : StartsRoot(kind, S, c)}
        statuses == {NormalStatus(c.b.status) :
                       c \in {x \in observed : EndsRoot(kind, S, x)}}
        compacted == kind = "turn" => \A c \in observed : CompactionComplete(S, c.turn)
    IN [Span(<<"root", s>>, IF kind = "turn" THEN "turn" ELSE "task_root", s) EXCEPT
          !.parent = IF kind = "turn" THEN <<"root", TheSession>> ELSE NoSpan,
          !.required = kind = "turn",
          !.status = IF statuses = {} THEN "running" ELSE CHOOSE x \in statuses : TRUE,
          !.conflict = Cardinality(statuses) > 1 \/ ~compacted,
          !.closed = compacted /\ starts # {} /\ Cardinality(statuses) = 1]
RootSpans(S) ==
    {RootSpan(S, s) : s \in {x \in UNION {ScopeOf(S, c) : c \in ToSet(S)} :
                               RootObservations(S, x) # {}}}

\* Executions that were reported.  A hook that saw a tool end knows no outcome;
\* the last report that does is taken.
Reports(S, key) ==
    SelectSeq(S, LAMBDA c : c.kind = "tool" /\ <<GroupOf(S, c), c.b.call>> = key)
ToolKeys(S) == {<<GroupOf(S, c), c.b.call>> : c \in OfKind(S, "tool")}
ToolSpan(S, key) ==
    LET reports == Reports(S, key)
        ended == SelectSeq(reports, LAMBDA c : c.b.status # "started")
        known == SelectSeq(ended, LAMBDA c : c.b.status # "unknown")
        selected == IF known # <<>> THEN Last(known)
                    ELSE IF ended # <<>> THEN Last(ended) ELSE Head(reports)
        parents == {c.b.parentCall : c \in ToSet(reports)} \ {Nil}
    IN [Span(<<"tool", key>>, "tool_execution", SpanScope(S, selected)) EXCEPT
          !.call = key[2],
          !.parentCall = IF Cardinality(parents) = 1 /\ parents # {key[2]}
                         THEN CHOOSE p \in parents : TRUE ELSE Nil,
          !.status = CASE ended = <<>> -> "running"
                       [] ended # <<>> /\ selected.b.status = "unknown"
                          /\ (\E c \in ToSet(ended) : c.b.itemCompleted) -> "completed"
                       [] OTHER -> NormalStatus(selected.b.status),
          !.conflict = Cardinality({c.b.status : c \in ToSet(known)}) > 1
                       \/ Cardinality(parents) > 1,
          !.captured = \A c \in ToSet(reports) : c.b.native => c.b.whole]

\* Calls and results the dispatcher wrote to the rollout, where no execution of
\* the call was reported.
DispatcherKeys(S) ==
    {<<GroupOf(S, c), c.b.call>> : c \in {d \in OfKind(S, "rollout") : d.b.role = "call"}}
        \ ToolKeys(S)
DispatcherSpan(S, key) ==
    LET Written(role) == SelectSeq(S, LAMBDA c : c.kind = "rollout" /\ c.b.role = role
                                         /\ <<GroupOf(S, c), c.b.call>> = key)
        answers == Written("result")
        selected == IF answers # <<>> THEN Last(answers) ELSE Head(Written("call"))
    IN [Span(<<"dispatcher", key>>, "tool_execution", SpanScope(S, selected)) EXCEPT
          !.call = key[2],
          !.status = IF Len(answers) = 1 THEN "completed" ELSE "running",
          !.conflict = Len(Written("call")) # 1 \/ Len(answers) > 1]

\* Sub-agents the rollout names: the parent is the execution that spawned it.
AgentSpan(S, s) ==
    LET observed == {c \in Hooks(S, {"subagent_spawn", "subagent_join"}) :
                        c.b.agent /\ GroupOf(S, c) = s}
        spawns == {c \in observed : c.b.type = "subagent_spawn"}
        joins == observed \ spawns
        by == {c.b.call : c \in spawns} \cap
              {c.b.call : c \in {d \in OfKind(S, "rollout") :
                                   d.b.role = "call" /\ GroupOf(S, d) = s}}
        Executing(id) == IF <<s, id>> \in ToolKeys(S) THEN <<"tool", <<s, id>>>>
                                                     ELSE <<"dispatcher", <<s, id>>>>
    IN [Span(<<"agent", s>>, "agent", s) EXCEPT
          !.parent = IF Cardinality(by) = 1 THEN Executing(CHOOSE c \in by : TRUE)
                                            ELSE NoSpan,
          !.required = Cardinality(by) = 1,
          !.status = IF joins = {} THEN "running" ELSE "completed",
          !.conflict = Cardinality(spawns) # 1 \/ Cardinality(joins) # 1
                       \/ Cardinality(by) > 1]

\* A mark that telemetry was lost.
QualitySpan(S, c) ==
    [Span(<<"quality", c.n>>, "quality_signal", SpanScope(S, c)) EXCEPT
       !.parent = IF ScopeOf(S, c) = {} THEN NoSpan ELSE <<"root", SpanScope(S, c)>>,
       !.required = ScopeOf(S, c) # {}, !.status = "incomplete", !.failed = TRUE]

\* Native events of one inference, and the requests they name.
NativeSpan(S, source) ==
    LET events == {c \in OfKind(S, "native") : c.b.source = source}
        ends == {c.b.status : c \in events} \ {"started"}
    IN [Span(<<"native", source>>, "inference",
             SpanScope(S, CHOOSE c \in events : TRUE)) EXCEPT
          !.status = IF ends = {} THEN "running" ELSE NormalStatus(CHOOSE s \in ends : TRUE),
          !.conflict = Cardinality(ends) > 1,
          !.keys = {c.b.request : c \in events}]

RuntimeSpansOf(S) ==
    RootSpans(S)
    \cup {ToolSpan(S, key) : key \in ToolKeys(S)}
    \cup {DispatcherSpan(S, key) : key \in DispatcherKeys(S)}
    \cup {AgentSpan(S, s) : s \in {GroupOf(S, c) : c \in
              {d \in Hooks(S, {"subagent_spawn", "subagent_join"}) : d.b.agent}}}
    \cup {QualitySpan(S, c) : c \in Hooks(S, {"telemetry_incomplete"})}
    \cup {NativeSpan(S, x) : x \in {c.b.source : c \in OfKind(S, "native")}}

-----------------------------------------------------------------------------
(* Links, by ids that name exactly one thing.                              *)
Link(from, relation, to) == [from |-> from, relation |-> relation, to |-> to]
CallLink(w, id) == <<"call", w.n, id>>
ResultLink(w, id) == <<"result", w.n, id>>
RequestNode(w) == <<"request", w.n>>
Asking(S, id) == {w \in Requests(S) : id \in w.b.calls}
RequestScope(w) == IF w.task THEN <<"task", Nil>>
                   ELSE IF w.root # Nil THEN <<"turn", w.root>> ELSE TheSession

ResultLinks(S) ==
    UNION {{Link(CallLink(w, id), "result", ResultLink(x, id)) :
               w \in Unique(Asking(S, id))} :
           <<x, id>> \in {p \in Requests(S) \X ToolCalls : p[2] \in p[1].b.results}}

\* (A parent call no request asked for gives way to the span's own call.)
CallOf(S, span) ==
    IF Unique(Asking(S, span.parentCall)) # {} THEN span.parentCall ELSE span.call
ExecutionLinks(S, spans) ==
    UNION {{Link(CallLink(w, CallOf(S, s)), "execution", s.id) :
               w \in Unique(Asking(S, CallOf(S, s)))} : s \in spans}

ParentLinks(spans) ==
    {Link(p.id, "parent", s.id) : <<p, s>> \in
        {x \in spans \X spans : /\ x[1].id # x[2].id
                                /\ \/ x[1].id = x[2].parent
                                   \/ /\ x[2].parentCall # Nil
                                      /\ x[1].scope = x[2].scope
                                      /\ {x[1]} = {y \in spans : y.scope = x[2].scope
                                                      /\ y.call = x[2].parentCall}}}
NativeLinks(S, spans) ==
    {Link(RequestNode(w), "native", s.id) : <<w, s>> \in
        {x \in Requests(S) \X spans : x[1].n \in x[2].keys}}

\* What has no parent falls to the one root of its scope.
OnlyRoot(spans, scope) == Unique({s \in spans : IsScopeRoot(s) /\ s.scope = scope})
RequestParents(S, spans) ==
    UNION {{Link(r.id, "request parent", RequestNode(w)) :
               r \in OnlyRoot(spans, RequestScope(w))} : w \in Requests(S)}
Fallbacks(spans, links) ==
    UNION {{Link(r.id, "parent", s.id) : r \in OnlyRoot(spans, s.scope) \ {s}} :
           s \in {x \in spans : x.kind # "task_root" /\ \A l \in links : l.to # x.id}}

LinksOf(S, spans) ==
    LET links == ResultLinks(S) \cup ExecutionLinks(S, spans) \cup ParentLinks(spans)
                 \cup NativeLinks(S, spans)
    IN links \cup RequestParents(S, spans) \cup Fallbacks(spans, links)

-----------------------------------------------------------------------------
(* runtime_integrity.                                                      *)
LinksAs(links, relation) == {l \in links : l.relation = relation}
Scopes(spans) == {s.scope : s \in spans}

RootComplete(spans) ==
    LET roots == {s \in spans : IsScopeRoot(s)}
    IN /\ Cardinality({s \in spans : s.kind = "task_root"}) = 1
       /\ Scopes(roots) = Scopes(spans) /\ Cardinality(roots) = Cardinality(Scopes(spans))
       /\ \E s \in roots : ~IsContainer(s)
       /\ \A s \in roots : ~IsContainer(s) => s.closed /\ s.status \in TerminalStatuses

Excluded_EvenIfRun(S, calls, ran, answered) ==
    {CallLink(w, id) : <<w, id>> \in
        {p \in Requests(S) \X ToolCalls : /\ p[2] \in p[1].b.calls
                                          /\ p[1].b.delivered # "whole"}}
\* Calls the client never had to run: it had closed the connection before they
\* were complete, the response was cut, or it ended as failed.
Excluded(S, calls, ran, answered) ==
    {CallLink(w, id) : <<w, id>> \in
        {p \in Requests(S) \X ToolCalls : /\ p[2] \in p[1].b.calls
                                          /\ p[1].b.delivered # "whole"}}
        \ (ran \cup answered)

RuntimeComplete(S, spans, links) ==
    LET calls == {CallLink(w, id) : <<w, id>> \in
                    {p \in Requests(S) \X ToolCalls : p[2] \in p[1].b.calls}}
        ran == {l.from : l \in LinksAs(links, "execution")}
        answered == {l.from : l \in LinksAs(links, "result")}
        due == calls \ Excluded(S, calls, ran, answered)
        Reached(relation) == {l.to : l \in LinksAs(links, relation)}
        working == {s \in spans : ~IsContainer(s)}
    IN /\ spans # {}
       /\ \A s \in working : s.status \in TerminalStatuses /\ ~s.conflict
       /\ \A s \in spans : s.captured /\ ~s.failed
       /\ \A s \in spans : s.parentCall # Nil => s.id \in Reached("execution")
       /\ \A s \in spans : s.parent # NoSpan /\ (s.required \/ s.scope[1] = "task") =>
             s.id \in Reached("parent")
       /\ due \subseteq ran /\ due \subseteq answered
       /\ \A s \in spans : s.kind = "tool_execution" => s.id \in Reached("execution")
       /\ \A w \in Requests(S) : \A id \in w.b.results : ResultLink(w, id) \in Reached("result")
       /\ \A w \in Requests(S) : RequestNode(w) \in Reached("request parent")
                                 \/ RequestNode(w) \in {l.from : l \in LinksAs(links, "native")}

IsReady(S) ==
    LET spans == RuntimeSpansOf(S)
    IN RootComplete(spans) /\ RuntimeComplete(S, spans, LinksOf(S, spans))

-----------------------------------------------------------------------------
(* The run.                                                                *)
Make(kind, root, b) ==
    [n |-> Len(lived) + 1, at |-> Len(lived) + 1, kind |-> kind, task |-> Bound,
     root |-> root, turn |-> root, thread |-> 1, parent |-> Nil, b |-> b]
Happens(c) ==
    /\ readAs = "unread" /\ Len(lived) < plan.most
    /\ lived' = Append(lived, c)
    /\ UNCHANGED <<plan, perused, readAs>>

Hook(type, turn, status) ==
    Make("hook", turn, [type |-> type, status |-> status, trigger |-> "none",
                        agent |-> FALSE, call |-> Nil])
ReportOf(id, status, native, whole) ==
    Make("tool", Nil, [call |-> id, status |-> status, native |-> native,
                        whole |-> whole, itemCompleted |-> FALSE, parentCall |-> Nil])
SendRequest(t, calls_, results, delivered, compacts) ==
    Make("wire", t, [calls |-> calls_, results |-> results, delivered |-> delivered,
                     compacts |-> compacts])

Happened(types) == {h.b.type : h \in Hooks(lived, types)} # {}
Began == Happened({"session_start", "task_start"})
RunIsOver == Happened({"session_end", "task_end"})
Asked == UNION {w.b.calls : w \in Requests(lived)}
Submitted == UNION {w.b.results : w \in Requests(lived)}
Answers(S) == {c \in OfKind(S, "tool") : c.b.status \notin {"started", "unknown"}
                                          \/ c.b.itemCompleted}
              \cup {c \in OfKind(S, "rollout") : c.b.role = "result"}
WithAnswer == {c.b.call : c \in Answers(lived)}
EndedTurns == {h.turn : h \in Hooks(lived, {"turn_end", "turn_interrupt"})}
Working(t) == Began /\ ~RunIsOver /\ t \notin EndedTurns /\ (t = 1 \/ "turns" \in plan.does)

\* (The boundaries of a task are events of the task's own.)
Start ==
    /\ lived = <<>>
    /\ Happens(Hook(IF Bound THEN "task_start" ELSE "session_start", Nil, "started"))
Stop ==
    /\ Began /\ ~RunIsOver
    /\ Happens(Hook(IF Bound THEN "task_end" ELSE "session_end", Nil, "closed"))

\* The model is asked again with the results that are there, and may call tools.
Ask(t, calls_, delivered) ==
    /\ Working(t) /\ calls_ \cap Asked = {}
    /\ calls_ # {} \/ WithAnswer \ Submitted # {} \/ t \notin TurnsNamed(lived)
    /\ calls_ = {} \/ "cut" \notin plan.does => delivered = "whole"
    /\ Happens(SendRequest(t, calls_, WithAnswer \ Submitted, delivered, "no"))
ReportTool(id, status, native, whole) ==
    /\ "report" \in plan.does
    /\ id \in Asked /\ ~RunIsOver
    /\ status \in {"started", "unknown"} <=> ~native
    /\ native \/ whole
    /\ \A c \in OfKind(lived, "tool") : c.b.call = id => c.b.status # status
    /\ Happens(ReportOf(id, status, native, whole))
\* An item of the rollout, under its call or under another one.
ItemCompletes(id, parent) ==
    /\ "item" \in plan.does
    /\ id \in Asked /\ ~RunIsOver
    /\ \A c \in OfKind(lived, "tool") : ~c.b.itemCompleted
    /\ Happens([ReportOf(id, "unknown", FALSE, TRUE) EXCEPT
                   !.b.itemCompleted = TRUE, !.b.parentCall = parent])
Dispatch(id, role) ==
    /\ "dispatch" \in plan.does
    /\ id \in Asked /\ ~RunIsOver
    /\ LET written == {c.b.role : c \in {d \in OfKind(lived, "rollout") : d.b.call = id}}
       IN role \notin written /\ (role = "result" => "call" \in written)
    /\ Happens([Make("rollout", Nil, [role |-> role, call |-> id]) EXCEPT
                   !.thread = 2, !.parent = 1])

Agent(type, t, named) ==
    /\ "agent" \in plan.does
    /\ Working(t) /\ ~Happened({type})
    /\ type = "subagent_join" =>
          \E h \in Hooks(lived, {"subagent_spawn"}) : h.turn = t /\ h.b.agent = named
    /\ LET h == Hook(type, t, IF type = "subagent_join" THEN "closed" ELSE "started")
       IN Happens([h EXCEPT !.b.agent = named,
                            !.b.call = IF Asked = {} THEN Nil ELSE CHOOSE id \in Asked : TRUE])
Compact(t, step, trigger) ==
    /\ "compact" \in plan.does
    /\ Working(t)
    /\ CASE step = "before" -> ~Happened({"compaction_start"})
         [] step = "request" -> \A w \in Requests(lived) : w.b.compacts = "no"
         [] step = "after" -> Happened({"compaction_start"}) /\ ~Happened({"compaction_end"})
    /\ Happens(IF step = "request" THEN SendRequest(t, {}, {}, "whole", trigger)
               ELSE LET h == IF step = "before" THEN Hook("compaction_start", t, "started")
                                                ELSE Hook("compaction_end", t, "completed")
                    IN [h EXCEPT !.b.trigger = trigger])
Infer(status) ==
    /\ "infer" \in plan.does
    /\ Requests(lived) # {} /\ ~RunIsOver
    /\ \A c \in OfKind(lived, "native") : c.b.status # status
    /\ Happens(Make("native", Nil,
          [source |-> 1, status |-> status,
           request |-> (CHOOSE w \in Requests(lived) : TRUE).n]))
EndTurn(t, type) ==
    /\ Working(t) /\ t \in TurnsNamed(lived)
    /\ Happens(Hook(type, t, IF type = "turn_end" THEN "closed" ELSE "cancelled"))
TelemetryLost ==
    /\ "lose" \in plan.does /\ Began /\ ~RunIsOver /\ ~Happened({"telemetry_incomplete"})
    /\ Happens(Hook("telemetry_incomplete", Nil, "incomplete"))

\* The projection reads what arrived: everything, in another order, without one
\* capture, or with one of them observed a second time.
Peruse(how, k) ==
    /\ readAs = "unread" /\ RunIsOver
    /\ perused' = CASE how = "whole" -> lived
                    [] how = "reversed" -> Reverse(lived)
                    [] how = "lost" -> RemoveAt(lived, k)
                    [] how = "repeated" ->
                         Append(lived, [lived[k] EXCEPT !.n = Len(lived) + 1])
    /\ how \in {"whole", "reversed"} => k = 1
    /\ readAs' = how
    /\ UNCHANGED <<plan, lived>>

RuntimeInit == plan \in Plans /\ lived = <<>> /\ perused = <<>> /\ readAs = "unread"
RuntimeNext ==
    \/ Start \/ Stop \/ TelemetryLost
    \/ \E t \in Turns, c \in SUBSET plan.calls, d \in Deliveries : Ask(t, c, d)
    \/ \E id \in ToolCalls, s \in {"started", "unknown", "success", "error"},
          native, whole \in BOOLEAN : ReportTool(id, s, native, whole)
    \/ \E id \in ToolCalls, p \in ToolCalls \cup {Nil} : ItemCompletes(id, p)
    \/ \E id \in ToolCalls, role \in {"call", "result"} : Dispatch(id, role)
    \/ \E type \in {"subagent_spawn", "subagent_join"}, t \in Turns, b \in BOOLEAN :
          Agent(type, t, b)
    \/ \E t \in Turns, step \in {"before", "request", "after"},
          trigger \in {"manual", "auto"} : Compact(t, step, trigger)
    \/ \E s \in {"started", "completed", "error"} : Infer(s)
    \/ \E t \in Turns, type \in {"turn_end", "turn_interrupt"} : EndTurn(t, type)
    \/ \E how \in {"whole", "reversed", "lost", "repeated"}, k \in DOMAIN lived :
          Peruse(how, k)

-----------------------------------------------------------------------------
(* What "complete" means, from the captures alone.                         *)
Statuses(S, t) == {h.b.status : h \in {x \in Hooks(S, TurnEnds) : x.root = t}}
TracesOf(S, id) == {c \in ToSet(S) : c.kind \in {"tool", "rollout"} /\ c.b.call = id}
Reported(S, id) == {c.b.status : c \in {x \in OfKind(S, "tool") : x.b.call = id}}
                      \ {"started", "unknown"}
Returned(S, id) == {w \in Requests(S) : id \in w.b.results}

\* A tool ran to one end, by its reports, which were read whole, or by the one
\* answer to the one call the dispatcher wrote.
RanWell(S, id) ==
    LET reports == {c \in OfKind(S, "tool") : c.b.call = id}
        Written(role) == {c \in OfKind(S, "rollout") : c.b.call = id /\ c.b.role = role}
    IN IF reports = {}
       THEN Cardinality(Written("call")) = 1 /\ Cardinality(Written("result")) = 1
       ELSE /\ Reported(S, id) # {} \/ \E c \in reports : c.b.itemCompleted
            /\ Cardinality(Reported(S, id)) <= 1
            /\ \A c \in reports : c.b.whole

\* Every call was asked for once, ran and was answered.  (A response that did not
\* reach the client whole may leave a call that nobody ran.)
CallsAreWhole(S) ==
    \A id \in ToolCalls :
        Asking(S, id) \cup TracesOf(S, id) \cup Returned(S, id) # {} =>
            \/ /\ Cardinality(Asking(S, id)) = 1
               /\ RanWell(S, id) /\ Returned(S, id) # {}
            \/ /\ \A w \in Asking(S, id) : w.b.delivered # "whole"
               /\ TracesOf(S, id) \cup Returned(S, id) = {}

\* A turn that is nothing but a compaction the user asked for has no other end.
Standalone(S, t) ==
    LET requests == {w \in Requests(S) : w.turn = t}
    IN requests # {} /\ \A w \in requests : w.b.compacts = "manual"
TurnIsOver(S, t) ==
    /\ Cardinality(Statuses(S, t)) = (IF Standalone(S, t) THEN 0 ELSE 1)
    /\ \E c \in Requests(S) \cup Hooks(S, {"subagent_spawn"}) : c.root = t
RootIsOver(S) ==
    IF Bound THEN Hooks(S, {"task_start"}) # {} /\ Hooks(S, {"task_end"}) # {}
    ELSE /\ Hooks(S, SessionEvents) # {} /\ TurnsNamed(S) # {}
         /\ \A t \in TurnsNamed(S) : TurnIsOver(S, t)

CompactionsAreWhole(S) ==
    \A t \in TurnsNamed(S), trigger \in {"manual", "auto"} :
        LET Of(type) == {h \in Hooks(S, {type}) : h.turn = t /\ h.b.trigger = trigger}
            before == Of("compaction_start")
            after == Of("compaction_end")
            requests == {w \in Requests(S) : w.turn = t /\ w.b.compacts = trigger}
        IN IF requests = {} THEN before \cup after = {}
           ELSE /\ trigger = "manual" => Standalone(S, t)
                /\ Cardinality(before) = 1 /\ Cardinality(after) = 1
                /\ \A pre \in before, post \in after : pre.at < post.at

AgentsAreOver(S) ==
    LET Agents(type) == {h \in Hooks(S, {type}) : h.b.agent}
    IN /\ Cardinality(Agents("subagent_spawn")) = Cardinality(Agents("subagent_join"))
       /\ Cardinality(Agents("subagent_spawn")) <= 1
InferencesAreOver(S) ==
    OfKind(S, "native") # {} =>
        Cardinality({c.b.status : c \in OfKind(S, "native")} \ {"started"}) = 1

IsWhole(S) ==
    /\ RootIsOver(S) /\ CallsAreWhole(S) /\ CompactionsAreWhole(S)
    /\ AgentsAreOver(S) /\ InferencesAreOver(S)
    /\ Hooks(S, {"telemetry_incomplete"}) = {}

\* The projection calls a run complete exactly if its captures, in whatever order
\* and however often they arrived, show that it was: the task or every turn over
\* with one status, every call asked once, run once to one end and answered,
\* every compaction between its hooks, every sub-agent and inference ended, and
\* no mark of lost telemetry.  A span lost, joined to the wrong scope or linked
\* to the wrong request would break it (model_interaction.rs).
RuntimeIsEarned == readAs # "unread" => (IsReady(perused) <=> IsWhole(perused))
=============================================================================
