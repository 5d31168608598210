---------------------------- MODULE SessionMessages ----------------------------
(***************************************************************************)
(* The conversation of one Session, put together from the captures of its  *)
(* model calls (assemble.rs: parse_request, parse_response, merge_messages,*)
(* reconcile_tool_executions, lifecycle.rs).                               *)
(*                                                                         *)
(* A client holds a conversation with a model.  It sends the whole history *)
(* with every call or, with previous_response_id, only what is new; it may *)
(* send identities of messages back or leave them out; calls fail and are  *)
(* repeated; tools report their start and end from several sources.  Every *)
(* call, event and boundary is a capture.  The assembler merges them in    *)
(* the order of their times or, without times, as the files come.          *)
(***************************************************************************)
EXTENDS Integers, Sequences, FiniteSets, SequencesExt, FiniteSetsExt, Functions

CONSTANTS
    Styles,     \* how clients and hooks behave: [whole, ids, timed, hooks: BOOLEAN]
    Texts,      \* what users and models say
    Calls,      \* call ids, numbers
    Sources,    \* who reports tool events
    MaxTalk,    \* messages in the conversation
    MaxRecords, \* captures
    NoItem      \* an absent identity, text, status or set of arguments

VARIABLES
    style,      \* how this client behaves
    talk,       \* the conversation as it took place
    records,    \* its captures, in the order they were made
    order,      \* the captures in the order the assembler reads them
    at,         \* how many of them are merged
    merged,     \* messages of the Session so far
    divergences,\* merges that found two different values
    talking     \* "talking", "merging", "done"
messagesVars == <<style, talk, records, order, at, merged, divergences, talking>>

\* mid: the identity of the item; args: [text, wrapped], the payload of a call
\* and whether it is the object {"input": payload}.
Item(role, mid, call, text, args, status) ==
    [role |-> role, mid |-> mid, call |-> call, text |-> text, args |-> args,
     status |-> status]
UserItem(mid, text) == Item("user", mid, NoItem, text, NoItem, NoItem)
TextItem(mid, text) == Item("assistant", mid, NoItem, text, NoItem, NoItem)
CallItem(mid, call, args) == Item("assistant", mid, call, NoItem, args, NoItem)
ResultItem(call, status) == Item("tool", NoItem, call, NoItem, NoItem, status)

-----------------------------------------------------------------------------
(* Statuses.                                                               *)

\* normalize_tool_status keeps these and makes every other word "unknown".
KnownStatuses == {"success", "error", "cancelled", "timeout"}
Failed == {"error", "cancelled", "timeout"}
\* explicit_tool_result_status: what the item says, what its is_error flag says
\* and what the runtime's envelopes say; two of them that differ make it unknown.
ExplicitStatus(direct, flag, envelopes) ==
    LET fromEnvelope == IF Cardinality(envelopes) = 1
                        THEN CHOOSE e \in envelopes : TRUE ELSE NoItem
        said(bad) == IF bad = "bad" THEN Failed ELSE {"success"}
        conflict ==
            \/ direct # NoItem /\ flag # NoItem /\ direct # "unknown"
               /\ direct \notin said(flag)
            \/ Cardinality(envelopes) > 1
            \/ direct # NoItem /\ fromEnvelope # NoItem
               /\ direct # (IF fromEnvelope = "bad" THEN "error" ELSE "success")
            \/ direct = NoItem /\ flag # NoItem /\ fromEnvelope # NoItem
               /\ flag # fromEnvelope
        word(f) == IF f = "bad" THEN "error" ELSE "success"
    IN CASE conflict -> "unknown"
         [] ~conflict /\ direct # NoItem -> direct
         [] ~conflict /\ direct = NoItem /\ flag # NoItem -> word(flag)
         [] ~conflict /\ direct = NoItem /\ flag = NoItem /\ fromEnvelope # NoItem ->
              word(fromEnvelope)
         [] OTHER -> NoItem

-----------------------------------------------------------------------------
(* merge_messages.                                                         *)

\* message_identity
MessageIdentity(m) ==
    CASE m.role = "tool" /\ m.call # NoItem -> <<"tool-result", m.call>>
      [] m.role = "assistant" /\ m.call # NoItem -> <<"tool-call", m.call>>
      [] m.call = NoItem /\ m.mid # NoItem -> <<"message", m.mid>>
      [] OTHER -> <<"content", m>>

\* equivalent_tool_arguments: the object that wraps a payload and the payload
\* are the same, and the object is kept.
MergeArgs(old, new) ==
    IF old # NoItem /\ new # NoItem /\ old.text = new.text
    THEN [old EXCEPT !.wrapped = old.wrapped \/ new.wrapped] ELSE old
\* merge_value, on one field: what is kept, and whether it was another value.
MergeField(f, old, new) ==
    CASE old = new \/ new = NoItem -> [value |-> old, conflict |-> FALSE]
      [] old # new /\ new # NoItem /\ old = NoItem ->
            [value |-> new, conflict |-> FALSE]
      [] old # new /\ new # NoItem /\ f = "args" /\ old # NoItem ->
            [value |-> MergeArgs(old, new), conflict |-> old.text # new.text]
      [] old = "unknown" /\ new \in KnownStatuses /\ f = "status" ->
            [value |-> new, conflict |-> FALSE]
      [] OTHER -> [value |-> old, conflict |-> TRUE]
MergeItem(old, new) == [f \in DOMAIN old |-> MergeField(f, old[f], new[f]).value]
Diverges(old, new) == \E f \in DOMAIN old : MergeField(f, old[f], new[f]).conflict

\* The places of the messages with this identity.
Places(items, identity) ==
    SelectSeq([i \in DOMAIN items |-> i],
              LAMBDA i : MessageIdentity(items[i]) = identity)
\* How many of the first n candidates have it.
Occurrence(candidate, n) ==
    Cardinality({i \in 1 .. n : MessageIdentity(candidate[i]) = MessageIdentity(candidate[n])})
\* The place the n-th candidate is merged into, 0 for a new message.  The count
\* makes the second "go on" of a history the second one of the Session.
PlaceOf_First(items, candidate, n) ==
    LET places == Places(items, MessageIdentity(candidate[n]))
    IN IF places = <<>> THEN 0 ELSE places[1]
PlaceOf(items, candidate, n) ==
    LET places == Places(items, MessageIdentity(candidate[n]))
        k == Occurrence(candidate, n)
    IN IF k \in DOMAIN places THEN places[k] ELSE 0
\* The items and the divergences after the candidates n ..
MergeStep(candidate, state, n) ==
    LET p == PlaceOf(state.items, candidate, n)
    IN IF p = 0 THEN [state EXCEPT !.items = Append(@, candidate[n])]
       ELSE [items |-> [state.items EXCEPT ![p] = MergeItem(@, candidate[n])],
             count |-> state.count + IF Diverges(state.items[p], candidate[n]) THEN 1 ELSE 0]
MergeMessages(items, candidate) ==
    FoldLeft(LAMBDA s, n : MergeStep(candidate, s, n), [items |-> items, count |-> 0],
             [n \in DOMAIN candidate |-> n])

-----------------------------------------------------------------------------
(* reconcile_tool_executions: the events of one call, in the order read.   *)
EventsOf(seq, c) == SelectSeq(seq, LAMBDA r : r.kind = "tool" /\ r.call = c)
EndEvents(events) == SelectSeq(events, LAMBDA r : r.status \notin {"started", "unknown"})
ExecutionConflicts(events) ==
    LET n(source, S) == Cardinality({i \in DOMAIN events :
                            events[i].source = source /\ events[i].status \in S})
        ends == {r.status : r \in ToSet(EndEvents(events))}
    IN {k \in {"started twice", "ended twice", "statuses", "open"} :
          CASE k = "started twice" -> \E s \in Sources : n(s, {"started"}) > 1
            [] k = "ended twice" -> \E s \in Sources : n(s, KnownStatuses) > 1
            [] k = "statuses" -> Cardinality(ends) > 1
            [] OTHER -> ends = {}}
\* The event that speaks for the call: the runtime's own result first.
SelectedEvent(events) ==
    LET ends == EndEvents(events)
        own == SelectSeq(ends, LAMBDA r : r.source = "codex.tool_result")
    IN CASE own # <<>> -> own[1]
         [] own = <<>> /\ ends # <<>> -> ends[1]
         [] OTHER -> events[1]
Execution(seq, c) ==
    LET events == EventsOf(seq, c)
    IN [closed |-> Cardinality({r.status : r \in ToSet(EndEvents(events))}) = 1,
        status |-> SelectedEvent(events).status, conflicts |-> ExecutionConflicts(events)]

\* annotate_tool_call_statuses: the last result of the call decides.
ExecutionStatus(items, i) ==
    LET results == SelectSeq(items, LAMBDA m : m.role = "tool" /\ m.call = items[i].call)
        status == IF results = <<>> THEN NoItem ELSE Last(results).status
    IN CASE results = <<>> -> IF i = Len(items) THEN "open_tail" ELSE "unpaired"
         [] results # <<>> /\ status \in {NoItem, "unknown"} -> "unknown"
         [] results # <<>> /\ status \in Failed -> "failed"
         [] OTHER -> "executed"

-----------------------------------------------------------------------------
(* LifecycleState: when the Session counts as ended.                       *)
IsTerminalEvent(e) == e \in {"session_end", "cancel"}
\* Where hooks report boundaries, only they count, and they come in pairs; a
\* cancellation is not one of theirs.
Boundaries(seq) ==
    LET all == SelectSeq(seq, LAMBDA r : r.kind = "boundary")
    IN [i \in DOMAIN all |-> all[i].event]
ByHooks(seq) == style.hooks /\ ToSet(Boundaries(seq)) \ {"cancel"} # {}
BoundariesIn(seq) ==
    IF ByHooks(seq) THEN SelectSeq(Boundaries(seq), LAMBDA e : e # "cancel")
    ELSE Boundaries(seq)
ObserveBoundary(s, e, paired) ==
    LET ends == s.ends + 1
    IN IF IsTerminalEvent(e)
       THEN [s EXCEPT !.ends = ends,
                      !.invalid = @ + IF paired /\ s.starts < ends THEN 1 ELSE 0,
                      !.closed = ~(paired /\ s.starts < ends)]
       ELSE [s EXCEPT !.starts = @ + 1, !.closed = FALSE,
                      !.invalid = @ + IF paired /\ s.starts > s.ends THEN 1 ELSE 0]
LifecycleState(events, paired) ==
    FoldLeft(LAMBDA s, e : ObserveBoundary(s, e, paired),
             [starts |-> 0, ends |-> 0, invalid |-> 0, closed |-> FALSE], events)
FinalSnapshot(seq) ==
    LET s == LifecycleState(BoundariesIn(seq), ByHooks(seq))
    IN s.closed /\ s.invalid = 0

-----------------------------------------------------------------------------
(* The conversation and its captures.                                      *)
Snapshot(request, response) ==
    [kind |-> "api", request |-> request, response |-> response]
ToolEvent(call, source, status) ==
    [kind |-> "tool", call |-> call, source |-> source, status |-> status]
Boundary(event) == [kind |-> "boundary", event |-> event]

\* The items the client sends again; parse_response drops nothing of the answer.
AsSent(m) == IF style.ids \/ m.role # "assistant" \/ m.call # NoItem THEN m
             ELSE [m EXCEPT !.mid = NoItem]
LastAnswer == SelectLastInSeq(talk, LAMBDA m : m.role = "assistant")
RequestItems ==
    LET sent == [i \in DOMAIN talk |-> AsSent(talk[i])]
    IN IF style.whole THEN sent
       ELSE SubSeq(sent, LastAnswer + 1, Len(sent))

Free == Len(talk) < MaxTalk
Room == Len(records) < MaxRecords
LastRole == IF talk = <<>> THEN "none" ELSE Last(talk).role
OpenCalls == {m.call : m \in {x \in ToSet(talk) : x.role = "assistant"}}
             \ ({m.call : m \in {x \in ToSet(talk) : x.role = "tool"}} \cup {NoItem})
Talking(t, r) ==
    /\ talk' = t /\ records' = r
    /\ UNCHANGED <<style, order, at, merged, divergences, talking>>

UserSays(t) ==
    /\ talking = "talking" /\ Free /\ OpenCalls = {}
    /\ LastRole \in {"none", "assistant"}
    /\ Talking(Append(talk, UserItem(NoItem, t)), records)
\* A call of the model: an answer, or none (the call is repeated).
ModelAnswers(t) ==
    /\ talking = "talking" /\ Free /\ Room /\ LastRole \in {"user", "tool"}
    /\ LET answer == TextItem(Len(talk) + 1, t)
       IN Talking(Append(talk, answer),
                  Append(records, Snapshot(RequestItems, <<answer>>)))
ModelCalls(c) ==
    /\ talking = "talking" /\ Free /\ Room /\ LastRole \in {"user", "tool"}
    /\ c \notin {m.call : m \in ToSet(talk)}
    /\ LET answer == CallItem(Len(talk) + 1, c, [text |-> "args", wrapped |-> TRUE])
           replay == [answer EXCEPT !.args.wrapped = FALSE]
       IN Talking(Append(talk, replay),
                  Append(records, Snapshot(RequestItems, <<answer>>)))
ModelFails ==
    /\ talking = "talking" /\ Room /\ LastRole \in {"user", "tool"}
    /\ Talking(talk, Append(records, Snapshot(RequestItems, <<>>)))
ToolReports(c, source, status) ==
    /\ talking = "talking" /\ Room /\ c \in {m.call : m \in ToSet(talk)} \ {NoItem}
    /\ Talking(talk, Append(records, ToolEvent(c, source, status)))
ToolReturns(c, direct, flag, envelopes) ==
    /\ talking = "talking" /\ Free /\ c \in OpenCalls
    /\ Talking(Append(talk, ResultItem(c, ExplicitStatus(direct, flag, envelopes))), records)
SessionBoundary(event) ==
    /\ talking = "talking" /\ Room
    /\ Talking(talk, Append(records, Boundary(event)))

\* sort_captures: with times, as they were made; else as the files come.
Orders == {o \in [DOMAIN records -> DOMAIN records] : IsInjective(o)}
Assemble(o) ==
    /\ talking = "talking" /\ records # <<>>
    /\ o \in Orders
    /\ style.timed => \A i \in DOMAIN o : o[i] = i
    /\ order' = [i \in DOMAIN o |-> records[o[i]]]
    /\ talking' = "merging"
    /\ UNCHANGED <<style, talk, records, at, merged, divergences>>

\* assemble_group, its loop over the captures
MergeCapture ==
    /\ talking = "merging"
    /\ LET r == order[at + 1]
           m == MergeMessages(merged, IF r.kind = "api" THEN r.request \o r.response ELSE <<>>)
       IN /\ merged' = m.items
          /\ divergences' = divergences + m.count
    /\ at' = at + 1
    /\ talking' = IF at' = Len(order) THEN "done" ELSE "merging"
    /\ UNCHANGED <<style, talk, records, order>>

MessagesInit ==
    /\ style \in Styles
    /\ talk = <<>> /\ records = <<>> /\ order = <<>> /\ at = 0 /\ merged = <<>>
    /\ divergences = 0 /\ talking = "talking"
MessagesNext ==
    \/ ModelFails \/ MergeCapture
    \/ \E t \in Texts : UserSays(t) \/ ModelAnswers(t)
    \/ \E c \in Calls : ModelCalls(c)
    \/ \E c \in Calls, s \in Sources, x \in {"started", "success", "error"} : ToolReports(c, s, x)
    \/ \E c \in Calls, d \in {NoItem, "success"}, f \in {NoItem, "bad"},
          e \in SUBSET {"bad", "good"} : ToolReturns(c, d, f, e)
    \/ \E e \in {"session_start", "session_end", "cancel"} : SessionBoundary(e)
    \/ \E o \in Orders : Assemble(o)

-----------------------------------------------------------------------------
(* What the Session may say.                                               *)

\* The items without what a history leaves out or writes in another way.
Bare(items) ==
    [i \in DOMAIN items |-> [items[i] EXCEPT !.mid = NoItem,
         !.args = IF @ = NoItem THEN @ ELSE @.text]]
ApiCalls == SelectSeq(records, LAMBDA r : r.kind = "api")
Captured(r) == r.request \o r.response
Whole == {Captured(r) : r \in ToSet(ApiCalls)}
Longest == CHOOSE s \in Whole \cup {<<>>} : \A t \in Whole : Len(t) <= Len(s)
\* An answer that comes back without its identity is taken for another one.
Recognised ==
    style.ids \/ \A r \in ToSet(ApiCalls), i \in DOMAIN talk :
        talk[i] \in ToSet(r.response) => talk[i].text = NoItem \/ i = Len(talk)
\* A short message repeated in a request of its own is taken for the first one.
NothingRepeated ==
    \A i, j \in DOMAIN talk :
        (i # j /\ talk[i].role = "user" /\ talk[j].role = "user") =>
            talk[i].text # talk[j].text
Alternates(events) ==
    /\ Len(events) % 2 = 0 /\ events # <<>>
    /\ \A i \in DOMAIN events : IsTerminalEvent(events[i]) <=> i % 2 = 0

\* The Session says what the captures say of the conversation: histories sent
\* again, by any number of calls and in any order, are merged into the one
\* conversation without a divergence; requests that hold only what is new give
\* it when they come in order; a call and a result are there once; a tool is
\* closed with the one status its sources agree on, in any order of them; and
\* the Session is final exactly when its last epoch is ended, for hooks when
\* all its epochs are.
SessionIsTrue ==
    talking = "done" =>
        /\ (style.whole /\ Recognised) =>
              divergences = 0 /\ Bare(merged) = Bare(Longest)
        /\ (~style.whole /\ style.timed /\ NothingRepeated) =>
              divergences = 0 /\ \A r \in ToSet(ApiCalls) :
                 \E i \in DOMAIN merged : SubSeq(Bare(merged), i, i + Len(Captured(r)) - 1) = Bare(Captured(r))
        /\ \A i, j \in DOMAIN merged :
              (merged[i].call # NoItem /\ i # j) =>
                 <<merged[i].role, merged[i].call>> # <<merged[j].role, merged[j].call>>
        /\ \A i \in DOMAIN merged :
              ExecutionStatus(merged, i) = "executed" /\ merged[i].call # NoItem =>
                 ResultItem(merged[i].call, "success") \in ToSet(talk)
        /\ \A c \in {r.call : r \in {x \in ToSet(order) : x.kind = "tool"}} :
              LET said == {r.status : r \in ToSet(EventsOf(order, c))} \ {"started"}
              IN /\ Execution(order, c).closed <=> Cardinality(said) = 1
                 /\ Execution(order, c).closed => Execution(order, c).status \in said
        /\ FinalSnapshot(order) <=>
              LET events == BoundariesIn(order)
              IN IF ByHooks(order) THEN Alternates(events)
                 ELSE events # <<>> /\ IsTerminalEvent(Last(events))
=============================================================================
