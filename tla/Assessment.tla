------------------------------ MODULE Assessment ------------------------------
(***************************************************************************)
(* The acceptance of a Session (score.rs).  assess_session first gives the *)
(* Session the form a delivery has (runtime evidence merged in, the model  *)
(* calls it replaces removed), then evaluates 17 gates, all of them        *)
(* required, and a score that adds the weights of the gates that pass.     *)
(*                                                                         *)
(* A message is a record: role, calls (a sequence of call ids, each the    *)
(* call of a tool of its own with valid arguments), id (the call a tool    *)
(* message answers), text (NoText, "ack" for a user turn the rules call a  *)
(* machine's, "harness" for one that is no turn, or any other value),      *)
(* status (of a tool message, or NoStatus) and conflict ("yes", "no", or   *)
(* "unset").  A Session is its messages, its projection (the calls it      *)
(* excludes and the runtime messages it adds), the calls whose tool has a  *)
(* complete definition, its readiness flags, and the set of the other      *)
(* facts its metadata attests; the removal of internal metadata, which the *)
(* gates have looked at before, is left out.  Token counts, warnings and   *)
(* the semantic score change no decision and are left out too.             *)
(***************************************************************************)
EXTENDS Naturals, FiniteSets, SequencesExt

CONSTANTS
    CallIds,       \* ids of tool calls
    NoId, NoText, NoStatus, NoProjection,
    Alphabet,      \* messages a Session may hold
    Projections,   \* records [excluded, runtime], or NoProjection
    FactSets,      \* sets of facts metadata may attest
    Readiness,     \* sets of flags trace_readiness may set
    MaxMessages,   \* bound: messages of a Session
    MinTurns, MinCalls, MinResults   \* 10, 5 and 2 in the code

ASSUME AssessmentAssumption ==
    {MaxMessages, MinTurns, MinCalls, MinResults} \subseteq Nat

VARIABLES messages, rest     \* rest: the Session without its messages

assessmentVars == <<messages, rest>>

Facts == {"fields", "prompt", "assembled", "dag", "conserved", "model", "final",
          "ended", "epoch", "supported", "domain"}
Unprojected ==
    [projection |-> NoProjection, defined |-> CallIds, facts |-> Facts,
     ready |-> {"artifact", "raw", "protocol", "runtime", "root",
                "wire_ready", "runtime_ready", "delivery_ready"}]

SessionOf(ms, r) ==
    [messages |-> ms, projection |-> r.projection, defined |-> r.defined,
     facts |-> r.facts, ready |-> r.ready]
session == SessionOf(messages, rest)

-----------------------------------------------------------------------------
(* materialize_profile_session.                                            *)

Substantive(m) == m.text # NoText

\* Excluded model calls go, with their results; an assistant message that
\* held nothing else goes too.
WithoutCalls(m, X) ==
    IF m.role = "assistant" THEN [m EXCEPT !.calls = SelectSeq(@, LAMBDA c : c \notin X)]
                            ELSE m
Stays(m, X) ==
    /\ ~(m.role = "tool" /\ m.id \in X)
    /\ m.role = "assistant" => WithoutCalls(m, X).calls # <<>> \/ Substantive(m)
Keep(ms, X) ==
    LET kept == SelectSeq(ms, LAMBDA m : Stays(m, X))
    IN  [i \in DOMAIN kept |-> WithoutCalls(kept[i], X)]

\* merge_runtime_result_evidence: the first message for the same call takes the
\* status, and the content when it has none.
Evidence(m, r) ==
    [m EXCEPT !.status = IF r.status = NoStatus THEN @ ELSE r.status,
              !.conflict = IF r.conflict = "unset" THEN @ ELSE r.conflict,
              !.text = IF @ = NoText THEN r.text ELSE @]

\* merge_runtime_projection_message.  A runtime call that is there already adds
\* evidence no gate reads.
MergeOne(ms, r) ==
    LET results == {i \in DOMAIN ms : ms[i].role = "tool" /\ ms[i].id = r.id}
        known == r.role = "assistant" /\ Len(r.calls) = 1
                   /\ \E m \in ToSet(ms) : m.role = "assistant"
                                             /\ r.calls[1] \in ToSet(m.calls)
        first == CHOOSE i \in results : \A j \in results : i <= j
    IN  IF r.role = "tool" /\ r.id # NoId /\ results # {}
        THEN [ms EXCEPT ![first] = Evidence(@, r)]
        ELSE IF known THEN ms ELSE Append(ms, r)

Materialise(s) ==
    IF s.projection = NoProjection THEN s
    ELSE [s EXCEPT !.messages = FoldLeft(MergeOne, Keep(@, s.projection.excluded),
                                         s.projection.runtime),
                   !.projection = NoProjection]

-----------------------------------------------------------------------------
(* What the gates look at, for messages ms.                                *)

\* collect_tool_calls, with the message each call is in.
CallsIn(ms) ==
    UNION {{<<i, k, ms[i].calls[k]>> : k \in DOMAIN ms[i].calls} :
             i \in {j \in DOMAIN ms : ms[j].role = "assistant"}}
Ids(calls) == {c[3] : c \in calls} \ {NoId}
ResultsIn(ms) == {i \in DOMAIN ms : ms[i].role = "tool"}
ResultsOf(ms, id) == {i \in ResultsIn(ms) : ms[i].id = id}

\* Only the calls of the last message may be open.
Required(ms) == {c \in CallsIn(ms) : c[1] # Len(ms)}
Paired(ms) ==
    {c \in Required(ms) : c[3] # NoId /\ Cardinality(ResultsOf(ms, c[3])) = 1}
Orphans(ms) == {i \in ResultsIn(ms) : ms[i].id \notin Ids(CallsIn(ms))}
Twice(calls) == Cardinality(Ids(calls)) < Cardinality(calls)

\* collect_tool_results: content, no conflict, and an explicit status.
Valid(m) == m.text # NoText /\ m.conflict # "yes" /\ m.status # NoStatus

\* classify_turns and classify_user_message: a repeated text is a machine's.
UserMessages(ms) == {i \in DOMAIN ms : ms[i].role = "user"}
UserTurns(ms) == {i \in UserMessages(ms) : ms[i].text # "harness"}
PreviousUser(ms, i) ==
    {j \in UserMessages(ms) : j < i /\ \A k \in UserMessages(ms) : k <= j \/ k >= i}
Machine(ms, i) ==
    \/ ms[i].text \in {NoText, "ack"}
    \/ \E j \in PreviousUser(ms, i) : ms[j].text = ms[i].text
Answered(ms, i) ==
    \E j \in i + 1 .. Len(ms) :
        /\ ms[j].role = "assistant" /\ (Substantive(ms[j]) \/ ms[j].calls # <<>>)
        /\ \A k \in i + 1 .. j : ms[k].role # "user"
Humans(ms) == {i \in UserTurns(ms) : ~Machine(ms, i)}
HumanPairs(ms) == Cardinality({i \in Humans(ms) : Answered(ms, i)})

\* unresolved_tool_call_ids_for_closure.  Mutant: an open tail is no obstacle.
Unresolved_OpenTail(ms) == {id \in Ids(Required(ms)) : ResultsOf(ms, id) = {}}
Unresolved(ms) == {id \in Ids(CallsIn(ms)) : ResultsOf(ms, id) = {}}

-----------------------------------------------------------------------------
(* The gates of assess_session; s is materialised already.                 *)

MessageRoles(s) ==
    s.messages # <<>> /\ \A m \in ToSet(s.messages) :
                            m.role \in {"system", "user", "assistant", "tool"}
FirstMessageRole(s) == s.messages # <<>> /\ s.messages[1].role \in {"system", "user"}
SystemPrompt(s) ==
    "prompt" \in s.facts \/ \E m \in ToSet(s.messages) : m.role = "system" /\ Substantive(m)
RequiredFields(s) == "fields" \in s.facts /\ SystemPrompt(s)
EffectiveTurns(s) ==
    /\ HumanPairs(s.messages) + Cardinality(Paired(s.messages)) >= MinTurns
    /\ HumanPairs(s.messages) >= 2
StructuredToolCalls(s) ==
    Cardinality(CallsIn(s.messages)) >= MinCalls /\ ~Twice(CallsIn(s.messages))
ValidToolResults(s) ==
    Cardinality({i \in ResultsIn(s.messages) : Valid(s.messages[i])}) >= MinResults
ToolDefinitions(s) ==
    CallsIn(s.messages) # {} /\ Ids(CallsIn(s.messages)) \subseteq s.defined
ToolPairing(s) ==
    /\ Paired(s.messages) = Required(s.messages) /\ Orphans(s.messages) = {}
    /\ ~Twice(Required(s.messages))
    /\ \A i, j \in ResultsIn(s.messages) :
          s.messages[i].id = s.messages[j].id /\ s.messages[i].id # NoId => i = j
MachineTurnRatio(s) ==
    LET machine == UserTurns(s.messages) \ Humans(s.messages)
    IN  UserTurns(s.messages) # {}
          /\ 4 * Cardinality(machine) < Cardinality(UserTurns(s.messages))
AssemblyIntegrity(s) ==
    /\ {"assembled", "supported"} \subseteq s.facts
    /\ \A i \in ResultsIn(s.messages) : s.messages[i].conflict # "yes"
RuntimeDagIntegrity(s) == "dag" \in s.facts

\* The readiness the assembler wrote must follow from its own facts.
ReadinessConsistent(s) ==
    /\ "wire_ready" \in s.ready <=> {"artifact", "raw", "protocol"} \subseteq s.ready
    /\ "runtime_ready" \in s.ready <=> {"runtime", "root"} \subseteq s.ready
    /\ "delivery_ready" \in s.ready <=> {"wire_ready", "runtime_ready"} \subseteq s.ready
TraceDeliveryReady(s) == ReadinessConsistent(s) /\ "delivery_ready" \in s.ready
InferenceConservation(s) == "conserved" \in s.facts
ModelEligible(s) == "model" \in s.facts
ContentDomain(s) == "domain" \in s.facts

SessionClosed(s) ==
    LET last == s.messages[Len(s.messages)]
        finalAssistant == /\ s.messages # <<>> /\ last.role = "assistant"
                          /\ last.calls = <<>> /\ Substantive(last)
    IN  /\ {"final", "epoch"} \subseteq s.facts
        /\ Unresolved(s.messages) = {}
        /\ finalAssistant \/ "ended" \in s.facts

Weighted(s) ==
    <<<<RequiredFields(s), 5>>, <<MessageRoles(s), 5>>, <<FirstMessageRole(s), 5>>,
      <<SystemPrompt(s), 5>>, <<ValidToolResults(s), 5>>, <<ModelEligible(s), 5>>,
      <<SessionClosed(s), 5>>, <<StructuredToolCalls(s), 10>>,
      <<MachineTurnRatio(s), 10>>, <<EffectiveTurns(s), 15>>,
      <<ToolDefinitions(s), 15>>, <<ToolPairing(s), 15>>,
      <<AssemblyIntegrity(s), 0>>, <<RuntimeDagIntegrity(s), 0>>,
      <<TraceDeliveryReady(s), 0>>, <<InferenceConservation(s), 0>>,
      <<ContentDomain(s), 0>>>>

\* What assess_session decides, for a minimum score.
Assess(source) ==
    LET gates == Weighted(Materialise(source))
    IN  [pass |-> {i \in DOMAIN gates : gates[i][1]},
         score |-> FoldSet(LAMBDA i, n : n + gates[i][2], 0,
                           {i \in DOMAIN gates : gates[i][1]})]
HardGatePass(a) == a.pass = 1 .. 17
Eligible(a, minimum) == HardGatePass(a) /\ a.score >= minimum

TrainingReady(source) ==
    LET s == Materialise(source)
    IN  TraceDeliveryReady(s) /\ SessionClosed(s) /\ HumanPairs(s.messages) > 0

-----------------------------------------------------------------------------
AssessmentInit == messages = <<>> /\ rest = Unprojected

\* The assembler appends messages, then attests its facts and adds a projection.
AppendMessage ==
    /\ rest = Unprojected /\ Len(messages) < MaxMessages
    /\ \E m \in Alphabet :
          /\ messages = <<>> => m.role = "user"
          /\ messages' = Append(messages, m)
    /\ UNCHANGED rest

Attest ==
    /\ rest = Unprojected
    /\ \E p \in Projections, F \in FactSets, R \in Readiness :
          /\ p = NoProjection \/ F = Facts
          /\ rest' = [Unprojected EXCEPT !.projection = p, !.facts = F, !.ready = R]
    /\ UNCHANGED messages

AssessmentNext == AppendMessage \/ Attest

\* An accepted Session is whole, judged by its delivered messages alone: every
\* call in them has one answer that carries no conflict and is not the answer
\* to another call, nothing answers a call that is not there, it is fit for training,
\* and the assessment of the delivered form, which verify_release repeats, is
\* the one that accepted it.  The score cannot buy anything: it is 100
\* (score.rs:279-1070, 1113-1295; release.rs:624-651).
AcceptedIsWhole ==
    LET a == Assess(session)
        d == Materialise(session)
        calls == CallsIn(d.messages)
        tools == ResultsIn(d.messages)
    IN  Eligible(a, 90) =>
          /\ a.score = 100 /\ TrainingReady(session) /\ Assess(d) = a
          /\ \A c \in calls : \E i \in tools :
                /\ d.messages[i].id = c[3] /\ d.messages[i].conflict # "yes"
                /\ \A e \in calls \ {c} : e[3] # d.messages[i].id
          /\ \A i \in tools : \E c \in calls : c[3] = d.messages[i].id
          /\ Cardinality(tools) = Cardinality(calls)
=============================================================================
