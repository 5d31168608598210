----------------------------- MODULE CloudIngest -----------------------------
(***************************************************************************)
(* The cloud routes of the Relay (cloud_ingest.rs, relay_cloud_ingest): an *)
(* OTLP batch or a hook is kept as it came, the captures that can be       *)
(* derived from it are kept beside it, and what cannot be understood is    *)
(* counted.  The ids of the captures are digests of the body, so a body    *)
(* that is sent again finds them; a hook may bring an event id of its own. *)
(*                                                                         *)
(* A body is a JSON object of an endpoint:                                 *)
(*   logs and traces  [structured, resources, scopes, records]: whether    *)
(*           the containers are in order, the resources and the scopes     *)
(*           with their attributes, and the records, in their order, with  *)
(*           theirs; each refers to what it is in;                         *)
(*   hook    [event, session, text, odd, null, status, compact, eventId,   *)
(*           body]: the fields that hold text, another value and null, the *)
(*           status a tool reports, and whether the source is compact.     *)
(* Attributes are a function of the keys that are there, or Unreadable; a  *)
(* blank or null value is Absent, and those of identity are never null.    *)
(* Captures are within the size limit.                                     *)
(***************************************************************************)
EXTENDS CaptureParts, Naturals, Sequences, Functions, TLC

CONSTANTS
    Corpora,      \* sets of bodies that clients send, again and again
    Senders,      \* requests in flight
    Unreadable,   \* attributes that are no list of keys and values
    MaxOutages,   \* bound: outages of the ledgers and crashes
    MaxCounted    \* bound: more counts of the errors of a body are not told apart

ASSUME CloudAssumption ==
    /\ MaxOutages \in Nat /\ MaxCounted \in Nat \ {0}
    /\ \A corpus \in Corpora : \A b \in corpus :
          /\ b.endpoint \in {"otlp_logs", "otlp_traces", "codex_hook"}
          /\ b.endpoint # "codex_hook" =>
                /\ b.structured \in BOOLEAN
                /\ IsFiniteSet(DOMAIN b.resources) /\ IsFiniteSet(DOMAIN b.scopes)
                /\ IsFiniteSet(DOMAIN b.records)
                /\ \A i \in DOMAIN b.records : b.records[i].scope \in DOMAIN b.scopes
                /\ \A c \in DOMAIN b.scopes : b.scopes[c].resource \in DOMAIN b.resources

VARIABLES
    bodies,      \* the corpus of this behaviour
    captures,    \* what is durable, a set of [id, body, type, session]
    counted,     \* [bodies -> times their quality errors were added to the ledger]
    sender,      \* [Senders -> step, body, and what the store answered]
    answers,     \* observer: <<body, answer>> clients have got
    outages      \* observer: outages so far

cloudVars == <<bodies, captures, counted, sender, answers, outages>>

-----------------------------------------------------------------------------
(***************************************************************************)
(* What prepare_cloud_ingest makes of a body.                              *)
(***************************************************************************)
Capture(id, b, type, session) == [id |-> id, body |-> b, type |-> type, session |-> session]

\* The first record of a batch: the body itself.
RawBatch(b) == Capture(<<"batch", b, 0>>, b, "telemetry_batch", Absent)

\* otlp_message_attributes, attributes_map: resources and scopes whose
\* attributes cannot be read, and the records that are in neither.
BadResources(b) == {x \in DOMAIN b.resources : b.resources[x].attributes = Unreadable}
BadScopes(b) == {c \in DOMAIN b.scopes : b.scopes[c].attributes = Unreadable}
ScopeOf(b, i) == b.scopes[b.records[i].scope]
InContext(b) ==
    {i \in DOMAIN b.records :
        b.records[i].scope \notin BadScopes(b) /\ ScopeOf(b, i).resource \notin BadResources(b)}

\* The attributes a record is read with: its own before those of its scope,
\* these before those of the resource.
Merged(b, i) ==
    b.records[i].attributes @@ ScopeOf(b, i).attributes
        @@ b.resources[ScopeOf(b, i).resource].attributes

\* validate_otlp_identity_layers: under all their names, one Session, one turn
\* and one root turn; thread_id is a name of the Session when it is a UUID.
SessionKeys ==
    {"conversation.id", "session.id", "session_id", "conversation_id", "codex.session_id",
     "thread_id"}
TurnKeys == {"turn.id", "turn_id", "codex.turn_id"}
RootTurnKeys == {"root_turn.id", "root_turn_id", "codex.root_turn_id"}
Agree(a, keys) ==
    \A k, l \in {x \in keys \cap DOMAIN a : a[x] # Absent} : a[k] = a[l]
OneIdentity(a) == Agree(a, SessionKeys) /\ Agree(a, TurnKeys) /\ Agree(a, RootTurnKeys)

\* derive_otlp_logs passes over the records of a resource or a scope it cannot
\* read, over one it cannot read itself, and one with an ambiguous identity.
Read(b) ==
    {i \in InContext(b) : b.records[i].attributes # Unreadable /\ OneIdentity(Merged(b, i))}

\* attribute_string.
Attribute(a, key) == IF key \in DOMAIN a THEN a[key] ELSE Absent
EventOf(b, i) == Attribute(Merged(b, i), "event.name")
SessionOf(b, i) == Attribute(Merged(b, i), "conversation.id")

\* derive_conversation_start, derive_tool_result: what they must find, and
\* what normalize_capture asks of the tool execution they make of it.
ToolKeys == {"conversation.id", "call_id", "tool_name", "arguments", "output", "success"}
ToolCaptured(a) ==
    /\ ToolKeys \subseteq DOMAIN a /\ a["success"] \in BOOLEAN
    /\ a["call_id"] # Absent /\ a["tool_name"] # Absent
    /\ ResultSound([status |-> IF a["success"] THEN "success" ELSE "error",
                    result |-> a["output"] # Absent,
                    error |-> ~a["success"] /\ a["output"] # Absent])
Derivable(b, i) ==
    \/ EventOf(b, i) = "codex.conversation_starts" /\ SessionOf(b, i) # Absent
    \/ EventOf(b, i) = "codex.tool_result" /\ ToolCaptured(Merged(b, i)) /\ SessionOf(b, i) # Absent
Supplementary ==
    {"codex.user_prompt", "codex.api_request", "codex.sse_event", "codex.tool_decision",
     "codex.sandbox_outcome", "codex.startup_phase", "codex.turn_ttft", "codex.turn_cost",
     "codex.plugin_install_elicitation_sent", "codex.plugin_install_suggestion",
     "codex.websocket_connect", "codex.websocket_request", "codex.auth_recovery",
     "codex.agent_communication"}
Ignored(b, i) == EventOf(b, i) \in Supplementary

Own(b, i) == Capture(<<"own", b, i>>, b, EventOf(b, i), SessionOf(b, i))

\* derive_telemetry_incomplete: what cannot be derived is laid to its Session.
Incomplete(b, i) ==
    Capture(<<"telemetry_incomplete", b, i>>, b, "telemetry_incomplete", SessionOf(b, i))

Puzzling(b) == {i \in Read(b) : ~Ignored(b, i) /\ ~Derivable(b, i)}
LogCaptures(b) ==
    {Own(b, i) : i \in {j \in Read(b) : Derivable(b, j)}} \cup
    {Incomplete(b, i) : i \in {j \in Puzzling(b) : SessionOf(b, j) # Absent}}

\* One error for containers that are not in order; one for each resource, scope
\* and record that cannot be read, is unknown or cannot be derived.
LogErrors(b) ==
    (IF b.structured THEN 0 ELSE 1) + Cardinality(BadResources(b)) + Cardinality(BadScopes(b))
    + Cardinality(InContext(b) \ Read(b)) + Cardinality(Puzzling(b))

\* validate_otlp_traces: the first fault is the only error.
TraceInOrder(b) ==
    /\ b.structured /\ BadResources(b) = {} /\ BadScopes(b) = {} /\ Read(b) = DOMAIN b.records

\* known_hook_event, validate_hook_fields: the events, and the fields each
\* must come with.
HookEvents ==
    {"SessionStart", "SessionEnd", "Stop", "Interrupt", "SubagentStart", "SubagentStop",
     "PreCompact", "PostCompact", "UserPromptSubmit", "PermissionRequest", "PreToolUse",
     "PostToolUse"}
ToolEvents == {"PreToolUse", "PostToolUse"}
Needed(event) ==
    UNION {
        IF event \in {"SessionStart", "SessionEnd"} THEN {} ELSE {"turn_id"},
        IF event = "SessionStart" THEN {"model", "permission_mode", "source"} ELSE {},
        IF event = "SessionEnd" THEN {"reason"} ELSE {},
        IF event = "UserPromptSubmit" THEN {"prompt"} ELSE {},
        IF event \in {"PreCompact", "PostCompact"} THEN {"trigger"} ELSE {},
        IF event \in {"SubagentStart", "SubagentStop"} THEN {"agent_id", "agent_type"} ELSE {},
        IF event = "PermissionRequest" THEN {"tool_name", "tool_input"} ELSE {},
        IF event \in ToolEvents THEN {"tool_name", "tool_use_id", "tool_input"} ELSE {},
        IF event = "PostToolUse" THEN {"tool_response"} ELSE {}}

\* tool_input and tool_response may hold any value, null too.
HasFields(b) ==
    \A f \in Needed(b.event) :
        \/ f \in b.text
        \/ f \in {"tool_input", "tool_response"} \cap (b.odd \cup b.null)

CompactResume(b) == b.event = "SessionStart" /\ b.compact
LifecycleType(b) ==
    CASE b.event = "SessionStart" ->
            IF CompactResume(b) THEN "compaction_resume" ELSE "session_start"
      [] b.event = "SessionEnd" -> "session_end"
      [] b.event = "Stop" -> "turn_end"
      [] b.event = "Interrupt" -> "turn_interrupt"
      [] b.event = "SubagentStart" -> "subagent_spawn"
      [] b.event = "SubagentStop" -> "subagent_join"
      [] b.event = "PreCompact" -> "compaction_start"
      [] b.event = "PostCompact" -> "compaction_end"
      [] b.event = "UserPromptSubmit" -> "user_prompt_submit"
      [] b.event = "PermissionRequest" -> "permission_request"
LifecycleStatus(b) ==
    CASE b.event \in {"SessionStart", "SubagentStart", "PreCompact"} ->
            IF CompactResume(b) THEN "completed" ELSE "started"
      [] b.event \in {"SessionEnd", "Stop", "SubagentStop"} -> "closed"
      [] b.event = "Interrupt" -> "cancelled"
      [] b.event \in {"PostCompact", "UserPromptSubmit"} -> "completed"
      [] OTHER -> "unknown"

\* derive_hook_tool_event and the rest of derive_codex_hook, as far as
\* normalize_capture could object: the result of a tool, the reason of an event
\* and the event id the client gives.
Responded(b) == "tool_response" \in b.text \cup b.odd
HookSound(b) ==
    /\ b.eventId # Unreadable
    /\ IF b.event \in ToolEvents
       THEN LET status == IF b.event = "PostToolUse" THEN b.status ELSE "started" IN
            ResultSound([status |-> status, result |-> Responded(b),
                         error |-> status \in {"error", "cancelled", "timeout"} /\ Responded(b)])
       ELSE LifecycleSound([text |-> {"type"}, odd |-> b.odd \cap {"reason"},
                            type |-> LifecycleType(b), status |-> LifecycleStatus(b)])

\* derive_codex_hook: the capture of a hook is named by the event id it brings,
\* or by its bytes.
HookId(b) == IF b.eventId # Absent THEN <<"event", b.eventId, 0>> ELSE <<"hook", b, 0>>
Understood(b) ==
    b.session # Absent /\ b.event \in HookEvents /\ HasFields(b) /\ HookSound(b)
HookType(b) == IF b.event \in ToolEvents THEN "tool_execution" ELSE LifecycleType(b)
HookCaptures(b) ==
    IF Understood(b) THEN {Capture(HookId(b), b, HookType(b), b.session)} ELSE {}

Derived(b) ==
    IF b.endpoint = "otlp_logs" THEN LogCaptures(b)
    ELSE IF b.endpoint = "codex_hook" THEN HookCaptures(b) ELSE {}

InOrder(b) == IF b.endpoint = "codex_hook" THEN Understood(b) ELSE TraceInOrder(b)
Errors(b) ==
    IF b.endpoint = "otlp_logs" THEN LogErrors(b) ELSE IF InOrder(b) THEN 0 ELSE 1

Attributed(b) == Cardinality({c \in Derived(b) : c.type = "telemetry_incomplete"})

Records(b) == {RawBatch(b)} \cup Derived(b)

-----------------------------------------------------------------------------
(***************************************************************************)
(* relay_cloud_ingest.                                                     *)
(***************************************************************************)
Idle == [step |-> "idle"]

CloudInit ==
    /\ bodies \in Corpora
    /\ captures = {} /\ counted = [b \in bodies |-> 0] /\ answers = {} /\ outages = 0
    /\ sender = [q \in Senders |-> Idle]

Outage == outages < MaxOutages /\ outages' = outages + 1
Tell(q, answer) ==
    /\ answers' = answers \cup {<<sender[q].body, answer>>}
    /\ sender' = [sender EXCEPT ![q] = Idle]

\* The store has the id with another payload.
Taken(c) == \E d \in captures : d.id = c.id /\ d # c

\* The store takes, finds, refuses or is in conflict with each record.
StoreBatch(q, b, refused) ==
    /\ sender[q].step = "idle" /\ b \in bodies /\ refused \subseteq Records(b)
    /\ captures' = captures \cup {c \in Records(b) \ refused : ~Taken(c)}
    /\ sender' = [sender EXCEPT ![q] =
                    [step |-> "stored", body |-> b, refused |-> refused # {},
                     conflict |-> \E c \in Records(b) \ refused : Taken(c)]]
    /\ IF refused = {} THEN outages' = outages ELSE Outage
    /\ UNCHANGED <<bodies, counted, answers>>

\* The answer for a batch that is not stored as it is.
AnswerFailed(q) ==
    /\ sender[q].step = "stored" /\ (sender[q].conflict \/ sender[q].refused)
    /\ Tell(q, IF sender[q].conflict THEN "409" ELSE "503")
    /\ UNCHANGED <<bodies, captures, counted, outages>>

\* The delivery ledger or, when there are errors, the quality ledger fails.
LedgerFails(q) ==
    /\ sender[q].step = "stored" /\ Outage
    /\ Tell(q, "503")
    /\ UNCHANGED <<bodies, captures, counted>>

\* record_ingest_quality_with_reasons, of every request that got here.
CountErrors(q) ==
    /\ sender[q].step = "stored" /\ ~sender[q].conflict /\ ~sender[q].refused
    /\ counted' = [counted EXCEPT ![sender[q].body] =
                     IF Errors(sender[q].body) > 0 /\ @ < MaxCounted THEN @ + 1 ELSE @]
    /\ sender' = [sender EXCEPT ![q].step = "counted"]
    /\ UNCHANGED <<bodies, captures, answers, outages>>

\* Mutant: one error that is laid to a Session excuses the others.
QualityRefused_AnyAttributed(b) ==
    Errors(b) > 0 /\ (b.endpoint = "codex_hook" \/ Attributed(b) = 0)

\* "A durable acknowledgement means the evidence is safe, but it does not make
\* an invalid or unknown producer event acceptable."
QualityRefused(b) == Errors(b) > 0 /\ (b.endpoint = "codex_hook" \/ Errors(b) > Attributed(b))

AnswerBatch(q) ==
    /\ sender[q].step = "counted"
    /\ Tell(q, IF QualityRefused(sender[q].body) THEN "400" ELSE "200")
    /\ UNCHANGED <<bodies, captures, counted, outages>>

CrashRelay ==
    /\ Outage /\ sender' = [q \in Senders |-> Idle]
    /\ UNCHANGED <<bodies, captures, counted, answers>>

CloudNext ==
    \/ \E q \in Senders :
          \/ \E b \in bodies : \E refused \in SUBSET Records(b) : StoreBatch(q, b, refused)
          \/ AnswerFailed(q) \/ LedgerFails(q) \/ CountErrors(q) \/ AnswerBatch(q)
    \/ CrashRelay

CloudSpec == CloudInit /\ [][CloudNext]_cloudVars

-----------------------------------------------------------------------------
\* What a client was told to be durable is: the body and all that was derived
\* from it, whichever attempts failed before.
DurableIsStored ==
    \A b \in bodies : answers \cap {<<b, "200">>, <<b, "400">>} # {} => Records(b) \subseteq captures

\* A log record can be found again: as itself, as a mark on its Session that
\* something is missing, or it is one that is not looked at.
Traceable(b, i) ==
    /\ b.records[i].attributes # Unreadable
    /\ \/ Ignored(b, i)
       \/ \E c \in captures :
             /\ c.body = b /\ c.session = SessionOf(b, i) /\ c.session # Absent
             /\ c.id \in {<<"own", b, i>>, <<"telemetry_incomplete", b, i>>}

\* A 200 hides nothing: each record of the batch can be traced, a hook was
\* understood and is kept, and a trace is in order.
AcceptedIsTraceable ==
    \A b \in bodies : <<b, "200">> \in answers =>
        IF b.endpoint = "otlp_logs"
        THEN /\ b.structured /\ InContext(b) = DOMAIN b.records
             /\ \A i \in DOMAIN b.records : Traceable(b, i)
        ELSE InOrder(b) /\ Derived(b) \subseteq captures

\* The errors of an answered batch are in the quality ledger.
AnsweredIsCounted ==
    \A b \in bodies :
        answers \cap {<<b, "200">>, <<b, "400">>} # {} /\ Errors(b) > 0 => counted[b] > 0

\* Sending a body again is never a conflict with itself: a 409 means that
\* another hook came first with the same event id.
ConflictIsForeign ==
    \A b \in bodies : <<b, "409">> \in answers =>
        \E c \in captures : c.body # b /\ \E d \in Derived(b) : c.id = d.id

\* What the cloud routes answer is so, however often a body is sent, by
\* several requests at once, across refusals, failing ledgers and crashes.
CloudAnswersHold == DurableIsStored /\ AcceptedIsTraceable /\ AnsweredIsCounted /\ ConflictIsForeign
=============================================================================
