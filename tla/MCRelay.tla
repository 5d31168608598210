-------------------------------- MODULE MCRelay --------------------------------
(***************************************************************************)
(* Three views of the Relay in one run: how a capture is delivered while   *)
(* faults and slow requests race, what /ready makes of the ledger, and     *)
(* what the cloud routes keep of what they are sent.  They share no state; *)
(* a behaviour moves one of them.                                          *)
(***************************************************************************)
EXTENDS MCRelayDelivery, Readiness, CloudIngest

CONSTANTS s1, s2, e1
VARIABLE part

\* Workers are interchangeable, and so are callers and senders.
RelaySymmetry == Symmetry \cup Permutations(Callers) \cup Permutations(Senders)

\* What the attributes of a log record or a span say.
Tool == [k \in ToolKeys |->
            IF k = "conversation.id" THEN s1 ELSE IF k = "success" THEN TRUE ELSE "given"]
Without(a, keys) == [k \in DOMAIN a \ keys |-> a[k]]
Named(event) == ("event.name" :> event)
Of(session) == ("conversation.id" :> session)
RecordAttributes ==
    {Unreadable, Named("codex.api_request"), Named("codex.tool_result") @@ Tool,
     Named("codex.tool_result") @@ Without(Tool, {"success"}),
     Named("codex.tool_result") @@ Without(Tool, {"conversation.id"}),
     Named("codex.tool_result") @@ [Tool EXCEPT !["output"] = Absent],
     Named("codex.conversation_starts"), Named("codex.conversation_starts") @@ Of(s1),
     Named("codex.conversation_starts") @@ Of(s1) @@ ("session.id" :> s2),
     Named("codex.unheard_of") @@ Of(s1), Named("codex.unheard_of")}

Batch(endpoint, structured, resource, scope, records) ==
    [endpoint |-> endpoint, structured |-> structured,
     resources |-> <<[attributes |-> resource]>>,
     scopes |-> <<[resource |-> 1, attributes |-> scope]>>,
     records |-> [i \in DOMAIN records |-> [scope |-> 1, attributes |-> records[i]]]]
Nothing == [k \in {} |-> Absent]

\* Batches of two records, or of one below each resource and scope.
LogBodies ==
    {Batch("otlp_logs", TRUE, Nothing, Nothing, <<r, t>>) :
        r \in RecordAttributes, t \in RecordAttributes} \cup
    {Batch(e, x, y, z, <<r>>) :
        e \in {"otlp_logs", "otlp_traces"}, x \in BOOLEAN, y \in {Nothing, Of(s1), Unreadable},
        z \in {Nothing, "session.id" :> s2, Unreadable}, r \in RecordAttributes}

Hook(event, session, missing, outcome, eventId, body) ==
    [endpoint |-> "codex_hook", event |-> event, session |-> session,
     text |-> Needed(event) \ {missing}, odd |-> {"reason"} \cap {missing},
     null |-> {"tool_response"} \cap {missing}, compact |-> event = "SessionStart",
     status |-> outcome, eventId |-> eventId, body |-> body]

\* Hooks of every event, whole or without one field; two hooks at a time that
\* may bring the same event id.
OneHook ==
    {Hook(e, x, f, "success", Absent, 0) :
        e \in HookEvents, x \in {s1, Absent},
        f \in {"none", "turn_id", "reason", "tool_response", "prompt", "model", "agent_id", "trigger"}}
PairedHooks ==
    {Hook(e, s1, "none", "unknown", id, body) :
        e \in {"Stop", "PreToolUse", "Unheard"}, id \in {e1, Absent, Unreadable}, body \in 0 .. 1}

SomeCorpora ==
    {{}} \cup {{b} : b \in LogBodies \cup OneHook} \cup
    {{h, g} : h \in PairedHooks, g \in PairedHooks}

\* The parts that do not move start with nothing.
RelayInit ==
    /\ part \in {"delivery", "ready", "cloud"} /\ CloudInit /\ ReadyInit /\ Init
    /\ part # "delivery" => row = [i \in Ids |-> NoRow]
    /\ (part = "cloud") <=> (bodies # {})

RelayNext ==
    /\ part' = part
    /\ \/ part = "delivery" /\ Next /\ UNCHANGED <<readyVars, cloudVars>>
       \/ part = "ready" /\ ReadyNext /\ UNCHANGED <<vars, cloudVars>>
       \/ part = "cloud" /\ CloudNext /\ UNCHANGED <<vars, readyVars>>

RelaySpec == RelayInit /\ [][RelayNext]_<<part, vars, readyVars, cloudVars>>
=============================================================================
