---------------------------- MODULE CaptureEnvelope ----------------------------
(***************************************************************************)
(* normalize_capture (capture.rs): what the Relay and the Collector each   *)
(* make of the envelope of a capture before they store it.  It collects    *)
(* what several sources say of the Session and the turn, keeps each of     *)
(* them as evidence, notes where they differ, and refuses an envelope that *)
(* contradicts itself.                                                     *)
(*                                                                         *)
(* An envelope is a record:                                                *)
(*   type, version, namespace, native, status, stage, times, delivery      *)
(*   says       what each place says of each field of the trace context;   *)
(*              "traceContext" is the field itself, "alias" its other name *)
(*   evidence, conflicts   fieldEvidence, fieldEvidenceConflicts, as sets  *)
(*   ids        the two request ids, with the header of each direction     *)
(*   request, response     [text, body, bytes, sha]; null is empty text    *)
(*   secret, redacted      sensitive headers, there and taken out          *)
(*   parts      what is kept as it is (CaptureParts)                       *)
(*   odd        other checked fields that hold a value of a wrong type     *)
(* A content stands for its bytes: two that differ differ in length and in *)
(* digest.  Envelopes are within the size limits.                          *)
(***************************************************************************)
EXTENDS CaptureParts

CONSTANTS
    Words, Flags,        \* text that is not blank, and booleans
    Null, Blank, Odd,    \* null, blank text, and what is neither text nor boolean
    Members,             \* [Words -> the words between its commas]
    Json, Objects        \* contents that are JSON, and JSON objects

Present(v) == v \in Words \cup Flags

IdFields == {"requestId", "upstreamRequestId"}
Own == {"traceContext", "alias"}
InBody == {"client_metadata", "turn_metadata", "requestBody"}
Places == Own \cup InBody \cup {"header", "capture", "w3c"}
Fields(e) == DOMAIN e.says

\* What is there of an envelope; a place that says nothing is Absent.
IsRecord(r, names) == r = [n \in names |-> r[n]]
IsEnvelope(e) ==
    /\ IsRecord(e, {"type", "version", "namespace", "native", "status", "stage", "odd", "parts",
                    "times", "delivery", "says", "evidence", "conflicts", "ids", "request",
                    "response", "secret", "redacted"})
    /\ Fields(e) \cap (IdFields \cup {Odd}) = {}
    /\ e.says = [f \in Fields(e) |-> [p \in Places |-> e.says[f][p]]]
    /\ e.ids = [i \in IdFields |-> [p \in {"capture", "request", "response"} |-> e.ids[i][p]]]
    /\ IsRecord(e.times, {"receivedAt", "finishedAt", "startedAt"})
    /\ IsRecord(e.request, {"text", "body", "bytes", "sha"})
    /\ IsRecord(e.response, {"text", "body", "bytes", "sha"})

ASSUME EnvelopeAssumption ==
    /\ Objects \subseteq Json /\ Words \cap Flags = {}
    /\ {Null, Blank, Odd, Absent} \cap (Words \cup Flags) = {}
    /\ Null # Absent /\ Blank # Absent /\ Odd # Absent /\ {Absent, Null, Odd} \cap Json = {}
    /\ Odd \notin Places /\ Odd \notin BOOLEAN

-----------------------------------------------------------------------------
(***************************************************************************)
(* normalize_body_fields: a body that comes as text is parsed, and kept as *)
(* it came if it is JSON.                                                  *)
(***************************************************************************)
Texted(x) ==
    IF x.text = Absent THEN x
    ELSE [text |-> Absent, sha |-> x.text, bytes |-> IF x.bytes = Absent THEN x.text ELSE x.bytes,
          body |-> IF x.text \in Json THEN [kind |-> "json", value |-> x.text, raw |-> x.text]
                   ELSE [kind |-> "text", value |-> x.text, raw |-> Absent]]

HasRaw(x) == x.body # Absent /\ x.body.raw # Absent

\* validate_embedded_raw_body: a declared length or digest is that of raw.
BodyNormal(x) ==
    LET t == Texted(x) IN
    IF HasRaw(t)
    THEN [t EXCEPT !.bytes = IF @ = Absent THEN t.body.raw ELSE @,
                   !.sha = IF @ = Absent THEN t.body.raw ELSE @]
    ELSE t
BodySound(x) ==
    LET t == Texted(x) IN
    /\ x.text # Odd
    /\ HasRaw(t) =>
          /\ t.body.kind = "json" => t.body.raw \in Json /\ t.body.value = t.body.raw
          /\ {t.bytes, t.sha} \subseteq {Absent, Null, t.body.raw}

\* extract_body, of the request: fields are looked for in a JSON object only.
HasFieldsInBody(e) == e.request.body # Absent /\ e.request.body.value \in Objects

-----------------------------------------------------------------------------
(***************************************************************************)
(* promote_protocol_fields.                                                *)
(***************************************************************************)
Before ==
    [traceContext |-> 1, alias |-> 2, header |-> 3, capture |-> 4, client_metadata |-> 5,
     turn_metadata |-> 6, requestBody |-> 7, w3c |-> 8]

\* chiptrace_header, append_w3c_trace_context.
HeaderFields ==
    {"task_session_id", "session_id", "thread_id", "root_session_id", "parent_session_id",
     "goal_id", "root_turn_id", "turn_id", "agent_id", "branch_id", "previous_response_id"}
W3cFields == {"traceparent", "trace_id", "parent_span_id", "trace_flags", "tracestate"}

Said(e, f, p) == e.says[f][p]
Trace(e, f) == IF f \in Fields(e) THEN Said(e, f, "traceContext") ELSE Absent
EvidenceFields(e) == {x.field : x \in e.evidence}

\* Mutant: the capture's own fields are evidence again, every time.
Heard_Again(e, f) ==
    {p \in Places :
        /\ IF p \in {"header", "w3c"} THEN Said(e, f, p) \in Words \cup {Blank}
           ELSE Present(Said(e, f, p))
        /\ p = "header" => f \in HeaderFields
        /\ p = "w3c" => f \in W3cFields
        /\ p \in InBody => HasFieldsInBody(e)}

\* The candidates for a field; of the capture's own ones no more is made when
\* there is evidence for the field.  A header may be blank.
Heard(e, f) ==
    {p \in Places :
        /\ IF p \in {"header", "w3c"} THEN Said(e, f, p) \in Words \cup {Blank}
           ELSE Present(Said(e, f, p))
        /\ p = "header" => f \in HeaderFields
        /\ p = "w3c" => f \in W3cFields
        /\ p \in Own => f \notin EvidenceFields(e)
        /\ p \in InBody => HasFieldsInBody(e)}

FirstOf(places) == CHOOSE p \in places : \A q \in places : Before[p] <= Before[q]
Selected(e, f) ==
    IF Present(Trace(e, f)) THEN Trace(e, f)
    ELSE IF Heard(e, f) = {} THEN Absent ELSE Said(e, f, FirstOf(Heard(e, f)))

\* A null or blank field of the trace context stays.
Promoted(e) ==
    [f \in Fields(e) |-> [e.says[f] EXCEPT !["traceContext"] =
                             IF @ = Absent THEN Selected(e, f) ELSE @]]

Evidence(field, place, value, selected) ==
    [field |-> field, place |-> place, value |-> value, selected |-> selected]
Testimony(e, f, p) == Evidence(f, p, Said(e, f, p), Said(e, f, p) = Selected(e, f))
TraceEvidence(e) == UNION {{Testimony(e, f, p) : p \in Heard(e, f)} : f \in Fields(e)}

\* What disagrees is put together, and nothing is dropped.
Statements(e, f, places) == {[place |-> p, value |-> Said(e, f, p)] : p \in places}
Differ(e, f, places) == \E p, q \in places : Said(e, f, p) # Said(e, f, q)
TraceConflicts(e) ==
    {[field |-> f, evidence |-> Statements(e, f, Heard(e, f))] :
        f \in {g \in Fields(e) : Differ(e, g, Heard(e, g))}}

\* promote_request_id: the capture's own id, or what the response says, or the
\* request.
Observed(x) == IF x.response # Absent THEN x.response ELSE x.request
SelectedId(x) == IF x.capture \in Words THEN x.capture ELSE Observed(x)
IdPromoted(x) ==
    [x EXCEPT !.capture = IF @ \notin Words /\ Observed(x) # Absent THEN Observed(x) ELSE @]
IdPlaces(e, i) ==
    {p \in {"capture", "request", "response"} :
        IF p = "capture" THEN e.ids[i].capture \in Words /\ i \notin EvidenceFields(e)
        ELSE e.ids[i][p] # Absent}
IdTestimony(e, i, p) == Evidence(i, p, e.ids[i][p], e.ids[i][p] = SelectedId(e.ids[i]))
IdEvidence(e) == UNION {{IdTestimony(e, i, p) : p \in IdPlaces(e, i)} : i \in IdFields}

StageOf(e) ==
    IF e.stage # Absent THEN e.stage
    ELSE IF e.request.body # Absent
         THEN IF e.response.body # Absent THEN "combined" ELSE "ingress"
         ELSE IF e.response.body # Absent THEN "egress" ELSE "event"

\* receivedAt stands for finishedAt and startedAt when it is not there.
Timed(t) ==
    IF t.receivedAt \notin {Absent, Null} THEN t
    ELSE [t EXCEPT !.receivedAt = IF t.finishedAt \in Words THEN t.finishedAt
                                  ELSE IF t.startedAt \in Words THEN t.startedAt ELSE Null]

Parsed(e) == [e EXCEPT !.request = BodyNormal(@), !.response = BodyNormal(@)]
Filled(e) ==
    [e EXCEPT
        !.type = IF @ = Absent THEN "api_snapshot" ELSE @, !.version = "v2",
        !.says = Promoted(e), !.ids = [i \in IdFields |-> IdPromoted(e.ids[i])],
        !.evidence = @ \cup TraceEvidence(e) \cup IdEvidence(e),
        !.conflicts = @ \cup TraceConflicts(e),
        !.stage = StageOf(e), !.times = Timed(@),
        !.redacted = @ \cup e.secret, !.secret = {}]

\* normalize_capture_with_policy.
Normal(e) == Filled(Parsed(e))

-----------------------------------------------------------------------------
(***************************************************************************)
(* What is refused.                                                        *)
(***************************************************************************)
StatusSound(s) == s \in {Absent} \cup (100 .. 599)

\* validate_response_delivery_evidence.
DeliverySound(d) ==
    /\ {d.forwarded, d.atClose} \subseteq Nat \cup {Absent} /\ d.flags \subseteq BOOLEAN
    /\ Absent \notin {d.forwarded, d.atClose} => d.atClose <= d.forwarded

PartSound(name, x) ==
    CASE name = "lifecycleEvent" -> LifecycleSound(x)
      [] name = "toolExecution" -> ToolSound(x)
      [] name = "evaluationEvidence" -> EvaluationSound(x)
      [] name = "rolloutEvent" -> RolloutSound(x)
      [] name = "telemetryBatch" -> TelemetrySound(x)
      [] name = "gatewayEvidence" -> UsageSound(x)
      [] OTHER -> TRUE
Has(e, name) == name \in DOMAIN e.parts

\* validate_record_type.
PartOf ==
    [lifecycle_event |-> "lifecycleEvent", tool_execution |-> "toolExecution",
     evaluation |-> "evaluationEvidence", rollout_event |-> "rolloutEvent",
     telemetry_batch |-> "telemetryBatch"]
TypeSound(e) ==
    /\ e.type \in {"api_snapshot"} \cup DOMAIN PartOf
    /\ e.type \in {"lifecycle_event", "tool_execution", "evaluation"} =>
          /\ e.namespace \in Words
          /\ \E f \in {"task_session_id", "session_id", "thread_id"} : Trace(e, f) \in Words
    /\ e.type \in DOMAIN PartOf => Has(e, PartOf[e.type])
    /\ e.type = "evaluation" => e.parts["evaluationEvidence"] # {}

\* validate_trace_context.
TraceSound(e) ==
    \A f \in Fields(e) :
        IF f = "session_final" THEN Trace(e, f) \in Flags \cup {Absent}
        ELSE Trace(e, f) \notin Flags \cup {Odd}

\* validate_field_evidence.
EvidenceSound(e) ==
    /\ \A x \in e.evidence : Odd \notin {x.field, x.place, x.selected}
    /\ \A x \in e.conflicts : x.field # Odd /\ Cardinality(x.evidence) >= 2

\* validate_gateway_evidence: the usage row of the gateway is joined by an id
\* that is in this capture.
Whole(e, i, p) == [whole |-> e.ids[i][p], members |->
                     IF e.ids[i][p] \in Words THEN Members[e.ids[i][p]] ELSE {}]
Captured(e) ==
    [field \in {"requestId", "upstreamRequestId", "requestHeaders.x-client-request-id",
                "responseHeaders.x-client-request-id", "responseHeaders.x-request-id"} |->
        CASE field = "requestId" -> Whole(e, "requestId", "capture")
          [] field = "upstreamRequestId" -> Whole(e, "upstreamRequestId", "capture")
          [] field = "requestHeaders.x-client-request-id" -> Whole(e, "requestId", "request")
          [] field = "responseHeaders.x-client-request-id" -> Whole(e, "requestId", "response")
          [] field = "responseHeaders.x-request-id" -> Whole(e, "upstreamRequestId", "response")]
GatewaySound(e) ==
    /\ \A i \in IdFields : e.ids[i].capture # Odd
    /\ e.stage \in {"ingress", "upstream_request", "upstream_response", "egress", "combined",
                    "event", Null}
    /\ Has(e, "gatewayEvidenceJoin") =>
          /\ Has(e, "gatewayEvidence")
          /\ JoinSound(e.parts["gatewayEvidenceJoin"], e.parts["gatewayEvidence"], Captured(e))

Historical(e) == Has(e, "producerEvent") \/ Has(e, "rolloutEvent") \/ e.type = "rollout_event"

\* Mutant: what is checked is what came, before other sources are asked.
Accepts_Early(e, strict) ==
    /\ e.odd = {} /\ (strict => ~Historical(e))
    /\ StatusSound(e.status) /\ DeliverySound(e.delivery)
    /\ BodySound(e.request) /\ BodySound(e.response)
    /\ \A name \in DOMAIN e.parts : PartSound(name, e.parts[name])
    /\ \E n \in {Normal(e)} : TypeSound(n) /\ TraceSound(e) /\ EvidenceSound(n) /\ GatewaySound(n)

\* An envelope is refused for what it says, or for what becomes of it; that it
\* is a historical record only where it is not one's own (strict).
Accepts(e, strict) ==
    /\ e.odd = {} /\ (strict => ~Historical(e))
    /\ StatusSound(e.status) /\ DeliverySound(e.delivery)
    /\ BodySound(e.request) /\ BodySound(e.response)
    /\ \A name \in DOMAIN e.parts : PartSound(name, e.parts[name])
    /\ \E n \in {Normal(e)} : TypeSound(n) /\ TraceSound(n) /\ EvidenceSound(n) /\ GatewaySound(n)

\* normalize_wire_capture: what the wire routes ask for besides.
WireContract(e) ==
    /\ e.version \in {"v2", Absent} /\ e.type = "api_snapshot" /\ e.namespace \in Words
    /\ DOMAIN e.parts \subseteq {"gatewayEvidence", "gatewayEvidenceJoin"}

\* Mutant: a Session and a turn are enough.
TurnScoped_Disputed(e) ==
    /\ e.type = "api_snapshot"
    /\ e.native \in Words \/ Trace(e, "session_id") \in Words
    /\ Trace(e, "turn_id") \in Words \/ Trace(e, "root_turn_id") \in Words

\* WireCaptureEvidence: the turn is known, and nothing that names it disagrees.
TurnScoped(e) ==
    /\ e.type = "api_snapshot"
    /\ e.native \in Words \/ Trace(e, "session_id") \in Words
    /\ Trace(e, "turn_id") \in Words \/ Trace(e, "root_turn_id") \in Words
    /\ {x.field : x \in e.conflicts} \subseteq IdFields
=============================================================================
