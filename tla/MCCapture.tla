------------------------------- MODULE MCCapture -------------------------------
(***************************************************************************)
(* Envelopes that differ from a plain one in what their sources say of the *)
(* Session, in their bodies, their request ids, the parts they carry, or   *)
(* in one field that is not as it should be.                               *)
(***************************************************************************)
EXTENDS CaptureFlow, TLC

CONSTANTS alpha, beta, yes, obj, num, plain

SomeMembers == (alpha :> {alpha}) @@ (beta :> {alpha, beta})

NoBody == [text |-> Absent, body |-> Absent, bytes |-> Absent, sha |-> Absent]
ObjectBody == [NoBody EXCEPT !.text = obj]
NoId == [capture |-> Absent, request |-> Absent, response |-> Absent]
Nothing == [k \in {} |-> Absent]
Saying(w) == [p \in Places |-> IF p \in DOMAIN w THEN w[p] ELSE Absent]

Plain ==
    [type |-> "api_snapshot", version |-> "v2", namespace |-> alpha, native |-> Absent,
     status |-> 200, stage |-> Absent, odd |-> {}, parts |-> Nothing,
     times |-> [receivedAt |-> Absent, finishedAt |-> alpha, startedAt |-> beta],
     delivery |-> [forwarded |-> Absent, atClose |-> Absent, flags |-> {}],
     says |-> ("session_id" :> Saying("header" :> alpha)) @@ ("turn_id" :> Saying("header" :> alpha)),
     evidence |-> {}, conflicts |-> {}, ids |-> [i \in IdFields |-> NoId],
     request |-> ObjectBody, response |-> NoBody, secret |-> {"authorization"}, redacted |-> {}]

\* What the sources say of the Session, in full.
Sessions ==
    {[Plain EXCEPT !.says["session_id"] =
        [p \in Places |-> CASE p = "traceContext" -> own [] p = "alias" -> alias
                            [] p = "header" -> header [] p = "client_metadata" -> meta
                            [] OTHER -> Absent],
        !.evidence = proof] :
        own \in {Absent, Null, alpha, beta}, alias \in {Absent, alpha, beta}, header \in {Absent, alpha, Blank},
        meta \in {Absent, alpha, beta},
        proof \in {{}, {Evidence("session_id", "capture", beta, TRUE)}}}

\* One field of the trace context that comes from one place, whatever it is.
Placements ==
    {[Plain EXCEPT !.says = (f :> Saying(p :> v)) @@ @] :
        f \in {"turn_id", "traceparent", "session_final", "task_id"}, p \in Places,
        v \in {alpha, yes, Null, Blank, Odd}}

Bodies ==
    {[Plain EXCEPT !.request = [text |-> text, body |-> body, bytes |-> bytes, sha |-> sha]] :
        text \in {Absent, obj, plain, Odd}, bytes \in {Absent, Null, num}, sha \in {Absent, obj},
        body \in {Absent} \cup
            {[kind |-> kind, value |-> value, raw |-> raw] :
                kind \in {"json", "text"}, value \in {obj, num}, raw \in {Absent, obj}}}

UsageRow ==
    [text |-> {"source", "request_id", "requested_model", "provider"}, odd |-> {},
     source |-> "sub2api_usage_log", requestId |-> alpha, compound |-> {}, input |-> 1, cached |-> 1,
     api |-> 2, output |-> Absent, creation |-> Absent, semantics |-> Absent, fingerprint |-> alpha]
Join(field, transform, captured) ==
    [text |-> {"request_id", "capture_request_id", "capture_field", "transform",
               "usage_fact_sha256"},
     current |-> TRUE, mode |-> "exact_request_id", requestId |-> alpha, captured |-> captured,
     field |-> field, transform |-> transform, sha |-> alpha]
Joins ==
    {Nothing} \cup
    {"gatewayEvidence" :> UsageRow @@ "gatewayEvidenceJoin" :> Join(field, transform, captured) :
        field \in {"requestId", "responseHeaders.x-request-id"},
        transform \in {"exact", "comma_separated_member"}, captured \in {alpha, beta}}
RequestIds ==
    {[Plain EXCEPT !.ids[i] = [capture |-> own, request |-> up, response |-> down], !.parts = parts] :
        i \in IdFields, own \in {Absent, alpha, Blank, Odd}, up \in {Absent, beta}, down \in {Absent, alpha},
        parts \in Joins}

Tool(state, result, schema) ==
    [text |-> {"call_id", "name", "status", "initiator"}, odd |-> {}, status |-> state,
     name |-> alpha, runtimeName |-> Absent, scope |-> "tool_dispatch", outcome |-> Absent,
     arguments |-> TRUE, initiator |-> "assistant", schema |-> schema, result |-> result,
     error |-> FALSE, saysIncomplete |-> TRUE]
Schema(name) ==
    [name |-> name, text |-> {"description"}, format |-> Absent,
     parameters |-> [object |-> TRUE, vague |-> {}, required |-> {}, properties |-> {}]]
Lifecycle(type, state) == [text |-> {"type"}, odd |-> {}, type |-> type, status |-> state]
Item(passed) ==
    [text |-> {"source"}, odd |-> {}, kind |-> "test", passed |-> passed, reward |-> Absent,
     score |-> Absent, status |-> FALSE]
Telemetry(errors) ==
    [endpoint |-> "otlp_logs", current |-> TRUE, json |-> TRUE, bytes |-> 1, length |-> 1,
     sha |-> alpha, digest |-> alpha, sources |-> 1, derived |-> 0, unknown |-> 0, errors |-> errors,
     attributed |-> Absent, reasons |-> ("invalid_tool" :> 1)]
Rollout ==
    [text |-> {"schema_version", "source", "source_session_id", "source_line",
               "source_line_sha256", "classification"},
     current |-> TRUE, source |-> "codex_rollout_jsonl", classification |-> "known", ordinal |-> 0,
     lineSha |-> alpha, digest |-> alpha, messages |-> {"user"}, usage |-> TRUE]
SomeParts ==
    {Nothing, "producerEvent" :> alpha, "rolloutEvent" :> Rollout, "evaluationEvidence" :> {},
     "gatewayEvidence" :> [UsageRow EXCEPT !.api = 3]} \cup
    {"toolExecution" :> Tool(state, result, schema) :
        state \in {"started", "success", "error"}, result \in BOOLEAN,
        schema \in {Absent, Schema(alpha), Schema(beta)}} \cup
    {"lifecycleEvent" :> Lifecycle(type, state) :
        type \in {"session_start", "session_end"}, state \in {"started", "closed"}} \cup
    {"evaluationEvidence" :> {Item(passed)} : passed \in {TRUE, Absent}} \cup
    {"telemetryBatch" :> Telemetry(errors) : errors \in 0 .. 1}

Event(type, parts, space, place) ==
    [Plain EXCEPT !.type = type, !.parts = parts, !.namespace = space, !.version = Absent,
                  !.says["session_id"] = Saying(place :> alpha)]
Events ==
    {Event(type, parts, alpha, "header") :
        type \in DOMAIN PartOf \cup {"api_snapshot", "unheard_of", Absent}, parts \in SomeParts} \cup
    {Event("lifecycle_event", "lifecycleEvent" :> Lifecycle("session_start", "started"), space, p) :
        space \in {alpha, Blank}, p \in {"traceContext", "requestBody", "w3c"}}

Fieldwise ==
    {[Plain EXCEPT !.status = code, !.stage = stage, !.odd = odd] :
        code \in {Absent, 99, 200, Odd}, stage \in {Absent, Null, "egress", "unheard_of"},
        odd \in {{}, {"requestHeaders"}}} \cup
    {[Plain EXCEPT !.delivery = [forwarded |-> n, atClose |-> m, flags |-> {}]] :
        n \in {Absent, 1}, m \in {Absent, 1, 2}} \cup
    {[Plain EXCEPT !.times = [receivedAt |-> r, finishedAt |-> f, startedAt |-> beta]] :
        r \in {Absent, Null, Blank, alpha}, f \in {Absent, alpha}} \cup
    {[Plain EXCEPT !.conflicts = {[field |-> "turn_id", evidence |-> proof]}] :
        proof \in {{}, {1, 2}}}

\* Alone, sent again as the Relay made it, or with another.
Alone == Placements \cup Bodies \cup RequestIds \cup Events \cup Fieldwise
SomeCorpora ==
    {{e} : e \in Alone} \cup {{e, Normal(e)} : e \in Sessions} \cup
    {{Plain, e} : e \in {f \in Sessions : f.evidence = {} /\ Said(f, "session_id", "alias") = Absent}}

\* One envelope, with a header that is not blank.
DisputedCorpora == {{e} : e \in {f \in Sessions : Said(f, "session_id", "header") = alpha}}
=============================================================================
