------------------------------ MODULE CaptureParts ------------------------------
(***************************************************************************)
(* What normalize_capture_with_policy asks of the parts of an envelope     *)
(* that it keeps as they are (capture.rs): tool executions, lifecycle      *)
(* events, evaluations, telemetry batches, rollout events and the usage    *)
(* evidence of the gateway.                                                *)
(*                                                                         *)
(* A JSON object is a record of the values that are told apart and, for    *)
(* the rest, two sets of field names: text, the fields that hold text      *)
(* which is not blank, and odd, those that hold neither text nor null.     *)
(***************************************************************************)
EXTENDS Integers, FiniteSets, FiniteSetsExt

CONSTANT Absent    \* a part, a field or a value that is not there

ASSUME PartsAssumption == Absent \notin Int

Texts(x, fields) == fields \subseteq x.text
OptionalTexts(x, fields) == fields \cap x.odd = {}

-----------------------------------------------------------------------------
\* validate_process_outcome.
OutcomeSound(o) ==
    o # Absent =>
        /\ o.kind = "process" /\ "provenance" \in o.text
        /\ \/ o.state = "exited" /\ o.code \in Int /\ o.success = (o.code = 0) /\ ~o.session
           \/ o.state = "running" /\ o.session /\ o.success = Absent /\ o.code = Absent

\* validate_tool_parameters, validate_tool_format.
ParametersSound(p) == p.object /\ p.vague = {} /\ p.required \subseteq p.properties
FormatSound(f) == Texts(f, {"type", "syntax", "definition"})

\* A tool call comes with the schema the model was shown, of the tool it
\* names, or says that it has none.
SchemaSound(x) ==
    IF x.schema = Absent THEN x.saysIncomplete
    ELSE /\ x.runtimeName \in {Absent, x.name} /\ x.schema.name = x.name
         /\ "description" \in x.schema.text
         /\ \/ x.schema.parameters # Absent /\ ParametersSound(x.schema.parameters)
            \/ x.schema.parameters = Absent /\ x.schema.format # Absent
               /\ FormatSound(x.schema.format)

\* validate_tool_execution_result.
ResultSound(x) ==
    /\ x.status = "success" => x.result
    /\ x.status \in {"error", "cancelled", "timeout"} => x.result \/ x.error

ToolSound(x) ==
    /\ Texts(x, {"call_id", "name", "status", "initiator"})
    /\ x.status \in {"started", "success", "error", "cancelled", "timeout", "unknown"}
    /\ x.scope \in {Absent, "tool_dispatch"}
    /\ OptionalTexts(x, {"status_provenance", "parent_call_id", "started_at", "finished_at",
                         "runtime_tool", "runtime_namespace"})
    /\ OutcomeSound(x.outcome) /\ x.arguments
    /\ x.initiator \in {"assistant", "runtime", "user"}
    /\ SchemaSound(x) /\ ResultSound(x)

-----------------------------------------------------------------------------
TerminalTypes ==
    {"session_end", "session_ended", "session_cancelled", "session_failed", "task_end",
     "task_ended", "task_completed", "task_cancelled", "task_failed", "cancel", "cancelled",
     "canceled", "terminated", "abort", "aborted", "abandoned"}
TerminalStatuses ==
    {"success", "succeeded", "completed", "failed", "error", "cancelled", "canceled",
     "terminated", "aborted", "abandoned", "incomplete", "closed", "unknown"}

\* validate_lifecycle_event: what ends a Session or a task says how.
LifecycleSound(x) ==
    /\ "type" \in x.text /\ OptionalTexts(x, {"event_id", "status", "reason", "occurred_at"})
    /\ x.type \in TerminalTypes => x.status \in TerminalStatuses

\* validate_evaluation_evidence; scores in percent, and status whether it is there.
ScoreSound(score) == score \in {Absent} \cup (0 .. 100)
ItemSound(x) ==
    /\ x.kind \in {"test", "build", "search", "user_correction", "final_acceptance", "evaluator"}
    /\ "source" \in x.text /\ OptionalTexts(x, {"status", "observed_at"})
    /\ x.passed \in {Absent} \cup BOOLEAN /\ ScoreSound(x.reward) /\ ScoreSound(x.score)
    /\ x.status \/ x.passed # Absent \/ x.reward # Absent \/ x.score # Absent
EvaluationSound(items) == \A x \in items : ItemSound(x)

\* validate_telemetry_batch: the counts of a batch are those of its errors.
ReasonsSound(x) ==
    x.reasons # Absent =>
        /\ DOMAIN x.reasons \subseteq
              {"unsupported_event", "invalid_structure", "invalid_attributes",
               "identity_conflict", "missing_identity", "invalid_tool", "invalid_lifecycle",
               "invalid_timestamp", "conversion_error", "legacy_unclassified"}
        /\ MapThenSumSet(LAMBDA reason : x.reasons[reason], DOMAIN x.reasons) =
              x.unknown + x.errors
TelemetrySound(x) ==
    /\ x.endpoint \in {"otlp_logs", "otlp_traces", "codex_hook"}
    /\ x.current /\ x.json /\ x.bytes = x.length /\ x.sha = x.digest
    /\ {x.sources, x.derived, x.unknown} \subseteq Nat /\ x.attributed \in Nat \cup {Absent}
    /\ x.errors \in Nat /\ ReasonsSound(x)

\* validate_native_bundle_evidence, validate_rollout_event: historical records.
PayloadSound(p) ==
    /\ Texts(p, {"raw_payload_id", "path", "mirror_path", "sha256"})
    /\ p.json /\ p.sha = p.digest /\ p.bytes = p.length
BundleSound(x) ==
    /\ x.rawSha = x.digest /\ x.manifest.json /\ x.manifest.sha = x.manifest.digest
    /\ \A p \in x.payloads : PayloadSound(p)
RolloutSound(x) ==
    /\ Texts(x, {"schema_version", "source", "source_session_id", "source_line",
                 "source_line_sha256", "classification"})
    /\ x.current /\ x.source \in {"codex_rollout_jsonl", "codex_rollout_trace_bundle"}
    /\ x.classification \in {"known", "unknown"} /\ x.ordinal \in Nat
    /\ x.lineSha = x.digest
    /\ x.source = "codex_rollout_trace_bundle" => BundleSound(x)
    /\ x.messages \subseteq {"system", "user", "assistant", "tool"} /\ x.usage

-----------------------------------------------------------------------------
\* validate_gateway_evidence, of the usage row itself.
UsageSound(g) ==
    /\ Texts(g, {"source", "request_id", "requested_model", "provider"})
    /\ g.source \in {"sub2api_usage_log", "sub2api.usage_logs"}
    /\ OptionalTexts(g, {"upstream_model", "response_model", "model_mapping_chain",
                         "provider_source", "observed_at"})
    /\ {"user_id", "api_key_id", "account_id", "group_id", "channel_id", "usage_log_id"}
          \cap g.compound = {}
    /\ {g.input, g.cached, g.api, g.output, g.creation} \subseteq Nat \cup {Absent}
    /\ g.semantics \in {Absent, "sub2api_non_cached_input"}
    /\ Absent \notin {g.input, g.cached, g.api} => g.api = g.input + g.cached

\* validate_gateway_evidence_join: the row is the one of this request.  The
\* id that was captured is observed: in the fields of the capture, by name.
JoinSound(j, g, observed) ==
    /\ j.current /\ j.mode = "exact_request_id"
    /\ Texts(j, {"request_id", "capture_request_id", "capture_field", "transform",
                 "usage_fact_sha256"})
    /\ g.requestId = j.requestId
    /\ \/ j.transform = "exact" /\ j.requestId = j.captured
       \/ j.transform = "comma_separated_member" /\ j.requestId = j.captured
       \/ j.transform = "sub2api_client_prefix" /\ j.requestId = <<"client", j.captured>>
    /\ j.field \in DOMAIN observed
    /\ IF j.transform = "comma_separated_member" THEN j.captured \in observed[j.field].members
       ELSE observed[j.field].whole = j.captured
    /\ j.sha = g.fingerprint
=============================================================================
