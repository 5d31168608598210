------------------------------ MODULE WireStream ------------------------------
(***************************************************************************)
(* One streamed model call: what the Gateway sees of it and writes down    *)
(* (server.js), and what is derived from that capture offline, when        *)
(* upstream, client and Gateway may all be gone (model_interaction.rs).    *)
(*                                                                         *)
(* The upstream sends frames, whole or cut at the end of the stream.  A    *)
(* frame is one event of the event stream with its data; the bytes of a    *)
(* body are counted in frames.  Blank lines between frames carry no        *)
(* information: parse_sse splits frames that lack them.  An item is [id,   *)
(* args], a tool call whose args are "open" while they are not complete;   *)
(* opaque ciphertext and usage numbers are left out.  Requests are taken   *)
(* to be complete, and so is the identity of the capture.                  *)
(***************************************************************************)
EXTENDS Naturals, FiniteSets, SequencesExt

CONSTANTS
    FramesOf(_),      \* the frames an upstream of a protocol family may send
    Families,         \* "responses", "anthropic" and "chat"
    MaxFrames,        \* bound: frames of a stream
    CaptureLimit,     \* frames that fit into maxResponseBytes
    NoOutput,         \* a terminal that does not repeat the items
    Unset             \* a field the capture does not have

VARIABLES
    family,
    status,      \* "none" before the response headers, "ok", or "failed" (4xx)
    sent,        \* frames received from the upstream
    cut,         \* the last frame: "no", "name" (no data yet), or "data"
    upstream,    \* "open", "done", or "broken"
    forwarded,   \* frames written to the client
    client,      \* [aborted, finished, closed, atClose, terminalAtClose]
    gateway,       \* of the Gateway: "streaming", "ending", "waiting", "captured",
                 \* or "recovered"
    redacted     \* credentials were removed from the stored body

wireVars ==
    <<family, status, sent, cut, upstream, forwarded, client, gateway, redacted>>

HttpError == [kind |-> "http_error"]

WireInit ==
    /\ family \in Families /\ status = "none" /\ sent = <<>> /\ cut = "no"
    /\ upstream = "open" /\ forwarded = 0 /\ gateway = "streaming" /\ redacted = FALSE
    /\ client = [aborted |-> FALSE, finished |-> FALSE, closed |-> FALSE,
                 atClose |-> Unset, terminalAtClose |-> Unset]

-----------------------------------------------------------------------------
(* The proxy.                                                              *)

Received == Len(sent) + IF cut = "no" THEN 0 ELSE 1

Headers ==
    /\ gateway = "streaming" /\ status = "none"
    /\ status' \in {"ok", "failed"}
    /\ UNCHANGED <<family, sent, cut, upstream, forwarded, client, gateway, redacted>>

\* A chunk is recorded first; it is written only while the client is there.
Forward == forwarded' = IF client.closed THEN forwarded ELSE forwarded + 1

ReceiveFrame ==
    /\ gateway = "streaming" /\ status # "none" /\ cut = "no" /\ Len(sent) < MaxFrames
    /\ \E f \in IF status = "ok" THEN FramesOf(family) ELSE {HttpError} :
          /\ status = "failed" => sent = <<>>
          /\ sent' = Append(sent, f)
    /\ Forward
    /\ UNCHANGED <<family, status, cut, upstream, client, gateway, redacted>>

\* The beginning of a frame whose rest does not come.
ReceivePart ==
    /\ gateway = "streaming" /\ status # "none" /\ cut = "no" /\ Len(sent) < MaxFrames
    /\ cut' \in {"name", "data"} /\ Forward
    /\ UNCHANGED <<family, status, sent, upstream, client, gateway, redacted>>

\* ResponsesSseBoundaryTracker, which a stream of the responses endpoint has.
TerminalSeen ==
    IF status # "ok" \/ family # "responses" THEN Unset
    ELSE \E i \in DOMAIN sent : sent[i].kind \in {"end", "error"}
Closed(c) == [c EXCEPT !.closed = TRUE, !.atClose = forwarded, !.terminalAtClose = TerminalSeen]

\* The response is ended, or is gone already.
UpstreamEnds ==
    /\ gateway = "streaming" /\ status # "none" /\ upstream' = "done"
    /\ gateway' = IF client.closed THEN "captured" ELSE "ending"
    /\ redacted' \in BOOLEAN
    /\ UNCHANGED <<family, status, sent, cut, forwarded, client>>

\* sendProxyFailure: before the headers the client gets an error response,
\* afterwards its response is destroyed.
UpstreamBreaks ==
    /\ gateway = "streaming" /\ upstream' = "broken"
    /\ client' = IF status # "none" /\ ~client.closed THEN Closed(client) ELSE client
    /\ gateway' = IF client'.closed THEN "captured" ELSE "ending"
    /\ redacted' \in BOOLEAN
    /\ UNCHANGED <<family, status, sent, cut, forwarded>>

ClientFinishes ==
    /\ gateway = "ending" /\ gateway' = "captured"
    /\ client' = [client EXCEPT !.finished = TRUE]
    /\ UNCHANGED <<family, status, sent, cut, upstream, forwarded, redacted>>

\* A client that goes while the end of its response is on its way: "finish"
\* does not come, and the record waits for it until the Gateway is restarted.
ClientCloses ==
    /\ gateway \in {"streaming", "ending"} /\ ~client.closed
    /\ client' = Closed(client)
    /\ gateway' = IF gateway = "ending" THEN "waiting" ELSE gateway
    /\ UNCHANGED <<family, status, sent, cut, upstream, forwarded, redacted>>

ClientAborts ==
    /\ gateway = "streaming" /\ ~client.aborted
    /\ client' = [client EXCEPT !.aborted = TRUE]
    /\ UNCHANGED <<family, status, sent, cut, upstream, forwarded, gateway, redacted>>

\* The Gateway dies; its next start makes a capture of the open transaction.
GatewayRestarts ==
    /\ gateway \in {"streaming", "ending", "waiting"} /\ gateway' = "recovered"
    /\ UNCHANGED <<family, status, sent, cut, upstream, forwarded, client, redacted>>

WireNext ==
    \/ Headers \/ ReceiveFrame \/ ReceivePart \/ UpstreamEnds \/ UpstreamBreaks
    \/ ClientFinishes \/ ClientCloses \/ ClientAborts \/ GatewayRestarts

-----------------------------------------------------------------------------
(* The capture: scheduleFullTraceSubmit, or the recovery of the outbox.    *)

Over == Received > CaptureLimit
Body == [frames |-> IF Over THEN SubSeq(sent, 1, CaptureLimit) ELSE sent,
         cut |-> IF Over THEN "no" ELSE cut]

Capture ==
    LET live == gateway = "captured"
        field(v) == IF live THEN v ELSE Unset
    IN  [frames |-> Body.frames, cut |-> Body.cut,
         status |-> field(status),
         captured |-> Len(Body.frames) + IF Body.cut = "no" THEN 0 ELSE 1,
         truncated |-> ~live \/ Over,
         error |-> ~live \/ upstream = "broken",
         upstreamDone |-> live /\ upstream = "done",
         aborted |-> field(client.aborted), closed |-> field(client.closed),
         finished |-> IF live THEN client.finished ELSE FALSE,
         forwarded |-> field(forwarded), atClose |-> field(client.atClose),
         terminalAtClose |-> field(client.terminalAtClose),
         redacted |-> live /\ redacted]

-----------------------------------------------------------------------------
(* responses_response_view.                                                *)

Malformed(c) ==
    Cardinality({i \in DOMAIN c.frames : c.frames[i].kind = "junk"})
      + IF c.cut = "data" /\ c.status # "failed" THEN 1 ELSE 0

NoView == [seen |-> <<>>, finished |-> {}, outcome |-> Unset, output |-> NoOutput,
           explicit |-> FALSE, bad |-> 0]

\* An announced or a finished item; items are kept by their output index.
Observe(v, f) ==
    LET known == f.index \in DOMAIN v.seen
        change == f.kind = "done" /\ f.index \in v.finished /\ v.seen[f.index] # f.item
    IN  [v EXCEPT
            !.bad = IF change THEN @ + 1 ELSE @,
            !.finished = IF f.kind = "done" THEN @ \cup {f.index} ELSE @,
            !.seen = IF f.kind = "added" /\ known THEN @
                     ELSE [i \in DOMAIN @ \cup {f.index} |->
                              IF i = f.index THEN f.item ELSE @[i]]]

\* The first terminal counts, every further one is malformed.
Terminate(v, f) ==
    IF v.outcome # Unset
    THEN [v EXCEPT !.bad = @ + 1, !.explicit = @ \/ f.outcome = "incomplete"]
    ELSE [v EXCEPT !.outcome = f.outcome, !.output = f.output,
                   !.explicit = @ \/ f.outcome = "incomplete"]

ViewStep(v, f) ==
    CASE f.kind \in {"added", "done"} -> Observe(v, f)
      [] f.kind \in {"end", "error"} -> Terminate(v, f)
      [] OTHER -> v

\* An item the terminal does not have, of a stream that says it is incomplete.
Truncated(v) ==
    {i \in DOMAIN v.seen : /\ v.explicit /\ v.output # NoOutput
                           /\ i \notin v.finished /\ i > Len(v.output)}

\* Mutant: a finished item is compared like an announced one.
Inconsistent_ById(v) ==
    IF v.output = NoOutput THEN {}
    ELSE {i \in DOMAIN v.seen \ Truncated(v) :
            ~(i \in DOMAIN v.output /\ v.output[i].id = v.seen[i].id)}

\* The terminal must retain what was observed: a finished item as it was, an
\* announced one by its identity.
Inconsistent(v) ==
    IF v.output = NoOutput THEN {}
    ELSE {i \in DOMAIN v.seen \ Truncated(v) :
            ~(i \in DOMAIN v.output
                /\ IF i \in v.finished THEN v.output[i] = v.seen[i]
                                       ELSE v.output[i].id = v.seen[i].id)}

ResponsesView(c) ==
    LET v == FoldLeft(ViewStep, NoView, c.frames)
        rebuilt == [k \in 1 .. Cardinality(DOMAIN v.seen) |->
                       v.seen[CHOOSE i \in DOMAIN v.seen :
                                 Cardinality({j \in DOMAIN v.seen : j <= i}) = k]]
    IN  [outcome |-> v.outcome, bad |-> v.bad + Cardinality(Inconsistent(v)) + Malformed(c),
         events |-> {i \in DOMAIN c.frames : c.frames[i].kind # "http_error"} # {}
                      \/ (c.cut = "data" /\ c.status # "failed"),
         lite |-> v.output = NoOutput, finished |-> v.finished,
         output |-> IF v.output = NoOutput THEN rebuilt ELSE v.output,
         truncated |-> {v.seen[i].id : i \in Truncated(v)}]

(* anthropic_response_view and anthropic_stream_state, chat_response_view  *)
(* and chat_stream_state: only how they end is looked at.                  *)

Has(c, kinds) == \E i \in DOMAIN c.frames : c.frames[i].kind \in kinds

AnthropicOutcome(c) ==
    CASE Has(c, {"error"}) -> "failed"
      [] ~Has(c, {"error"}) /\ Has(c, {"stop_reason", "message_stop"}) -> "completed"
      [] OTHER -> Unset

ChatChoices(c) == {c.frames[i].choice : i \in {j \in DOMAIN c.frames : c.frames[j].kind = "delta"}}
ChatOutcome(c) ==
    IF /\ ChatChoices(c) # {}
       /\ \A x \in ChatChoices(c) : \E i \in DOMAIN c.frames :
             c.frames[i].kind = "delta" /\ c.frames[i].choice = x /\ c.frames[i].finish
    THEN "completed" ELSE Unset

-----------------------------------------------------------------------------
(* The stream states, interaction_integrity.                               *)

TransportError(c) == c.error \/ ~c.upstreamDone

ClientDelivery(c) ==
    CASE c.aborted = TRUE -> "cancelled"
      [] c.aborted # TRUE /\ c.finished /\ c.closed = FALSE -> "delivered"
      [] c.aborted # TRUE /\ ~c.finished /\ c.closed = TRUE -> "cancelled"
      [] OTHER -> "unknown"

\* raw_body_complete, of the body as it is stored.
RawComplete(c) == ~c.truncated

HttpErrorComplete(c) ==
    /\ c.status = "failed" /\ ~TransportError(c)
    /\ ~ResponsesView(c).events /\ ResponsesView(c).bad = 0
    /\ c.frames = <<HttpError>> /\ c.cut = "no"
    /\ RawComplete(c) /\ ~c.redacted /\ c.forwarded = c.captured
    /\ c.aborted = FALSE /\ c.closed = FALSE /\ c.finished

Terminal(c) ==
    CASE family = "responses" -> ResponsesView(c).outcome
      [] family = "anthropic" -> AnthropicOutcome(c)
      [] OTHER -> ChatOutcome(c)
Outcome(c) ==
    IF Terminal(c) # Unset THEN Terminal(c)
    ELSE IF family = "responses" /\ HttpErrorComplete(c) THEN "failed"
    ELSE IF TransportError(c) THEN "transport_error" ELSE "eof_without_terminal"

\* boundary_bytes_consistent and what interaction_integrity adds to it.  The
\* digest of the original body accompanies every redaction.
DeliveryConsistent(c) ==
    /\ c.forwarded = Unset \/ c.forwarded <= c.captured \/ c.redacted
    /\ c.atClose = Unset \/ c.atClose <= c.forwarded
    /\ c.closed = TRUE => c.atClose # Unset /\ c.terminalAtClose # Unset
    /\ ~(c.finished /\ c.closed = TRUE)

PreResponseFailure(c) ==
    /\ Outcome(c) = "transport_error" /\ c.error
    /\ c.status \in {"none", Unset} /\ c.captured = 0 /\ ~c.truncated

ProtocolComplete(c) ==
    /\ family \in {"responses", "anthropic"}
    /\ \/ Terminal(c) # Unset
       \/ PreResponseFailure(c)
       \/ family = "responses" /\ HttpErrorComplete(c)
    /\ (IF family = "responses" THEN ResponsesView(c).bad ELSE Malformed(c)) = 0
    /\ c.aborted # Unset /\ c.closed # Unset /\ DeliveryConsistent(c)

-----------------------------------------------------------------------------
\* What a capture that is called complete says is what happened, whatever the
\* upstream sent, wherever the stream broke off and whenever the client went:
\* it never comes from a recovered capture; it has the one terminal the
\* upstream sent, or nothing had been received at all, or the client has got
\* the whole error; every item the upstream finished is in the output as it
\* was, and a call is left open only where the terminal itself says so or
\* repeats no items.  A response is called delivered only if the client has
\* got everything (model_interaction.rs:2084-2227, 2364-2786, 4532-4822).
EvidenceIsTrue ==
    gateway \in {"captured", "recovered"} =>
      LET c == Capture
          ends == {i \in DOMAIN c.frames : c.frames[i].kind \in {"end", "error"}}
          v == ResponsesView(c)
      IN  /\ ProtocolComplete(c) =>
               /\ gateway = "captured"
               /\ \/ upstream = "broken" /\ status = "none" /\ sent = <<>> /\ cut = "no"
                  \/ sent = <<HttpError>> /\ upstream = "done" /\ client.finished
                       /\ forwarded = 1
                  \/ family = "anthropic"
                       /\ \E i \in DOMAIN sent :
                             sent[i].kind \in {"stop_reason", "message_stop", "error"}
                  \/ family = "responses" /\ Cardinality(ends) = 1
               /\ family = "responses" /\ ends # {} =>
                    /\ \A i \in DOMAIN c.frames : c.frames[i].kind = "done" =>
                          \E k \in DOMAIN v.output : v.output[k] = c.frames[i].item
                    /\ v.lite \/ v.output = c.frames[CHOOSE i \in ends : TRUE].output
          /\ ClientDelivery(c) = "delivered" /\ upstream = "done" =>
               client.finished /\ forwarded = Received
=============================================================================
