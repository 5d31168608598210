------------------------------- MODULE Readiness -------------------------------
(***************************************************************************)
(* What /ready answers (relay.rs).  Every route the Relay ingests by keeps *)
(* in memory when it was last used; for the wire there is also the time of *)
(* its first use and of the last new capture of a successful turn.  /ready *)
(* reads the delivery ledger first and this memory later, under another    *)
(* lock, and answers 200 when neither gives it a reason not to.            *)
(*                                                                         *)
(* The clock only goes forward.  Of a wire capture only what its evidence  *)
(* says is kept: the Good ones are of a turn and answered with 2xx.  The   *)
(* captures of the other routes are delivered like those of the wire; here *)
(* they only count as a sign of life, and with the quality errors that     *)
(* were found in them.                                                     *)
(***************************************************************************)
EXTENDS Naturals, FiniteSets

CONSTANTS
    Wires, Good,            \* wire captures, those of successful turns
    Sources, SlowSources,   \* the other routes, those with the long window
    Window, HookWindow,     \* INGEST_COVERAGE_(HOOK_)FRESHNESS_WINDOW_MS
    Callers,                \* requests on the wire routes
    Silent,                 \* the time of what has not happened
    MaxTime, MaxRejected,   \* bounds: of the clock and of quality errors
    MaxLives                \* bound: processes, and leases that run out

ASSUME ReadinessAssumption ==
    /\ Good \subseteq Wires /\ SlowSources \subseteq Sources /\ "wire" \notin Sources
    /\ {Window, HookWindow, MaxTime, MaxRejected, MaxLives} \subseteq Nat
    /\ HookWindow >= Window
    /\ Silent \notin Nat

VARIABLES
    clock,      \* unix_millis, in ticks
    stage,        \* [Wires -> how far a capture is, in the store and the ledger]
    heard,      \* [routes -> last_observed_millis]
    firstWire,  \* first_observed_millis of the wire
    fresh,      \* last_successful_observed_millis
    rejected,   \* quality errors, durable ones, as the memory has them
    call,       \* [Callers -> step, and what the store acknowledged]
    probe,      \* a request for /ready: step, RelayHealth, observer: the rows it counted
    thanked,    \* observer: [Wires -> when this process called it new and durable]
    outlived,   \* observer: captures whose lease ran out under a worker
    lives       \* observer: processes so far

coverage == <<heard, firstWire, fresh>>
readyVars == <<clock, stage, coverage, rejected, call, probe, thanked, outlived, lives>>

Routes == {"wire"} \cup Sources
Results == {"delivered", "failed", "conflict", "pending"}
Bounded == lives + Cardinality(outlived) < MaxLives
NoCall == [step |-> "idle", new |-> {}, again |-> {}]
NoProbe == [step |-> "idle", health |-> {}, known |-> {}]
Unheard == [r \in Routes |-> Silent]

ReadyInit ==
    /\ clock = 0 /\ stage = [w \in Wires |-> "unknown"] /\ rejected = 0 /\ lives = 1
    /\ heard = Unheard /\ firstWire = Silent /\ fresh = Silent
    /\ call = [c \in Callers |-> NoCall] /\ probe = NoProbe
    /\ thanked = [w \in Wires |-> Silent] /\ outlived = {}

-----------------------------------------------------------------------------
(***************************************************************************)
(* The wire routes: store, ledger, coverage, one after the other.          *)
(***************************************************************************)

\* relay_capture, relay_captures: the store takes the captures of the request
\* but those it refuses, and knows which ones it already had.
StoreWires(c, S, refused) ==
    /\ call[c].step = "idle" /\ S # {} /\ refused \subseteq S
    /\ LET had == {w \in S \ refused : stage[w] # "unknown"} IN
       call' = [call EXCEPT ![c] =
                  [step |-> "stored", new |-> (S \ refused) \ had, again |-> had]]
    /\ stage' = [w \in Wires |->
                 IF w \in S \ refused /\ stage[w] = "unknown" THEN "stored" ELSE stage[w]]
    /\ UNCHANGED <<clock, coverage, rejected, probe, thanked, outlived, lives>>

\* ensure_many.
IndexWires(c) ==
    /\ call[c].step = "stored" /\ call' = [call EXCEPT ![c].step = "indexed"]
    /\ stage' = [w \in Wires |->
                 IF w \in call[c].new \cup call[c].again /\ stage[w] = "stored"
                 THEN "pending" ELSE stage[w]]
    /\ UNCHANGED <<clock, coverage, rejected, probe, thanked, outlived, lives>>

\* The ledger fails: 503 for the whole request, and no route has been used.
IndexFails(c) ==
    /\ call[c].step = "stored" /\ call' = [call EXCEPT ![c] = NoCall]
    /\ UNCHANGED <<clock, stage, coverage, rejected, probe, thanked, outlived, lives>>

\* Mutant: a capture that is sent again counts as news.
Refreshed_Again(c) == call[c].new \cup call[c].again

\* "Retrying an already durable capture cannot keep business evidence fresh
\* indefinitely."
Refreshed(c) == call[c].new

\* observe_wire, and the answer; of nothing acknowledged, nothing is observed.
ObserveWires(c) ==
    /\ call[c].step = "indexed" /\ call' = [call EXCEPT ![c] = NoCall]
    /\ IF call[c].new \cup call[c].again = {}
       THEN UNCHANGED <<heard, firstWire>>
       ELSE /\ heard' = [heard EXCEPT !["wire"] = clock]
            /\ firstWire' = IF firstWire = Silent THEN clock ELSE firstWire
    /\ fresh' = IF Refreshed(c) \cap Good = {} THEN fresh ELSE clock
    /\ thanked' = [w \in Wires |-> IF w \in call[c].new THEN clock ELSE thanked[w]]
    /\ UNCHANGED <<clock, stage, rejected, probe, outlived, lives>>

-----------------------------------------------------------------------------
(***************************************************************************)
(* The other routes, the deliveries, time and restarts.                    *)
(***************************************************************************)

\* relay_cloud_ingest of a batch whose captures are durable, again or for the
\* first time: observe_cloud.  A batch that is refused leaves no trace here.
Ingest(s, errors) ==
    /\ rejected + errors <= MaxRejected
    /\ heard' = [heard EXCEPT ![s] = clock] /\ rejected' = rejected + errors
    /\ UNCHANGED <<clock, stage, firstWire, fresh, call, probe, thanked, outlived, lives>>

\* relay_quality_archive or relay_quality_restore, then
\* refresh_ingest_quality: whatever its own ledger says by then, which is
\* IngestQuality's to say.
RefreshQuality(inLedger) ==
    /\ rejected' = inLedger
    /\ UNCHANGED <<clock, stage, coverage, call, probe, thanked, outlived, lives>>

\* A worker takes the row.
ClaimRow(w) ==
    /\ stage[w] = "pending" /\ stage' = [stage EXCEPT ![w] = "inflight"]
    /\ UNCHANGED <<clock, coverage, rejected, call, probe, thanked, outlived, lives>>

\* A worker's answer from the Collector, the end of its attempts, or another
\* attempt.
Delivery(w, result) ==
    /\ stage[w] = "inflight" /\ stage' = [stage EXCEPT ![w] = result]
    /\ UNCHANGED <<clock, coverage, rejected, call, probe, thanked, outlived, lives>>

\* Its lease runs out under it: the row waits for another worker.
LeaseRunsOut(w) ==
    /\ stage[w] = "inflight" /\ stage' = [stage EXCEPT ![w] = "pending"]
    /\ Bounded /\ outlived' = outlived \cup {w}
    /\ UNCHANGED <<clock, coverage, rejected, call, probe, thanked, lives>>

\* What the first worker says after that, whatever became of the row.
LateDelivery(w, result) ==
    /\ w \in outlived /\ stage' = [stage EXCEPT ![w] = result]
    /\ UNCHANGED <<clock, coverage, rejected, call, probe, thanked, outlived, lives>>

\* relay_requeue_failed: of the captures named those that have failed, in one
\* transaction.
RequeueFailed(S) ==
    /\ \E w \in S : stage[w] = "failed"
    /\ stage' = [w \in Wires |-> IF w \in S /\ stage[w] = "failed" THEN "pending" ELSE stage[w]]
    /\ UNCHANGED <<clock, coverage, rejected, call, probe, thanked, outlived, lives>>

Tick ==
    /\ clock < MaxTime /\ clock' = clock + 1
    /\ UNCHANGED <<stage, coverage, rejected, call, probe, thanked, outlived, lives>>

\* The process dies; the next one finds the captures the ledger has no stage
\* of, takes the claims back, reads the quality counters, and has heard of
\* nobody.
RestartRelay(inLedger) ==
    /\ Bounded /\ lives' = lives + 1 /\ rejected' = inLedger
    /\ stage' = [w \in Wires |->
                 IF stage[w] \in {"stored", "inflight"} THEN "pending" ELSE stage[w]]
    /\ heard' = Unheard /\ firstWire' = Silent /\ fresh' = Silent
    /\ call' = [c \in Callers |-> NoCall] /\ probe' = NoProbe
    /\ thanked' = [w \in Wires |-> Silent] /\ outlived' = {}
    /\ UNCHANGED clock

-----------------------------------------------------------------------------
(***************************************************************************)
(* snapshot_at: what the memory says now.                                  *)
(***************************************************************************)
Within(t, window) == t # Silent /\ clock - t <= window
Heard(r) == heard[r] # Silent
WindowOf(s) == IF s \in SlowSources THEN HookWindow ELSE Window

\* a was used more than the window after b was.
Leads(a, b, window) == Heard(a) /\ Heard(b) /\ heard[a] > heard[b] + window

WireActive == Within(heard["wire"], Window)
RuntimeActive == \E s \in Sources : Within(heard[s], Window)
WireOutOfSync == RuntimeActive /\ (~WireActive \/ \E s \in Sources : Leads(s, "wire", Window))

MissingSources == {r \in Routes : ~Heard(r)}
StaleSources ==
    {s \in Sources : Leads("wire", s, WindowOf(s))} \cup {r \in {"wire"} : WireOutOfSync}
ObservedLongEnough == firstWire # Silent /\ clock - firstWire > Window

Degraded ==
    \/ WireOutOfSync
    \/ WireActive /\ StaleSources # {}
    \/ WireActive /\ ObservedLongEnough /\ MissingSources # {}

AllFresh == MissingSources = {} /\ StaleSources = {}
Status ==
    IF Degraded THEN "degraded"
    ELSE IF AllFresh THEN "complete"
    ELSE IF MissingSources # Routes THEN "partial" ELSE "warming"

TurnCaptureReady == Status = "complete" /\ Within(fresh, Window)

\* readiness_blocking_reasons, one name for each group.
BlockingReasons(health) ==
    health \cup
    {r \in {"coverage_not_complete"} : Status # "complete"} \cup
    {r \in {"sources_missing"} : MissingSources # {}} \cup
    {r \in {"sources_stale"} : StaleSources # {}} \cup
    {r \in {"quality_errors"} : rejected # 0} \cup
    {r \in {"turn_capture_not_ready"} : ~TurnCaptureReady}

\* RelayInner::health: rows that wait, are under way, have failed or are
\* refused for good.
Health == {stage[w] : w \in Wires} \cap {"pending", "inflight", "failed", "conflict"}

\* relay_ready, its two locks.
ReadHealth ==
    /\ probe.step = "idle"
    /\ probe' = [step |-> "read", health |-> Health,
                 known |-> {w \in Wires : stage[w] \notin {"unknown", "stored"}}]
    /\ UNCHANGED <<clock, stage, coverage, rejected, call, thanked, outlived, lives>>

AnswerReady ==
    /\ probe.step = "read" /\ probe' = NoProbe
    /\ UNCHANGED <<clock, stage, coverage, rejected, call, thanked, outlived, lives>>

ReadyNext ==
    \/ \E c \in Callers :
          \/ \E S \in SUBSET Wires : \E refused \in SUBSET S : StoreWires(c, S, refused)
          \/ IndexWires(c) \/ IndexFails(c) \/ ObserveWires(c)
    \/ \E s \in Sources, errors \in 0 .. 1 : Ingest(s, errors)
    \/ \E inLedger \in 0 .. MaxRejected : RefreshQuality(inLedger) \/ RestartRelay(inLedger)
    \/ Tick \/ ReadHealth \/ AnswerReady
    \/ \E S \in SUBSET Wires : RequeueFailed(S)
    \/ \E w \in Wires :
          \/ ClaimRow(w) \/ LeaseRunsOut(w)
          \/ \E result \in Results : Delivery(w, result) \/ LateDelivery(w, result)

ReadySpec == ReadyInit /\ [][ReadyNext]_readyVars

-----------------------------------------------------------------------------
AnsweredReady == probe.step = "read" /\ BlockingReasons(probe.health) = {}
AnsweredNotReady == probe.step = "read" /\ BlockingReasons(probe.health) # {}

\* A Relay that answers /ready with 200 has, within the window, called a
\* capture of a successful turn new and durable; every other source was heard
\* of at most its own window before that window; and all captures the ledger
\* counted are with the Collector, but those whose lease ran out under a
\* worker: whatever is stored, refused, sent again or delivered between the two
\* readings, and however often it was restarted.
ReadyIsEarned ==
    AnsweredReady =>
        /\ \E w \in Good : Within(thanked[w], Window)
        /\ \A s \in Sources : Within(heard[s], Window + WindowOf(s))
        /\ \A w \in probe.known \ outlived : stage[w] = "delivered"

\* It does not refuse without a cause: with the ledger at rest, no quality
\* error, a new successful turn and every source heard of within the window,
\* the answer is 200.  And a source that has been silent for longer than the
\* two windows is reported while the wire goes on.
RefusalHasCause ==
    /\ AnsweredNotReady =>
        \/ probe.health # {} \/ rejected > 0
        \/ ~\E w \in Good : Within(thanked[w], Window)
        \/ \E s \in Sources : ~Within(heard[s], Window)
    /\ \A s \in Sources :
          WireActive /\ Heard(s) /\ ~Within(heard[s], Window + WindowOf(s)) => Status = "degraded"

\* What /ready answers is so, both ways.
ReadyIsTold == ReadyIsEarned /\ RefusalHasCause
=============================================================================
