------------------------------ MODULE CaptureFlow ------------------------------
(***************************************************************************)
(* An envelope on its way: a client sends it to the Relay, on a wire route *)
(* or by a cloud route that makes it; the Relay stores what it normalises  *)
(* it to, and sends these bytes to the Collector, which normalises and     *)
(* stores again and answers with the digest of what it has.  The Relay     *)
(* takes the receipt only if the digest is its own, and tries again        *)
(* otherwise, for as long as it takes.  One Collector may serve several    *)
(* Relays.                                                                 *)
(*                                                                         *)
(* Envelopes are sent by one capture id; others are independent.  How the  *)
(* rows are queued, claimed and retried is RelayDelivery, how captures     *)
(* become durable CaptureWal.                                              *)
(***************************************************************************)
EXTENDS CaptureEnvelope, Naturals

CONSTANTS
    Corpora,     \* sets of envelopes that are sent with the same capture id
    MaxLosses    \* bound: lost answers and restarts

ASSUME FlowAssumption ==
    /\ MaxLosses \in Nat
    /\ \A corpus \in Corpora : \A e \in corpus :
          IsEnvelope(e) /\ Absent \notin {e, Normal(e)}

VARIABLES
    sent,       \* the envelopes of this behaviour
    relay,      \* what the Relay has stored under the id, or Absent
    rowState,   \* the delivery ledger: "none", "pending", "delivered", "failed", "conflict"
    collector,  \* what the Collector has stored under the id, or Absent
    running,    \* the Relay serves
    first,      \* observer: the envelope the Relay stored
    turnedAway, \* observer: the envelopes the Relay answered 409
    losses      \* observer: losses so far

flowVars == <<sent, relay, rowState, collector, running, first, turnedAway, losses>>

FlowInit ==
    /\ sent \in Corpora /\ relay = Absent /\ rowState = "none" /\ collector = Absent
    /\ running = TRUE /\ first = Absent /\ turnedAway = {} /\ losses = 0

Loss == losses < MaxLosses /\ losses' = losses + 1

\* Mutant: a capture is the same when what was sent is.
SameCapture_Raw(e) == relay = e

\* matches_persisted_sha256.
SameCapture(e) == relay = Normal(e)

\* What is not refused with 400, by a route of the Relay and then by the
\* Collector.
Acceptable == {e \in sent : Accepts(e, TRUE)}
Deliverable == {e \in Acceptable : Accepts(Normal(e), TRUE)}

\* relay_capture, enqueue: store and index, or find it stored.
Receive(e, wire) ==
    /\ running /\ e \in Acceptable /\ (wire => WireContract(e))
    /\ IF relay = Absent
       THEN relay' = Normal(e) /\ first' = e /\ rowState' = "pending" /\ turnedAway' = turnedAway
       ELSE /\ turnedAway' = IF SameCapture(e) THEN turnedAway ELSE turnedAway \cup {e}
            /\ UNCHANGED <<relay, first, rowState>>
    /\ UNCHANGED <<sent, collector, running, losses>>

\* Another Relay delivers its own envelope with the id.
OtherRelay(e) ==
    /\ collector = Absent /\ e \in Deliverable
    /\ collector' = Normal(Normal(e))
    /\ UNCHANGED <<sent, relay, rowState, running, first, turnedAway, losses>>

\* Mutant: an answer that says durable is enough.
ReceiptSound_Any(c) == c # Absent

\* Mutant: the digest is that of what came.
ReceiptSound_AsSent(c) == c = first

\* verify_collector_receipt: the digest is that of the bytes that were sent.
ReceiptSound(c) == c = relay

\* A delivery: the Collector refuses, is in conflict, or has the capture and
\* says so, in an answer that may be lost.
DeliverRow(lost) ==
    /\ running /\ rowState = "pending"
    /\ \E c \in {Normal(relay)} :
       LET has == IF ~Accepts(relay, TRUE) THEN "refused"
                  ELSE IF collector \in {Absent, c} THEN "stored" ELSE "conflict" IN
       /\ collector' = IF has = "stored" THEN c ELSE collector
       /\ rowState' = IF lost THEN rowState
                      ELSE CASE has = "refused" -> "failed"
                             [] has = "conflict" -> "conflict"
                             [] has = "stored" -> IF ReceiptSound(c) THEN "delivered" ELSE "pending"
    /\ IF lost THEN Loss ELSE losses' = losses
    /\ UNCHANGED <<sent, relay, running, first, turnedAway>>

\* relay_requeue_failed.
RequeueRow ==
    /\ running /\ rowState = "failed" /\ Loss /\ rowState' = "pending"
    /\ UNCHANGED <<sent, relay, collector, running, first, turnedAway>>

\* The Relay dies; the next process reads what is stored, and does not serve
\* when it cannot understand it (validate_stored_capture).
RestartRelay ==
    /\ running /\ Loss /\ running' = (relay = Absent \/ Accepts(relay, FALSE))
    /\ UNCHANGED <<sent, relay, rowState, collector, first, turnedAway>>

FlowNext ==
    \/ \E e \in sent, wire \in BOOLEAN : Receive(e, wire)
    \/ \E e \in sent : OtherRelay(e)
    \/ \E lost \in BOOLEAN : DeliverRow(lost)
    \/ RequeueRow \/ RestartRelay

FlowSpec == FlowInit /\ [][FlowNext]_flowVars

\* A row that waits is claimed again and again.
FlowFairSpec == FlowSpec /\ WF_flowVars(DeliverRow(FALSE))

-----------------------------------------------------------------------------
(***************************************************************************)
(* When normalising is stable: of a field the capture itself names, either *)
(* its other sources agree or the dispute is on record, and a null or      *)
(* blank value does not hide two of them.                                  *)
(***************************************************************************)
Others(e, f) == Heard(e, f) \ Own
NamesItself(e, f) == Heard(e, f) \cap Own # {}
Steady(e) ==
    \A f \in Fields(e) : NamesItself(Parsed(e), f) =>
        LET o == Others(Parsed(e), f) IN
        /\ Differ(e, f, o) => [field |-> f, evidence |-> Statements(e, f, o)] \in e.conflicts
        /\ Present(Trace(e, f)) \/ Trace(e, f) = Absent \/ o = {}
              \/ Said(e, f, FirstOf(o)) = Said(e, f, "alias")

\* What the Relay has accepted, the next process can read, and the Collector
\* does not refuse: normalising makes no envelope that it would not take.
AcceptedIsReadable == running /\ (relay # Absent => Accepts(relay, TRUE)) /\ rowState # "failed"

\* A delivered capture is, byte for byte, what the Collector has.
DeliveredIsTheSame == rowState = "delivered" => relay # Absent /\ collector = relay

\* A capture that counts as evidence of a turn, for /ready, was sent with
\* sources that agree on it.
TurnScopedIsAgreed ==
    relay # Absent /\ TurnScoped(relay) =>
        \A f \in Fields(first) : ~Differ(first, f, Heard(Parsed(first), f))

\* Sending an envelope again is no conflict: a 409 means that another one came
\* first with the id.
ConflictIsAnother ==
    first \notin turnedAway

\* A capture the Relay has acknowledged is delivered or found in conflict,
\* unless normalising it again changes it.
SteadyIsDelivered ==
    (rowState = "pending" /\ first \in {e \in sent : Steady(e)}) ~> (rowState \in {"delivered", "conflict"})

\* Normalising again changes nothing exactly when nothing is left to record.
SteadyIsStable == relay # Absent => (Steady(first) <=> Normal(relay) = relay)

\* What one hop has accepted the next takes as it is, and nothing is made of
\* it that was not said.
CaptureStaysTrue ==
    /\ AcceptedIsReadable /\ DeliveredIsTheSame /\ TurnScopedIsAgreed
    /\ ConflictIsAnother /\ SteadyIsStable

\* "canonical_v2_normalization_is_idempotent_across_relay_and_collector"
CanonicalIsStable == relay # Absent => Normal(relay) = relay
=============================================================================
