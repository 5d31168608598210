----------------------------- MODULE IngestProofs -----------------------------
(***************************************************************************)
(* What the Relay tells its callers is so: /ready (Readiness), and the     *)
(* cloud routes (CloudIngest).  The two share no state; they are proved    *)
(* side by side.                                                           *)
(***************************************************************************)
EXTENDS Readiness, CloudIngest, FiniteSetTheorems, TLAPS

-----------------------------------------------------------------------------
(***************************************************************************)
(* A 200 of /ready is earned and a 503 has a cause, for any captures,      *)
(* sources, windows, callers and restarts.  What the answer reads is       *)
(* related to what it promises by facts that every step keeps: the time of *)
(* the last success is the latest time a capture of a turn was called new  *)
(* and durable; the wire was used no earlier than that, and nothing was    *)
(* used in the future; and the rows a health without complaints has        *)
(* counted are delivered, which is where a row's way ends.                 *)
(***************************************************************************)

Stages == {"unknown", "stored", "pending", "inflight", "delivered", "failed", "conflict"}
Times == Nat \cup {Silent}

ReadyTypes ==
    /\ clock \in Nat /\ fresh \in Times /\ rejected \in Nat
    /\ heard \in [Routes -> Times] /\ thanked \in [Wires -> Times]
    /\ stage \in [Wires -> Stages] /\ outlived \subseteq Wires
    /\ call \in [Callers -> [step : {"idle", "stored", "indexed"},
                             new : SUBSET Wires, again : SUBSET Wires]]
    /\ probe \in [step : {"idle", "read"}, health : SUBSET Stages, known : SUBSET Wires]

\* The last success is a capture of a turn, called new by this process, and
\* the wire was used then or later.
FreshIsThanked ==
    fresh # Silent =>
        /\ \E w \in Good : thanked[w] = fresh
        /\ heard["wire"] # Silent /\ heard["wire"] >= fresh /\ fresh <= clock

\* No capture of a turn has been called new since.
ThankedIsFresh ==
    \A w \in Good : thanked[w] # Silent => fresh # Silent /\ thanked[w] <= fresh

\* Nothing was heard in the future.
HeardInPast == \A r \in Routes : heard[r] # Silent => heard[r] <= clock

\* The rows a health without complaints has counted are delivered, but those
\* that two workers had.
CountedAreDelivered ==
    probe.step = "read" /\ probe.health = {} =>
        \A w \in probe.known \ outlived : stage[w] = "delivered"

ReadyInv ==
    ReadyTypes /\ FreshIsThanked /\ ThankedIsFresh /\ HeardInPast /\ CountedAreDelivered

-----------------------------------------------------------------------------
\* A health without complaints leaves no row but delivered ones.
LEMMA QuietHealth ==
    ASSUME stage \in [Wires -> Stages], Health = {}, NEW w \in Wires,
           stage[w] \notin {"unknown", "stored"}
    PROVE  stage[w] = "delivered"
  BY DEF Health, Stages

\* What every process starts from satisfies the invariant.
LEMMA ReadyInitHolds == ReadyInit => ReadyInv
  BY ReadinessAssumption
  DEF ReadyInit, ReadyInv, ReadyTypes, FreshIsThanked, ThankedIsFresh, HeardInPast, CountedAreDelivered,
      Unheard, NoCall, NoProbe, Routes, Times, Stages

\* Every step keeps the types.
LEMMA TypesKept ==
    ASSUME ReadyTypes, [ReadyNext]_readyVars
    PROVE  ReadyTypes'
<1> USE ReadinessAssumption DEF ReadyTypes, Times, Stages, Routes, coverage
<1>1. ASSUME NEW c \in Callers, NEW S \in SUBSET Wires, NEW refused \in SUBSET S,
             StoreWires(c, S, refused)
      PROVE  ReadyTypes'
  BY <1>1 DEF StoreWires
<1>2. ASSUME NEW c \in Callers, IndexWires(c) PROVE ReadyTypes'
  <2>1. [call[c] EXCEPT !.step = "indexed"] \in
          [step : {"idle", "stored", "indexed"}, new : SUBSET Wires, again : SUBSET Wires]
    OBVIOUS
  <2>2. stage' \in [Wires -> Stages]
    BY <1>2 DEF IndexWires
  <2>3. QED
    BY <1>2, <2>1, <2>2 DEF IndexWires
<1>3. ASSUME NEW c \in Callers, IndexFails(c) PROVE ReadyTypes'
  BY <1>3 DEF IndexFails, NoCall
<1>4. ASSUME NEW c \in Callers, ObserveWires(c) PROVE ReadyTypes'
  <2>1. call' \in [Callers -> [step : {"idle", "stored", "indexed"},
                              new : SUBSET Wires, again : SUBSET Wires]]
    BY <1>4 DEF ObserveWires, NoCall
  <2>2. heard' \in [Routes -> Times] /\ fresh' \in Times
    BY <1>4 DEF ObserveWires
  <2>3. thanked' \in [Wires -> Times]
    BY <1>4 DEF ObserveWires
  <2>4. QED
    BY <1>4, <2>1, <2>2, <2>3 DEF ObserveWires
<1>5. ASSUME NEW s \in Sources, NEW errors \in 0 .. 1, Ingest(s, errors) PROVE ReadyTypes'
  BY <1>5 DEF Ingest
<1>6. ASSUME NEW w \in Wires,
             \/ ClaimRow(w) \/ LeaseRunsOut(w)
             \/ \E result \in Results : Delivery(w, result) \/ LateDelivery(w, result)
      PROVE  ReadyTypes'
  BY <1>6 DEF ClaimRow, LeaseRunsOut, Delivery, LateDelivery, Results
<1>7. ASSUME NEW S \in SUBSET Wires, RequeueFailed(S) PROVE ReadyTypes'
  BY <1>7 DEF RequeueFailed
<1>8. ASSUME NEW inLedger \in 0 .. MaxRejected, RefreshQuality(inLedger) \/ RestartRelay(inLedger)
      PROVE  ReadyTypes'
  <2>1. inLedger \in Nat
    OBVIOUS
  <2>2. CASE RefreshQuality(inLedger)
    BY <2>1, <2>2 DEF RefreshQuality
  <2>3. CASE RestartRelay(inLedger)
    BY <2>1, <2>3 DEF RestartRelay, NoProbe, NoCall, Unheard
  <2>4. QED
    BY <1>8, <2>2, <2>3
<1>9. CASE Tick \/ ReadHealth \/ AnswerReady
  BY <1>9 DEF Tick, ReadHealth, Health, AnswerReady, NoProbe
<1>10. CASE UNCHANGED readyVars
  BY <1>10 DEF readyVars
<1> HIDE DEF ReadyTypes, Times, Stages, Routes, coverage
<1>11. QED
  BY <1>1, <1>2, <1>3, <1>4, <1>5, <1>6, <1>7, <1>8, <1>9, <1>10 DEF ReadyNext

\* Every step keeps the rest.
LEMMA ReadyStep ==
    ASSUME ReadyInv, [ReadyNext]_readyVars
    PROVE  ReadyInv'
<1> USE ReadinessAssumption
<1> DEFINE Facts == FreshIsThanked /\ ThankedIsFresh /\ HeardInPast /\ CountedAreDelivered
<1>0. ReadyTypes /\ ReadyTypes' /\ Facts
  BY TypesKept DEF ReadyInv
<1>1. ASSUME NEW c \in Callers, NEW S \in SUBSET Wires, NEW refused \in SUBSET S,
             StoreWires(c, S, refused)
      PROVE  Facts'
  <2>1. CountedAreDelivered'
    BY <1>0, <1>1 DEF StoreWires, CountedAreDelivered, ReadyTypes
  <2>2. QED
    BY <1>0, <1>1, <2>1 DEF StoreWires, FreshIsThanked, ThankedIsFresh, HeardInPast, coverage
<1>2. ASSUME NEW c \in Callers, IndexWires(c) \/ IndexFails(c)
      PROVE  Facts'
  <2>1. CountedAreDelivered'
    BY <1>0, <1>2 DEF IndexWires, IndexFails, CountedAreDelivered, ReadyTypes
  <2>2. QED
    BY <1>0, <1>2, <2>1 DEF IndexWires, IndexFails, FreshIsThanked, ThankedIsFresh, HeardInPast, coverage
<1>3. ASSUME NEW c \in Callers, ObserveWires(c)
      PROVE  Facts'
  <2>1. HeardInPast'
    BY <1>0, <1>3 DEF ObserveWires, HeardInPast, ReadyTypes, Times, Routes
  <2>2. CountedAreDelivered'
    BY <1>0, <1>3 DEF ObserveWires, CountedAreDelivered
  <2>3. FreshIsThanked'
    <3>1. CASE call[c].new \cap Good = {}
      <4>1. fresh' = fresh /\ clock' = clock /\ \A w \in Good : thanked'[w] = thanked[w]
        BY <1>0, <1>3, <3>1 DEF ObserveWires, Refreshed, ReadyTypes
      <4>2. heard'["wire"] \in {heard["wire"], clock}
        BY <1>0, <1>3 DEF ObserveWires, ReadyTypes, Routes
      <4>3. QED
        BY <1>0, <4>1, <4>2 DEF FreshIsThanked, ReadyTypes, Times
    <3>2. CASE call[c].new \cap Good # {}
      <4>1. PICK w \in Good : w \in call[c].new
        BY <3>2
      <4>2. thanked'[w] = clock /\ fresh' = clock /\ clock' = clock /\ heard'["wire"] = clock
        BY <1>0, <1>3, <3>2, <4>1 DEF ObserveWires, Refreshed, ReadyTypes, Routes
      <4>3. QED
        BY <1>0, <4>1, <4>2 DEF FreshIsThanked, ReadyTypes
    <3>3. QED
      BY <3>1, <3>2
  <2>4. ThankedIsFresh'
    <3>1. \A w \in Good : \/ w \in call[c].new /\ thanked'[w] = clock /\ fresh' = clock
                          \/ thanked'[w] = thanked[w] /\ fresh' \in {fresh, clock}
      BY <1>0, <1>3 DEF ObserveWires, Refreshed, ReadyTypes
    <3>2. fresh # Silent => fresh <= clock
      BY <1>0 DEF FreshIsThanked
    <3>3. QED
      BY <1>0, <3>1, <3>2 DEF ThankedIsFresh, ReadyTypes, Times
  <2>5. QED
    BY <2>1, <2>2, <2>3, <2>4
<1>4. ASSUME NEW s \in Sources, NEW errors \in 0 .. 1, Ingest(s, errors)
      PROVE  Facts'
  <2>1. HeardInPast' /\ CountedAreDelivered'
    BY <1>0, <1>4 DEF Ingest, HeardInPast, CountedAreDelivered, ReadyTypes, Times, Routes
  <2>2. heard'["wire"] = heard["wire"]
    BY <1>0, <1>4 DEF Ingest, ReadyTypes, Routes
  <2>3. QED
    BY <1>0, <1>4, <2>1, <2>2 DEF Ingest, FreshIsThanked, ThankedIsFresh
<1>5. ASSUME \/ \E w \in Wires :
                   \/ ClaimRow(w) \/ LeaseRunsOut(w)
                   \/ \E result \in Results : Delivery(w, result) \/ LateDelivery(w, result)
             \/ \E S \in SUBSET Wires : RequeueFailed(S)
      PROVE  Facts'
  <2>1. CountedAreDelivered'
    BY <1>0, <1>5 DEF ClaimRow, LeaseRunsOut, Delivery, LateDelivery, RequeueFailed,
                       CountedAreDelivered, ReadyTypes
  <2>2. QED
    BY <1>0, <1>5, <2>1 DEF ClaimRow, LeaseRunsOut, Delivery, LateDelivery, RequeueFailed,
                            FreshIsThanked, ThankedIsFresh, HeardInPast, coverage
<1>6. ASSUME Tick PROVE Facts'
  BY <1>0, <1>6 DEF Tick, FreshIsThanked, ThankedIsFresh, HeardInPast, CountedAreDelivered, ReadyTypes, Times,
                    Routes, coverage
<1>7. ASSUME NEW inLedger \in 0 .. MaxRejected, RestartRelay(inLedger) PROVE Facts'
  BY <1>7 DEF RestartRelay, FreshIsThanked, ThankedIsFresh, HeardInPast, CountedAreDelivered, Unheard, NoProbe
<1>8. ASSUME ReadHealth PROVE Facts'
  <2>1. CountedAreDelivered'
    BY <1>0, <1>8, QuietHealth DEF ReadHealth, CountedAreDelivered, ReadyTypes
  <2>2. QED
    BY <1>0, <1>8, <2>1 DEF ReadHealth, FreshIsThanked, ThankedIsFresh, HeardInPast, coverage
<1>9. ASSUME \/ \E inLedger \in 0 .. MaxRejected : RefreshQuality(inLedger)
             \/ AnswerReady \/ UNCHANGED readyVars
      PROVE  Facts'
  BY <1>0, <1>9 DEF RefreshQuality, AnswerReady, readyVars, coverage, FreshIsThanked, ThankedIsFresh, HeardInPast,
                    CountedAreDelivered, NoProbe
<1> HIDE DEF Facts
<1>10. Facts'
  BY <1>1, <1>2, <1>3, <1>4, <1>5, <1>6, <1>7, <1>8, <1>9 DEF ReadyNext
<1>11. QED
  BY <1>0, <1>10 DEF ReadyInv, Facts

\* An answer without blocking reasons, read from a memory and a health of
\* which the invariant holds, keeps its promise.
LEMMA InvariantEarns == ReadyInv => ReadyIsEarned
<1> SUFFICES ASSUME ReadyInv, AnsweredReady PROVE ReadyIsEarned
  BY DEF ReadyIsEarned
<1> USE ReadinessAssumption
<1>1. /\ probe.health = {} /\ MissingSources = {} /\ StaleSources = {}
      /\ fresh # Silent /\ clock - fresh <= Window
  BY DEF AnsweredReady, BlockingReasons, TurnCaptureReady, Within
<1>2. \E w \in Good : Within(thanked[w], Window)
  BY <1>1 DEF ReadyInv, FreshIsThanked, Within
<1>3. ASSUME NEW s \in Sources
      PROVE  Within(heard[s], Window + WindowOf(s))
  <2>1. WindowOf(s) \in Nat /\ clock \in Nat /\ fresh \in Nat
    BY <1>1 DEF WindowOf, ReadyInv, ReadyTypes, Times
  <2>2. heard[s] \in Nat /\ heard["wire"] \in Nat
    BY <1>1 DEF MissingSources, Heard, Routes, ReadyInv, ReadyTypes, Times
  <2>3. heard["wire"] <= heard[s] + WindowOf(s)
    <3>1. ~Leads("wire", s, WindowOf(s))
      BY <1>1 DEF StaleSources
    <3>2. QED
      BY <3>1, <2>1, <2>2 DEF Leads, Heard
  <2>4. fresh <= heard["wire"]
    BY <1>1, <2>1, <2>2 DEF ReadyInv, FreshIsThanked
  <2>5. clock - heard[s] <= Window + WindowOf(s)
    BY <1>1, <2>1, <2>2, <2>3, <2>4
  <2>6. QED
    BY <2>2, <2>5 DEF Within
<1>4. \A w \in probe.known \ outlived : stage[w] = "delivered"
  BY <1>1 DEF ReadyInv, CountedAreDelivered, AnsweredReady
<1>5. QED
  BY <1>2, <1>3, <1>4 DEF ReadyIsEarned

\* A source heard of within the shorter window is not late, and the wire is
\* in time as well.
LEMMA InTimeIsFresh ==
    ASSUME ReadyInv, Within(heard["wire"], Window), \A s \in Sources : Within(heard[s], Window)
    PROVE  /\ MissingSources = {} /\ StaleSources = {} /\ ~WireOutOfSync
<1> USE ReadinessAssumption
<1>1. \A r \in Routes : heard[r] \in Nat /\ heard[r] <= clock /\ clock <= heard[r] + Window
  BY DEF Within, Routes, ReadyInv, ReadyTypes, Times, HeardInPast
<1>2. MissingSources = {}
  BY DEF MissingSources, Heard, Within, Routes
<1>3. \A s \in Sources : WindowOf(s) \in Nat /\ WindowOf(s) >= Window
  BY DEF WindowOf
<1>4. ASSUME NEW s \in Sources
      PROVE  ~Leads("wire", s, WindowOf(s)) /\ ~Leads(s, "wire", Window)
  <2>1. /\ heard[s] \in Nat /\ heard[s] <= clock /\ clock <= heard[s] + Window
        /\ heard["wire"] \in Nat /\ heard["wire"] <= clock /\ clock <= heard["wire"] + Window
        /\ clock \in Nat
    BY <1>1 DEF Routes, ReadyInv, ReadyTypes
  <2>2. heard["wire"] <= heard[s] + WindowOf(s) /\ heard[s] <= heard["wire"] + Window
    BY <1>3, <2>1
  <2>3. QED
    BY <1>3, <2>1, <2>2 DEF Leads
<1>5. ~WireOutOfSync
  BY <1>4 DEF WireOutOfSync, WireActive
<1>6. QED
  BY <1>2, <1>4, <1>5 DEF StaleSources

\* The refusals have their causes.
LEMMA InvariantExcuses == ReadyInv => RefusalHasCause
<1> SUFFICES ASSUME ReadyInv PROVE RefusalHasCause
  OBVIOUS
<1> USE ReadinessAssumption
<1>1. ASSUME AnsweredNotReady, probe.health = {}, rejected = 0,
             \A s \in Sources : Within(heard[s], Window),
             NEW w \in Good, Within(thanked[w], Window)
      PROVE  FALSE
  <2>1. thanked[w] \in Nat /\ clock \in Nat /\ fresh \in Nat /\ thanked[w] <= fresh
    BY <1>1 DEF Within, ReadyInv, ReadyTypes, Times, ThankedIsFresh
  <2>2. heard["wire"] \in Nat /\ fresh <= heard["wire"] /\ fresh <= clock
    BY <2>1 DEF ReadyInv, ReadyTypes, Times, Routes, FreshIsThanked
  <2>3. Within(fresh, Window) /\ Within(heard["wire"], Window)
    BY <1>1, <2>1, <2>2 DEF Within
  <2>4. MissingSources = {} /\ StaleSources = {} /\ ~WireOutOfSync
    BY <1>1, <2>3, InTimeIsFresh
  <2>5. Status = "complete"
    <3>1. ~Degraded /\ AllFresh
      BY <2>4 DEF Degraded, AllFresh
    <3>2. QED
      BY <3>1 DEF Status
  <2>6. BlockingReasons(probe.health) = {}
    BY <1>1, <2>3, <2>4, <2>5 DEF BlockingReasons, TurnCaptureReady
  <2>7. QED
    BY <1>1, <2>6 DEF AnsweredNotReady
<1>2. ASSUME NEW s \in Sources, WireActive, Heard(s), ~Within(heard[s], Window + WindowOf(s))
      PROVE  Status = "degraded"
  <2>1. /\ WindowOf(s) \in Nat /\ clock \in Nat /\ heard[s] \in Nat /\ heard["wire"] \in Nat
        /\ clock - heard["wire"] <= Window
    BY <1>2 DEF WindowOf, WireActive, Within, Heard, Routes, ReadyInv, ReadyTypes, Times
  <2>2. clock - heard[s] > Window + WindowOf(s)
    BY <1>2, <2>1 DEF Within, Heard
  <2>3. heard["wire"] > heard[s] + WindowOf(s)
    BY <2>1, <2>2
  <2>4. s \in StaleSources
    BY <1>2, <2>1, <2>3 DEF StaleSources, Leads, Heard, WireActive, Within
  <2>5. Degraded
    BY <1>2, <2>4 DEF Degraded
  <2>6. QED
    BY <2>5 DEF Status
<1>3. AnsweredNotReady =>
        \/ probe.health # {} \/ rejected > 0
        \/ ~\E w \in Good : Within(thanked[w], Window)
        \/ \E s \in Sources : ~Within(heard[s], Window)
  BY <1>1 DEF ReadyInv, ReadyTypes
<1>4. QED
  BY <1>2, <1>3 DEF RefusalHasCause

\* /ready answers 200 only with a new successful turn, with every source
\* heard of in its time and with all counted captures at the Collector, and
\* 503 only when one of these, or the quality errors, is in the way.
THEOREM ReadyAlwaysTold == ReadySpec => []ReadyIsTold
<1>1. ReadyInit => ReadyInv
  BY ReadyInitHolds
<1>2. ReadyInv /\ [ReadyNext]_readyVars => ReadyInv'
  BY ReadyStep
<1>3. ReadyInv => ReadyIsTold
  BY InvariantEarns, InvariantExcuses DEF ReadyIsTold
<1>4. QED
  BY <1>1, <1>2, <1>3, PTL DEF ReadySpec

-----------------------------------------------------------------------------
(***************************************************************************)
(* What the cloud routes answer is so, for all bodies, senders and         *)
(* outages.  That a 200 hides nothing is a matter of counting: a batch is  *)
(* refused unless there are as many marks of something missing as there    *)
(* are errors; each mark belongs to a record that could not be derived, so *)
(* no other error is left, and no such record without a mark.              *)
(***************************************************************************)

Body(b) ==
    /\ b.endpoint \in {"otlp_logs", "otlp_traces", "codex_hook"}
    /\ b.endpoint = "otlp_logs" =>
          /\ b.structured \in BOOLEAN
          /\ IsFiniteSet(DOMAIN b.resources) /\ IsFiniteSet(DOMAIN b.scopes)
          /\ IsFiniteSet(DOMAIN b.records)
          /\ \A i \in DOMAIN b.records : b.records[i].scope \in DOMAIN b.scopes
          /\ \A c \in DOMAIN b.scopes : b.scopes[c].resource \in DOMAIN b.resources

\* Records that could not be derived, of a Session.
Laid(b) == {i \in Puzzling(b) : SessionOf(b, i) # Absent}
Marks(b) == {c \in Derived(b) : c.type = "telemetry_incomplete"}

\* What is asked of a record, of a batch that is not refused.
Accounted(b, i) ==
    /\ b.records[i].attributes # Unreadable
    /\ \/ Ignored(b, i)
       \/ Own(b, i) \in Derived(b) /\ SessionOf(b, i) # Absent
       \/ Incomplete(b, i) \in Derived(b) /\ SessionOf(b, i) # Absent

-----------------------------------------------------------------------------
\* There is at most one mark for each record that could not be derived.
LEMMA MarksAreFew ==
    ASSUME NEW b, Body(b), b.endpoint = "otlp_logs"
    PROVE  /\ Cardinality(Puzzling(b)) \in Nat /\ Attributed(b) \in Nat
           /\ Attributed(b) <= Cardinality(Puzzling(b))
           /\ Attributed(b) = Cardinality(Puzzling(b)) => Laid(b) = Puzzling(b)
<1> DEFINE f == [i \in Laid(b) |-> Incomplete(b, i)]
<1>1. IsFiniteSet(Puzzling(b)) /\ IsFiniteSet(Laid(b))
  <2>1. Puzzling(b) \subseteq DOMAIN b.records /\ Laid(b) \subseteq DOMAIN b.records
    BY DEF Puzzling, Read, InContext, Laid
  <2>2. QED
    BY <2>1, FS_Subset DEF Body
<1>2. /\ Cardinality(Laid(b)) \in Nat /\ Cardinality(Puzzling(b)) \in Nat
      /\ Cardinality(Laid(b)) <= Cardinality(Puzzling(b))
      /\ Cardinality(Laid(b)) = Cardinality(Puzzling(b)) => Laid(b) = Puzzling(b)
  <2>1. Laid(b) \in SUBSET Puzzling(b)
    BY DEF Laid
  <2>2. QED
    BY <1>1, <2>1, FS_Subset, FS_CardinalityType
<1>3. Marks(b) = {Incomplete(b, i) : i \in Laid(b)}
  <2>1. \A i : Derivable(b, i) => EventOf(b, i) # "telemetry_incomplete"
    BY DEF Derivable
  <2>2. \A i : Incomplete(b, i).type = "telemetry_incomplete" /\ Own(b, i).type = EventOf(b, i)
    BY DEF Own, Incomplete, Capture
  <2>3. Derived(b) = LogCaptures(b)
    BY DEF Derived
  <2>4. QED
    BY <2>1, <2>2, <2>3 DEF Marks, LogCaptures, Laid
<1>4. f \in Surjection(Laid(b), Marks(b))
  BY <1>3 DEF Surjection
<1>5. Cardinality(Marks(b)) \in Nat /\ Cardinality(Marks(b)) <= Cardinality(Laid(b))
  BY <1>1, <1>4, FS_Surjection, FS_CardinalityType
<1>6. QED
  BY <1>2, <1>5 DEF Attributed, Marks

\* A batch of logs that is not refused is well formed: it has as many marks as
\* records that could not be derived, so no other error is left.
LEMMA AcceptedIsWhole ==
    ASSUME NEW b, Body(b), b.endpoint = "otlp_logs", ~QualityRefused(b)
    PROVE  /\ b.structured /\ InContext(b) = DOMAIN b.records
           /\ \A i \in DOMAIN b.records : Accounted(b, i)
<1> DEFINE unread == InContext(b) \ Read(b)
<1>1. /\ IsFiniteSet(BadResources(b)) /\ Cardinality(BadResources(b)) \in Nat
      /\ IsFiniteSet(BadScopes(b)) /\ Cardinality(BadScopes(b)) \in Nat
      /\ IsFiniteSet(unread) /\ Cardinality(unread) \in Nat
  <2>1. /\ BadResources(b) \subseteq DOMAIN b.resources /\ BadScopes(b) \subseteq DOMAIN b.scopes
        /\ unread \subseteq DOMAIN b.records
    BY DEF BadResources, BadScopes, InContext
  <2>2. QED
    BY <2>1, FS_Subset, FS_CardinalityType DEF Body
<1>2. /\ Cardinality(Puzzling(b)) \in Nat /\ Attributed(b) \in Nat
      /\ Attributed(b) <= Cardinality(Puzzling(b))
      /\ Attributed(b) = Cardinality(Puzzling(b)) => Laid(b) = Puzzling(b)
  BY MarksAreFew
<1>3. Errors(b) = LogErrors(b) /\ LogErrors(b) <= Attributed(b)
  <2>1. Errors(b) = LogErrors(b) /\ LogErrors(b) \in Nat
    BY <1>1, <1>2 DEF Errors, LogErrors, Body
  <2>2. QED
    BY <1>2, <2>1 DEF QualityRefused
<1>4. /\ b.structured /\ Cardinality(BadResources(b)) = 0 /\ Cardinality(BadScopes(b)) = 0
      /\ Cardinality(unread) = 0 /\ Attributed(b) = Cardinality(Puzzling(b))
  BY <1>1, <1>2, <1>3 DEF LogErrors, Body
<1>5. BadResources(b) = {} /\ BadScopes(b) = {} /\ unread = {} /\ Laid(b) = Puzzling(b)
  BY <1>1, <1>2, <1>4, FS_EmptySet
<1>6. InContext(b) = DOMAIN b.records
  BY <1>5 DEF InContext
<1>7. ASSUME NEW i \in DOMAIN b.records PROVE Accounted(b, i)
  <2>1. i \in Read(b) /\ b.records[i].attributes # Unreadable
    BY <1>5, <1>6 DEF Read
  <2>2. CASE Derivable(b, i)
    <3>1. Own(b, i) \in Derived(b)
      BY <2>1, <2>2 DEF Derived, LogCaptures
    <3>2. SessionOf(b, i) # Absent
      BY <2>2 DEF Derivable
    <3>3. QED
      BY <2>1, <3>1, <3>2 DEF Accounted
  <2>3. CASE ~Derivable(b, i) /\ ~Ignored(b, i)
    <3>1. i \in Puzzling(b) /\ SessionOf(b, i) # Absent
      BY <2>1, <2>3, <1>5 DEF Puzzling, Laid
    <3>2. Incomplete(b, i) \in Derived(b)
      BY <3>1 DEF Derived, LogCaptures
    <3>3. QED
      BY <2>1, <3>1, <3>2 DEF Accounted
  <2>4. QED
    BY <2>1, <2>2, <2>3 DEF Accounted
<1>8. QED
  BY <1>4, <1>6, <1>7

\* A body that is not a batch of logs and is not refused is in order.
LEMMA AcceptedIsInOrder ==
    ASSUME NEW b, b.endpoint # "otlp_logs", ~QualityRefused(b), Body(b)
    PROVE  InOrder(b)
<1>1. CASE b.endpoint = "codex_hook"
  BY <1>1 DEF QualityRefused, Errors
<1>2. CASE b.endpoint = "otlp_traces"
  <2>1. Derived(b) = {}
    BY <1>2 DEF Derived
  <2>2. Attributed(b) = 0
    BY <2>1, FS_EmptySet DEF Attributed
  <2>3. QED
    BY <2>2, <1>2 DEF QualityRefused, Errors
<1>3. QED
  BY <1>1, <1>2 DEF Body

-----------------------------------------------------------------------------
\* The batch of a request is stored as it is.
Kept(q) ==
    \/ sender[q].step = "counted"
    \/ sender[q].step = "stored" /\ ~sender[q].conflict /\ ~sender[q].refused

Foreign(b) == \E c \in captures : c.body # b /\ \E d \in Derived(b) : c.id = d.id
Answered(b) == answers \cap {<<b, "200">>, <<b, "400">>} # {}

Requests == [step : {"stored", "counted"}, body : bodies, refused : BOOLEAN, conflict : BOOLEAN]
CloudTypes ==
    /\ bodies \in Corpora /\ counted \in [bodies -> Nat]
    /\ sender \in [Senders -> {Idle} \cup Requests]
    /\ \A c \in captures : c.body \in bodies /\ c \in Records(c.body)

SenderTrue(q) ==
    /\ Kept(q) => Records(sender[q].body) \subseteq captures
    /\ sender[q].step = "stored" /\ sender[q].conflict => Foreign(sender[q].body)
    /\ sender[q].step = "counted" /\ Errors(sender[q].body) > 0 => counted[sender[q].body] > 0
SendersTrue == \A q \in Senders : SenderTrue(q)

AcceptedUnrefused == \A b \in bodies : <<b, "200">> \in answers => ~QualityRefused(b)

CloudInv ==
    CloudTypes /\ SendersTrue /\ AcceptedUnrefused
    /\ DurableIsStored /\ AnsweredIsCounted /\ ConflictIsForeign

\* An id that is taken is taken by another hook with the same event id.
LEMMA TakenIsForeign ==
    ASSUME CloudTypes, NEW b \in bodies, NEW c \in Records(b), Taken(c)
    PROVE  Foreign(b)
<1>1. PICK d \in captures : d.id = c.id /\ d # c
  BY DEF Taken
<1>2. d \in Records(d.body) /\ c \in Records(b)
  BY <1>1 DEF CloudTypes
<1>3. c # RawBatch(b)
  <2>1. CASE c = RawBatch(b) /\ d = RawBatch(d.body)
    BY <1>1, <2>1 DEF RawBatch, Capture
  <2>2. CASE c = RawBatch(b) /\ d \in LogCaptures(d.body)
    BY <1>1, <2>2 DEF RawBatch, Capture, LogCaptures, Own, Incomplete
  <2>3. CASE c = RawBatch(b) /\ d \in HookCaptures(d.body)
    BY <1>1, <2>3 DEF RawBatch, Capture, HookCaptures, HookId
  <2>4. QED
    BY <1>2, <2>1, <2>2, <2>3 DEF Records, Derived
<1>4. c \in Derived(b)
  BY <1>3 DEF Records
<1>5. d.body # b
  <2>1. CASE b.endpoint = "otlp_logs" /\ d.body = b
    <3>1. c \in LogCaptures(b) /\ (d = RawBatch(b) \/ d \in LogCaptures(b))
      BY <1>2, <1>4, <2>1 DEF Records, Derived
    <3>2. QED
      BY <1>1, <3>1 DEF LogCaptures, RawBatch, Own, Incomplete, Capture
  <2>2. CASE b.endpoint # "otlp_logs" /\ d.body = b
    <3>1. c \in HookCaptures(b) /\ (d = RawBatch(b) \/ d \in HookCaptures(b))
      BY <1>2, <1>4, <2>2 DEF Records, Derived
    <3>2. QED
      BY <1>1, <3>1 DEF HookCaptures, HookId, RawBatch, Capture
  <2>3. QED
    BY <2>1, <2>2
<1>6. QED
  BY <1>1, <1>4, <1>5 DEF Foreign

-----------------------------------------------------------------------------
\* Records name the body they come from.
LEMMA RecordsNameTheirBody == ASSUME NEW b, NEW c \in Records(b) PROVE c.body = b
BY DEF Records, RawBatch, Derived, LogCaptures, HookCaptures, Own, Incomplete, Capture

\* What is true of a request and of the answers stays true while captures and
\* counts grow and the request and the answers do not change.
LEMMA GrowthKeeps ==
    ASSUME CloudInv, CloudTypes', bodies' = bodies, captures \subseteq captures',
           \A b \in bodies : counted'[b] >= counted[b]
    PROVE  /\ \A q \in Senders : sender'[q] = sender[q] => SenderTrue(q)'
           /\ answers' = answers =>
                 (AcceptedUnrefused /\ DurableIsStored /\ AnsweredIsCounted /\ ConflictIsForeign)'
<1>1. \A b \in bodies : counted[b] \in Nat /\ counted'[b] \in Nat
  BY DEF CloudInv, CloudTypes
<1>2. ASSUME NEW b, Foreign(b) PROVE Foreign(b)'
  BY <1>2 DEF Foreign
<1>3. ASSUME NEW q \in Senders, sender'[q] = sender[q] PROVE SenderTrue(q)'
  <2>1. SenderTrue(q) /\ (sender[q].step = "counted" => sender[q].body \in bodies)
    BY DEF CloudInv, SendersTrue, CloudTypes, Requests, Idle
  <2>2. (Kept(q) => Records(sender[q].body) \subseteq captures)'
    BY <1>3, <2>1 DEF SenderTrue, Kept
  <2>3. (sender[q].step = "stored" /\ sender[q].conflict => Foreign(sender[q].body))'
    BY <1>2, <1>3, <2>1 DEF SenderTrue
  <2>4. (sender[q].step = "counted" /\ Errors(sender[q].body) > 0 => counted[sender[q].body] > 0)'
    BY <1>1, <1>3, <2>1 DEF SenderTrue
  <2>5. QED
    BY <2>2, <2>3, <2>4 DEF SenderTrue
<1>4. ASSUME answers' = answers
      PROVE  (AcceptedUnrefused /\ DurableIsStored /\ AnsweredIsCounted /\ ConflictIsForeign)'
  <2>1. AcceptedUnrefused' /\ DurableIsStored'
    BY <1>4 DEF CloudInv, AcceptedUnrefused, DurableIsStored
  <2>2. AnsweredIsCounted'
    BY <1>1, <1>4 DEF CloudInv, AnsweredIsCounted
  <2>3. ConflictIsForeign'
    BY <1>4 DEF CloudInv, ConflictIsForeign
  <2>4. QED
    BY <2>1, <2>2, <2>3
<1>5. QED
  BY <1>3, <1>4

LEMMA CloudInitHolds == CloudInit => CloudInv
<1> SUFFICES ASSUME CloudInit PROVE CloudInv
  OBVIOUS
<1>1. CloudTypes
  BY DEF CloudInit, CloudTypes
<1>2. SendersTrue
  BY DEF CloudInit, SendersTrue, SenderTrue, Kept, Idle
<1>3. QED
  BY <1>1, <1>2 DEF CloudInit, CloudInv, AcceptedUnrefused, DurableIsStored, AnsweredIsCounted,
    ConflictIsForeign

\* Storing a batch adds records of it, all of them unless one is refused or in
\* conflict.
LEMMA StoreBatchKeeps ==
    ASSUME CloudInv, NEW q \in Senders, NEW b \in bodies, NEW refused \in SUBSET Records(b),
           StoreBatch(q, b, refused)
    PROVE  CloudInv'
<1>1. bodies' = bodies /\ counted' = counted /\ answers' = answers /\ captures \subseteq captures'
  BY DEF StoreBatch
<1>2. CloudTypes'
  <2>1. sender' \in [Senders -> {Idle} \cup Requests]
    BY DEF StoreBatch, CloudInv, CloudTypes, Requests
  <2>2. \A c \in captures' : c.body \in bodies /\ c \in Records(c.body)
    BY RecordsNameTheirBody DEF StoreBatch, CloudInv, CloudTypes
  <2>3. QED
    BY <1>1, <2>1, <2>2 DEF CloudInv, CloudTypes, Requests
<1>3. \A a \in bodies : counted'[a] >= counted[a]
  BY <1>1 DEF CloudInv, CloudTypes
<1>4. SenderTrue(q)'
  <2>1. /\ sender'[q].step = "stored" /\ sender'[q].body = b
        /\ sender'[q].refused = (refused # {})
        /\ sender'[q].conflict = (\E c \in Records(b) \ refused : Taken(c))
    BY DEF StoreBatch, CloudInv, CloudTypes
  <2>2. captures' = captures \cup {c \in Records(b) \ refused : ~Taken(c)}
    BY DEF StoreBatch
  <2>3. Kept(q)' => Records(b) \subseteq captures'
    BY <2>1, <2>2 DEF Kept
  <2>4. ASSUME NEW c \in Records(b) \ refused, Taken(c) PROVE Foreign(b)'
    <3>1. Foreign(b)
      BY <2>4, TakenIsForeign DEF CloudInv
    <3>2. QED
      BY <1>1, <3>1 DEF Foreign
  <2>5. QED
    BY <2>1, <2>3, <2>4 DEF SenderTrue
<1>5. \A p \in Senders \ {q} : sender'[p] = sender[p]
  BY DEF StoreBatch, CloudInv, CloudTypes
<1>6. SendersTrue'
  BY <1>1, <1>2, <1>3, <1>4, <1>5, GrowthKeeps DEF SendersTrue
<1>7. QED
  BY <1>1, <1>2, <1>3, <1>6, GrowthKeeps DEF CloudInv

LEMMA CountErrorsKeeps ==
    ASSUME CloudInv, NEW q \in Senders, CountErrors(q) PROVE CloudInv'
<1> DEFINE b == sender[q].body
<1>1. bodies' = bodies /\ captures' = captures /\ answers' = answers
  BY DEF CountErrors
<1>2. sender[q] \in Requests /\ b \in bodies /\ counted[b] \in Nat
  BY DEF CountErrors, CloudInv, CloudTypes, Requests, Idle
<1>3. /\ counted' \in [bodies -> Nat] /\ \A a \in bodies : counted'[a] >= counted[a]
      /\ Errors(b) > 0 => counted'[b] > 0
  BY <1>2, CloudAssumption DEF CountErrors, CloudInv, CloudTypes
<1>4. /\ sender' \in [Senders -> {Idle} \cup Requests]
      /\ sender'[q].step = "counted" /\ sender'[q].body = b
      /\ \A p \in Senders \ {q} : sender'[p] = sender[p]
  BY <1>2 DEF CountErrors, CloudInv, CloudTypes, Requests
<1>5. CloudTypes'
  BY <1>1, <1>3, <1>4 DEF CloudInv, CloudTypes, Requests
<1>6. SenderTrue(q)'
  <2>1. Records(b) \subseteq captures
    BY DEF CountErrors, CloudInv, SendersTrue, SenderTrue, Kept
  <2>2. QED
    BY <1>1, <1>3, <1>4, <2>1 DEF SenderTrue
<1>7. SendersTrue'
  BY <1>1, <1>3, <1>4, <1>5, <1>6, GrowthKeeps DEF SendersTrue
<1>8. QED
  BY <1>1, <1>3, <1>5, <1>7, GrowthKeeps DEF CloudInv

\* What an answer tells has to be so before it is given.
LEMMA TellKeeps ==
    ASSUME CloudInv, NEW q \in Senders, NEW answer, Tell(q, answer),
           UNCHANGED <<bodies, captures, counted>>, sender[q] \in Requests,
           answer = "200" => ~QualityRefused(sender[q].body),
           answer \in {"200", "400"} => sender[q].step = "counted",
           answer = "409" => sender[q].step = "stored" /\ sender[q].conflict
    PROVE  CloudInv'
<1> DEFINE b == sender[q].body
<1>1. /\ CloudTypes /\ SenderTrue(q) /\ b \in bodies
      /\ AcceptedUnrefused /\ DurableIsStored /\ AnsweredIsCounted /\ ConflictIsForeign
  BY DEF CloudInv, SendersTrue, Requests
<1>2. /\ sender' \in [Senders -> {Idle} \cup Requests] /\ sender'[q] = Idle
      /\ \A p \in Senders \ {q} : sender'[p] = sender[p]
  BY <1>1 DEF Tell, CloudTypes
<1>3. CloudTypes'
  BY <1>1, <1>2 DEF CloudTypes, Requests
<1>4. SendersTrue'
  <2>1. \A a \in bodies : counted'[a] >= counted[a]
    BY <1>1 DEF CloudTypes
  <2>2. SenderTrue(q)'
    BY <1>2 DEF Idle, SenderTrue, Kept
  <2>3. QED
    BY <1>2, <1>3, <2>1, <2>2, GrowthKeeps DEF SendersTrue
<1>5. answers' = answers \cup {<<b, answer>>}
  BY DEF Tell
<1>6. AcceptedUnrefused' /\ DurableIsStored' /\ AnsweredIsCounted'
  <2>1. AcceptedUnrefused'
    BY <1>1, <1>5 DEF AcceptedUnrefused
  <2>2. DurableIsStored'
    BY <1>1, <1>5 DEF DurableIsStored, SenderTrue, Kept
  <2>3. AnsweredIsCounted'
    BY <1>1, <1>5 DEF AnsweredIsCounted, SenderTrue
  <2>4. QED
    BY <2>1, <2>2, <2>3
<1>7. ConflictIsForeign'
  BY <1>1, <1>5 DEF ConflictIsForeign, SenderTrue, Foreign
<1>8. QED
  BY <1>3, <1>4, <1>6, <1>7 DEF CloudInv

LEMMA CrashRelayKeeps == ASSUME CloudInv, CrashRelay PROVE CloudInv'
<1>1. /\ bodies' = bodies /\ captures' = captures /\ counted' = counted /\ answers' = answers
      /\ sender' = [q \in Senders |-> Idle]
  BY DEF CrashRelay
<1>2. CloudTypes'
  BY <1>1 DEF CloudInv, CloudTypes, Requests
<1>3. SendersTrue'
  BY <1>1 DEF SendersTrue, SenderTrue, Kept, Idle
<1>4. \A a \in bodies : counted'[a] >= counted[a]
  BY <1>1 DEF CloudInv, CloudTypes
<1>5. QED
  BY <1>1, <1>2, <1>3, <1>4, GrowthKeeps DEF CloudInv

LEMMA CloudStep == CloudInv /\ [CloudNext]_cloudVars => CloudInv'
<1> SUFFICES ASSUME CloudInv, [CloudNext]_cloudVars PROVE CloudInv'
  OBVIOUS
<1>1. ASSUME NEW q \in Senders, NEW b \in bodies, NEW refused \in SUBSET Records(b),
             StoreBatch(q, b, refused)
      PROVE  CloudInv'
  BY <1>1, StoreBatchKeeps
<1>2. ASSUME NEW q \in Senders, sender[q].step # "idle" PROVE sender[q] \in Requests
  BY <1>2 DEF CloudInv, CloudTypes, Idle
<1>3. ASSUME NEW q \in Senders, AnswerFailed(q) PROVE CloudInv'
  <2>1. PICK answer \in {"409", "503"} :
           Tell(q, answer) /\ (answer = "409" => sender[q].conflict)
    BY <1>3 DEF AnswerFailed
  <2>2. sender[q].step = "stored" /\ UNCHANGED <<bodies, captures, counted>>
    BY <1>3 DEF AnswerFailed
  <2>3. QED
    BY <2>1, <2>2, <1>2, TellKeeps
<1>4. ASSUME NEW q \in Senders, LedgerFails(q) PROVE CloudInv'
  BY <1>2, <1>4, TellKeeps DEF LedgerFails
<1>5. ASSUME NEW q \in Senders, CountErrors(q) PROVE CloudInv'
  BY <1>5, CountErrorsKeeps
<1>6. ASSUME NEW q \in Senders, AnswerBatch(q) PROVE CloudInv'
  <2>1. PICK answer \in {"200", "400"} :
           Tell(q, answer) /\ (answer = "200" => ~QualityRefused(sender[q].body))
    BY <1>6 DEF AnswerBatch
  <2>2. sender[q].step = "counted" /\ UNCHANGED <<bodies, captures, counted>>
    BY <1>6 DEF AnswerBatch
  <2>3. QED
    BY <2>1, <2>2, <1>2, TellKeeps
<1>7. CASE CrashRelay
  BY <1>7, CrashRelayKeeps
<1>8. CASE UNCHANGED cloudVars
  BY <1>8 DEF cloudVars, CloudInv, CloudTypes, Requests, SendersTrue, SenderTrue, Kept, Foreign,
    AcceptedUnrefused, DurableIsStored, AnsweredIsCounted, ConflictIsForeign, Taken
<1>9. QED
  BY <1>1, <1>3, <1>4, <1>5, <1>6, <1>7, <1>8 DEF CloudNext

-----------------------------------------------------------------------------
\* What was not refused and is stored can be traced.
LEMMA CloudInvSuffices == CloudInv => CloudAnswersHold
<1> SUFFICES ASSUME CloudInv PROVE AcceptedIsTraceable
  BY DEF CloudInv, CloudAnswersHold
<1>1. ASSUME NEW b \in bodies, <<b, "200">> \in answers
      PROVE  Body(b) /\ ~QualityRefused(b) /\ Records(b) \subseteq captures
  BY <1>1, CloudAssumption DEF CloudInv, CloudTypes, AcceptedUnrefused, DurableIsStored, Body
<1>2. ASSUME NEW b \in bodies, <<b, "200">> \in answers, b.endpoint = "otlp_logs"
      PROVE  /\ b.structured /\ InContext(b) = DOMAIN b.records
             /\ \A i \in DOMAIN b.records : Traceable(b, i)
  <2>1. /\ b.structured /\ InContext(b) = DOMAIN b.records
        /\ \A i \in DOMAIN b.records : Accounted(b, i)
    BY <1>1, <1>2, AcceptedIsWhole
  <2>2. Derived(b) \subseteq captures
    BY <1>1, <1>2 DEF Records
  <2>3. ASSUME NEW i \in DOMAIN b.records PROVE Traceable(b, i)
    <3>1. Accounted(b, i)
      BY <2>1
    <3>2. CASE Ignored(b, i)
      BY <3>1, <3>2 DEF Traceable, Accounted
    <3>3. CASE Own(b, i) \in Derived(b) /\ SessionOf(b, i) # Absent
      BY <2>2, <3>1, <3>3 DEF Traceable, Accounted, Own, Capture
    <3>4. CASE Incomplete(b, i) \in Derived(b) /\ SessionOf(b, i) # Absent
      BY <2>2, <3>1, <3>4 DEF Traceable, Accounted, Incomplete, Capture
    <3>5. QED
      BY <3>1, <3>2, <3>3, <3>4 DEF Accounted
  <2>4. QED
    BY <2>1, <2>3
<1>3. ASSUME NEW b \in bodies, <<b, "200">> \in answers, b.endpoint # "otlp_logs"
      PROVE  InOrder(b) /\ Derived(b) \subseteq captures
  BY <1>1, <1>3, AcceptedIsInOrder DEF Records
<1>4. QED
  BY <1>2, <1>3 DEF AcceptedIsTraceable

\* However often a body is sent, by however many requests, across refusals,
\* failing ledgers and crashes: a 200 of relay_cloud_ingest hides nothing, a
\* 200 or 400 means that all of the body is durable and its errors counted,
\* and a 409 that another hook has the event id.
THEOREM CloudAnswersAlways == CloudSpec => []CloudAnswersHold
<1>1. CloudInit => CloudInv
  BY CloudInitHolds
<1>2. CloudInv /\ [CloudNext]_cloudVars => CloudInv'
  BY CloudStep
<1>3. CloudInv => CloudAnswersHold
  BY CloudInvSuffices
<1>4. QED
  BY <1>1, <1>2, <1>3, PTL DEF CloudSpec
=============================================================================
