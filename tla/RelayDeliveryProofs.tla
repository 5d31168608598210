------------------------- MODULE RelayDeliveryProofs -------------------------
(***************************************************************************)
(* What holds of RelayDelivery for every number of ids, workers and faults *)
(* and for every size of the queue and of the batches.                     *)
(***************************************************************************)
EXTENDS RelayDelivery, FiniteSetTheorems, SequenceTheorems, TLAPS

\* What a set of rows in one state gains and loses accounts for its new size.
LEMMA MovedCount ==
    ASSUME NEW A \in SUBSET Ids, NEW B \in SUBSET Ids
    PROVE  /\ Cardinality(A) \in Nat
           /\ Cardinality(B) = Cardinality(A) - Cardinality(A \ B) + Cardinality(B \ A)
  <1>1. IsFiniteSet(A) /\ IsFiniteSet(B)
    BY RelayAssumption, FS_Subset
  <1>2. Cardinality(A \ B) = Cardinality(A) - Cardinality(A \cap B)
    BY <1>1, FS_Difference
  <1>3. Cardinality(B \ A) = Cardinality(B) - Cardinality(A \cap B)
    <2>1. Cardinality(B \ A) = Cardinality(B) - Cardinality(B \cap A)
      BY <1>1, FS_Difference
    <2>2. B \cap A = A \cap B
      OBVIOUS
    <2> QED
      BY <2>1, <2>2
  <1>4. A \cap B \in SUBSET A
    OBVIOUS
  <1>5. IsFiniteSet(A \cap B)
    BY <1>1, <1>4, FS_Subset
  <1>6. Cardinality(A) \in Nat /\ Cardinality(B) \in Nat /\ Cardinality(A \cap B) \in Nat
    BY <1>1, <1>5, FS_CardinalityType
  <1> QED
    BY <1>2, <1>3, <1>6

\* increment_delivery_state and decrement_delivery_state keep the counters
\* right, whatever rows a transaction changes, as long as it removes none.
LEMMA RecountIsCount ==
    ASSUME NEW r, counters = CountersOf(row),
           \A i \in Ids : HasRow(i) => r[i].state # "none"
    PROVE  Recounted(r) = CountersOf(r)
  <1> DEFINE Old(st) == {i \in Ids : row[i].state = st}
             New(st) == {i \in Ids : r[i].state = st}
  <1>1. ASSUME NEW st \in States
        PROVE  /\ counters[st] = Cardinality(Old(st))
               /\ Recounted(r)[st] = CountersOf(r)[st]
    <2>1. counters[st] = Cardinality(Old(st)) /\ CountersOf(r)[st] = Cardinality(New(st))
      BY <1>1 DEF CountersOf, States, Settled
    <2>2. Recounted(r)[st] = counters[st] - Cardinality(Old(st) \ New(st))
                                + Cardinality(New(st) \ Old(st))
      <3>1. /\ {i \in Ids : row[i].state = st /\ r[i].state # st} = Old(st) \ New(st)
            /\ {i \in Ids : row[i].state # st /\ r[i].state = st} = New(st) \ Old(st)
        OBVIOUS
      <3>2. st # "total" /\ st \in States \cup {"total"}
        BY DEF States, Settled
      <3>3. Recounted(r)[st] =
              counters[st] - Cardinality({i \in Ids : row[i].state = st /\ r[i].state # st})
                + Cardinality({i \in Ids : row[i].state # st /\ r[i].state = st})
        BY <3>2 DEF Recounted
      <3> HIDE DEF Old, New
      <3> QED
        BY <3>1, <3>3
    <2>3. Old(st) \in SUBSET Ids /\ New(st) \in SUBSET Ids
      OBVIOUS
    <2> HIDE DEF Old, New
    <2>4. Cardinality(New(st)) = Cardinality(Old(st)) - Cardinality(Old(st) \ New(st))
                                   + Cardinality(New(st) \ Old(st))
      BY <2>3, MovedCount
    <2> QED
      BY <2>1, <2>2, <2>4
  <1>2. Recounted(r)["total"] = CountersOf(r)["total"]
    <2> DEFINE A == {i \in Ids : row[i].state # "none"}
               B == {i \in Ids : r[i].state # "none"}
               C == {i \in Ids : ~HasRow(i) /\ r[i].state # "none"}
    <2>1. counters["total"] = Cardinality(A) /\ CountersOf(r)["total"] = Cardinality(B)
      BY DEF CountersOf
    <2>2. Recounted(r)["total"] = counters["total"] + Cardinality(C)
      BY DEF Recounted
    <2>3. A \in SUBSET Ids /\ B \in SUBSET Ids
      OBVIOUS
    <2>4. C = B \ A /\ A \ B = {}
      BY DEF HasRow
    <2> HIDE DEF A, B, C
    <2>5. Cardinality(B) = Cardinality(A) - Cardinality(A \ B) + Cardinality(B \ A)
      BY <2>3, MovedCount
    <2>6. Cardinality(A \ B) = 0 /\ Cardinality(A) \in Nat
      BY <2>3, <2>4, FS_EmptySet, MovedCount
    <2>7. IsFiniteSet(B \ A) /\ Cardinality(B \ A) \in Nat
      BY <2>3, RelayAssumption, FS_Subset, FS_CardinalityType
    <2> QED
      BY <2>1, <2>2, <2>4, <2>5, <2>6, <2>7
  <1>3. Recounted(r) = [st \in States \cup {"total"} |-> Recounted(r)[st]]
    BY DEF Recounted
  <1>4. CountersOf(r) = [st \in States \cup {"total"} |-> CountersOf(r)[st]]
    BY DEF CountersOf
  <1>5. \A st \in States \cup {"total"} : Recounted(r)[st] = CountersOf(r)[st]
    BY <1>1, <1>2
  <1> QED
    BY <1>3, <1>4, <1>5

-----------------------------------------------------------------------------
(***************************************************************************)
(* Types.  That counters are natural numbers follows later, from their     *)
(* agreement with the rows.                                                *)
(***************************************************************************)

RowType == [state : States \cup {"none"}, due : BOOLEAN]
WorkerType ==
    [step : {"idle", "took", "sending", "sent", "done"}, took : SUBSET Ids,
     held : SUBSET Ids, outcome : UNION {[S -> Answers] : S \in SUBSET Ids}]
TickerType == [step : {"idle", "unschedule", "requeue", "list", "queue"}, ids : SUBSET Ids]

\* A worker holds what it has taken, and knows an outcome of all it holds.
WorkerSound(wk) ==
    /\ wk.held \subseteq wk.took
    /\ wk.step = "sent" => wk.outcome \in [wk.held -> Answers]

Types ==
    /\ stored \subseteq Ids /\ tallied \subseteq stored
    /\ row \in [Ids -> RowType]
    /\ pendingIx \subseteq Ids /\ inflightIx \subseteq Ids
    /\ hasCounters \in BOOLEAN
    /\ status \in {"down", "opened", "reconcile", "up"}
    /\ handler \in [Ids -> {"none", "ensure", "queue"}]
    /\ queue \in Seq(Ids) /\ Len(queue) <= QueueItems /\ scheduled \subseteq Ids
    /\ worker \in [Workers -> WorkerType]
    /\ \A w \in Workers : WorkerSound(worker[w])
    /\ ticker \in TickerType
    /\ remote \subseteq Ids /\ acked \subseteq Ids /\ overrun \subseteq Ids
    /\ faults \in 0 .. MaxFaults

LEMMA IdleTypes ==
    /\ NoRow \in RowType /\ DueRow \in RowType
    /\ NoOutcome \in [{} -> Answers]
    /\ NoOutcome \in UNION {[S -> Answers] : S \in SUBSET Ids}
    /\ IdleWorker \in WorkerType /\ WorkerSound(IdleWorker)
    /\ IdleTicker \in TickerType
  <1>1. NoOutcome \in [{} -> Answers]
    BY DEF NoOutcome
  <1>2. NoOutcome \in UNION {[S -> Answers] : S \in SUBSET Ids}
    BY <1>1
  <1> QED
    BY <1>1, <1>2 DEF NoRow, DueRow, RowType, States, IdleWorker, WorkerType, WorkerSound,
       IdleTicker, TickerType

\* The bounded queue takes an id only when there is room.
LEMMA QueueCaptureTypes ==
    ASSUME Types, NEW i \in Ids, QueueCapture(i)
    PROVE  queue' \in Seq(Ids) /\ Len(queue') <= QueueItems /\ scheduled' \subseteq Ids
  <1>1. CASE i \in scheduled \/ QueueFull
    BY <1>1 DEF Types, QueueCapture
  <1>2. CASE ~(i \in scheduled \/ QueueFull)
    <2>1. Append(queue, i) \in Seq(Ids) /\ Len(Append(queue, i)) = Len(queue) + 1
      BY AppendProperties DEF Types
    <2>2. Len(queue) < QueueItems /\ Len(queue) \in Nat
      BY <1>2, RelayAssumption, LenProperties DEF Types, QueueFull
    <2> QED
      BY <1>2, <2>1, <2>2, RelayAssumption DEF Types, QueueCapture
  <1> QED
    BY <1>1, <1>2

\* A worker that changes into a sound record leaves all workers sound.
LEMMA WorkerChanges ==
    ASSUME Types, NEW w \in Workers, NEW wk \in WorkerType, WorkerSound(wk),
           worker' = [worker EXCEPT ![w] = wk]
    PROVE  worker' \in [Workers -> WorkerType] /\ \A v \in Workers : WorkerSound(worker'[v])
  BY DEF Types

\* A worker claims some of what it has taken, or nothing.
LEMMA WorkerClaims ==
    ASSUME NEW wr \in WorkerType, NEW S \in SUBSET wr.took
    PROVE  LET wk == [wr EXCEPT !.step = IF S = {} THEN "done" ELSE "sending", !.held = S]
           IN  wk \in WorkerType /\ WorkerSound(wk)
  BY DEF WorkerType, WorkerSound

LEMMA WorkerDoneTypes ==
    ASSUME Types, NEW w \in Workers, WorkerDone(w)
    PROVE  worker' \in [Workers -> WorkerType] /\ \A v \in Workers : WorkerSound(worker'[v])
  <1> DEFINE wk == [worker[w] EXCEPT !.step = "done", !.held = {}, !.outcome = NoOutcome]
  <1>1. wk \in WorkerType /\ WorkerSound(wk)
    BY IdleTypes DEF Types, WorkerType, WorkerSound
  <1>2. worker' = [worker EXCEPT ![w] = wk]
    BY DEF WorkerDone, Types, WorkerType
  <1> QED
    BY <1>1, <1>2, WorkerChanges

\* Every handler, worker and ticker step, start and crash keeps the types.
LEMMA TypesStep ==
    ASSUME Types, [Next]_vars
    PROVE  Types'
  <1> USE RelayAssumption DEF captureStore, ledger, process
  <1>0. /\ DueRow \in RowType /\ IdleTicker \in TickerType
        /\ [step |-> "list", ids |-> {}] \in TickerType
        /\ \A S \in SUBSET Ids : LeasesReturned(S) \in [Ids -> RowType]
    BY IdleTypes DEF TickerType, Types, LeasesReturned
  <1>1. ASSUME NEW S \in SUBSET Ids, Ensure(S)
        PROVE  row' \in [Ids -> RowType] /\ pendingIx' \subseteq Ids /\ inflightIx' \subseteq Ids
               /\ hasCounters' \in BOOLEAN
    BY <1>0, <1>1 DEF Ensure, Types
  <1>2. CASE OpenLedger
    <2>1. stored' \subseteq Ids /\ tallied' \subseteq stored'
      BY <1>2 DEF OpenLedger, StoreOpens, StoreRecovers, Types
    <2>2. row' \in [Ids -> RowType]
      BY <1>0, <1>2 DEF OpenLedger, Types, InState
    <2>3. pendingIx' \subseteq Ids
      BY <1>2 DEF OpenLedger, Types
    <2> QED
      BY <1>2, <2>1, <2>2, <2>3 DEF OpenLedger, Types
  <1>3. CASE CompareTotals
    BY <1>0, <1>3 DEF CompareTotals, StartTasks, Types
  <1>4. CASE Reconcile
    <2>1. CASE \A i \in stored : HasRow(i)
      BY <1>0, <1>4, <2>1 DEF Reconcile, StartTasks, Types
    <2>2. CASE ~\A i \in stored : HasRow(i)
      <3>1. PICK i \in stored : Ensure({i})
        BY <1>4, <2>2 DEF Reconcile
      <3>2. {i} \in SUBSET Ids
        BY <3>1 DEF Types
      <3> QED
        BY <1>1, <1>4, <2>2, <3>1, <3>2 DEF Reconcile, Types
    <2> QED
      BY <2>1, <2>2
  <1>5. ASSUME NEW i \in Ids, Submit(i) PROVE Types'
    BY <1>5 DEF Submit, Types
  <1>6. ASSUME NEW i \in Ids, EnsureRow(i) PROVE Types'
    BY <1>1, <1>6 DEF EnsureRow, Types
  <1>7. ASSUME NEW i \in Ids, Abandon(i) PROVE Types'
    BY <1>7 DEF Abandon, Types
  <1>8. ASSUME NEW i \in Ids, Acknowledge(i) PROVE Types'
    <2>1. queue' \in Seq(Ids) /\ Len(queue') <= QueueItems /\ scheduled' \subseteq Ids
      BY <1>8, QueueCaptureTypes DEF Acknowledge
    <2> QED
      BY <1>8, <2>1 DEF Acknowledge, Types
  <1>9. ASSUME NEW i \in Ids, TimePasses(i) PROVE Types'
    <2>1. row' \in [Ids -> RowType]
      BY <1>9 DEF TimePasses, Types, RowType
    <2> QED
      BY <1>9, <2>1 DEF TimePasses, Types
  <1>10. ASSUME NEW w \in Workers, Take(w) PROVE Types'
    <2> DEFINE wk == [worker[w] EXCEPT !.step = "took", !.took = @ \cup {Head(queue)}]
    <2>1. Head(queue) \in Ids /\ Tail(queue) \in Seq(Ids) /\ Len(Tail(queue)) = Len(queue) - 1
      BY <1>10, HeadTailProperties DEF Take, Types
    <2>2. wk \in WorkerType /\ WorkerSound(wk)
      BY <2>1 DEF Types, WorkerType, WorkerSound
    <2>3. worker' = [worker EXCEPT ![w] = wk]
      BY <1>10 DEF Take, Types, WorkerType
    <2>4. worker' \in [Workers -> WorkerType] /\ \A v \in Workers : WorkerSound(worker'[v])
      BY <2>2, <2>3, WorkerChanges
    <2>5. Len(queue) \in Nat /\ Len(Tail(queue)) <= QueueItems
      BY <2>1, LenProperties DEF Types
    <2> QED
      BY <1>10, <2>1, <2>4, <2>5 DEF Take, Types
  <1>11. ASSUME NEW w \in Workers, Claim(w) PROVE Types'
    <2> DEFINE mine == {i \in worker[w].took : Claimable(i)}
               wk == [worker[w] EXCEPT !.step = IF mine = {} THEN "done" ELSE "sending",
                                       !.held = mine]
    <2>1. mine \subseteq worker[w].took /\ mine \subseteq Ids
      BY DEF Types, WorkerType
    <2>2. /\ worker' = [worker EXCEPT ![w].step = IF mine = {} THEN "done" ELSE "sending",
                                      ![w].held = mine]
          /\ row' = [i \in Ids |-> IF i \in mine THEN [state |-> "inflight", due |-> FALSE]
                                   ELSE row[i]]
          /\ pendingIx' = pendingIx \ mine /\ inflightIx' = inflightIx \cup mine
      BY <1>11 DEF Claim
    <2> HIDE DEF mine
    <2>3. wk \in WorkerType /\ WorkerSound(wk)
      <3>1. worker[w] \in WorkerType
        BY DEF Types
      <3>2. mine \in SUBSET worker[w].took
        BY <2>1
      <3> QED
        BY <3>1, <3>2, WorkerClaims
    <2>4. worker' = [worker EXCEPT ![w] = wk]
      BY <2>2 DEF Types, WorkerType
    <2>5. worker' \in [Workers -> WorkerType] /\ \A v \in Workers : WorkerSound(worker'[v])
      BY <2>3, <2>4, WorkerChanges
    <2>6. row' \in [Ids -> RowType]
      BY <2>2 DEF Types, RowType, States
    <2> QED
      BY <1>11, <2>1, <2>2, <2>5, <2>6 DEF Claim, Types
  <1>12. ASSUME NEW w \in Workers, NEW o \in [worker[w].held -> Answers], Deliver(w, o)
         PROVE  Types'
    <2> DEFINE wk == [worker[w] EXCEPT !.step = "sent", !.outcome = o]
    <2>1. worker[w].held \in SUBSET Ids
      BY DEF Types, WorkerType
    <2>2. o \in UNION {[S -> Answers] : S \in SUBSET Ids}
      BY <2>1
    <2>3. wk \in WorkerType /\ WorkerSound(wk)
      BY <2>2 DEF Types, WorkerType, WorkerSound
    <2>4. worker' = [worker EXCEPT ![w] = wk]
      BY <1>12 DEF Deliver, Types, WorkerType
    <2>5. worker' \in [Workers -> WorkerType] /\ \A v \in Workers : WorkerSound(worker'[v])
      BY <2>3, <2>4, WorkerChanges
    <2>6. remote' \subseteq Ids
      BY <1>12, <2>1 DEF Deliver, Types
    <2> QED
      BY <1>12, <2>5, <2>6 DEF Deliver, Types
  <1>13. ASSUME NEW w \in Workers, Finish(w) PROVE Types'
    <2> DEFINE held == worker[w].held
    <2>1. held \subseteq Ids /\ worker[w].outcome \in [held -> Answers]
      BY <1>13 DEF Finish, Types, WorkerType, WorkerSound
    <2>2. /\ row' = [i \in Ids |-> IF i \in held THEN [state |-> worker[w].outcome[i], due |-> FALSE]
                                   ELSE row[i]]
          /\ pendingIx' = (pendingIx \ held) \cup {i \in held : worker[w].outcome[i] = "pending"}
          /\ inflightIx' = inflightIx \ held
      BY <1>13 DEF Finish
    <2>3. row' \in [Ids -> RowType]
      BY <2>1, <2>2 DEF Types, RowType, States, Settled, Answers
    <2>4. pendingIx' \subseteq Ids /\ inflightIx' \subseteq Ids
      BY <2>1, <2>2 DEF Types
    <2>5. worker' \in [Workers -> WorkerType] /\ \A v \in Workers : WorkerSound(worker'[v])
      BY <1>13, WorkerDoneTypes DEF Finish
    <2> QED
      BY <1>13, <2>3, <2>4, <2>5 DEF Finish, Types
  <1>14. ASSUME NEW w \in Workers, TransactionFails(w) PROVE Types'
    <2>1. worker' \in [Workers -> WorkerType] /\ \A v \in Workers : WorkerSound(worker'[v])
      BY <1>14, WorkerDoneTypes DEF TransactionFails
    <2>2. faults' \in 0 .. MaxFaults
      BY <1>14 DEF TransactionFails, Types
    <2> QED
      BY <1>14, <2>1, <2>2 DEF TransactionFails, Types
  <1>15. ASSUME NEW w \in Workers, Unschedule(w) PROVE Types'
    <2>1. worker' = [worker EXCEPT ![w] = IdleWorker]
      BY <1>15 DEF Unschedule
    <2>2. worker' \in [Workers -> WorkerType] /\ \A v \in Workers : WorkerSound(worker'[v])
      BY <2>1, IdleTypes, WorkerChanges
    <2> QED
      BY <1>15, <2>2 DEF Unschedule, Types
  <1>16. CASE Reclaim
    <2>1. PICK S \in Some(Expired, QueueItems) :
             /\ row' = LeasesReturned(S)
             /\ inflightIx' = inflightIx \ S
             /\ pendingIx' = pendingIx \cup S
             /\ ticker' = [step |-> IF S = {} THEN "list" ELSE "unschedule", ids |-> S]
      BY <1>16 DEF Reclaim
    <2>2. S \in SUBSET Ids
      BY <2>1 DEF Some, Expired, Types
    <2>3. ticker' \in TickerType
      BY <2>1, <2>2 DEF TickerType
    <2> QED
      BY <1>0, <1>16, <2>1, <2>2, <2>3 DEF Reclaim, Types
  <1>17. CASE UnscheduleReclaimed
    <2>1. ticker' \in TickerType
      BY <1>17 DEF UnscheduleReclaimed, Types, TickerType
    <2> QED
      BY <1>17, <2>1 DEF UnscheduleReclaimed, Types
  <1>18. ASSUME NEW S \in SUBSET Ids, ListPending(S) PROVE Types'
    <2>1. ticker' \in TickerType
      BY <1>18 DEF ListPending, TickerType
    <2> QED
      BY <1>18, <2>1 DEF ListPending, Types
  <1>19. ASSUME NEW S \in SUBSET Ids, Requeue(S) PROVE Types'
    BY <1>0, <1>19 DEF Requeue, Types
  <1>20. ASSUME NEW i \in Ids, QueueListed(i) PROVE Types'
    <2>1. queue' \in Seq(Ids) /\ Len(queue') <= QueueItems /\ scheduled' \subseteq Ids
      BY <1>20, QueueCaptureTypes DEF QueueListed
    <2>2. ticker' \in TickerType
      BY <1>20 DEF QueueListed, AfterStep, Types, TickerType
    <2> QED
      BY <1>20, <2>1, <2>2 DEF QueueListed, Types
  <1>21. CASE Crash
    <2>1. worker' \in [Workers -> WorkerType] /\ \A v \in Workers : WorkerSound(worker'[v])
      BY <1>21, IdleTypes DEF Crash
    <2>2. queue' \in Seq(Ids) /\ Len(queue') <= QueueItems
      BY <1>21 DEF Crash
    <2>3. faults' \in 0 .. MaxFaults
      BY <1>21 DEF Crash, Types
    <2> QED
      BY <1>0, <1>21, <2>1, <2>2, <2>3 DEF Crash, Types
  <1>22. CASE StoreKilled
    BY <1>22 DEF StoreKilled, StoreRecovers, Types
  <1>23. CASE UNCHANGED vars
    BY <1>23 DEF vars, Types
  <1> QED
    BY <1>2, <1>3, <1>4, <1>5, <1>6, <1>7, <1>8, <1>9, <1>10, <1>11, <1>12, <1>13, <1>14,
       <1>15, <1>16, <1>17, <1>18, <1>19, <1>20, <1>21, <1>22, <1>23 DEF Next

\* The initial state is well formed.
LEMMA InitTypes == Init => Types
  <1> SUFFICES ASSUME Init PROVE Types
    OBVIOUS
  <1>1. row \in [Ids -> RowType]
    <2>1. [state |-> "inflight", due |-> FALSE] \in RowType
      BY DEF RowType, States
    <2> QED
      BY <2>1, IdleTypes DEF Init
  <1>2. /\ worker \in [Workers -> WorkerType] /\ \A w \in Workers : WorkerSound(worker[w])
        /\ ticker \in TickerType
    BY IdleTypes DEF Init
  <1>3. queue \in Seq(Ids) /\ Len(queue) <= QueueItems
    BY RelayAssumption DEF Init
  <1>4. faults \in 0 .. MaxFaults
    BY RelayAssumption DEF Init
  <1> QED
    BY <1>1, <1>2, <1>3, <1>4 DEF Init, Types

-----------------------------------------------------------------------------
(***************************************************************************)
(* The ledger.                                                             *)
(***************************************************************************)

\* A ledger in use has counters, one that has none has counted nothing.
CountersKept ==
    /\ ~hasCounters => counters = [st \in States \cup {"total"} |-> 0]
    /\ status # "down" => hasCounters

\* A transaction that moves the rows of S, and the index entries with them, to
\* the state st (in an index of its own, or in none) leaves all in agreement.
LEMMA Agree ==
    ASSUME LedgerConsistent, hasCounters, hasCounters',
           counters' = Recounted(row'),
           \A i \in Ids : HasRow(i) => HasRow(i)',
           pendingIx' = {i \in Ids : row'[i].state = "pending"},
           inflightIx' = {i \in Ids : row'[i].state = "inflight"}
    PROVE  LedgerConsistent'
  <1>1. Recounted(row') = CountersOf(row')
    BY RecountIsCount DEF LedgerConsistent, HasRow
  <1> QED
    BY <1>1 DEF LedgerConsistent, InState

\* ensure_many adds pending rows only.
LEMMA EnsureAgrees ==
    ASSUME Types, LedgerConsistent, hasCounters, NEW S \in SUBSET Ids, Ensure(S)
    PROVE  LedgerConsistent' /\ \A i \in Ids : HasRow(i) => row'[i] = row[i]
  <1>1. \A i \in Ids : row'[i] = IF i \in S /\ ~HasRow(i) THEN DueRow ELSE row[i]
    BY DEF Ensure
  <1>2. pendingIx' = pendingIx \cup {i \in S : ~HasRow(i)}
    BY DEF Ensure
  <1>3. inflightIx' = inflightIx /\ hasCounters' /\ counters' = Recounted(row')
    BY DEF Ensure
  <1>4. pendingIx = InState("pending") /\ inflightIx = InState("inflight")
    BY DEF LedgerConsistent
  <1>5. pendingIx' = {i \in Ids : row'[i].state = "pending"}
    BY <1>1, <1>2, <1>4 DEF InState, DueRow, HasRow
  <1>6. inflightIx' = {i \in Ids : row'[i].state = "inflight"}
    BY <1>1, <1>3, <1>4 DEF InState, DueRow, HasRow
  <1>7. \A i \in Ids : HasRow(i) => HasRow(i)'
    BY <1>1 DEF HasRow, DueRow
  <1> QED
    BY <1>1, <1>3, <1>5, <1>6, <1>7, Agree

\* Rows that return to pending, out of the index they were in.
LEMMA ReturnAgrees ==
    ASSUME Types, LedgerConsistent, hasCounters, hasCounters', NEW S \in SUBSET Ids,
           S \subseteq InState("inflight") \/ S \subseteq InState("failed"),
           row' = LeasesReturned(S), counters' = Recounted(row'),
           pendingIx' = pendingIx \cup S, inflightIx' = inflightIx \ S
    PROVE  LedgerConsistent'
  <1>1. \A i \in Ids : row'[i] = IF i \in S THEN DueRow ELSE row[i]
    BY DEF LeasesReturned
  <1>2. pendingIx = InState("pending") /\ inflightIx = InState("inflight")
    BY DEF LedgerConsistent
  <1>3. pendingIx' = {i \in Ids : row'[i].state = "pending"}
    BY <1>1, <1>2 DEF InState, DueRow
  <1>4. inflightIx' = {i \in Ids : row'[i].state = "inflight"}
    BY <1>1, <1>2 DEF InState, DueRow
  <1>5. \A i \in Ids : HasRow(i) => HasRow(i)'
    BY <1>1 DEF HasRow, DueRow
  <1> QED
    BY <1>3, <1>4, <1>5, Agree

\* Whatever races, lost leases and crashes come, the counters and the indexes
\* follow the rows.
LEMMA LedgerStep ==
    ASSUME Types, LedgerConsistent, CountersKept, [Next]_vars
    PROVE  LedgerConsistent' /\ CountersKept' /\ \A i \in Ids : HasRow(i) => HasRow(i)'
  <1> DEFINE Goal == LedgerConsistent' /\ CountersKept' /\ \A i \in Ids : HasRow(i) => HasRow(i)'
  <1>1. ASSUME UNCHANGED ledger, status' # "down" => hasCounters
        PROVE  Goal
    <2>1. /\ row' = row /\ pendingIx' = pendingIx /\ inflightIx' = inflightIx
          /\ counters' = counters /\ hasCounters' = hasCounters
      BY <1>1 DEF ledger
    <2>2. LedgerConsistent'
      BY <2>1 DEF LedgerConsistent, InState
    <2> QED
      BY <1>1, <2>1, <2>2 DEF CountersKept, HasRow
  <1>2. ASSUME hasCounters, NEW S \in SUBSET Ids, Ensure(S)
        PROVE  Goal
    <2>1. hasCounters'
      BY <1>2 DEF Ensure
    <2> QED
      BY <1>2, <2>1, EnsureAgrees DEF HasRow, CountersKept
  <1>3. CASE OpenLedger
    <2>1. hasCounters'
      BY <1>3 DEF OpenLedger
    <2>2. CASE FastStartup
      <3>1. hasCounters /\ inflightIx = InState("inflight") /\ inflightIx \in SUBSET Ids
        BY <2>2 DEF FastStartup, LedgerConsistent, Types
      <3>2. /\ row' = LeasesReturned(inflightIx) /\ counters' = Recounted(row')
            /\ pendingIx' = pendingIx \cup inflightIx /\ inflightIx' = inflightIx \ inflightIx
        BY <1>3, <2>2 DEF OpenLedger
      <3>3. LedgerConsistent'
        BY <2>1, <3>1, <3>2, ReturnAgrees
      <3> QED
        BY <2>1, <3>2, <3>3 DEF CountersKept, LeasesReturned, HasRow, DueRow
    <2>3. CASE ~FastStartup
      <3>1. /\ row' = LeasesReturned(InState("inflight"))
            /\ counters' = CountersOf(row')
            /\ pendingIx' = {i \in Ids : row'[i].state = "pending"}
            /\ inflightIx' = {}
        BY <1>3, <2>3 DEF OpenLedger
      <3>2. \A i \in Ids : row'[i] = IF row[i].state = "inflight" THEN DueRow ELSE row[i]
        BY <3>1 DEF LeasesReturned, InState
      <3>3. inflightIx' = {i \in Ids : row'[i].state = "inflight"}
        BY <3>1, <3>2 DEF DueRow
      <3>4. LedgerConsistent'
        BY <3>1, <3>3 DEF LedgerConsistent, InState
      <3> QED
        BY <2>1, <3>2, <3>4 DEF CountersKept, HasRow, DueRow
    <2> QED
      BY <2>2, <2>3
  <1>4. CASE CompareTotals
    BY <1>1, <1>4 DEF CompareTotals, CountersKept
  <1>5. CASE Reconcile
    <2>1. CASE \A i \in stored : HasRow(i)
      BY <1>1, <1>5, <2>1 DEF Reconcile, CountersKept
    <2>2. CASE ~\A i \in stored : HasRow(i)
      <3>1. PICK i \in stored : Ensure({i})
        BY <1>5, <2>2 DEF Reconcile
      <3>2. {i} \in SUBSET Ids /\ hasCounters
        BY <1>5, <3>1 DEF Types, CountersKept, Reconcile
      <3> QED
        BY <1>2, <3>1, <3>2
    <2> QED
      BY <2>1, <2>2
  <1>6. ASSUME NEW i \in Ids, Submit(i) \/ Abandon(i) \/ Acknowledge(i) PROVE Goal
    BY <1>1, <1>6 DEF Submit, Abandon, Acknowledge, CountersKept
  <1>7. ASSUME NEW i \in Ids, EnsureRow(i) PROVE Goal
    BY <1>2, <1>7 DEF EnsureRow, CountersKept, Up
  <1>8. ASSUME NEW i \in Ids, TimePasses(i) PROVE Goal
    <2>1. \A j \in Ids : row'[j].state = row[j].state
      BY <1>8 DEF TimePasses, Types, RowType
    <2>2. UNCHANGED <<pendingIx, inflightIx, counters, hasCounters, status>>
      BY <1>8 DEF TimePasses, process
    <2>3. CountersOf(row') = CountersOf(row)
      BY <2>1 DEF CountersOf
    <2> QED
      BY <2>1, <2>2, <2>3 DEF LedgerConsistent, CountersKept, InState, HasRow
  <1>9. ASSUME NEW w \in Workers,
               Take(w) \/ TransactionFails(w) \/ Unschedule(w)
               \/ \E o \in [worker[w].held -> Answers] : Deliver(w, o)
        PROVE Goal
    BY <1>1, <1>9 DEF Take, TransactionFails, Unschedule, Deliver, CountersKept
  <1>10. ASSUME NEW w \in Workers, Claim(w) PROVE Goal
    <2>1. PICK mine \in SUBSET Ids :
             /\ \A i \in mine : row[i] = DueRow
             /\ row' = [i \in Ids |-> IF i \in mine THEN [state |-> "inflight", due |-> FALSE]
                                      ELSE row[i]]
             /\ pendingIx' = pendingIx \ mine /\ inflightIx' = inflightIx \cup mine
      <3> DEFINE m == {i \in worker[w].took : Claimable(i)}
      <3>1. m \in SUBSET Ids /\ \A i \in m : row[i] = DueRow
        BY DEF Types, WorkerType, Claimable
      <3> QED
        BY <1>10, <3>1 DEF Claim
    <2>2. counters' = Recounted(row') /\ UNCHANGED <<hasCounters, status>> /\ hasCounters
      BY <1>10 DEF Claim, CountersKept, Up
    <2>3. pendingIx = InState("pending") /\ inflightIx = InState("inflight")
      BY <2>2 DEF LedgerConsistent
    <2>4. pendingIx' = {i \in Ids : row'[i].state = "pending"}
      BY <2>1, <2>3 DEF InState, DueRow
    <2>5. inflightIx' = {i \in Ids : row'[i].state = "inflight"}
      BY <2>1, <2>3 DEF InState, DueRow
    <2>6. \A i \in Ids : HasRow(i) => HasRow(i)'
      BY <2>1 DEF HasRow
    <2> QED
      BY <2>2, <2>4, <2>5, <2>6, Agree DEF CountersKept
  <1>11. ASSUME NEW w \in Workers, Finish(w) PROVE Goal
    <2> DEFINE held == worker[w].held
               outcome == worker[w].outcome
    <2>1. held \subseteq Ids /\ outcome \in [held -> Answers]
      BY <1>11 DEF Finish, Types, WorkerType, WorkerSound
    <2>2. /\ \A i \in Ids : row'[i] = IF i \in held THEN [state |-> outcome[i], due |-> FALSE]
                                     ELSE row[i]
          /\ pendingIx' = (pendingIx \ held) \cup {i \in held : outcome[i] = "pending"}
          /\ inflightIx' = inflightIx \ held
      BY <1>11 DEF Finish
    <2>3. counters' = Recounted(row') /\ UNCHANGED <<hasCounters, status>> /\ hasCounters
      BY <1>11 DEF Finish, CountersKept, Up
    <2>4. pendingIx = InState("pending") /\ inflightIx = InState("inflight")
      BY <2>3 DEF LedgerConsistent
    <2> HIDE DEF held, outcome
    <2>a. \A i \in Ids : row'[i].state = IF i \in held THEN outcome[i] ELSE row[i].state
      <3>1. TAKE i \in Ids
      <3>2. row'[i] = IF i \in held THEN [state |-> outcome[i], due |-> FALSE] ELSE row[i]
        BY <2>2
      <3>3. CASE i \in held
        BY <3>2, <3>3
      <3>4. CASE i \notin held
        BY <3>2, <3>4
      <3> QED
        BY <3>3, <3>4
    <2>5. pendingIx' = {i \in Ids : row'[i].state = "pending"}
      BY <2>1, <2>2, <2>a, <2>4 DEF InState
    <2>6. \A i \in held : outcome[i] # "inflight" /\ outcome[i] # "none"
      BY <2>1 DEF Answers
    <2>7. inflightIx' = {i \in Ids : row'[i].state = "inflight"}
      BY <2>1, <2>2, <2>a, <2>4, <2>6 DEF InState
    <2>8. \A i \in Ids : HasRow(i) => HasRow(i)'
      BY <2>a, <2>6 DEF HasRow
    <2> QED
      BY <2>3, <2>5, <2>7, <2>8, Agree DEF CountersKept
  <1>12. CASE Reclaim
    <2>1. PICK S \in Some(Expired, QueueItems) :
             row' = LeasesReturned(S) /\ inflightIx' = inflightIx \ S /\ pendingIx' = pendingIx \cup S
      BY <1>12 DEF Reclaim
    <2>2. counters' = Recounted(row') /\ UNCHANGED <<hasCounters, status>> /\ hasCounters
      BY <1>12 DEF Reclaim, CountersKept, Up
    <2>3. S \in SUBSET Ids /\ S \subseteq InState("inflight")
      BY <2>1, <2>2 DEF Some, Expired, LedgerConsistent, Types
    <2>4. LedgerConsistent'
      BY <2>1, <2>2, <2>3, ReturnAgrees
    <2> QED
      BY <2>1, <2>2, <2>4 DEF CountersKept, LeasesReturned, HasRow, DueRow
  <1>13. CASE UnscheduleReclaimed
    BY <1>1, <1>13 DEF UnscheduleReclaimed, CountersKept
  <1>14. ASSUME NEW S \in SUBSET Ids, ListPending(S) PROVE Goal
    BY <1>1, <1>14 DEF ListPending, CountersKept
  <1>15. ASSUME NEW S \in SUBSET Ids, Requeue(S) PROVE Goal
    <2>1. /\ row' = LeasesReturned(S) /\ pendingIx' = pendingIx \cup S /\ inflightIx' = inflightIx
          /\ S \subseteq InState("failed")
      BY <1>15 DEF Requeue
    <2>2. counters' = Recounted(row') /\ UNCHANGED <<hasCounters, status>> /\ hasCounters
      BY <1>15 DEF Requeue, CountersKept, Up, process
    <2>3. inflightIx' = inflightIx \ S
      BY <2>1, <2>2 DEF LedgerConsistent, InState
    <2>4. LedgerConsistent'
      BY <2>1, <2>2, <2>3, ReturnAgrees
    <2> QED
      BY <2>1, <2>2, <2>4 DEF CountersKept, LeasesReturned, HasRow, DueRow
  <1>16. ASSUME NEW i \in Ids, QueueListed(i) PROVE Goal
    BY <1>1, <1>16 DEF QueueListed, CountersKept
  <1>17. CASE Crash
    BY <1>1, <1>17 DEF Crash
  <1>18. CASE StoreKilled
    BY <1>1, <1>18 DEF StoreKilled, process
  <1>19. CASE UNCHANGED vars
    BY <1>1, <1>19 DEF vars, process, CountersKept
  <1> QED
    BY <1>3, <1>4, <1>5, <1>6, <1>7, <1>8, <1>9, <1>10, <1>11, <1>12, <1>13, <1>14,
       <1>15, <1>16, <1>17, <1>18, <1>19 DEF Next

-----------------------------------------------------------------------------
(***************************************************************************)
(* Acknowledgements and receipts.                                          *)
(***************************************************************************)

\* A request has its capture in the store before it asks for a row, and its
\* row before it is acknowledged.
HandlersKnow ==
    \A i \in Ids :
        /\ handler[i] # "none" => i \in stored
        /\ handler[i] = "queue" => HasRow(i)

\* Rows are of stored captures, and a worker holds ids that have rows.
RowsStored == \A i \in Ids : HasRow(i) => i \in stored
HeldHaveRows == \A w \in Workers : \A i \in worker[w].held : HasRow(i)

\* The outcome a worker is about to write is true of the Collector.
ReceiptsTrue ==
    \A w \in Workers : worker[w].step = "sent" =>
        \A i \in worker[w].held : worker[w].outcome[i] = "delivered" => i \in remote

AckInv ==
    /\ Types /\ LedgerConsistent /\ CountersKept
    /\ HandlersKnow /\ RowsStored /\ HeldHaveRows /\ AckedHasDelivery
    /\ ReceiptsTrue /\ DeliveredIsRemote

\* Nothing but ensure_many makes a row, and it asks for stored captures only.
LEMMA NewRowsStored ==
    ASSUME AckInv, [Next]_vars
    PROVE  \A i \in Ids : HasRow(i)' => HasRow(i) \/ i \in stored
  <1> SUFFICES ASSUME NEW j \in Ids, HasRow(j)', ~HasRow(j) PROVE j \in stored
    OBVIOUS
  <1>0. row[j].state = "none" /\ row'[j] # row[j]
    BY DEF HasRow
  <1>1. ASSUME NEW S, S \subseteq {i \in Ids : HasRow(i)} PROVE row' # LeasesReturned(S)
    BY <1>0, <1>1 DEF LeasesReturned, HasRow
  <1>2. CASE OpenLedger
    <2>1. \A i \in InState("inflight") : HasRow(i)
      BY DEF InState, HasRow
    <2>2. FastStartup => inflightIx \subseteq InState("inflight")
      BY DEF FastStartup
    <2>3. InState("inflight") \subseteq Ids
      BY DEF InState
    <2>4. \/ row' = LeasesReturned(inflightIx) /\ FastStartup
          \/ row' = LeasesReturned(InState("inflight"))
      BY <1>2 DEF OpenLedger
    <2> QED
      BY <1>1, <2>1, <2>2, <2>3, <2>4
  <1>3. ASSUME NEW S, Ensure(S) PROVE j \in S
    BY <1>0, <1>3 DEF Ensure
  <1>4. CASE Reconcile
    BY <1>0, <1>3, <1>4 DEF Reconcile, ledger
  <1>5. ASSUME NEW i \in Ids, EnsureRow(i) PROVE j \in stored
    BY <1>3, <1>5 DEF EnsureRow, AckInv, HandlersKnow
  <1>6. ASSUME NEW i \in Ids, TimePasses(i) PROVE j \in stored
    BY <1>0, <1>6 DEF TimePasses, AckInv, Types
  <1>7. ASSUME NEW w \in Workers, Claim(w) PROVE j \in stored
    BY <1>0, <1>7 DEF Claim, Claimable, DueRow
  <1>8. ASSUME NEW w \in Workers, Finish(w) PROVE j \in stored
    BY <1>0, <1>8 DEF Finish, AckInv, HeldHaveRows, HasRow
  <1>9. CASE Reclaim
    <2>1. PICK S \in Some(Expired, QueueItems) : row' = LeasesReturned(S)
      BY <1>9 DEF Reclaim
    <2>2. hasCounters
      BY <1>9 DEF Reclaim, Up, AckInv, CountersKept
    <2>3. S \subseteq {i \in Ids : HasRow(i)}
      BY <2>1, <2>2 DEF Some, Expired, AckInv, LedgerConsistent, InState, HasRow
    <2> QED
      BY <1>1, <2>1, <2>3
  <1>10. ASSUME NEW S \in SUBSET Ids, Requeue(S) PROVE j \in stored
    BY <1>1, <1>10 DEF Requeue, InState, HasRow
  <1>11. CASE UNCHANGED row
    BY <1>0, <1>11
  <1> QED
    BY <1>2, <1>4, <1>5, <1>6, <1>7, <1>8, <1>9, <1>10, <1>11
    DEF Next, vars, ledger, StoreKilled, CompareTotals, Submit, Abandon, Acknowledge, Take,
        Deliver, TransactionFails, Unschedule, UnscheduleReclaimed, ListPending, QueueListed,
        Crash

\* What a worker comes to hold it has just claimed, it alone.
Claimed(w, i) ==
    /\ Claim(w) /\ row[i] = DueRow /\ row'[i] = [state |-> "inflight", due |-> FALSE]
    /\ \A v \in Workers \ {w} : worker'[v] = worker[v]

LEMMA HeldIsClaimed ==
    ASSUME Types, [Next]_vars
    PROVE  \A w \in Workers : \A i \in worker'[w].held : i \in worker[w].held \/ Claimed(w, i)
  <1>1. ASSUME NEW w \in Workers, Claim(w)
        PROVE  \A v \in Workers : \A i \in worker'[v].held : i \in worker[v].held \/ Claimed(v, i)
    <2>1. \A v \in Workers \ {w} : worker'[v] = worker[v]
      BY <1>1 DEF Claim, Types
    <2>2. ASSUME NEW i \in worker'[w].held PROVE Claimed(w, i)
      <3>1. i \in worker[w].took /\ Claimable(i) /\ i \in Ids
        BY <1>1, <2>2 DEF Claim, Types, WorkerType
      <3>2. row'[i] = [state |-> "inflight", due |-> FALSE]
        BY <1>1, <3>1 DEF Claim
      <3> QED
        BY <1>1, <2>1, <3>1, <3>2 DEF Claimed, Claimable
    <2> QED
      BY <2>1, <2>2
  <1>2. ASSUME NEW w \in Workers,
               Take(w) \/ Finish(w) \/ TransactionFails(w) \/ Unschedule(w)
               \/ \E o \in [worker[w].held -> Answers] : Deliver(w, o)
        PROVE  \A v \in Workers : worker'[v].held \subseteq worker[v].held
    <2>1. worker[w] \in WorkerType /\ worker \in [Workers -> WorkerType]
      BY DEF Types
    <2>2. \A v \in Workers \ {w} : worker'[v] = worker[v]
      BY <1>2, <2>1 DEF Take, Finish, TransactionFails, Unschedule, Deliver, WorkerDone
    <2>3. worker'[w].held \subseteq worker[w].held
      <3>1. CASE Take(w)
        BY <2>1, <3>1 DEF Take, WorkerType
      <3>2. CASE Finish(w) \/ TransactionFails(w)
        BY <2>1, <3>2 DEF Finish, TransactionFails, WorkerDone, WorkerType
      <3>3. CASE Unschedule(w)
        BY <2>1, <3>3 DEF Unschedule, IdleWorker, WorkerType
      <3>4. CASE \E o \in [worker[w].held -> Answers] : Deliver(w, o)
        BY <2>1, <3>4 DEF Deliver, WorkerType
      <3> QED
        BY <1>2, <3>1, <3>2, <3>3, <3>4
    <2> QED
      BY <2>2, <2>3
  <1>3. CASE Crash
    BY <1>3 DEF Crash, IdleWorker
  <1>4. CASE UNCHANGED worker
    BY <1>4
  <1> QED
    BY <1>1, <1>2, <1>3, <1>4
    DEF Next, vars, process, StoreKilled, OpenLedger, CompareTotals, Reconcile, Submit,
        EnsureRow, Abandon, Acknowledge, TimePasses, Reclaim, UnscheduleReclaimed, ListPending,
        Requeue, QueueListed

\* Stored captures stay stored, and handlers go one step at a time.
LEMMA HandlersMove ==
    ASSUME Types, [Next]_vars
    PROVE  /\ stored \subseteq stored'
           /\ \A i \in Ids : handler'[i] # "none" =>
                 handler'[i] = handler[i] \/ Submit(i) \/ EnsureRow(i)
           /\ \A i \in acked' : i \in acked \/ Acknowledge(i)
  <1>1. CASE OpenLedger \/ StoreKilled
    BY <1>1 DEF OpenLedger, StoreOpens, StoreRecovers, StoreKilled, process
  <1>2. ASSUME NEW i \in Ids, Submit(i) \/ EnsureRow(i) \/ Abandon(i) \/ Acknowledge(i)
        PROVE  /\ stored \subseteq stored'
               /\ \A j \in Ids \ {i} : handler'[j] = handler[j]
               /\ Submit(i) \/ EnsureRow(i) \/ handler'[i] = "none"
               /\ (Acknowledge(i) /\ acked' = acked \cup {i}) \/ acked' = acked
    BY <1>2 DEF Submit, EnsureRow, Abandon, Acknowledge, Types, captureStore
  <1>3. CASE Crash
    BY <1>3 DEF Crash, captureStore
  <1>4. CASE UNCHANGED <<stored, handler, acked>>
    BY <1>4
  <1> QED
    BY <1>1, <1>2, <1>3, <1>4
    DEF Next, vars, captureStore, process, CompareTotals, Reconcile, TimePasses, Take, Claim,
        Deliver, Finish, TransactionFails, Unschedule, Reclaim, UnscheduleReclaimed,
        ListPending, Requeue, QueueListed

\* Requests: what was acknowledged has a row, for ever.
LEMMA AckStep ==
    ASSUME AckInv, [Next]_vars
    PROVE  HandlersKnow' /\ RowsStored' /\ HeldHaveRows' /\ AckedHasDelivery'
  <1>0. Types /\ Types'
    BY TypesStep DEF AckInv
  <1>1. \A i \in Ids : HasRow(i) => HasRow(i)'
    BY LedgerStep DEF AckInv
  <1>2. /\ stored \subseteq stored'
        /\ \A i \in Ids : handler'[i] # "none" =>
              handler'[i] = handler[i] \/ Submit(i) \/ EnsureRow(i)
        /\ \A i \in acked' : i \in acked \/ Acknowledge(i)
    BY <1>0, HandlersMove
  <1>3. HandlersKnow'
    <2> SUFFICES ASSUME NEW i \in Ids, handler'[i] # "none"
                 PROVE  i \in stored' /\ (handler'[i] = "queue" => HasRow(i)')
      BY DEF HandlersKnow
    <2>1. CASE handler'[i] = handler[i]
      BY <1>1, <1>2, <2>1 DEF AckInv, HandlersKnow
    <2>2. CASE Submit(i)
      BY <1>0, <2>2 DEF Submit, Types
    <2>3. CASE EnsureRow(i)
      <3>1. HasRow(i)'
        BY <2>3 DEF EnsureRow, Ensure, HasRow, DueRow
      <3>2. i \in stored
        BY <2>3 DEF EnsureRow, AckInv, HandlersKnow
      <3> QED
        BY <1>2, <3>1, <3>2
    <2> QED
      BY <1>2, <2>1, <2>2, <2>3
  <1>4. RowsStored'
    BY <1>2, NewRowsStored DEF RowsStored, AckInv
  <1>5. HeldHaveRows'
    <2> SUFFICES ASSUME NEW w \in Workers, NEW i \in worker'[w].held PROVE HasRow(i)'
      BY DEF HeldHaveRows
    <2>1. i \in Ids
      BY <1>0 DEF Types, WorkerType
    <2>2. i \in worker[w].held \/ row[i] = DueRow
      BY <1>0, HeldIsClaimed DEF Claimed
    <2>3. HasRow(i)
      BY <2>2 DEF AckInv, HeldHaveRows, HasRow, DueRow
    <2> QED
      BY <1>1, <2>1, <2>3
  <1>6. AckedHasDelivery'
    <2> SUFFICES ASSUME NEW i \in acked' PROVE i \in stored' /\ HasRow(i)'
      BY DEF AckedHasDelivery
    <2>1. i \in Ids
      BY <1>0 DEF Types
    <2>2. i \in stored /\ HasRow(i)
      BY <1>2, <2>1 DEF AckInv, AckedHasDelivery, Acknowledge, HandlersKnow
    <2> QED
      BY <1>1, <1>2, <2>1, <2>2
  <1> QED
    BY <1>3, <1>4, <1>5, <1>6

\* Rows: "delivered" is written on a receipt only, and the Collector keeps
\* what it has.
LEMMA DeliveredStep ==
    ASSUME AckInv, [Next]_vars
    PROVE  ReceiptsTrue' /\ DeliveredIsRemote'
  <1> USE DEF AckInv
  <1>1. ASSUME UNCHANGED <<worker, remote>>,
               \A i \in Ids : row'[i].state = "delivered" => row[i].state = "delivered"
        PROVE  ReceiptsTrue' /\ DeliveredIsRemote'
    BY <1>1 DEF ReceiptsTrue, DeliveredIsRemote
  <1>2. ASSUME NEW S, row' = LeasesReturned(S)
        PROVE  \A i \in Ids : row'[i].state = "delivered" => row[i].state = "delivered"
    BY <1>2 DEF LeasesReturned, DueRow
  <1>3. ASSUME NEW S, Ensure(S)
        PROVE  \A i \in Ids : row'[i].state = "delivered" => row[i].state = "delivered"
    BY <1>3 DEF Ensure, DueRow
  <1>4. CASE OpenLedger
    BY <1>1, <1>2, <1>4 DEF OpenLedger
  <1>5. CASE Reconcile
    BY <1>1, <1>3, <1>5 DEF Reconcile, ledger
  <1>6. ASSUME NEW i \in Ids, EnsureRow(i) PROVE ReceiptsTrue' /\ DeliveredIsRemote'
    BY <1>1, <1>3, <1>6 DEF EnsureRow
  <1>7. ASSUME NEW i \in Ids, TimePasses(i) PROVE ReceiptsTrue' /\ DeliveredIsRemote'
    BY <1>1, <1>7 DEF TimePasses, process, Types, RowType
  <1>8. CASE Reclaim
    BY <1>1, <1>2, <1>8 DEF Reclaim
  <1>9. ASSUME NEW S \in SUBSET Ids, Requeue(S) PROVE ReceiptsTrue' /\ DeliveredIsRemote'
    BY <1>1, <1>2, <1>9 DEF Requeue, process
  <1>10. ASSUME NEW w \in Workers, Claim(w) PROVE ReceiptsTrue' /\ DeliveredIsRemote'
    <2>1. \A i \in Ids : row'[i].state = "delivered" => row[i].state = "delivered"
      BY <1>10 DEF Claim
    <2>2. \A v \in Workers : v # w => worker'[v] = worker[v]
      BY <1>10 DEF Claim, Types
    <2>3. worker'[w].step # "sent" /\ remote' = remote
      BY <1>10 DEF Claim, Types, WorkerType
    <2> QED
      BY <2>1, <2>2, <2>3 DEF ReceiptsTrue, DeliveredIsRemote
  <1>11. ASSUME NEW w \in Workers, NEW o \in [worker[w].held -> Answers], Deliver(w, o)
         PROVE  ReceiptsTrue' /\ DeliveredIsRemote'
    <2>1. row' = row /\ remote \subseteq remote'
      BY <1>11 DEF Deliver, ledger
    <2>2. \A v \in Workers : v # w => worker'[v] = worker[v]
      BY <1>11 DEF Deliver, Types
    <2>3. worker'[w].held = worker[w].held /\ worker'[w].outcome = o
      BY <1>11 DEF Deliver, Types, WorkerType
    <2>4. \A i \in worker[w].held : o[i] = "delivered" => i \in remote'
      BY <1>11 DEF Deliver, Answered
    <2> QED
      BY <2>1, <2>2, <2>3, <2>4 DEF ReceiptsTrue, DeliveredIsRemote
  <1>12. ASSUME NEW w \in Workers, Finish(w) PROVE ReceiptsTrue' /\ DeliveredIsRemote'
    <2>1. \A v \in Workers : v # w => worker'[v] = worker[v]
      BY <1>12 DEF Finish, WorkerDone, Types
    <2>2. worker'[w].step # "sent" /\ remote' = remote
      BY <1>12 DEF Finish, WorkerDone, Types, WorkerType
    <2>3. \A i \in Ids : row'[i] = IF i \in worker[w].held
                                  THEN [state |-> worker[w].outcome[i], due |-> FALSE] ELSE row[i]
      BY <1>12 DEF Finish
    <2>4. worker[w].step = "sent"
      BY <1>12 DEF Finish
    <2>5. DeliveredIsRemote'
      <3> SUFFICES ASSUME NEW i \in Ids, row'[i].state = "delivered" PROVE i \in remote'
        BY DEF DeliveredIsRemote
      <3>1. CASE i \in worker[w].held
        <4>1. row'[i] = [state |-> worker[w].outcome[i], due |-> FALSE]
          BY <2>3, <3>1
        <4>2. worker[w].outcome[i] = "delivered"
          BY <4>1
        <4> QED
          BY <2>2, <2>4, <3>1, <4>2 DEF ReceiptsTrue
      <3>2. CASE i \notin worker[w].held
        <4>1. row[i].state = "delivered"
          BY <2>3, <3>2
        <4> QED
          BY <2>2, <4>1 DEF DeliveredIsRemote
      <3> QED
        BY <3>1, <3>2
    <2> QED
      BY <2>1, <2>2, <2>5 DEF ReceiptsTrue
  <1>13. ASSUME NEW w \in Workers, Take(w) \/ TransactionFails(w) \/ Unschedule(w)
         PROVE  ReceiptsTrue' /\ DeliveredIsRemote'
    <2>1. row' = row /\ remote' = remote
      BY <1>13 DEF Take, TransactionFails, Unschedule, ledger
    <2>2. worker'[w].step # "sent" /\ \A v \in Workers : v # w => worker'[v] = worker[v]
      BY <1>13 DEF Take, TransactionFails, Unschedule, WorkerDone, IdleWorker, Types, WorkerType
    <2> QED
      BY <2>1, <2>2 DEF ReceiptsTrue, DeliveredIsRemote
  <1>14. CASE Crash
    BY <1>14 DEF Crash, ledger, IdleWorker, ReceiptsTrue, DeliveredIsRemote
  <1>15. CASE UNCHANGED <<row, worker, remote>>
    BY <1>1, <1>15
  <1> QED
    BY <1>4, <1>5, <1>6, <1>7, <1>8, <1>9, <1>10, <1>11, <1>12, <1>13, <1>14, <1>15
    DEF Next, vars, ledger, process, StoreKilled, CompareTotals, Submit, Abandon, Acknowledge,
        UnscheduleReclaimed, ListPending, QueueListed

LEMMA InitAckInv == Init => AckInv
  <1> SUFFICES ASSUME Init PROVE AckInv
    OBVIOUS
  <1>1. Types
    BY InitTypes
  <1>2. LedgerConsistent /\ CountersKept
    BY DEF Init, LedgerConsistent, CountersKept
  <1>3. HandlersKnow /\ RowsStored /\ HeldHaveRows /\ AckedHasDelivery
    BY DEF Init, HandlersKnow, RowsStored, HeldHaveRows, AckedHasDelivery, IdleWorker
  <1>4. ReceiptsTrue /\ DeliveredIsRemote
    BY DEF Init, ReceiptsTrue, DeliveredIsRemote, IdleWorker, NoRow, DueRow
  <1> QED
    BY <1>1, <1>2, <1>3, <1>4 DEF AckInv

LEMMA AckInvariant == Spec => []AckInv
  <1>1. Init => AckInv
    BY InitAckInv
  <1>2. AckInv /\ [Next]_vars => AckInv'
    BY TypesStep, LedgerStep, AckStep, DeliveredStep DEF AckInv
  <1> QED
    BY <1>1, <1>2, PTL DEF Spec

\* The counters are those of the rows, so they are natural numbers.
LEMMA AckInvTypes == AckInv => TypeOK
  <1> SUFFICES ASSUME AckInv PROVE TypeOK
    OBVIOUS
  <1>1. counters \in [States \cup {"total"} -> Nat]
    <2>1. CASE hasCounters
      <3>1. \A st : /\ Cardinality({i \in Ids : row[i].state = st}) \in Nat
                    /\ Cardinality({i \in Ids : row[i].state # st}) \in Nat
        <4>1. \A S \in SUBSET Ids : Cardinality(S) \in Nat
          BY RelayAssumption, FS_Subset, FS_CardinalityType
        <4> QED
          BY <4>1
      <3>2. CountersOf(row) \in [States \cup {"total"} -> Nat]
        BY <3>1 DEF CountersOf
      <3> QED
        BY <2>1, <3>2 DEF AckInv, LedgerConsistent
    <2>2. CASE ~hasCounters
      BY <2>2 DEF AckInv, CountersKept
    <2> QED
      BY <2>1, <2>2
  <1>2. \A w \in Workers :
          /\ worker[w].step \in {"idle", "took", "sending", "sent", "done"}
          /\ worker[w].held \subseteq worker[w].took /\ worker[w].took \subseteq Ids
          /\ worker[w].step = "sent" => worker[w].outcome \in [worker[w].held -> Answers]
    BY DEF AckInv, Types, WorkerType, WorkerSound
  <1> QED
    BY <1>1, <1>2 DEF AckInv, Types, RowType, TickerType, TypeOK

\* Type correctness of the Relay's delivery, with the bound of its queue.
THEOREM RelayTypeCorrect == Spec => []TypeOK
  BY AckInvariant, AckInvTypes, PTL

\* The counters and indexes of the delivery ledger agree with its rows,
\* whatever races, late outcomes, reclaims, requeues and crashes come.
THEOREM LedgerAgrees == Spec => []LedgerConsistent
  <1>1. AckInv => LedgerConsistent
    BY DEF AckInv
  <1> QED
    BY <1>1, AckInvariant, PTL

\* What the Gateway was told is stored has a delivery row, in every state.
THEOREM AcknowledgedHasRow == Spec => []AckedHasDelivery
  <1>1. AckInv => AckedHasDelivery
    BY DEF AckInv
  <1> QED
    BY <1>1, AckInvariant, PTL

\* A row says "delivered" only of what the Collector has made durable.
THEOREM DeliveredIsTrue == Spec => []DeliveredIsRemote
  <1>1. AckInv => DeliveredIsRemote
    BY DEF AckInv
  <1> QED
    BY <1>1, AckInvariant, PTL

-----------------------------------------------------------------------------
(***************************************************************************)
(* Starts.                                                                 *)
(***************************************************************************)

\* Rows are of stored captures, so a ledger with as many rows as the store has
\* captures has a row for each.  Where the counter the total is compared with
\* lags, the acknowledged captures have their rows all the same.
LEMMA StartStep ==
    ASSUME AckInv, [Next]_vars, ~Up, Up'
    PROVE  \A i \in stored : HasRow(i)' \/ (tallied # stored /\ i \notin acked)
  <1>1. CASE CompareTotals
    <2>0. row' = row
      BY <1>1 DEF CompareTotals, ledger
    <2>1. CASE tallied = stored
      <3>1. counters["total"] = Cardinality(stored)
        BY <1>1, <2>1 DEF CompareTotals, Up
      <3>2. counters["total"] = Cardinality({i \in Ids : HasRow(i)})
        BY <1>1 DEF CompareTotals, AckInv, CountersKept, LedgerConsistent, CountersOf, HasRow
      <3>3. {i \in Ids : HasRow(i)} \in SUBSET stored /\ IsFiniteSet(stored)
        BY RelayAssumption, FS_Subset DEF AckInv, RowsStored, Types
      <3>4. {i \in Ids : HasRow(i)} = stored
        BY <3>1, <3>2, <3>3, FS_Subset
      <3> QED
        BY <2>0, <3>4 DEF HasRow
    <2>2. CASE tallied # stored
      BY <2>0, <2>2 DEF AckInv, AckedHasDelivery, HasRow
    <2> QED
      BY <2>1, <2>2
  <1>2. CASE Reconcile
    BY <1>2 DEF Reconcile, Up, ledger, HasRow
  <1>3. CASE status' = status
    BY <1>3 DEF Up
  <1> QED
    BY <1>1, <1>2, <1>3
    DEF Next, vars, process, Up, StoreKilled, OpenLedger, Submit, EnsureRow, Abandon, Acknowledge,
        TimePasses, Take, Claim, Deliver, Finish, TransactionFails, Unschedule, Reclaim,
        UnscheduleReclaimed, ListPending, Requeue, QueueListed, Crash

\* A start leaves no stored capture without a delivery row, as long as the
\* store's persisted counter does not lag behind its rows; while it lags, a
\* start may take the shortcut of relay.rs:1288 and leave out captures that
\* were never acknowledged, but none that was.
THEOREM StartsComplete == Spec => StartLeavesNoneOut
  <1>1. AckInv /\ [Next]_vars =>
          [~Up /\ Up' =>
              \A i \in stored : HasRow(i)' \/ (tallied # stored /\ i \notin acked)]_vars
    BY StartStep
  <1> QED
    BY <1>1, AckInvariant, PTL DEF Spec, StartLeavesNoneOut

-----------------------------------------------------------------------------
(***************************************************************************)
(* Leases.                                                                 *)
(***************************************************************************)

\* A process that is not up has idle workers.
DownIdle == ~Up => \A w \in Workers : worker[w].held = {}

\* What a worker holds is under its lease, unless that has run out.
UnderLease ==
    \A w \in Workers : \A i \in worker[w].held \ overrun :
        row[i] = [state |-> "inflight", due |-> FALSE]

LeaseInv == AckInv /\ DownIdle /\ UnderLease /\ OneHolder

\* The row of an id that some worker holds under its lease changes only when
\* that worker finishes, when its lease runs out, or in a crash.
LEMMA LeaseRow ==
    ASSUME LeaseInv, [Next]_vars, NEW w \in Workers, NEW i \in worker[w].held \ overrun
    PROVE  \/ row'[i] = row[i]
           \/ Finish(w)
           \/ i \in overrun'
  <1> USE DEF LeaseInv, AckInv
  <1>1. row[i] = [state |-> "inflight", due |-> FALSE] /\ i \in Ids /\ Up /\ hasCounters
    BY DEF UnderLease, DownIdle, Types, WorkerType, Up, CountersKept
  <1>2. CASE Reconcile
    BY <1>1, <1>2 DEF Reconcile, Up
  <1>3. ASSUME NEW j \in Ids, EnsureRow(j) PROVE row'[i] = row[i]
    BY <1>1, <1>3 DEF EnsureRow, Ensure, HasRow
  <1>4. ASSUME NEW j \in Ids, TimePasses(j) PROVE row'[i] = row[i] \/ i \in overrun'
    BY <1>1, <1>4 DEF TimePasses, Types
  <1>5. ASSUME NEW v \in Workers, Claim(v) PROVE row'[i] = row[i]
    BY <1>1, <1>5 DEF Claim, Claimable, DueRow
  <1>6. ASSUME NEW v \in Workers, Finish(v) PROVE row'[i] = row[i] \/ v = w
    BY <1>1, <1>6 DEF Finish, OneHolder
  <1>7. CASE Reclaim
    BY <1>1, <1>7 DEF Reclaim, LeasesReturned, Some, Expired
  <1>8. ASSUME NEW S \in SUBSET Ids, Requeue(S) PROVE row'[i] = row[i]
    BY <1>1, <1>8 DEF Requeue, LeasesReturned, InState
  <1>9. CASE UNCHANGED row
    BY <1>9
  <1> QED
    BY <1>1, <1>2, <1>3, <1>4, <1>5, <1>6, <1>7, <1>8, <1>9
    DEF Next, vars, ledger, process, Up, StoreKilled, OpenLedger, CompareTotals, Submit,
        Abandon, Acknowledge, Take, Deliver, TransactionFails, Unschedule, UnscheduleReclaimed,
        ListPending, QueueListed, Crash

\* Overruns are forgotten with the process only, and with them all holders.
LEMMA OverrunKept ==
    ASSUME Types, [Next]_vars
    PROVE  \/ overrun \subseteq overrun'
           \/ \A w \in Workers : worker'[w].held = {}
  <1>1. ASSUME NEW i \in Ids, TimePasses(i) PROVE overrun \subseteq overrun'
    BY <1>1 DEF TimePasses
  <1>2. CASE Crash
    BY <1>2 DEF Crash, IdleWorker
  <1>3. CASE overrun' = overrun
    BY <1>3
  <1> QED
    BY <1>1, <1>2, <1>3
    DEF Next, vars, StoreKilled, OpenLedger, CompareTotals, Reconcile, Submit, EnsureRow, Abandon,
        Acknowledge, Take, Claim, Deliver, Finish, TransactionFails, Unschedule, Reclaim,
        UnscheduleReclaimed, ListPending, Requeue, QueueListed

\* A process that is not up claims nothing.
LEMMA DownIdleStep ==
    ASSUME Types, DownIdle, [Next]_vars
    PROVE  DownIdle'
  <1>1. CASE Crash
    BY <1>1 DEF Crash, DownIdle, IdleWorker
  <1>2. CASE Up' = Up /\ worker' = worker
    BY <1>2 DEF DownIdle
  <1>3. CASE Up'
    BY <1>3 DEF DownIdle
  <1>4. ASSUME worker' = worker, ~Up PROVE DownIdle'
    BY <1>4 DEF DownIdle
  <1> QED
    BY <1>1, <1>2, <1>3, <1>4
    DEF Next, vars, process, Up, StoreKilled, OpenLedger, CompareTotals, Reconcile, Submit,
        EnsureRow, Abandon, Acknowledge, TimePasses, Take, Claim, Deliver, Finish,
        TransactionFails, Unschedule, Reclaim, UnscheduleReclaimed, ListPending, Requeue,
        QueueListed

\* A lease that has not run out keeps every other worker away.
LEMMA LeaseStep ==
    ASSUME LeaseInv, [Next]_vars
    PROVE  LeaseInv'
  <1> USE DEF LeaseInv
  <1>1. AckInv' /\ Types
    BY TypesStep, LedgerStep, AckStep, DeliveredStep DEF AckInv
  <1>2. DownIdle'
    BY <1>1, DownIdleStep
  <1>3. ASSUME NEW w \in Workers, NEW i \in worker'[w].held \ overrun'
        PROVE  i \notin overrun /\ (i \in worker[w].held \/ Claimed(w, i))
    BY <1>1, <1>3, OverrunKept, HeldIsClaimed
  <1>4. UnderLease'
    <2> SUFFICES ASSUME NEW w \in Workers, NEW i \in worker'[w].held \ overrun'
                 PROVE  row'[i] = [state |-> "inflight", due |-> FALSE]
      BY DEF UnderLease
    <2>1. CASE Claimed(w, i)
      BY <2>1 DEF Claimed
    <2>2. CASE i \in worker[w].held
      <3>1. row[i] = [state |-> "inflight", due |-> FALSE]
        BY <1>3, <2>2 DEF UnderLease
      <3>2. ~Finish(w)
        BY <1>1 DEF Finish, WorkerDone, Types, WorkerType
      <3> QED
        BY <1>3, <2>2, <3>1, <3>2, LeaseRow
    <2> QED
      BY <1>3, <2>1, <2>2
  <1>5. OneHolder'
    <2> SUFFICES ASSUME NEW v \in Workers, NEW w \in Workers, v # w,
                        NEW i \in worker'[v].held \cap worker'[w].held, i \notin overrun'
                 PROVE  FALSE
      BY DEF OneHolder
    <2>1. i \notin overrun
      BY <1>3
    <2>2. CASE i \in worker[v].held /\ i \in worker[w].held
      BY <2>1, <2>2 DEF OneHolder
    <2>3. CASE Claimed(v, i) /\ i \in worker[w].held
      BY <2>1, <2>3 DEF Claimed, UnderLease, DueRow
    <2>4. CASE i \in worker[v].held /\ Claimed(w, i)
      BY <2>1, <2>4 DEF Claimed, UnderLease, DueRow
    <2>5. CASE Claimed(v, i) /\ Claimed(w, i)
      <3>1. i \in worker[w].held
        BY <2>5 DEF Claimed
      <3> QED
        BY <2>1, <2>5, <3>1 DEF Claimed, UnderLease, DueRow
    <2> QED
      BY <1>3, <2>2, <2>3, <2>4, <2>5
  <1> QED
    BY <1>1, <1>2, <1>4, <1>5

LEMMA LeaseInvariant == Spec => []LeaseInv
  <1>1. Init => LeaseInv
    <2>1. Init => DownIdle /\ UnderLease /\ OneHolder
      BY DEF Init, DownIdle, UnderLease, OneHolder, IdleWorker
    <2> QED
      BY <2>1, InitAckInv DEF LeaseInv
  <1>2. LeaseInv /\ [Next]_vars => LeaseInv'
    BY LeaseStep
  <1> QED
    BY <1>1, <1>2, PTL DEF Spec

\* Two workers deliver one capture only after a lease has run out.
THEOREM LeaseIsExclusive == Spec => []OneHolder
  <1>1. LeaseInv => OneHolder
    BY DEF LeaseInv
  <1> QED
    BY <1>1, LeaseInvariant, PTL

\* Where no lease has run out, only the operator changes a settled row.
LEMMA SettledRow ==
    ASSUME LeaseInv, [Next]_vars, NEW i \in Ids \ overrun, row[i].state \in Settled
    PROVE  \/ row'[i] = row[i]
           \/ row[i].state = "failed" /\ Requeue({j \in Ids : row'[j] # row[j]})
  <1> USE DEF LeaseInv, AckInv
  <1>1. row[i].state \notin {"none", "pending", "inflight"}
    BY DEF Settled
  <1>2. ASSUME NEW S, row' = LeasesReturned(S), S \subseteq InState("inflight") PROVE row'[i] = row[i]
    BY <1>1, <1>2 DEF LeasesReturned, InState
  <1>3. CASE OpenLedger
    BY <1>2, <1>3 DEF OpenLedger, FastStartup
  <1>4. ASSUME NEW S, Ensure(S) PROVE row'[i] = row[i]
    BY <1>1, <1>4 DEF Ensure, HasRow
  <1>5. CASE Reconcile
    BY <1>4, <1>5 DEF Reconcile, ledger
  <1>6. ASSUME NEW j \in Ids, EnsureRow(j) PROVE row'[i] = row[i]
    BY <1>4, <1>6 DEF EnsureRow
  <1>7. ASSUME NEW j \in Ids, TimePasses(j) PROVE row'[i] = row[i]
    BY <1>1, <1>7 DEF TimePasses, Types
  <1>8. ASSUME NEW w \in Workers, Claim(w) PROVE row'[i] = row[i]
    BY <1>1, <1>8 DEF Claim, Claimable, DueRow
  <1>9. ASSUME NEW w \in Workers, Finish(w) PROVE row'[i] = row[i]
    <2>1. i \notin worker[w].held
      BY <1>1 DEF UnderLease
    <2> QED
      BY <1>9, <2>1 DEF Finish
  <1>10. CASE Reclaim
    <2>1. hasCounters
      BY <1>10 DEF Reclaim, Up, CountersKept
    <2> QED
      BY <1>2, <1>10, <2>1 DEF Reclaim, Some, Expired, LedgerConsistent
  <1>11. ASSUME NEW S \in SUBSET Ids, Requeue(S)
         PROVE  row'[i] = row[i] \/ (row[i].state = "failed" /\ Requeue({j \in Ids : row'[j] # row[j]}))
    <2>1. \A j \in Ids : row'[j] = IF j \in S THEN DueRow ELSE row[j]
      BY <1>11 DEF Requeue, LeasesReturned
    <2>2. \A j \in S : row[j].state = "failed"
      BY <1>11 DEF Requeue, InState
    <2>3. {j \in Ids : row'[j] # row[j]} = S
      BY <2>1, <2>2 DEF DueRow
    <2> QED
      BY <1>11, <2>1, <2>2, <2>3
  <1>12. CASE UNCHANGED row
    BY <1>12
  <1> QED
    BY <1>3, <1>5, <1>6, <1>7, <1>8, <1>9, <1>10, <1>11, <1>12
    DEF Next, vars, ledger, StoreKilled, CompareTotals, Submit, Abandon, Acknowledge, Take,
        Deliver, TransactionFails, Unschedule, UnscheduleReclaimed, ListPending, QueueListed,
        Crash

\* A settled delivery stays settled as it is, short of an overrun lease and of
\* the operator's requeue.
THEOREM SettledKept == Spec => SettledStays
  <1>1. LeaseInv /\ [Next]_vars =>
          [\A i \in Ids \ overrun : row[i].state \in Settled =>
              row'[i] = row[i] \/ (row[i].state = "failed" /\ Requeue({j \in Ids : row'[j] # row[j]}))]_vars
    BY SettledRow
  <1> QED
    BY <1>1, LeaseInvariant, PTL DEF Spec, SettledStays

-----------------------------------------------------------------------------
(***************************************************************************)
(* The scheduled set.                                                      *)
(***************************************************************************)

Taken == UNION {worker[w].took : w \in Workers}

\* The head of the queue goes to the worker that takes it.
LEMMA QueuedHead ==
    ASSUME Types, queue # <<>>
    PROVE  Queued = {Head(queue)} \cup {Tail(queue)[n] : n \in 1 .. Len(Tail(queue))}
  <1> DEFINE tail == Tail(queue)
  <1>1. /\ Len(queue) \in Nat /\ Len(tail) = Len(queue) - 1 /\ Len(queue) # 0
        /\ \A n \in 1 .. Len(tail) : tail[n] = queue[n + 1]
        /\ Head(queue) = queue[1]
    BY HeadTailProperties, LenProperties, EmptySeq DEF Types
  <1> HIDE DEF tail
  <1>2. \A n \in 2 .. Len(queue) : n - 1 \in 1 .. Len(tail) /\ queue[n] = tail[n - 1]
    BY <1>1
  <1>3. \A n \in 1 .. Len(tail) : n + 1 \in 1 .. Len(queue)
    BY <1>1
  <1>4. 1 \in 1 .. Len(queue)
    BY <1>1
  <1>5. \A n \in 1 .. Len(queue) : n = 1 \/ n \in 2 .. Len(queue)
    BY <1>1
  <1>6. ASSUME NEW i \in Queued PROVE i = Head(queue) \/ \E n \in 1 .. Len(tail) : i = tail[n]
    <2>1. PICK n \in 1 .. Len(queue) : i = queue[n]
      BY <1>6 DEF Queued
    <2> QED
      BY <1>1, <1>2, <1>5, <2>1
  <1>7. Head(queue) \in Queued /\ \A n \in 1 .. Len(tail) : tail[n] \in Queued
    BY <1>1, <1>3, <1>4 DEF Queued
  <1> QED
    BY <1>6, <1>7 DEF tail

\* queue_capture marks an id as scheduled only when it has queued it.
LEMMA QueueCaptureLive ==
    ASSUME Types, NEW i \in Ids, QueueCapture(i)
    PROVE  Queued \subseteq Queued' /\ scheduled' \subseteq scheduled \cup Queued'
  <1>1. CASE UNCHANGED <<queue, scheduled>>
    BY <1>1 DEF Queued
  <1>2. CASE queue' = Append(queue, i) /\ scheduled' = scheduled \cup {i}
    <2>1. /\ Len(queue') = Len(queue) + 1 /\ Len(queue) \in Nat
          /\ \A n \in 1 .. Len(queue) : queue'[n] = queue[n]
          /\ queue'[Len(queue) + 1] = i
      BY <1>2, AppendProperties, LenProperties DEF Types
    <2>2. \A n \in 1 .. Len(queue) : n \in 1 .. Len(queue')
      BY <2>1
    <2>3. Len(queue) + 1 \in 1 .. Len(queue')
      BY <2>1
    <2>4. Queued \subseteq Queued' /\ i \in Queued'
      BY <2>1, <2>2, <2>3 DEF Queued
    <2> QED
      BY <1>2, <2>4
  <1> QED
    BY <1>1, <1>2 DEF QueueCapture

\* An id leaves the queue into a worker, and a worker through "unschedule".
LEMMA ScheduledStep ==
    ASSUME Types, ScheduledIsLive, [Next]_vars
    PROVE  ScheduledIsLive'
  <1>0. scheduled \subseteq Queued \cup Taken
    BY DEF ScheduledIsLive, Taken
  <1> SUFFICES scheduled' \subseteq Queued' \cup Taken'
    BY DEF ScheduledIsLive, Taken
  <1>1. ASSUME scheduled' \subseteq scheduled \cup Queued', Queued \subseteq Queued',
               \A w \in Workers : worker[w].took \subseteq worker'[w].took
        PROVE  scheduled' \subseteq Queued' \cup Taken'
    BY <1>0, <1>1 DEF Taken
  <1>2. ASSUME NEW i \in Ids, Acknowledge(i) \/ QueueListed(i)
        PROVE  scheduled' \subseteq Queued' \cup Taken'
    <2>1. QueueCapture(i) /\ worker' = worker
      BY <1>2 DEF Acknowledge, QueueListed
    <2> QED
      BY <1>1, <2>1, QueueCaptureLive
  <1>3. ASSUME NEW w \in Workers, Take(w) PROVE scheduled' \subseteq Queued' \cup Taken'
    <2>1. queue # <<>> /\ queue' = Tail(queue) /\ scheduled' = scheduled
      BY <1>3 DEF Take
    <2>2. /\ worker'[w].took = worker[w].took \cup {Head(queue)}
          /\ \A v \in Workers \ {w} : worker'[v].took = worker[v].took
      BY <1>3 DEF Take, Types, WorkerType
    <2>3. Queued = {Head(queue)} \cup Queued'
      BY <2>1, QueuedHead DEF Queued
    <2>4. Taken \cup {Head(queue)} \subseteq Taken'
      BY <2>2 DEF Taken
    <2> QED
      BY <1>0, <2>1, <2>3, <2>4
  <1>4. ASSUME NEW w \in Workers, Unschedule(w) PROVE scheduled' \subseteq Queued' \cup Taken'
    <2>1. scheduled' = scheduled \ worker[w].took /\ queue' = queue
      BY <1>4 DEF Unschedule
    <2>2. \A v \in Workers \ {w} : worker'[v] = worker[v]
      BY <1>4 DEF Unschedule, Types
    <2>3. Taken \ worker[w].took \subseteq Taken'
      BY <2>2 DEF Taken
    <2> QED
      BY <1>0, <2>1, <2>3 DEF Queued
  <1>5. ASSUME NEW w \in Workers,
               Claim(w) \/ Finish(w) \/ TransactionFails(w)
               \/ \E o \in [worker[w].held -> Answers] : Deliver(w, o)
        PROVE  scheduled' \subseteq Queued' \cup Taken'
    <2>1. scheduled' = scheduled /\ queue' = queue
      BY <1>5 DEF Claim, Finish, TransactionFails, Deliver
    <2>2. \A v \in Workers : worker'[v].took = worker[v].took
      <3>1. worker \in [Workers -> WorkerType]
        BY DEF Types
      <3>2. CASE Claim(w)
        <4>1. PICK s, h : worker' = [worker EXCEPT ![w].step = s, ![w].held = h]
          BY <3>2 DEF Claim
        <4> QED
          BY <3>1, <4>1 DEF WorkerType
      <3>3. CASE Finish(w) \/ TransactionFails(w)
        <4>1. worker' = [worker EXCEPT ![w].step = "done", ![w].held = {}, ![w].outcome = NoOutcome]
          BY <3>3 DEF Finish, TransactionFails, WorkerDone
        <4> QED
          BY <3>1, <4>1 DEF WorkerType
      <3>4. ASSUME NEW o, Deliver(w, o) PROVE \A v \in Workers : worker'[v].took = worker[v].took
        <4>1. worker' = [worker EXCEPT ![w].step = "sent", ![w].outcome = o]
          BY <3>4 DEF Deliver
        <4> QED
          BY <3>1, <4>1 DEF WorkerType
      <3> QED
        BY <1>5, <3>2, <3>3, <3>4
    <2> QED
      BY <1>1, <2>1, <2>2 DEF Queued
  <1>6. CASE UnscheduleReclaimed
    BY <1>1, <1>6 DEF UnscheduleReclaimed, Queued
  <1>7. CASE Crash
    BY <1>7 DEF Crash
  <1>8. CASE UNCHANGED <<queue, scheduled, worker>>
    BY <1>1, <1>8 DEF Queued
  <1> QED
    BY <1>2, <1>3, <1>4, <1>5, <1>6, <1>7, <1>8
    DEF Next, vars, process, StoreKilled, OpenLedger, CompareTotals, Reconcile, Submit, EnsureRow,
        Abandon, TimePasses, Reclaim, ListPending, Requeue

\* An id that is kept out of the queue as scheduled is queued or with a worker.
THEOREM ScheduledAreLive == Spec => []ScheduledIsLive
  <1>1. Init => ScheduledIsLive
    BY DEF Init, ScheduledIsLive
  <1>2. AckInv /\ ScheduledIsLive /\ [Next]_vars => ScheduledIsLive'
    BY ScheduledStep DEF AckInv
  <1> QED
    BY <1>1, <1>2, AckInvariant, PTL DEF Spec

=============================================================================
