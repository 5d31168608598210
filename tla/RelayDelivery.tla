---------------------------- MODULE RelayDelivery ----------------------------
(***************************************************************************)
(* The Relay between its own capture store and the Collector (relay.rs):   *)
(* every stored capture has a row in the delivery ledger, which workers    *)
(* claim under a lease, send, and settle.  Request handlers, the workers   *)
(* and a one-second ticker share the ledger (one redb transaction at a     *)
(* time, under a mutex), a bounded queue of ids and the set of the ids     *)
(* already scheduled.  A crash loses everything but the store, the ledger  *)
(* and what the Collector holds.                                           *)
(*                                                                         *)
(* Time is a flag of a row: "due" says that next_attempt_unix_ms has come  *)
(* (pending) or that lease_until_unix_ms has passed (inflight).            *)
(***************************************************************************)
EXTENDS Integers, Sequences, FiniteSets

CONSTANTS
    Ids,            \* captureIds
    Workers,        \* delivery_concurrency tasks
    Clash,          \* ids under which the Collector holds another payload
    QueueItems,     \* delivery_queue_items
    BatchRecords,   \* delivery_batch_records
    MaxFaults,      \* bound: crashes and failed ledger transactions
    SlowDelivery    \* may a lease expire while its worker is still sending?

ASSUME RelayAssumption ==
    /\ IsFiniteSet(Ids) /\ Clash \subseteq Ids
    /\ QueueItems \in Nat \ {0} /\ BatchRecords \in Nat \ {0}
    /\ MaxFaults \in Nat
    /\ SlowDelivery \in BOOLEAN

Settled == {"delivered", "conflict", "failed"}
States == {"pending", "inflight"} \cup Settled
NoRow == [state |-> "none", due |-> FALSE]
DueRow == [state |-> "pending", due |-> TRUE]

VARIABLES
    \* the Relay's capture store
    stored,         \* ids that have a capture in it
    tallied,        \* those of them that its persisted captures counter counts
    \* the delivery ledger, changed by atomic durable transactions
    row,            \* [Ids -> DeliveryRecord], NoRow when there is none
    pendingIx,      \* ids in the PENDING_DELIVERIES index
    inflightIx,     \* ids in the INFLIGHT_DELIVERIES index
    counters,       \* [States \cup {"total"} -> Int]
    hasCounters,    \* FALSE in a ledger written by a release without them
    \* the process
    status,         \* "down", "opened", "reconcile" or "up"
    handler,        \* [Ids -> next step of the request that brings the id]
    queue,          \* ids waiting for a worker
    scheduled,      \* ids that need not be queued again
    worker,         \* [Workers -> step, ids taken, ids claimed, outcomes]
    ticker,         \* step of the ticker and the ids it holds
    \* outside
    remote,         \* ids whose capture the Collector has made durable
    acked,          \* ids acknowledged to the Gateway
    \* observers
    faults,         \* crashes and failed ledger transactions, at most MaxFaults
    overrun         \* ids whose lease has run out under a worker since the start

ledger == <<row, pendingIx, inflightIx, counters, hasCounters>>
process == <<status, handler, queue, scheduled, worker, ticker>>
captureStore == <<stored, tallied>>
vars == <<captureStore, ledger, process, remote, acked, faults, overrun>>

InState(st) == {i \in Ids : row[i].state = st}
HasRow(i) == row[i].state # "none"

NoOutcome == [i \in {} |-> "pending"]
IdleWorker == [step |-> "idle", took |-> {}, held |-> {}, outcome |-> NoOutcome]
IdleTicker == [step |-> "idle", ids |-> {}]
Queued == {queue[n] : n \in 1 .. Len(queue)}
Up == status = "up"

\* Counters after the rows of the transaction became r: every row that leaves
\* a state is subtracted there, every row that enters one is added.
Recounted(r) ==
    [st \in States \cup {"total"} |->
        IF st = "total"
        THEN counters[st] + Cardinality({i \in Ids : ~HasRow(i) /\ r[i].state # "none"})
        ELSE counters[st]
               - Cardinality({i \in Ids : row[i].state = st /\ r[i].state # st})
               + Cardinality({i \in Ids : row[i].state # st /\ r[i].state = st})]

CountersOf(r) ==
    [st \in States \cup {"total"} |->
        IF st = "total" THEN Cardinality({i \in Ids : r[i].state # "none"})
        ELSE Cardinality({i \in Ids : r[i].state = st})]

\* A store and a ledger, new or left by a release that kept neither counters
\* nor indexes; nothing runs yet.
Init ==
    /\ row \in [Ids -> {NoRow, DueRow, [state |-> "inflight", due |-> FALSE]}]
    /\ stored = {i \in Ids : HasRow(i)} /\ tallied = stored
    /\ pendingIx = {} /\ inflightIx = {}
    /\ counters = [st \in States \cup {"total"} |-> 0]
    /\ hasCounters = FALSE
    /\ status = "down"
    /\ handler = [i \in Ids |-> "none"]
    /\ queue = <<>> /\ scheduled = {}
    /\ worker = [w \in Workers |-> IdleWorker]
    /\ ticker = IdleTicker
    /\ remote = {} /\ acked = {} /\ faults = 0 /\ overrun = {}

-----------------------------------------------------------------------------
(***************************************************************************)
(* Start-up: DeliveryLedger::open, then DurableRelay::open.                *)
(***************************************************************************)

\* Do the counters and the indexes agree with the table?
FastStartup ==
    /\ hasCounters
    /\ counters["total"] = Cardinality({i \in Ids : HasRow(i)})
    /\ counters["pending"] = Cardinality(pendingIx)
    /\ counters["inflight"] = Cardinality(inflightIx)
    /\ inflightIx \subseteq InState("inflight")

\* Rows of S go back to pending, due at once.
LeasesReturned(S) == [i \in Ids |-> IF i \in S THEN DueRow ELSE row[i]]

\* recover_segments of the store: captures of requests that were cut short get
\* their rows, segment by segment.
StoreRecovers(found) == found \subseteq Ids \ stored /\ stored' = stored \cup found

\* A start is killed in a store that has rows for what it found and has not
\* counted them: the counters are recounted in a transaction of their own.
StoreKilled ==
    /\ status = "down"
    /\ faults < MaxFaults /\ faults' = faults + 1
    /\ \E found \in SUBSET Ids \ {{}} : StoreRecovers(found)
    /\ UNCHANGED <<tallied, ledger, process, remote, acked, overrun>>

\* The store opens.  A shard in which the recovery changed a row is recounted;
\* one whose rows are as it left them is not, and keeps a counter that lags.
StoreOpens ==
    \E found \in SUBSET Ids : \E recounted \in SUBSET stored :
        StoreRecovers(found) /\ tallied' = tallied \cup found \cup recounted

OpenLedger ==
    /\ status = "down"
    /\ StoreOpens
    /\ IF FastStartup
       THEN /\ row' = LeasesReturned(inflightIx)
            /\ counters' = Recounted(row')
            /\ pendingIx' = pendingIx \cup inflightIx
       ELSE /\ row' = LeasesReturned(InState("inflight"))
            /\ counters' = CountersOf(row')
            /\ pendingIx' = {i \in Ids : row'[i].state = "pending"}
    /\ inflightIx' = {}
    /\ hasCounters' = TRUE
    /\ status' = "opened"
    /\ UNCHANGED <<handler, queue, scheduled, worker, ticker, remote, acked, faults, overrun>>

\* Workers and ticker start; queue_pending does what a tick does.
StartTasks == status' = "up" /\ ticker' = [step |-> "list", ids |-> {}]

\* Mutant: the ledger is believed to know every capture.
CompareTotals_Not ==
    /\ status = "opened"
    /\ StartTasks
    /\ UNCHANGED <<captureStore, ledger, handler, queue, scheduled, worker, remote, acked, faults, overrun>>

\* The total of the ledger and the captures counter of the store decide
\* whether the captures have to be gone through.
CompareTotals ==
    /\ status = "opened"
    /\ IF counters["total"] = Cardinality(tallied)
       THEN StartTasks
       ELSE status' = "reconcile" /\ UNCHANGED ticker
    /\ UNCHANGED <<captureStore, ledger, handler, queue, scheduled, worker, remote, acked, faults, overrun>>

\* ensure_many: a new id becomes a pending row, due at once.
Ensure(S) ==
    LET new == {i \in S : ~HasRow(i)} IN
    /\ row' = [i \in Ids |-> IF i \in new THEN DueRow ELSE row[i]]
    /\ pendingIx' = pendingIx \cup new
    /\ counters' = Recounted(row')
    /\ UNCHANGED <<inflightIx, hasCounters>>

\* The captures are gone through in chunks, a transaction each.
Reconcile ==
    /\ status = "reconcile"
    /\ IF \A i \in stored : HasRow(i)
       THEN StartTasks /\ UNCHANGED ledger
       ELSE /\ \E i \in stored : ~HasRow(i) /\ Ensure({i})
            /\ UNCHANGED <<status, ticker>>
    /\ UNCHANGED <<captureStore, handler, queue, scheduled, worker, remote, acked, faults, overrun>>

-----------------------------------------------------------------------------
(***************************************************************************)
(* The request handlers: DurableRelay::enqueue_record.                     *)
(***************************************************************************)

\* The store has made the capture durable and counted it, in one transaction;
\* a retry finds it there and counts nothing.
Submit(i) ==
    /\ Up /\ handler[i] = "none"
    /\ stored' = stored \cup {i}
    /\ tallied' = tallied \cup ({i} \ stored)
    /\ handler' = [handler EXCEPT ![i] = "ensure"]
    /\ UNCHANGED <<ledger, status, queue, scheduled, worker, ticker, remote, acked, faults, overrun>>

\* Mutant: the Gateway is answered before the delivery row exists.
EnsureRow_AckFirst(i) ==
    /\ Up /\ handler[i] = "ensure"
    /\ handler' = [handler EXCEPT ![i] = "queue"]
    /\ acked' = acked \cup {i}
    /\ UNCHANGED <<captureStore, ledger, status, queue, scheduled, worker, ticker, remote, faults, overrun>>

EnsureRow(i) ==
    /\ Up /\ handler[i] = "ensure"
    /\ Ensure({i})
    /\ handler' = [handler EXCEPT ![i] = "queue"]
    /\ UNCHANGED <<captureStore, status, queue, scheduled, worker, ticker, remote, acked, faults, overrun>>

\* The request ends without a row: its client went away while the store was
\* committing, or the ledger transaction failed.  Nothing is acknowledged.
Abandon(i) ==
    /\ Up /\ handler[i] = "ensure"
    /\ handler' = [handler EXCEPT ![i] = "none"]
    /\ UNCHANGED <<captureStore, ledger, status, queue, scheduled, worker, ticker, remote, acked, faults, overrun>>

QueueFull == Len(queue) >= QueueItems

\* Mutant: a full queue leaves the id scheduled.
QueueCapture_Leak(i) ==
    IF i \in scheduled THEN UNCHANGED <<queue, scheduled>>
    ELSE /\ scheduled' = scheduled \cup {i}
         /\ queue' = IF QueueFull THEN queue ELSE Append(queue, i)

\* queue_capture: an id is queued once, and not at all when there is no room.
QueueCapture(i) ==
    IF i \in scheduled \/ QueueFull THEN UNCHANGED <<queue, scheduled>>
    ELSE queue' = Append(queue, i) /\ scheduled' = scheduled \cup {i}

Acknowledge(i) ==
    /\ Up /\ handler[i] = "queue"
    /\ QueueCapture(i)
    /\ acked' = acked \cup {i}
    /\ handler' = [handler EXCEPT ![i] = "none"]
    /\ UNCHANGED <<captureStore, ledger, status, worker, ticker, remote, faults, overrun>>

-----------------------------------------------------------------------------
(***************************************************************************)
(* The workers: collect_delivery_batch, deliver_many.                      *)
(***************************************************************************)

Take(w) ==
    /\ Up /\ worker[w].step \in {"idle", "took"}
    /\ queue # <<>> /\ Cardinality(worker[w].took) < BatchRecords
    /\ queue' = Tail(queue)
    /\ worker' = [worker EXCEPT ![w].step = "took", ![w].took = @ \cup {Head(queue)}]
    /\ UNCHANGED <<captureStore, ledger, status, handler, scheduled, ticker, remote, acked, faults, overrun>>

\* Mutant: whatever has a row is claimed.
Claimable_AnyRow(i) == HasRow(i)

Claimable(i) == row[i] = DueRow

\* claim_many: due rows become inflight, under a new lease.
Claim(w) ==
    /\ Up /\ worker[w].step = "took"
    /\ LET mine == {i \in worker[w].took : Claimable(i)} IN
       /\ row' = [i \in Ids |-> IF i \in mine THEN [state |-> "inflight", due |-> FALSE]
                                ELSE row[i]]
       /\ pendingIx' = pendingIx \ mine
       /\ inflightIx' = inflightIx \cup mine
       /\ worker' = [worker EXCEPT ![w].step = IF mine = {} THEN "done" ELSE "sending",
                                   ![w].held = mine]
    /\ counters' = Recounted(row')
    /\ UNCHANGED <<captureStore, hasCounters, status, handler, queue, scheduled, ticker,
                   remote, acked, faults, overrun>>

Answers == {"delivered", "conflict", "failed", "pending"}

\* Mutant: a capture sent without a readable receipt counts as delivered.
Answered_Trusted(w, o) ==
    \A i \in worker[w].held : o[i] = "delivered" => i \notin Clash

\* What the receipts show: the Collector has made durable what it says it has
\* (a receipt names the capture and its digest), and what it holds under the
\* same id with other bytes it refuses with 409.
Answered(w, o) ==
    /\ \A i \in worker[w].held : o[i] = "delivered" => i \in remote' \ Clash
    /\ \A i \in worker[w].held : o[i] = "conflict" => i \in Clash
    /\ \A i \in remote' \ remote : o[i] \in {"delivered", "pending"}

\* send_delivery_batch, retried one by one by send_single.  "failed" is a
\* status not worth a retry, "pending" no usable answer: the local read failed,
\* the Collector is down or busy, or its answer was lost after it had stored
\* the capture.
Deliver(w, o) ==
    /\ Up /\ worker[w].step = "sending"
    /\ o \in [worker[w].held -> Answers]
    /\ \E new \in SUBSET (worker[w].held \ Clash) : remote' = remote \cup new
    /\ Answered(w, o)
    /\ worker' = [worker EXCEPT ![w].step = "sent", ![w].outcome = o]
    /\ UNCHANGED <<captureStore, ledger, status, handler, queue, scheduled, ticker, acked, faults, overrun>>

WorkerDone(w) ==
    worker' = [worker EXCEPT ![w].step = "done", ![w].held = {}, ![w].outcome = NoOutcome]

\* Mutant: the row of a capture to retry gets no index entry.
Finish_NoIndex(w) ==
    /\ Up /\ worker[w].step = "sent"
    /\ LET held == worker[w].held IN
       /\ row' = [i \in Ids |-> IF i \in held THEN [state |-> worker[w].outcome[i], due |-> FALSE]
                                ELSE row[i]]
       /\ pendingIx' = pendingIx \ held
       /\ inflightIx' = inflightIx \ held
    /\ counters' = Recounted(row')
    /\ WorkerDone(w)
    /\ UNCHANGED <<captureStore, hasCounters, status, handler, queue, scheduled, ticker,
                   remote, acked, faults, overrun>>

\* finish_many: whatever state the row is in, the outcome replaces it.
Finish(w) ==
    /\ Up /\ worker[w].step = "sent"
    /\ LET held == worker[w].held
           retry == {i \in held : worker[w].outcome[i] = "pending"} IN
       /\ row' = [i \in Ids |-> IF i \in held THEN [state |-> worker[w].outcome[i], due |-> FALSE]
                                ELSE row[i]]
       /\ pendingIx' = (pendingIx \ held) \cup retry
       /\ inflightIx' = inflightIx \ held
    /\ counters' = Recounted(row')
    /\ WorkerDone(w)
    /\ UNCHANGED <<captureStore, hasCounters, status, handler, queue, scheduled, ticker,
                   remote, acked, faults, overrun>>

\* The transaction of claim_many or of finish_many fails: nothing is claimed,
\* or the outcomes are lost and the leases run on.
TransactionFails(w) ==
    /\ Up /\ worker[w].step \in {"took", "sent"}
    /\ faults < MaxFaults /\ faults' = faults + 1
    /\ WorkerDone(w)
    /\ UNCHANGED <<captureStore, ledger, status, handler, queue, scheduled, ticker, remote, acked, overrun>>

Unschedule(w) ==
    /\ Up /\ worker[w].step = "done"
    /\ scheduled' = scheduled \ worker[w].took
    /\ worker' = [worker EXCEPT ![w] = IdleWorker]
    /\ UNCHANGED <<captureStore, ledger, status, handler, queue, ticker, remote, acked, faults, overrun>>

-----------------------------------------------------------------------------
(***************************************************************************)
(* The ticker, time, the operator and crashes.                             *)
(***************************************************************************)

\* A retry delay or a lease runs out.
TimePasses(i) ==
    /\ row[i].state \in {"pending", "inflight"} /\ ~row[i].due
    /\ row[i].state = "inflight" =>
         SlowDelivery \/ \A w \in Workers : i \notin worker[w].held
    /\ row' = [row EXCEPT ![i].due = TRUE]
    /\ overrun' = IF \E w \in Workers : i \in worker[w].held THEN overrun \cup {i} ELSE overrun
    /\ UNCHANGED <<captureStore, pendingIx, inflightIx, counters, hasCounters, process,
                   remote, acked, faults>>

\* At most n elements of S, as many as there are.
Some(S, n) == {T \in SUBSET S : Cardinality(T) = n \/ (T = S /\ Cardinality(S) < n)}

\* Mutant: every lease is taken back, expired or not.
Expired_All == inflightIx

Expired == {i \in inflightIx : row[i].due}

\* Where the ticker goes from a step it has finished.
AfterStep(step) == [step |-> IF step = "requeue" THEN "list" ELSE "idle", ids |-> {}]

\* reclaim_expired_inflight: expired leases return to pending, due at once.
Reclaim ==
    /\ Up /\ ticker.step = "idle"
    /\ \E S \in Some(Expired, QueueItems) :
       /\ row' = LeasesReturned(S)
       /\ inflightIx' = inflightIx \ S
       /\ pendingIx' = pendingIx \cup S
       /\ ticker' = [step |-> IF S = {} THEN "list" ELSE "unschedule", ids |-> S]
    /\ counters' = Recounted(row')
    /\ UNCHANGED <<captureStore, hasCounters, status, handler, queue, scheduled, worker,
                   remote, acked, faults, overrun>>

UnscheduleReclaimed ==
    /\ Up /\ ticker.step = "unschedule"
    /\ scheduled' = scheduled \ ticker.ids
    /\ ticker' = [ticker EXCEPT !.step = "requeue"]
    /\ UNCHANGED <<captureStore, ledger, status, handler, queue, worker, remote, acked, faults, overrun>>

\* pending_ids: the first due rows of the index.
ListPending(S) ==
    /\ Up /\ ticker.step = "list"
    /\ S \in Some({i \in pendingIx : row[i].due}, QueueItems)
    /\ ticker' = [step |-> IF S = {} THEN "idle" ELSE "queue", ids |-> S]
    /\ UNCHANGED <<captureStore, ledger, status, handler, queue, scheduled, worker,
                   remote, acked, faults, overrun>>

\* The ids are queued one by one, until there is no room for one.
QueueListed(i) ==
    /\ Up /\ ticker.step \in {"requeue", "queue"} /\ i \in ticker.ids
    /\ QueueCapture(i)
    /\ ticker' = IF ticker.ids = {i} \/ (i \notin scheduled /\ QueueFull)
                 THEN AfterStep(ticker.step) ELSE [ticker EXCEPT !.ids = @ \ {i}]
    /\ UNCHANGED <<captureStore, ledger, status, handler, worker, remote, acked, faults, overrun>>

\* requeue_failed: the operator's request; only failed rows are touched.
Requeue(S) ==
    /\ Up /\ S # {} /\ S \subseteq InState("failed")
    /\ row' = LeasesReturned(S)
    /\ pendingIx' = pendingIx \cup S
    /\ counters' = Recounted(row')
    /\ UNCHANGED <<captureStore, inflightIx, hasCounters, process, remote, acked, faults, overrun>>

\* The process is killed, or closed: workers end with their batch and the
\* queue is dropped, which is one of the states a kill leaves.
Crash ==
    /\ status # "down"
    /\ faults < MaxFaults /\ faults' = faults + 1
    /\ status' = "down"
    /\ handler' = [i \in Ids |-> "none"]
    /\ queue' = <<>> /\ scheduled' = {}
    /\ worker' = [w \in Workers |-> IdleWorker]
    /\ ticker' = IdleTicker
    /\ overrun' = {}
    /\ UNCHANGED <<captureStore, ledger, remote, acked>>

Next ==
    \/ StoreKilled \/ OpenLedger \/ CompareTotals \/ Reconcile
    \/ \E i \in Ids : Submit(i) \/ EnsureRow(i) \/ Abandon(i) \/ Acknowledge(i) \/ TimePasses(i)
    \/ \E w \in Workers : Take(w) \/ Claim(w) \/ Finish(w) \/ TransactionFails(w) \/ Unschedule(w)
    \/ \E w \in Workers : \E o \in [worker[w].held -> Answers] : Deliver(w, o)
    \/ Reclaim \/ UnscheduleReclaimed
    \/ \E S \in SUBSET Ids : ListPending(S) \/ Requeue(S)
    \/ \E i \in Ids : QueueListed(i)
    \/ Crash

Spec == Init /\ [][Next]_vars

\* The steps of one task exclude each other.
WorkerStep(w) ==
    \/ Take(w) \/ Claim(w) \/ Finish(w) \/ Unschedule(w)
    \/ \E o \in [worker[w].held -> Answers] : Deliver(w, o)
TickerStep ==
    \/ Reclaim \/ UnscheduleReclaimed
    \/ \E S \in SUBSET Ids : ListPending(S)
    \/ \E i \in Ids : QueueListed(i)

\* Tasks of the runtime are scheduled, requests time out or are answered, time
\* passes, a request that was started is carried out, the service is restarted.
FairSpec ==
    /\ Spec
    /\ WF_vars(OpenLedger \/ CompareTotals \/ Reconcile)
    /\ \A i \in Ids : WF_vars(EnsureRow(i) \/ Acknowledge(i)) /\ WF_vars(TimePasses(i))
    /\ \A w \in Workers : WF_vars(WorkerStep(w))
    /\ WF_vars(TickerStep)

-----------------------------------------------------------------------------
(***************************************************************************)
(* Properties.                                                             *)
(***************************************************************************)

\* Types of the variables.
TypeOK ==
    /\ stored \subseteq Ids /\ tallied \subseteq stored
    /\ row \in [Ids -> [state : States \cup {"none"}, due : BOOLEAN]]
    /\ pendingIx \subseteq Ids /\ inflightIx \subseteq Ids
    /\ counters \in [States \cup {"total"} -> Nat]
    /\ hasCounters \in BOOLEAN
    /\ status \in {"down", "opened", "reconcile", "up"}
    /\ handler \in [Ids -> {"none", "ensure", "queue"}]
    /\ queue \in Seq(Ids) /\ Len(queue) <= QueueItems /\ scheduled \subseteq Ids
    /\ \A w \in Workers :
          /\ worker[w].step \in {"idle", "took", "sending", "sent", "done"}
          /\ worker[w].held \subseteq worker[w].took /\ worker[w].took \subseteq Ids
          /\ worker[w].step = "sent" => worker[w].outcome \in [worker[w].held -> Answers]
    /\ ticker \in [step : {"idle", "unschedule", "requeue", "list", "queue"},
                   ids : SUBSET Ids]
    /\ remote \subseteq Ids /\ acked \subseteq Ids /\ overrun \subseteq Ids
    /\ faults \in 0 .. MaxFaults

\* The counters behind /health (conservation_ok) and the start-up check, and
\* the indexes the ticker and the workers live by, agree with the rows: no
\* race of claims, late outcomes, reclaims and requeues loses or doubles one.
LedgerConsistent ==
    hasCounters =>
        /\ counters = CountersOf(row)
        /\ pendingIx = InState("pending")
        /\ inflightIx = InState("inflight")

\* The Gateway drops its copy once acknowledged, so from then on the Relay
\* has a delivery row for the capture, in every state after any crash.
AckedHasDelivery == \A i \in acked : i \in stored /\ HasRow(i)

\* A row says "delivered" only when the Collector holds the capture, whatever
\* answers were lost and whichever of two workers wrote last.
DeliveredIsRemote == \A i \in Ids : row[i].state = "delivered" => i \in remote

\* An id kept out of the queue because it is scheduled is really on its way:
\* otherwise nothing would ever queue it again.
ScheduledIsLive ==
    scheduled \subseteq Queued \cup UNION {worker[w].took : w \in Workers}

\* One worker at a time delivers a capture, unless its lease has run out under
\* a worker that was still sending.
OneHolder ==
    \A v, w \in Workers : v # w => worker[v].held \cap worker[w].held \subseteq overrun

\* Under the same condition a settled row stays as it is, but for a failed one
\* the operator requeues.
SettledStays ==
    [][\A i \in Ids \ overrun : row[i].state \in Settled =>
          row'[i] = row[i] \/ (row[i].state = "failed" /\ Requeue({j \in Ids : row'[j] # row[j]}))]_vars

\* Requests that were cut short and ledgers of older releases leave captures
\* without a row.  A start that compares two totals and skips the captures
\* leaves such a one out only while the store's counter lags behind its rows,
\* since a start was killed before the recount, and never one that was
\* acknowledged.
StartLeavesNoneOut ==
    [][~Up /\ Up' => \A i \in stored : HasRow(i)' \/ (tallied # stored /\ i \notin acked)]_vars

\* In the end the Collector answers, and neither the Gateway nor the operator
\* brings more work.
Calm ==
    /\ <>[](\A w \in Workers : \A i \in DOMAIN worker[w].outcome :
                worker[w].outcome[i] # "pending")
    /\ <>[][\A i \in Ids : ~Submit(i)]_vars
    /\ <>[][\A S \in SUBSET Ids : ~Requeue(S)]_vars

\* Then every acknowledged capture is settled: none is forgotten in a queue
\* that was full, under a lease nobody holds, or as scheduled when it is not.
AckedSettles == Calm => \A i \in Ids : i \in acked ~> row[i].state \in Settled

=============================================================================
