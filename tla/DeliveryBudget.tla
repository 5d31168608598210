---------------------------- MODULE DeliveryBudget ----------------------------
(***************************************************************************)
(* The byte budget of the Relay's delivery workers (relay.rs, deliver_many *)
(* and load_delivery_payload).  A worker reads the bodies of the captures  *)
(* it has claimed, several at a time, and sends them in batches.  A body   *)
(* is read under permits of one semaphore for all workers, and keeps them  *)
(* until the batch it went into has been answered.                         *)
(*                                                                         *)
(* The semaphore serves its waiters in order and hands over permits        *)
(* whether or not the waiter is polled; the reads of a worker are polled   *)
(* only while it asks for the next body, never while it sends.             *)
(***************************************************************************)
EXTENDS Naturals, Sequences, FiniteSets, Functions

CONSTANTS
    Captures,         \* captures with a delivery row
    Workers,          \* delivery workers
    MaxEnvelope,      \* max_envelope_bytes
    Budgets,          \* values of max_delivery_inflight_bytes
    Sizes,            \* lengths of rows, the line feed included; 0 in old rows
    UntoldLength,     \* the length of a capture whose row says 0
    BatchBytes,       \* delivery_batch_bytes
    BatchRecords,     \* delivery_batch_records
    ReadConcurrency   \* delivery_read_concurrency

ASSUME BudgetAssumption ==
    /\ IsFiniteSet(Captures) /\ IsFiniteSet(Workers)
    /\ Budgets \subseteq Nat /\ Sizes \subseteq Nat
    /\ {MaxEnvelope, UntoldLength, BatchBytes, BatchRecords, ReadConcurrency} \subseteq Nat \ {0}

VARIABLES
    budget,     \* the configured number of permits
    size,       \* [Captures -> Sizes]
    freeBytes,  \* permits nobody has
    waiters,    \* Seq(Captures): the semaphore's queue
    permits,    \* captures whose body has its permits
    due,        \* captures with a pending row
    load        \* [Workers -> what deliver_many has claimed, and where it is]

budgetVars == <<budget, size, freeBytes, waiters, permits, due, load>>

NoLoad == [todo |-> {}, reading |-> {}, batch |-> {}, sending |-> {}, done |-> {}]
Claimed(w) == UNION {load[w][f] : f \in DOMAIN NoLoad}

\* RelayInner::open refuses a budget below one envelope and its line feed.
BudgetInit ==
    /\ budget \in {b \in Budgets : b >= MaxEnvelope + 1}
    /\ size \in [Captures -> Sizes]
    /\ freeBytes = budget /\ waiters = <<>> /\ permits = {}
    /\ due = Captures /\ load = [w \in Workers |-> NoLoad]

\* A row without a length reserves a whole envelope and its line feed.
Reservation(i) == IF size[i] = 0 THEN MaxEnvelope + 1 ELSE size[i]

\* What an item adds to a batch: its body and the line feed after it, which is
\* the length of the stored line (read_capture takes the line feed off).
ItemBytes(i) == IF size[i] = 0 THEN UntoldLength ELSE size[i]
BytesOf(S) == SumFunctionOnSet([i \in Captures |-> ItemBytes(i)], S)
PermitsOf(S) == SumFunctionOnSet([i \in Captures |-> Reservation(i)], S)

\* collect_delivery_batch and claim_many.
ClaimLoad(w, S) ==
    /\ load[w] = NoLoad /\ S # {} /\ Cardinality(S) <= BatchRecords
    /\ load' = [load EXCEPT ![w].todo = S] /\ due' = due \ S
    /\ UNCHANGED <<budget, size, freeBytes, waiters, permits>>

\* The next read of buffer_unordered asks for its permits; what is larger than
\* the whole budget is retried later.
StartRead(w, i) ==
    /\ load[w].sending = {} /\ i \in load[w].todo
    /\ Cardinality(load[w].reading) < ReadConcurrency
    /\ IF Reservation(i) > budget
       THEN /\ load' = [load EXCEPT ![w].todo = @ \ {i}, ![w].done = @ \cup {i}]
            /\ UNCHANGED waiters
       ELSE /\ load' = [load EXCEPT ![w].todo = @ \ {i}, ![w].reading = @ \cup {i}]
            /\ waiters' = Append(waiters, i)
    /\ UNCHANGED <<budget, size, freeBytes, permits, due>>

\* The semaphore serves the first waiter as soon as it has enough.
Grant ==
    /\ waiters # <<>> /\ Reservation(Head(waiters)) <= freeBytes
    /\ freeBytes' = freeBytes - Reservation(Head(waiters))
    /\ permits' = permits \cup {Head(waiters)} /\ waiters' = Tail(waiters)
    /\ UNCHANGED <<budget, size, due, load>>

\* Mutant: a full batch waits for an item that does not fit.
AddToBatch_NeverFull(w, i) ==
    LET held == load[w].batch  new == held \cup {i} IN
    IF held # {} /\ BytesOf(new) > BatchBytes
    THEN [load[w] EXCEPT !.reading = @ \ {i}, !.sending = held, !.batch = {i}]
    ELSE [load[w] EXCEPT !.reading = @ \ {i}, !.batch = new]

\* What does not fit goes into the next batch; a full batch is sent.
AddToBatch(w, i) ==
    LET held == load[w].batch  new == held \cup {i} IN
    IF held # {} /\ BytesOf(new) > BatchBytes
    THEN [load[w] EXCEPT !.reading = @ \ {i}, !.sending = held, !.batch = {i}]
    ELSE IF BytesOf(new) >= BatchBytes
    THEN [load[w] EXCEPT !.reading = @ \ {i}, !.sending = new, !.batch = {}]
    ELSE [load[w] EXCEPT !.reading = @ \ {i}, !.batch = new]

NextBody(w, i) ==
    /\ load[w].sending = {} /\ i \in load[w].reading \cap permits
    /\ load' = [load EXCEPT ![w] = AddToBatch(w, i)]
    /\ UNCHANGED <<budget, size, freeBytes, waiters, permits, due>>

\* Mutant: a read that fails keeps its permits.
ReadFails_Leak(w, i) ==
    /\ load[w].sending = {} /\ i \in load[w].reading \cap permits
    /\ permits' = permits \ {i} /\ UNCHANGED freeBytes
    /\ load' = [load EXCEPT ![w].reading = @ \ {i}, ![w].done = @ \cup {i}]
    /\ UNCHANGED <<budget, size, waiters, due>>

\* read_capture fails; the permits go back and the row is retried.
ReadFails(w, i) ==
    /\ load[w].sending = {} /\ i \in load[w].reading \cap permits
    /\ permits' = permits \ {i} /\ freeBytes' = freeBytes + Reservation(i)
    /\ load' = [load EXCEPT ![w].reading = @ \ {i}, ![w].done = @ \cup {i}]
    /\ UNCHANGED <<budget, size, waiters, due>>

\* No body is left to wait for.
SendLast(w) ==
    /\ load[w].sending = {} /\ load[w].todo = {} /\ load[w].reading = {}
    /\ load[w].batch # {}
    /\ load' = [load EXCEPT ![w].sending = load[w].batch, ![w].batch = {}]
    /\ UNCHANGED <<budget, size, freeBytes, waiters, permits, due>>

\* send_delivery_batch returns, whatever the Collector said: the payloads are
\* dropped with their permits.  An item that fills the new batch is sent next.
Sent(w) ==
    /\ load[w].sending # {}
    /\ permits' = permits \ load[w].sending /\ freeBytes' = freeBytes + PermitsOf(load[w].sending)
    /\ LET full == BytesOf(load[w].batch) >= BatchBytes IN
       load' = [load EXCEPT ![w].sending = IF full THEN load[w].batch ELSE {},
                            ![w].batch = IF full THEN {} ELSE @,
                            ![w].done = @ \cup load[w].sending]
    /\ UNCHANGED <<budget, size, waiters, due>>

\* finish_many: some rows are settled, some pending again.
FinishLoad(w, again) ==
    /\ load[w].done # {} /\ Claimed(w) = load[w].done /\ again \subseteq load[w].done
    /\ load' = [load EXCEPT ![w] = NoLoad] /\ due' = due \cup again
    /\ UNCHANGED <<budget, size, freeBytes, waiters, permits>>

\* A new capture, in the place of one that is settled: its row has a length.
Arrives(i) ==
    /\ i \notin due \cup UNION {Claimed(w) : w \in Workers}
    /\ due' = due \cup {i} /\ size' \in {[size EXCEPT ![i] = n] : n \in Sizes \ {0}}
    /\ UNCHANGED <<budget, freeBytes, waiters, permits, load>>

Working(w) ==
    \/ SendLast(w) \/ Sent(w)
    \/ \E i \in Captures : StartRead(w, i) \/ NextBody(w, i)
    \/ \E again \in SUBSET load[w].done : FinishLoad(w, again)

BudgetNext ==
    \/ Grant
    \/ \E w \in Workers : Working(w) \/ \E S \in SUBSET due : ClaimLoad(w, S)
    \/ \E w \in Workers, i \in Captures : ReadFails(w, i)
    \/ \E i \in Captures : Arrives(i)

\* The runtime polls every worker, and every request ends with its time-out.
BudgetFair == WF_budgetVars(Grant) /\ \A w \in Workers : WF_budgetVars(Working(w))

BudgetSpec == BudgetInit /\ [][BudgetNext]_budgetVars /\ BudgetFair

-----------------------------------------------------------------------------
\* No permit is lost or given twice, whatever fails.
PermitsConserved ==
    /\ freeBytes + PermitsOf(permits) = budget
    /\ permits \subseteq UNION {Claimed(w) : w \in Workers}
    /\ \A w \in Workers : load[w].batch \cup load[w].sending \subseteq permits

\* Whatever a worker claims is settled or pending again in the end: workers
\* that keep one batch while they wait for the permits of the next body do not
\* wait for one another, or for themselves.
Ends == \A w \in Workers : (load[w] # NoLoad) ~> (load[w] = NoLoad)

\* It ends when the budget leaves room for an envelope and its line feed beside
\* one unsent batch of every worker, and every row has its length.  (open() asks
\* for one envelope only, and with one byte less than this the workers may stop.)
AmpleBudgetEnds ==
    ( /\ budget >= Cardinality(Workers) * (BatchBytes - 1) + MaxEnvelope + 1
      /\ \A n \in Sizes : 0 < n /\ n <= MaxEnvelope + 1 ) => Ends
=============================================================================
