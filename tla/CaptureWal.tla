------------------------------ MODULE CaptureWal ------------------------------
(***************************************************************************)
(* The capture store of the Relay and of the Collector (store.rs): one     *)
(* writer thread appends canonical records to an NDJSON segment, syncs it, *)
(* commits one ledger transaction per batch and only then answers.  A full *)
(* or aged segment is sealed (renamed, digested) and the next one created. *)
(* On start the segments are scanned and the ledger is completed.          *)
(*                                                                         *)
(* Every place where the code makes something durable is a step of its     *)
(* own, so a crash may fall between any two of them.  A byte is one        *)
(* record; a SHA-256 of a segment is the number of records it covers       *)
(* (segments are append-only); a locator is a segment and a position.      *)
(***************************************************************************)
EXTENDS Naturals, Sequences, FiniteSets

CONSTANTS
    Ids,            \* captureIds
    Payloads,       \* payload bytes, told apart by their SHA-256
    NoPayload,      \* payload of an id that has no row
    BatchRecords,   \* StoreConfig.batch_records
    SegmentMax,     \* StoreConfig.segment_max_bytes, in records
    MaxSegments,    \* bound: segments ever created
    MaxFaults,      \* bound: crashes and failed Flush steps
    Faults          \* what the environment may do, a subset of FaultKinds

(***************************************************************************)
(* "process":  the process dies, or the writer stops on an I/O error in a  *)
(*             batch; the page cache survives.                             *)
(* "power":    the machine dies; what was not synced may be lost.          *)
(* "recovery": a crash may also fall between two steps of a recovery.      *)
(* "flush":    an I/O step of an explicit Flush may fail.  The writer      *)
(*             reports it to the caller and keeps running.                 *)
(***************************************************************************)
FaultKinds == {"process", "power", "recovery", "flush"}

ASSUME ConstantsAssumption ==
    /\ NoPayload \notin Payloads
    /\ IsFiniteSet(Ids)
    /\ BatchRecords \in Nat \ {0}
    /\ SegmentMax \in Nat \ {0}
    /\ MaxSegments \in Nat \ {0}
    /\ MaxFaults \in Nat
    /\ Faults \subseteq FaultKinds

SegIds == 1 .. MaxSegments
Record == [id : Ids, payload : Payloads]

Locator == [seg : 0 .. MaxSegments, pos : Nat, payload : Payloads \cup {NoPayload}]
NoRow == [seg |-> 0, pos |-> 0, payload |-> NoPayload]

SegmentRow == [state : {"none", "open", "sealed"}, bytes : Nat, sha : Nat]
NoSegment == [state |-> "none", bytes |-> 0, sha |-> 0]

VARIABLES
    \* the segments directory
    name,       \* [SegIds -> "absent", ".open" or ".sealed"]
    recs,       \* [SegIds -> the records a reader of the file sees]
    synced,     \* [SegIds -> how many of them survive a power loss]
    torn,       \* [SegIds -> does an incomplete line follow them]
    \* the redb ledger, changed by atomic durable transactions
    captures,   \* [Ids -> Locator], NoRow when the table has no row
    segments,   \* [SegIds -> SegmentRow]
    counters,   \* the counters row: captures and sealed segments
    \* the writer
    pc,         \* next step of the writer
    active,     \* in-memory metadata of the active segment
    batch,      \* the batch being committed
    cursor,     \* next task of the batch
    staged,     \* [Ids -> Locator] appended by this batch, no row yet
    resume,     \* what follows the rotation in progress
    todo,       \* segments the recovery has still to scan
    changed,    \* RecoverySummary.ledger_changed
    \* observers
    acked,      \* records acknowledged as durable to some caller
    faults      \* crashes and failed Flush steps so far, at most MaxFaults

disk == <<name, recs, synced, torn>>
ledger == <<captures, segments, counters>>
task == <<batch, cursor, staged>>
scan == <<todo, changed>>
vars == <<disk, ledger, pc, active, task, resume, scan, acked, faults>>

NoActive == [seg |-> 0, state |-> "none", bytes |-> 0, sha |-> 0]
NothingStaged == [i \in Ids |-> NoRow]
Known(i) == captures[i].seg # 0
KnownIds == {i \in Ids : Known(i)}
Staged == {i \in Ids : staged[i].seg # 0}
RowOf(a) == [state |-> a.state, bytes |-> a.bytes, sha |-> a.sha]
SealedRows == {s \in SegIds : segments[s].state = "sealed"}
OpenRows == {s \in SegIds : segments[s].state = "open"}

\* The id a new segment gets: one more than the last row of the table.
IsNextId(n) ==
    /\ \A s \in SegIds : segments[s].state # "none" => s < n
    /\ n = 1 \/ \E s \in SegIds : s = n - 1 /\ segments[s].state # "none"

\* MaxSegments leaves room for every rotation that n appended records can cause.
RoomFor(n) == \A s \in SegIds : segments[s].state # "none" => s + n < MaxSegments

Init ==
    /\ name = [s \in SegIds |-> "absent"]
    /\ recs = [s \in SegIds |-> <<>>]
    /\ synced = [s \in SegIds |-> 0]
    /\ torn = [s \in SegIds |-> FALSE]
    /\ captures = [i \in Ids |-> NoRow]
    /\ segments = [s \in SegIds |-> NoSegment]
    /\ counters = [captures |-> 0, sealed |-> 0]
    /\ pc = "down"
    /\ active = NoActive
    /\ batch = <<>> /\ cursor = 1 /\ staged = NothingStaged
    /\ resume = "start"
    /\ todo = {} /\ changed = FALSE
    /\ acked = {}
    /\ faults = 0

-----------------------------------------------------------------------------
(***************************************************************************)
(* Committing a batch.                                                     *)
(***************************************************************************)

\* The writer collects submitted records, up to batch_records of them.
TakeBatch(b) ==
    /\ pc = "idle"
    /\ RoomFor(Len(b))
    /\ batch' = b /\ cursor' = 1 /\ staged' = NothingStaged
    /\ pc' = "append"
    /\ UNCHANGED <<disk, ledger, active, resume, scan, acked, faults>>

\* The task at the cursor is the first one to bring its captureId.
AtFresh ==
    /\ cursor <= Len(batch)
    /\ ~Known(batch[cursor].id)
    /\ staged[batch[cursor].id].seg = 0

SegmentFull == active.bytes > 0 /\ active.bytes + 1 > SegmentMax

\* A duplicate or a conflict is classified and not written.
Classify ==
    /\ pc = "append"
    /\ cursor <= Len(batch) /\ ~AtFresh
    /\ cursor' = cursor + 1
    /\ UNCHANGED <<disk, ledger, pc, active, batch, staged, resume, scan, acked, faults>>

Append1 ==
    /\ pc = "append"
    /\ AtFresh /\ ~SegmentFull
    /\ LET r == batch[cursor] IN
       /\ recs' = [recs EXCEPT ![active.seg] = Append(@, r)]
       /\ active' = [active EXCEPT !.bytes = @ + 1]
       /\ staged' = [staged EXCEPT ![r.id] =
                        [seg |-> active.seg, pos |-> active.bytes + 1, payload |-> r.payload]]
    /\ cursor' = cursor + 1
    /\ UNCHANGED <<name, synced, torn, ledger, pc, batch, resume, scan, acked, faults>>

\* A record that does not fit seals the segment in the middle of the batch.
RotateInBatch ==
    /\ pc = "append"
    /\ AtFresh /\ SegmentFull
    /\ pc' = "seal" /\ resume' = "append"
    /\ UNCHANGED <<disk, ledger, active, task, scan, acked, faults>>

\* Mutant: the batch is committed without sync_data.
SyncBatch_NoSync ==
    /\ pc = "append" /\ cursor > Len(batch)
    /\ pc' = "commit"
    /\ UNCHANGED <<disk, ledger, active, task, resume, scan, acked, faults>>

\* A batch of duplicates and conflicts has nothing to sync.
SyncBatch ==
    /\ pc = "append"
    /\ cursor > Len(batch)
    /\ synced' = IF Staged = {} THEN synced
                 ELSE [synced EXCEPT ![active.seg] = Len(recs[active.seg])]
    /\ pc' = "commit"
    /\ UNCHANGED <<name, recs, torn, ledger, active, task, resume, scan, acked, faults>>

\* One transaction: the new locators, the row of the active segment, counters.
\* Afterwards a full or aged segment is rotated before anybody is answered.
CommitBatch ==
    /\ pc = "commit"
    /\ captures' = [i \in Ids |-> IF i \in Staged THEN staged[i] ELSE captures[i]]
    /\ segments' = [segments EXCEPT ![active.seg] = RowOf(active)]
    /\ counters' = [counters EXCEPT !.captures = @ + Cardinality(Staged)]
    /\ \/ active.bytes < SegmentMax /\ pc' = "reply" /\ UNCHANGED resume
       \/ active.bytes > 0 /\ pc' = "seal" /\ resume' = "reply"
    /\ UNCHANGED <<disk, active, task, scan, acked, faults>>

BatchRecordsOf(b) == {b[n] : n \in 1 .. Len(b)}

\* Mutant: a conflict is answered like a duplicate.
Reply_AckConflict ==
    /\ pc = "reply"
    /\ acked' = acked \cup BatchRecordsOf(batch)
    /\ pc' = "idle"
    /\ batch' = <<>> /\ cursor' = 1 /\ staged' = NothingStaged
    /\ UNCHANGED <<disk, ledger, active, resume, scan, faults>>

\* Accepted records and byte-identical duplicates are acknowledged as durable;
\* a conflicting payload gets an error.
Reply ==
    /\ pc = "reply"
    /\ acked' = acked \cup {r \in BatchRecordsOf(batch) : captures[r.id].payload = r.payload}
    /\ pc' = "idle"
    /\ batch' = <<>> /\ cursor' = 1 /\ staged' = NothingStaged
    /\ UNCHANGED <<disk, ledger, active, resume, scan, faults>>

-----------------------------------------------------------------------------
(***************************************************************************)
(* Sealing the active segment and creating the next one.                   *)
(***************************************************************************)

\* Mutant: the file is renamed without sync_all.
SealRename_NoSync ==
    /\ pc = "seal"
    /\ name' = [name EXCEPT ![active.seg] = "sealed"]
    /\ active' = [active EXCEPT !.state = "sealed", !.sha = active.bytes]
    /\ pc' = "seal_row"
    /\ UNCHANGED <<recs, synced, torn, ledger, task, resume, scan, acked, faults>>

\* sync_all, then rename .open to .sealed (a no-op when it is sealed already).
SealRename ==
    /\ pc = "seal"
    /\ synced' = [synced EXCEPT ![active.seg] = Len(recs[active.seg])]
    /\ name' = [name EXCEPT ![active.seg] = "sealed"]
    /\ active' = [active EXCEPT !.state = "sealed", !.sha = active.bytes]
    /\ pc' = "seal_row"
    /\ UNCHANGED <<recs, torn, ledger, task, resume, scan, acked, faults>>

\* Mutant: the batch goes on in the segment just sealed.
SealRow_NoRotation ==
    /\ pc = "seal_row"
    /\ segments' = [segments EXCEPT ![active.seg] = RowOf(active)]
    /\ counters' = [counters EXCEPT !.sealed = @ + 1]
    /\ IF resume = "shutdown"
       THEN pc' = "down" /\ active' = NoActive
       ELSE pc' = (IF resume \in {"append", "reply"} THEN resume ELSE "idle") /\ UNCHANGED active
    /\ UNCHANGED <<disk, captures, task, resume, scan, acked, faults>>

SealRow ==
    /\ pc = "seal_row"
    /\ segments' = [segments EXCEPT ![active.seg] = RowOf(active)]
    /\ counters' = [counters EXCEPT !.sealed = @ + 1]
    /\ IF resume = "shutdown"
       THEN pc' = "down" /\ active' = NoActive
       ELSE pc' = "create" /\ UNCHANGED active
    /\ UNCHANGED <<disk, captures, task, resume, scan, acked, faults>>

\* create_new: refused when the file exists.
CreateFile ==
    /\ pc = "create"
    /\ \E n \in SegIds :
       /\ IsNextId(n) /\ name[n] = "absent"
       /\ name' = [name EXCEPT ![n] = "open"]
    /\ pc' = "create_row"
    /\ UNCHANGED <<recs, synced, torn, ledger, active, task, resume, scan, acked, faults>>

CreateRow ==
    /\ pc = "create_row"
    /\ \E n \in SegIds :
       /\ IsNextId(n)
       /\ segments' = [segments EXCEPT ![n] = [NoSegment EXCEPT !.state = "open"]]
       /\ active' = [seg |-> n, state |-> "open", bytes |-> 0, sha |-> 0]
    /\ pc' = IF resume \in {"append", "reply"} THEN resume ELSE "idle"
    /\ UNCHANGED <<disk, captures, counters, task, resume, scan, acked, faults>>

\* Flush of a segment that holds records (an empty one is left as it is).
Flush ==
    /\ pc = "idle"
    /\ active.bytes > 0 /\ RoomFor(1)
    /\ counters.sealed < MaxSegments    \* bound: a refused Flush can be repeated
    /\ pc' = "seal" /\ resume' = "flush"
    /\ UNCHANGED <<disk, ledger, active, task, scan, acked, faults>>

\* An I/O step of the Flush fails: the caller gets the error and the writer
\* loop goes on with whatever segment it still holds as active.
FlushFails ==
    /\ "flush" \in Faults
    /\ resume = "flush" /\ pc \in {"seal", "seal_row", "create", "create_row"}
    /\ faults < MaxFaults /\ faults' = faults + 1
    /\ pc' = "idle"
    /\ UNCHANGED <<disk, ledger, active, task, resume, scan, acked>>

\* The file of the next segment exists, left by an earlier Flush that failed
\* on its ledger row.  A batch that has to rotate stops the writer.
CreateRefused ==
    /\ pc = "create"
    /\ \E n \in SegIds : IsNextId(n) /\ name[n] # "absent"
    /\ IF resume = "flush"
       THEN pc' = "idle" /\ UNCHANGED <<active, task>>
       ELSE /\ pc' = "down" /\ active' = NoActive
            /\ batch' = <<>> /\ cursor' = 1 /\ staged' = NothingStaged
    /\ UNCHANGED <<disk, ledger, resume, scan, acked, faults>>

\* Shutdown seals a segment that holds records and creates no other.
Shutdown ==
    /\ pc = "idle"
    /\ RoomFor(1)
    /\ IF active.bytes = 0
       THEN pc' = "down" /\ active' = NoActive /\ UNCHANGED resume
       ELSE pc' = "seal" /\ resume' = "shutdown" /\ UNCHANGED active
    /\ UNCHANGED <<disk, ledger, task, scan, acked, faults>>

\* ReadCapture, ListCaptures, Audit, and a Flush of an empty segment.
Inspect == pc = "idle" /\ UNCHANGED vars

-----------------------------------------------------------------------------
(***************************************************************************)
(* Crash and recovery.                                                     *)
(***************************************************************************)
Recovering == pc \in {"recover", "open"}

LoseMemory ==
    /\ pc \notin {"down", "refused"}
    /\ Recovering => "recovery" \in Faults
    /\ faults < MaxFaults /\ faults' = faults + 1
    /\ pc' = "down"
    /\ active' = NoActive
    /\ batch' = <<>> /\ cursor' = 1 /\ staged' = NothingStaged
    /\ resume' = "start"
    /\ todo' = {} /\ changed' = FALSE
    /\ UNCHANGED <<name, ledger, acked>>

\* A line cut short is possible while one is being written.
ProcessCrash ==
    /\ "process" \in Faults
    /\ LoseMemory
    /\ \E cut \in BOOLEAN :
         torn' = [s \in SegIds |-> torn[s] \/ (cut /\ s = active.seg /\ pc = "append")]
    /\ UNCHANGED <<recs, synced>>

\* Of what was written and not synced, any prefix is on the disk.
PowerCrash ==
    /\ "power" \in Faults
    /\ LoseMemory
    /\ \E keep \in [SegIds -> 0 .. SegmentMax], cut \in BOOLEAN :
       /\ \A s \in SegIds : keep[s] \in synced[s] .. Len(recs[s])
       /\ recs' = [s \in SegIds |-> SubSeq(recs[s], 1, keep[s])]
       /\ synced' = keep
       /\ torn' = [s \in SegIds |->
                     torn[s] \/ (cut /\ (\/ keep[s] < Len(recs[s])
                                         \/ s = active.seg /\ pc = "append"))]

\* The store is opened again: list the segment files.
Restart ==
    /\ pc = "down"
    /\ todo' = {s \in SegIds : name[s] # "absent"}
    /\ changed' = FALSE
    /\ pc' = "recover"
    /\ UNCHANGED <<disk, ledger, active, task, resume, acked, faults>>

FirstTodo(s) == s \in todo /\ \A t \in todo : s <= t

\* Mutant: a sealed file is trusted whatever its row says.
Trusted_ByName(s) == name[s] = "sealed" /\ ~torn[s]

\* A sealed file whose row already says so is trusted without being read.
Trusted(s) ==
    /\ name[s] = "sealed" /\ ~torn[s]
    /\ segments[s].state = "sealed"
    /\ segments[s].bytes = Len(recs[s])
    /\ segments[s].sha # 0

SkipSegment(s) ==
    /\ pc = "recover"
    /\ FirstTodo(s) /\ Trusted(s)
    /\ todo' = todo \ {s}
    /\ UNCHANGED <<disk, ledger, pc, active, task, resume, changed, acked, faults>>

\* Positions of the records of segment s with captureId i.
Positions(s, i) == {n \in 1 .. Len(recs[s]) : recs[s][n].id = i}

\* Two payloads under one captureId: "captureId conflict during recovery".
ConflictIn(s) ==
    \E i \in Ids : \E m \in Positions(s, i) :
        \/ Known(i) /\ captures[i].payload # recs[s][m].payload
        \/ \E n \in Positions(s, i) : recs[s][n].payload # recs[s][m].payload

ScannedRow(s) ==
    [state |-> IF name[s] = "open" THEN "open" ELSE "sealed",
     bytes |-> Len(recs[s]),
     sha |-> IF name[s] = "open" THEN 0 ELSE Len(recs[s])]

RowsFrom(s, i) ==
    {[seg |-> s, pos |-> n, payload |-> recs[s][n].payload] :
        n \in {m \in Positions(s, i) : \A k \in Positions(s, i) : m <= k}}

\* Scan one segment: cut an incomplete tail off an open file, give a row to
\* every record that has none, rewrite the row of the segment.
RecoverSegment(s) ==
    /\ pc = "recover"
    /\ FirstTodo(s) /\ ~Trusted(s)
    /\ ~ConflictIn(s) /\ ~(torn[s] /\ name[s] = "sealed")
    /\ torn' = [torn EXCEPT ![s] = FALSE]
    /\ captures' = [i \in Ids |->
                      IF Known(i) \/ Positions(s, i) = {} THEN captures[i]
                      ELSE CHOOSE row \in RowsFrom(s, i) : TRUE]
    /\ segments' = [segments EXCEPT ![s] = ScannedRow(s)]
    /\ changed' = (changed \/ captures' # captures \/ segments' # segments)
    /\ todo' = todo \ {s}
    /\ UNCHANGED <<name, recs, synced, counters, pc, active, task, resume, acked, faults>>

RecoveryRefused(s) ==
    /\ pc = "recover"
    /\ FirstTodo(s) /\ ~Trusted(s)
    /\ ConflictIn(s) \/ (torn[s] /\ name[s] = "sealed")
    /\ pc' = "refused"
    /\ UNCHANGED <<disk, ledger, active, task, resume, scan, acked, faults>>

\* The counters are recounted in a transaction of their own, when this scan
\* changed a row.
FinishRecovery ==
    /\ pc = "recover"
    /\ todo = {}
    /\ counters' = IF changed
                   THEN [captures |-> Cardinality(KnownIds), sealed |-> Cardinality(SealedRows)]
                   ELSE counters
    /\ pc' = "open"
    /\ UNCHANGED <<disk, captures, segments, active, task, resume, scan, acked, faults>>

\* Mutant: a store without an open segment is not given one.
OpenActive_NoCreate ==
    /\ pc = "open"
    /\ \E s \in OpenRows :
          active' = [seg |-> s, state |-> "open", bytes |-> segments[s].bytes, sha |-> 0]
    /\ pc' = "idle"
    /\ UNCHANGED <<disk, ledger, task, resume, scan, acked, faults>>

\* Reopen the one open segment or create one; two of them is an error.
OpenActive ==
    /\ pc = "open"
    /\ IF OpenRows = {}
       THEN pc' = "create" /\ resume' = "start" /\ UNCHANGED active
       ELSE \E s \in OpenRows :
              /\ active' = [seg |-> s, state |-> "open",
                            bytes |-> segments[s].bytes, sha |-> 0]
              /\ pc' = IF OpenRows = {s} THEN "idle" ELSE "refused"
              /\ UNCHANGED resume
    /\ UNCHANGED <<disk, ledger, task, scan, acked, faults>>

-----------------------------------------------------------------------------
Batches == UNION {[1 .. n -> Record] : n \in 1 .. BatchRecords}

Next ==
    \/ \E b \in Batches : TakeBatch(b)
    \/ Classify \/ Append1 \/ RotateInBatch \/ SyncBatch \/ CommitBatch \/ Reply
    \/ SealRename \/ SealRow \/ CreateFile \/ CreateRow \/ CreateRefused
    \/ Flush \/ FlushFails \/ Shutdown \/ Inspect
    \/ ProcessCrash \/ PowerCrash \/ Restart
    \/ \E s \in SegIds : SkipSegment(s) \/ RecoverSegment(s) \/ RecoveryRefused(s)
    \/ FinishRecovery \/ OpenActive

\* The steps of the writer thread and of the start-up code: they need nobody.
WriterStep ==
    \/ Classify \/ Append1 \/ RotateInBatch \/ SyncBatch \/ CommitBatch \/ Reply
    \/ SealRename \/ SealRow \/ CreateFile \/ CreateRow \/ CreateRefused
    \/ Restart
    \/ \E s \in SegIds : SkipSegment(s) \/ RecoverSegment(s) \/ RecoveryRefused(s)
    \/ FinishRecovery \/ OpenActive

Spec == Init /\ [][Next]_vars

\* The thread runs while it has something to do, and the service is restarted
\* (restart: unless-stopped in the deployment).
FairSpec == Spec /\ WF_vars(WriterStep)

-----------------------------------------------------------------------------
(***************************************************************************)
(* Properties.                                                             *)
(***************************************************************************)

\* Types of the variables, and the bound on faults.
TypeOK ==
    /\ name \in [SegIds -> {"absent", "open", "sealed"}]
    /\ recs \in [SegIds -> Seq(Record)]
    /\ synced \in [SegIds -> Nat]
    /\ torn \in [SegIds -> BOOLEAN]
    /\ captures \in [Ids -> Locator]
    /\ segments \in [SegIds -> SegmentRow]
    /\ counters \in [captures : Nat, sealed : Nat]
    /\ pc \in {"down", "recover", "open", "refused", "idle", "append", "commit",
               "reply", "seal", "seal_row", "create", "create_row"}
    /\ active \in [seg : 0 .. MaxSegments, state : {"none", "open", "sealed"},
                   bytes : Nat, sha : Nat]
    /\ batch \in Seq(Record)
    /\ cursor \in Nat \ {0}
    /\ staged \in [Ids -> Locator]
    /\ resume \in {"start", "append", "reply", "flush", "shutdown"}
    /\ todo \subseteq SegIds
    /\ changed \in BOOLEAN
    /\ acked \subseteq Record
    /\ faults \in 0 .. MaxFaults

\* The bytes the ledger's locator of i points at are those of the row.
Readable(i) ==
    /\ captures[i].seg \in SegIds
    /\ captures[i].pos \in 1 .. Len(recs[captures[i].seg])
    /\ recs[captures[i].seg][captures[i].pos] = [id |-> i, payload |-> captures[i].payload]

\* A record acknowledged as durable can be read back through its locator, in
\* every state after the acknowledgement: across crashes and half-done
\* recoveries (submit, commit_batch, read_capture).
AckedReadable ==
    \A r \in acked : Readable(r.id) /\ captures[r.id].payload = r.payload

\* A captureId keeps the locator and the digest of the first payload that got
\* a row: no retry, conflict or recovery moves or replaces it.
FirstPayloadWins ==
    [][\A i \in Ids : Known(i) => captures'[i] = captures[i]]_vars

\* The file of a segment whose row says "sealed" never changes again: it is
\* what the Raw Archive hashes, uploads and commits.
SealedImmutable ==
    [][\A s \in SegIds : segments[s].state = "sealed" => recs'[s] = recs[s]]_vars

\* Opening the store again never ends in one of the errors of the recovery
\* (conflict, incomplete sealed tail, two open segments).
RecoveryAccepts == pc # "refused"

\* Once the store is open, the counters row agrees with the table it counts;
\* health, and the Relay's decision to re-derive its deliveries, rely on it.
CountersMatch == pc = "idle" => counters.captures = Cardinality(KnownIds)

\* Once the store is open, every record of every segment file is the target of
\* a locator: the audit's locator_gap and locator_coverage checks.
LocatorCoverage ==
    pc = "idle" => \A s \in SegIds : \A n \in 1 .. Len(recs[s]) :
        \E i \in Ids : captures[i].seg = s /\ captures[i].pos = n

\* An open store's ledger is complete: nothing in the files is without a
\* locator, and the counters agree with what there is.
LedgerIsComplete == CountersMatch /\ LocatorCoverage

\* What the store promises, read off its files: an id is bound to what its
\* locator points at.
StoredNow == [i \in Ids |-> IF Readable(i) THEN captures[i].payload ELSE NoPayload]

Promise == INSTANCE DurableCaptures WITH stored <- StoredNow

\* The store implements the abstract one: payloads are bound for ever, and
\* acknowledged only when bound.
ImplementsPromise == Promise!PromiseSpec

\* A store that went down comes back: recovery, the creation of a segment and
\* whatever batch was under way end with the writer waiting for commands.
ComesBack == (pc # "idle") ~> (pc = "idle")

=============================================================================
