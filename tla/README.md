# ChipTrace in TLA+

ChipTrace records the traffic of coding agents without losing or changing it:
a Gateway in front of the model API writes every exchange to a durable outbox,
the Relay stores it in a write-ahead log (WAL) and forwards it to a Collector,
which stores it in a WAL of its own; sealed segments go to a Raw Archive, and
from there to validation, publication and delivery. The promise at every hop is
the same: *once acknowledged, never lost, never duplicated under one
`captureId` with other bytes*. This directory models the components that make
that promise, checks them with TLC and proves the central theorems with TLAPS.

## 1. Inventory

| Component (source) | State it keeps | Operations | Talks to | Hard behaviour |
|---|---|---|---|---|
| Capture store (`store.rs`) | NDJSON segments on disk; redb ledger (captures, attempts, segments, counters); one writer thread with the active segment in memory | submit (batched), read, list, audit, flush, shutdown, recover on open | Relay and Collector submit through a bounded channel | crash between any two of append, sync, ledger transaction, rename, sealed row, next file, open row; rotation inside a batch; retries and conflicts of one id |
| Relay delivery (`relay.rs`) | delivery ledger (rows, two indexes, counters); in memory: bounded queue, `scheduled` set, workers, ticker | enqueue, claim, deliver, finish, reclaim, requeue, start with a fast path | its own capture store; Collector over HTTP | leases that expire under a worker, lost answers, full queue, crash between store and ledger, shortcuts at start |
| Relay delivery budget (`relay.rs` 1638-1736) | a semaphore of bytes | load payload, send, release | delivery workers | permits held while waiting for more |
| Relay ingest quality and readiness (`relay.rs` 985-1126, 2055-2320, 2977-3386) | quality counters in the ledger, a copy in memory, archive of epochs; when each route was last heard of | record, archive, restore, observe, report | request handlers, `/health`, `/ready` | ledger and memory change, and are read, under different locks |
| Relay cloud ingest (`cloud_ingest.rs`, `relay_cloud_ingest`) | none of its own | derive captures from OTLP logs, traces and hooks; store the batch; count; answer | Relay enqueue, quality ledger | batches stored in part, sent again, answered by another attempt |
| Identity of telemetry (`turn_identity.rs`, `source_context.rs`, `session_view.rs`) | an index over one scan | resolve a record to a Session and a turn; audit the sources | offline inspection | files that change between two scans; identities that only look unique |
| Sharded store (`sharded.rs`) | topology file, N stores | route, flush all | capture stores | partial failure; crash while the topology is written |
| Collector HTTP (`collector.rs`, `ingest.rs`) | body budget | single and batch ingest | sharded store | batch limits, per-record results |
| Capture normalisation (`capture.rs`, `wire_tools.rs`, `tool_schema.rs`) | none | validate, canonicalise, digest | everything above | pure, but done again at every hop, whose bytes must then agree |
| Gateway outbox (`durable-outbox.js`, `drop-evidence.js`) | `open`, `pending`, `processing`, `failed` directories; in memory: open transactions, reservations, workers | begin, append, finalise, drain, deliver, retry, recover | Relay over HTTP | moves by link and remove, crash at every step, recovery beside live requests, bounded queue |
| Gateway proxy (`server.js`) | one transaction and one tee per request | stream, tee, capture | upstream, client, outbox | upstream, client or Gateway gone in the middle of a stream |
| Failed-outbox replay (`replay-failed-outbox.js`) | plan and result files | copy failed evidence back to pending | outbox directories | runs beside a live Gateway |
| Raw archive, object store (`raw_archive.rs`, `object_store.rs`) | immutable objects, manifests, checkpoints | archive, verify, restore | sealed segments | checkpoint last, partial uploads, sources that change |
| Assembler (`assemble.rs`, `session_lineage.rs`, `lifecycle.rs`) | partition files, an output directory | link, select, partition, merge, build graphs, replace the output | sealed captures | captures in any order, lost, repeated, in different partitions |
| Interactions and spans (`model_interaction.rs`, `standalone_compaction.rs`) | none | project captures into interactions, spans and links; judge completeness | sealed captures | recovered and truncated captures; missing ends |
| Acceptance and Release (`score.rs`, `release.rs`) | partitions, a staging directory, the output | deduplicate, assess, build, verify, replace | assemblies | several workers; replaced output; form of a Session before and after materialisation |
| Publication (`publish.rs`, `buyer.rs`) | objects and COMMIT.json | publish, verify, package | Releases, object store | commit last; directories rebuilt while they are read |
| MaaS export (`maas_export.rs`) | a tree provider/date/batch | export, append, replace, verify | sealed captures | exporters that overlap or die |
| OTLP delivery (`otlp_delivery.rs`) | receipts | deliver, resume | publication | resume after a crash |
| Cloud platform (`integrations/cloud-platform`) | job files | submit, run, requeue on restart | CLI | restart between two steps |

What makes each component correct:

- **Capture store**: an acknowledged record can be read back after any crash;
  an id keeps its first payload; a sealed file never changes; opening the store
  again never refuses what a crash left; counters and locators agree with the
  files; the store comes back.
- **Relay delivery**: every acknowledged capture has a delivery row; rows,
  indexes and counters agree; "delivered" is true of the Collector; one holder
  per lease; every acknowledged capture is settled in the end.
- **Outbox**: a capture is in one of the directories or at the Relay; what the
  Relay acknowledged is never sent with other bytes; an open transaction is
  recovered in the end.
- **Delivery budget**: permits are conserved; no set of workers waits for each
  other for ever.
- **Ingest quality**: no error is forgotten; the copy is the ledger when nothing
  runs. **Readiness**: 200 only when it is earned, 503 only with a cause.
- **Cloud ingest**: what is answered durable is stored, what is answered 200
  hides no error, a 409 is never a conflict of a body with itself.
- **Normalisation**: what one hop has accepted the next accepts and leaves as it
  is; a capture that counts as evidence of a turn has sources that agree on it.
- **Collector**: an id has one home; what was answered is found there; a flush
  that succeeds has sealed it.
- **Raw archive, publication**: a checkpoint or COMMIT is present only when all
  it names is, and names one set for ever.
- **Assembler, interactions, spans**: "complete", "final", "attested" and
  "conserved" are said only when the captures show it, in whatever order they
  arrived; nothing asked for is lost or doubled.
- **Acceptance, Release, MaaS**: an accepted Session is whole; a Release
  accounts for its lines; a tree has no request twice.
- **Telemetry**: a record is given to the turn it comes from or to none.

## 2. Plan

| Step | Module | What it is for |
|---|---|---|
| done | `DurableCaptures` | abstract store: ids bound to payloads, acknowledgements |
| done | `CaptureWal`, `MCCaptureWal`, `CaptureWalProofs` | `store.rs` step by step; implements `DurableCaptures`; proofs |
| done | `RelayDelivery`, `MCRelayDelivery`, `RelayDeliveryProofs` | ledger, queue, workers, ticker, crashes; every safety property proved |
| done | `Outbox`, `MCOutbox`, `OutboxProofs` | the Gateway's directories, transactions, retries and recovery; every safety property proved |
| done | `CommitLast`, `RawArchive`, `MCRawArchive`, `RawArchiveProofs` | abstract commit protocol; the archive implements it; proved |
| done | `DeliveryBudget`, `IngestQuality`, `ShardedCollector`, composed in `MCServices`, `ServicesProofs` | the other stateful parts of the services; proved |
| done | `Readiness`, `CloudIngest` with `IngestProofs`, composed with the delivery in `MCRelay` | what the Relay tells its callers; proved |
| done | `CaptureParts`, `CaptureEnvelope`, `CaptureFlow`, `MCCapture`, `CaptureProofs` | what Relay and Collector make of an envelope, and its way from one to the other; every safety property proved |
| done | `MCLedgers`, `MCSettles` | the delivery ledger in one run with the archive, and in one with the envelope |
| done | `WireStream`, `Publication`, `Release`, `Assessment`, `MaasExport`, composed in `MCOffline`; `PublicationProofs` | from the stream to what is delivered; publication proved to implement `CommitLast` |
| done | `Assembly`, `SessionMessages`, `SessionEvidence`, `RuntimeDag`, `RuntimeSpans`, `TurnIdentity`, `SessionView`, inputs in `MCSessions`, `MCSources` | the offline assembler and inspector |
| next | `Outbox`, second part | an opening that fails after its file is linked, the three reads of `findExisting`, power losses |
| then | `PlatformJobs`, `OtlpDelivery` | the remaining stateful parts |
| then | `CaptureChain` | Outbox, Relay and Collector composed over their abstract specifications: end-to-end durability |

Abstract specifications: `DurableCaptures` is the promise of both stores,
`CommitLast` that of the archive and of the publication, each implemented by the
detailed module through a refinement mapping. "A capture moves forward along
the chain and is dropped only when the next hop has it" is left for
`CaptureChain`.

## 3. The models

### 3.1 `DurableCaptures` and `CaptureWal` (`store.rs`)

`DurableCaptures` has two variables, what is bound to each id and what was
acknowledged, and two actions. `CaptureWal` is the store as the code runs it:

| State | Code |
|---|---|
| `name`, `recs`, `synced`, `torn` | the segment files: name suffix, complete lines, how many survive a power loss, an incomplete last line |
| `captures`, `segments`, `counters` | redb tables, changed by atomic durable transactions |
| `active`, `pc`, `batch`, `cursor`, `staged`, `resume` | the writer thread: `self.active`, the position in `commit_batch` / `seal_and_rotate`, locals |
| `todo`, `changed` | `recover_segments` and its `RecoverySummary` |
| `acked`, `faults` | observers |

Actions follow the code's durable points: `TakeBatch`, `Classify` / `Append1`,
`RotateInBatch`, `SyncBatch`, `CommitBatch`, `Reply` (`commit_batch`);
`SealRename`, `SealRow`, `CreateFile`, `CreateRow` (`seal_and_rotate`,
`create_active_segment`); `Flush`, `FlushFails`, `Shutdown`, `Inspect`;
`ProcessCrash`, `PowerCrash`; `Restart`, `SkipSegment`, `RecoverSegment`,
`RecoveryRefused`, `FinishRecovery`, `OpenActive` (recovery).

Abstractions: a byte is a record and the digest of a segment is the number of
records it covers (segments are append-only, so a prefix is determined by its
length); the queue in front of the writer is "any batch of up to
`BatchRecords`"; attempt rows and the counters of duplicates and conflicts are
left out; reading, listing and auditing are one action that changes nothing; a
rename and the sync of its directory are one step; an I/O error in a batch
stops the writer, which is the fault "process"; only `fsync = true`, the
default, is modelled. A flush whose rename succeeded and whose directory sync
failed is not modelled.

### 3.2 `RelayDelivery` (`relay.rs`)

| State | Code |
|---|---|
| `stored`, `tallied` | the Relay's capture store, as `DurableCaptures` promises it, and the captures its persisted counter counts |
| `row`, `pendingIx`, `inflightIx`, `counters`, `hasCounters` | the delivery ledger |
| `status`, `handler`, `queue`, `scheduled`, `worker`, `ticker` | the process: start-up, request handlers, the bounded channel, the set of ids queued or held, delivery workers, the one-second ticker |
| `remote`, `acked` | what the Collector holds, what the Gateway was told |
| `faults`, `overrun` | observers |

Each ledger transaction is an action (they run under one mutex), each await of
the code is a boundary between actions: a handler goes `Submit`, `EnsureRow`,
`QueueCapture` / `Acknowledge` and may be cancelled (`Abandon`); a worker goes
`Take`, `Claim`, `Deliver`, `Finish`, `Unschedule`; the ticker goes `Reclaim`,
`UnscheduleReclaimed`, `ListPending`, `QueueListed`; `Requeue` is the operator.
Start-up is `StoreOpens` or `StoreKilled`, then `OpenLedger` (with the fast path that trusts counters and index
lengths), `CompareTotals`, `Reconcile`.

Abstractions: time is the flag `due`; backoff lengths and attempt counts are
left out; the reconciliation takes one id per transaction; `took` is a set, so
an id queued twice counts once; the pass of `queue_pending` at start is the
ticker's first pass; closing the service leaves one of the states a crash
leaves. "failed" may be the answer for any id, because one invalid capture
makes the Collector refuse the whole batch (`docs/production-readiness.md:33`).
The captures that `StoreOpens` may find are those of requests cut short by the
crash. The store reports a counter that is written apart from the rows a
recovery adds (store.rs:1156-1204): a start killed between the two
(`StoreKilled`) leaves `tallied` behind `stored`, and a later start may or may
not count again, since it recounts only when it has read a segment. How the
store comes to either is `CaptureWal`; `CompareTotals` compares with `tallied`,
as the code does. `settles` leaves the lag out, because the question it asks of
the delivery is another one.

### 3.3 `Outbox` (`durable-outbox.js`)

| State | Code |
|---|---|
| `open`, `spool` | `open/`: the metadata of a transaction, how much its spools hold |
| `tmp`, `pending`, `processing`, `failed` | temporary files of `atomicWrite` and the record of each id in each directory |
| `boot`, `todo` | how far `start()` has come, what `recoverOpenCaptures` has still to visit |
| `openAt` | `openAtByName`, which keeps a record back until its open files are gone |
| `armed` | a drain is scheduled or running |
| `writer` | the steps of a request or of the recovery: `live`, then `enqueueRecord` and `removeCaptureFiles`; `stuck` after an exception |
| `job` | the steps of the delivery of a record |
| `relay`, `accepted` | the Relay (external), what the outbox has taken over |
| `cutLive`, `again`, `faults` | observers |

One thread runs everything, and every file operation is an await; so a step of
the model is the code from one file operation to the next. A request goes
`BeginCapture`, `AppendChunk`, `Finalize` (or `SubmitWhole`), then `FindStored`
or `WriteTemporary`, `LinkTemporary`, `RemoveTemporary`, then `RemoveSpools`,
`RemoveMetadata`; the recovery goes `RecoverOpen` (or `SkipOpen`,
`RecoveryConflict`) and the same steps from there. A delivery goes `Claim`,
`ClaimRemove`, `RelayAnswers` / `AnswerLost` / `GiveUp`, then `RemoveProcessed`,
`MoveFailed` or `MoveBack`. `start()` is `Start`, `RecoverTemporary`,
`TemporariesDone`, `RequeueProcessing`, `RequeueDone`, the recovery,
`RecoveryDone`; `Tick` is its timer. `Refuse` is the limit on bytes, files and
free space, and the exception (`Throw`) it leads to.

Abstractions: a record is how it was made and how much of the spools it holds;
request and response are one spool; `findExisting` reads its three directories
at once; the moves of start-up are single steps (nothing else runs then, and a
half-done one leaves what a half-done claim leaves); temporary files are whole,
because a torn one only moves to `failed/` under another name; the concurrency
and byte bounds of the drain and the attempts of one delivery are left out (any
of them may be the last); time is left out, so the timer may find any orphan
old enough or not. Not modelled: power losses, unreadable open files
(`isolateOrFail`), recovery receipts, an opening whose directory sync fails
after the metadata is linked.

### 3.4 `CommitLast` and `RawArchive` (`raw_archive.rs`, `object_store.rs`)

`CommitLast` is the commit protocol without its mechanics: `held` objects,
`named` sets; `Commit` names only what is held and never again something else.
`RawArchive` implements it (`held <- Held`, `named <- Named`).

| State | Code |
|---|---|
| `wal` | the sealed segment files, in order, per shard |
| `objects`, `manifest`, `checkpoint` | the object store: objects by content-addressed key, manifest and checkpoint of each archive |
| `archiver` | a call of `archive_raw`: where it is, its manifest, the keys still to do |
| `restorer`, `output` | a call of `restore_raw_archive`, the directory it puts in place |

`ArchiveRaw` reads and hashes the files (`ArchiveTorn` when the file changes
between its two readings, which the code notices only by its length and its
records), `Look` asks for the checkpoint,
`EnsureObject` uploads or repairs one key, then `WriteManifest`, `Verify`,
`WriteCheckpoint`, `Return`; a restore is `RestoreArchive`, `Download`,
`Publish`. `Seal` and `SourceChanges` are the store and a faulty disk;
`RemoveObject`, `RemoveManifest` are an operator's retention, allowed when no
archive is being made. S3 is external: a put is atomic and visible when closed.
A digest is the content it is of; a changed file is either longer or not.

### 3.5 `DeliveryBudget`, `IngestQuality`, `ShardedCollector` (run `services`)

`DeliveryBudget`: a semaphore that serves its waiters in order (`Grant`),
workers that claim rows (`ClaimLoad`), read bodies under permits (`StartRead`,
`ReadFails`), collect them in batches (`AddToBatch`, `SendLast`, `Sent`) and
finish (`FinishLoad`). An item has the length of its stored line, the line feed
included (`ItemBytes`, store.rs:582); a row of an older release that says 0
reserves a whole envelope and then counts as the body that was read
(`UntoldLength`), which the theorem covers and the run does not. What is left
out is what `RelayDelivery` says of the rows.

`IngestQuality`: `CapturesStored`, `Record` (or `RecordFails`), `Observe` are a
cloud request between its two locks; `Plan`, `ArchiveQuality`,
`RestoreQuality`, `ReadSnapshot`, `ApplySnapshot` are the operator routes.
`RefreshFails` is a refresh that cannot read the ledger (relay.rs:3188) after
the archive or the restore was committed: the route answers
`quality_archive_refresh_failed` or `quality_restore_refresh_failed` (3323,
3381) and the copy stays as it was until a refresh succeeds or the Relay starts
again (the observer `failed`). `quality_ready_lies` sets `RefreshFaults` to
FALSE, since with a failing refresh the copy is wrong without any race.

`ShardedCollector`: `Open`, `RenameTopology`, `SyncTopology` are the start with
its topology file; `Receive`, `ReadFrame`, `Submit`, `Reject`, `Answer`,
`Cancel` a connection with its body permits; `ShardAnswers`, `ShardFails`,
`FlushAll`, `FlushShard`, `FlushFails`, `FlushAnswer`, `FlushEnds` the shards,
each of which is what `DurableCaptures` promises.

### 3.6 `Readiness` and `CloudIngest` (run `relay_race`)

`Readiness`: `heard`, `firstWire` and `fresh` are the in-memory coverage
(`last_observed_millis`, `first_observed_millis`,
`last_successful_observed_millis`), `stage` what the delivery ledger says of a
capture, `probe` one request for `/ready`. A wire request is `StoreWires`,
`IndexWires` (or `IndexFails`), `ObserveWires`; other routes are one step,
`Ingest`. `ClaimRow`, `Delivery`, `LeaseRunsOut`, `LateDelivery` and
`RequeueFailed` change the ledger meanwhile; the late outcome of a worker whose
lease ran out may replace a delivered row (section 5), so that `ReadyIsEarned`
leaves out those captures (`outlived`). `RefreshQuality` puts into memory what
the quality ledger says, which is left to `IngestQuality`: any number.
`ReadHealth` and `AnswerReady` are the two halves of the handler: the ledger is
read before the memory, under another lock. Time is counted in ticks and only
goes forward; two windows are constants. Free disk space and the health of the
store, which give more reasons to refuse, are left out.

`CloudIngest`: a body is its endpoint and what the derivation looks at; the
operators `Read`, `Derivable`, `LogCaptures`, `HookCaptures`, `Errors`,
`Attributed`, `QualityRefused` are the derivation and the decision. A request
is `StoreBatch` (some records refused, some in conflict), `AnswerFailed`,
`LedgerFails` or `CountErrors` and `AnswerBatch`; `CrashRelay` drops all
requests. Ids are digests of the body, so a capture's id is its body and
position; only a hook's event id may be shared. Whether a derived capture would
be refused is asked of `CaptureParts`, the checks every envelope has to pass.

### 3.7 `CaptureParts`, `CaptureEnvelope`, `CaptureFlow` (`capture.rs`)

`CaptureEnvelope` is `normalize_capture` as operators on envelopes: `Parsed`
(bodies that come as text are parsed), `Statements` (what the trace context, its
alias, the bodies, the headers and the evidence of earlier hops say of a field),
`Conflicts`, `Normal` (the envelope that is stored) and `Accepts` (every check,
on the way in or of what is stored). `CaptureParts` holds the checks of the parts
that are kept as they came: tool executions, lifecycle events, evaluations,
telemetry batches, rollout events, usage evidence. A field is a name, a value is
a member of a small set that tells apart what the code does (text, boolean,
null, blank, of a wrong type), and a body stands for its bytes.

`CaptureFlow` uses both on the way of one `captureId`:

| State | Code |
|---|---|
| `sent` | the envelopes that clients send under the id |
| `relay`, `rowState` | what the Relay has stored, and the row of its delivery ledger |
| `collector` | what the Collector has stored |
| `running` | the Relay serves; it does not when it cannot read what it stored |
| `first`, `turnedAway`, `losses` | observers |

`Receive` is a route of the Relay up to its answer, `DeliverRow` one attempt up
to the receipt, whose digest must be that of the bytes sent, `RequeueRow` the
operator, `RestartRelay` a crash and the next start, `OtherRelay` another Relay before the
same Collector. How rows are queued and claimed is `RelayDelivery`, how captures
become durable `CaptureWal`. Left out: size limits, the splitting of a file into
lines, the digest of raw bytes that older versions stored.

### 3.8 `WireStream` (`server.js`, `model_interaction.rs`)

One streamed call. `Headers`, `ReceiveFrame`, `ReceivePart`, `UpstreamEnds`,
`UpstreamBreaks` are the upstream; `ClientFinishes`, `ClientCloses`,
`ClientAborts` the client; `GatewayRestarts` a crash after which the outbox
recovers the capture without the facts of the live one. `Capture` is what is
submitted, `ResponsesView` and its like what is derived from it offline,
`ProtocolComplete` the claim. Frames are events with their data; compression,
usage numbers and ciphertext are left out.

### 3.9 `Assembly`, `SessionMessages`, `SessionEvidence`, `RuntimeDag` (`assemble.rs`)

| Module | State | Actions |
|---|---|---|
| `Assembly` | lines, options, partition files, Sessions, the output directory | `StartAssembly`, `ReadBatch`, `ReadCapture`, `EndRead`, `ProcessPartition`, `RemoveOldAssembly`, `RenameAssembly`, `VerifyAssembly`, `AssemblerCrashes` |
| `SessionMessages` | a conversation as it took place, its captures, the merge | the client's and model's steps (`UserSays`, `ModelAnswers`, `ModelCalls`, `ModelFails`, `ToolReports`, `ToolReturns`, `SessionBoundary`), `Assemble`, `MergeCapture` |
| `SessionEvidence` | captures with identifiers, a union-find forest, settlements | `JoinCapture`, `Settle` |
| `RuntimeDag` | events that happened, events that were read | the run (`BeginThread`, `BeginWork`, `ToolRan`, `EndActivity`, ...), `MakeCall`, `ReadEvents`, `ReadCalls` |

The steps of clients and runtimes are external; they produce the captures these
programs are for, so that the result can be compared with what took place.
Token counts are one number, so that raising a total to input and output
(assemble.rs:4755, 4980) is left out; a text is a member of a small set, wall-clock times
are positions.

### 3.10 `RuntimeSpans`, `TurnIdentity`, `SessionView` (`model_interaction.rs`, `turn_identity.rs`, `source_context.rs`, `session_view.rs`)

`RuntimeSpans`: a run leaves captures (wire requests, hooks, tool reports,
dispatcher messages, rollout events) following a `plan`; the projection reads
them whole, reversed, without one, or with one twice (`Peruse`). The operators
are the projection: scopes, spans, their state, links, and `IsReady`
(`root_complete` and `runtime_complete`). `TurnIdentity` is the index of
identities as pure operators (it uses recursion and is for TLC only);
`SessionView` reads the files twice (`FirstScan`, `SecondScan`), another process
may `Edit` them, and `View` audits the sources.

### 3.11 `Assessment`, `Release`, `Publication`, `MaasExport` (`score.rs`, `release.rs`, `publish.rs`, `buyer.rs`, `maas_export.rs`)

`Assessment` builds a Session message by message and evaluates the 17 gates,
`Eligible` and `Materialise` on each. `Release` is the build: `Begin`,
`ReadLine`, `InputRead`, `Deduplicate`, `Spread`, `Score` (several workers),
`Finish`, `RemoveOld`, `Rename`, `CrashBuild`. `Publication` is `CheckFiles`,
`DigestManifest`, `HashFile`, `ReadCommit`, `EnsureObject`, `WriteCommit`
beside `Rebuild`, `PackageParts`, `RemoveObject`; it implements `CommitLast` too.
`MaasExport` is `StartExport`, `ReadInputs`, `CheckDuplicates`, `Pack`,
`PublishDate` with its file operations `RenameDate`, `RemoveBatch`,
`RemoveDate`, `ChooseBatch`, `MoveBatch`, and `ExporterCrashes`. Checksums and
part sizes follow from the same records and are left out.

## 4. Runs

| Run | Question | Bounds | Result |
|---|---|---|---|
| `wal_power` | Is everything acknowledged readable, does the store implement its promise and come back, under power losses at any step? | 3 ids, 2 payloads, batches of 2, segments of 2, 4 segments, 2 crashes | holds, 678 thousand states |
| `wal_kill` | Under process kills and failed flushes, do counters and locators agree with the files whenever the store is open? | 2 ids, 2 payloads, batches of 1, segments of 2, 2 faults | holds, 16 thousand states |
| `wal_kill_then_power` | Is everything acknowledged readable when a kill is followed by a power loss? | 1 id | violated |
| `ledgers` | Delivery: do rows, indexes and counters agree, does no acknowledged capture lack a row, and does a start leave a stored one out only while the store's counter lags? Archive: is an "ok" restorable, is the commit protocol implemented, does a retry commit? | 2 ids, 1 worker, batches of 2, queue of 1, 1 crash or failed transaction; 1 archive, 1 restorer, 2 archivers of 1 segment or 1 archiver of 2, 2 crashes, removals or changes | holds, 1.01 million states |
| `relay_race` | Delivery: two workers race and a lease may run out under one of them. Readiness: is `/ready` told truly? Cloud: do the answers hold? | 1 id, 2 workers, queue of 2; 1 wire capture, 2 sources, 2 callers, 3 ticks, 2 processes or 1 lease that runs out; batches of 2 records, traces, pairs of hooks, 2 senders, 1 outage | holds, 1.4 million states |
| `settles` | Is every acknowledged capture settled in the end? Do Relay and Collector make the same of an envelope, is nothing accepted that the next hop refuses, is a capture they agree on delivered? | 2 ids, 1 worker, queue of 1, 1 fault; 1 id, 1 loss, six families of envelopes below | holds, 195 thousand states |
| `outbox_crash` | Is evidence always somewhere, in one version, never cut under its request, and settled in the end? | 2 requests of 1 chunk, 1 crash, any refusal | holds, 481 thousand states |
| `outbox_start_again_loses` | Is evidence kept when `start()` fails and is repeated? | no crash | violated |
| `services` | Are permits kept and does an ample budget never stop the workers; is no quality error lost, whatever refresh fails; does the Collector keep its answers? | 4 captures, 2 workers, budget of 10; 2 keys, 2 operators, 2 archives, 1 crash; 2 ids, 1 or 2 shards, 2 connections, 1 fault | holds, 982 thousand states |
| `quality_ready_lies` | Does the quality check of `/ready` always mirror the ledger? | 1 request, 1 operator | violated |
| `capture_drifts` | Is a canonical capture left as it is when it is normalised again? | envelopes with an own value and two disputed ones | violated |
| `offline` | Eleven questions, one for each part of sections 3.8 to 3.11 | below | holds, 1.26 million states |

A run that composes parts without shared state (`ledgers`, `settles`,
`relay_race`, `services`, `offline`) moves one of them in a behaviour; the
variables of the others keep one initial value, so that each part is explored
alone and the sizes add up.

Why the bounds are enough. In the store, interference is between a record and
the rotation it causes (a segment of two and a batch of two put the rotation
before, inside and after a batch), between two records of one id (two
payloads), and between a crash and the recovery of an earlier one (two crashes);
four segments leave room for every rotation these batches can cause. In the
Relay, interference on one id is between two workers and the ticker
(`relay_race`), between ids it is only competition for the queue and a shared
transaction (`ledgers`, `settles`: two ids, one place). A violation
run uses the smallest instance in which the behaviour exists. In the outbox, ids
meet only in `start()`, in the drain's end and in the recovery's list, for which
two are enough; one id meets itself as request, recovery and delivery, in two
processes.

Bounds of the later parts:

- *Budget*: two workers, two reads at once and a second batch per worker are
  what it takes for two of them to wait for one another; the budget 10 is the
  smallest that `AmpleBudgetEnds` calls ample here, and with 9 they do wait.
- *Archive*: two archivers and a restorer meet at every step (of one segment);
  one archiver of two segments allows an archive with a gap and one that grows;
  two faults of any kinds are possible anywhere. `SmallInit` and
  `SmallNext` are the specification within these two bounds; `LedgersSpec` states
  their fairness.
- *Readiness*: a window of no tick and a long one of one tick put an event
  before, at and after each limit within three ticks; larger windows (1 and 2
  ticks, 5 ticks of time, one caller) gave the same result.
- *Cloud*: an error may excuse another only within one batch, for which two
  records are enough; event ids clash between two hooks.
- *Release*: three lines of three trajectories with a prefix, a divergence, an
  end and equal contents, 1 or 2 workers. *Assessment*: Sessions of up to 5
  messages with thresholds 3, 1 and 1 in place of 10, 5 and 2. *Publication*:
  two publishers, one rebuild or removal, one package. *MaaS*: two exporters,
  two runs, two dates, batches of at most two requests, four initial trees.
- *Wire*: three frames, of which the Gateway keeps two; every call is cut at
  every point, by every party.
- *Assembly*: files of up to three lines out of sixteen, three of them in one
  order and its reverse, one or two partitions, four command lines. *Messages*: a conversation of four messages in three captures,
  three styles of client. *Evidence*: three captures, of ten, and pairs
  with one of three odd billing rows. *DAG*: ten events,
  three calls, one event lost or one pair exchanged.
- *Spans*: thirteen plans of five to seven captures, read whole, reversed, with
  one lost or one repeated. *Sources*: a whole Codex or Claude Code Session with
  up to two strays (a Codex one also with three of telemetry), or a Codex Session without one of its
  captures and one stray, and one edit between the scans. Every capture has a
  time; a SessionStart of kind "compact" does not occur.

- *Captures*: one id is enough, because ids meet nowhere on this way. The
  envelopes cover what the code tells apart, one thing varied at a time: every
  combination of four sources of the Session with earlier evidence (`Sessions`),
  every value at every place (`Placements`), bodies with text, value, length and
  digest (`Bodies`), request ids with their headers and usage rows
  (`RequestIds`), the parts an envelope carries (`Events`), one field at a time
  that is not as it should be (`Fieldwise`), and pairs of envelopes under one id.
  One loss is a lost answer, a restart or a requeue at any step.

`CHECK_DEADLOCK FALSE` is set in seven runs, where the system really stops: in
`wal_kill` a store whose recovery refuses its files; in `ledgers` an archive whose
bounded work is done; in `settles` and `capture_drifts` an envelope that is
settled; in `services` and `quality_ready_lies` when all bounded work is done
(and, in `services`, a Collector kept down by its leftover topology file); in
`offline`, because a batch program ends. The Relay's delivery never stops, which
`relay_race` checks.

Fairness. `ComesBack` assumes that the writer thread is scheduled and that a
service that went down is started again (`restart: unless-stopped`,
`src/deploy/collector-relay.yml:6`); crashes are bounded by `MaxFaults`, so they
stop. `AckedSettles` assumes weak fairness of every task of the Relay: the tokio
runtime schedules ready tasks, requests have a timeout, time passes, and a
handler that was started runs to its end. It also assumes (`Calm`) that the
Collector answers conclusively in the end and that new work and operator
requeues end: with a queue that never has a free place nothing in the code
gives a waiting capture its turn. `Settles` assumes that timers and file
operations complete, that a request ends, that the Gateway is restarted, and
strong fairness of the Relay's answer only: a delivery may fail for good or be
returned any number of times, and a Relay that is asked again and again answers
in the end. `RetryCommits` assumes that an archiver runs
on and that a command which failed is given again with the same input, again
and again (strong fairness of `Repeat`, because another archiver may be in its
way). `AmpleBudgetEnds` assumes that every worker is polled and every request
ends with its time-out; new captures need not come. `SteadyIsDelivered` assumes
that a waiting row is claimed and sent again and again with an answer that
arrives, which is what `RelayDelivery` shows of the queue under its own fairness.

## 5. Findings

The runs marked "violated" show disagreements between the code and what its
documents, comments or tests say; `PROJECT.json` quotes the lines.

1. *A duplicate acknowledged as durable that is not* (`wal_kill_then_power`).
   Recovery gives a row to lines a killed process wrote and never synced. A
   retry is answered "durable" on the strength of that row. Neither syncs.
2. *A start that is repeated loses a record* (`outbox_start_again_loses`).
   `start()` lets requests in before its recovery; when the recovery throws, for
   instance because the outbox is full, the next request runs `start()` again in
   the same process. It moves claims back that a drain is just making: it
   removes one name of the record, the drain the other. The same repetition takes
   the transactions opened since for orphans of an earlier process.
   `EvidenceKept`, `OneVersion` and `Settles` therefore leave out processes in
   which `start()` was repeated (the observer `again`).
3. *A quality view that does not mirror the ledger* (`quality_ready_lies`).
   `refresh_ingest_quality` reads the ledger and takes the lock of the view
   afterwards; a request that records and observes its error in between is
   overwritten by the older count.

4. *A capture the two hops never agree on* (`capture_drifts`). Of a field that
   has an own value and two other sources that contradict each other, the first
   pass records a conflict of all three; the second leaves the own value out,
   because there is evidence for it by then, and records another conflict, of the
   other two. The Collector's digest is then not the Relay's, its receipt is
   refused, and the capture is retried for ever. `SteadyIsStable` says exactly
   which envelopes are stable, and `SteadyIsDelivered` speaks of those.

Seen while modelling, each where the models show it and the properties leave it
out by name or by a condition:

- *Relay delivery*: `relay.rs:810` calls failed deliveries
  terminal, but `finish_many` (`relay.rs:764-801`) does not ask whose lease it is,
  so the late outcome of a worker that lost its lease replaces the outcome of its
  successor. `SettledStays` therefore speaks of captures whose lease did not run
  out under a worker. The comment at relay.rs:1283-1287 calls the totals that
  are compared a safe check for a normal start; but after a start killed
  between the rows and the recount of the store's recovery (store.rs:1203), one
  that does not recount finds the total of the deliveries equal to a counter
  that lags, and skips the captures that were found. They were not
  acknowledged, a client that sends one again gets it a row, and without that
  it stays undelivered until a start compares otherwise. `StartLeavesNoneOut`
  names this case, and TLC has a counterexample, with one fault, without it.
- *Store*: a rotation inside a batch commits the sealed row before the batch's
  rows, so that a kill in between leaves records no later start reads; rows and
  recount of a recovery are separate transactions (store.rs:1203); a flush that
  cannot create the next segment leaves the sealed one active. `wal_kill`
  therefore commits one record per batch, and `Faults` names what may happen.
- *Delivery budget*: `open()` asks only for one envelope and its line feed
  (relay.rs:1275-1279);
  with less than one envelope beside one unsent batch of every worker, the
  workers can wait for one another for ever.
- *Quality archive*: after an archive and one new error, neither a second
  archive nor a restore is possible. A refresh that fails after an archive or a
  restore leaves the copy, and with it `/ready`, on the old counts with nothing
  in flight that would correct them.
- *Collector*: a topology file left under its temporary name blocks every later
  start until it is removed by hand (sharded.rs:289).
- *Readiness*: with a clock that goes forward, the lag of an active wire
  (relay.rs:2283) can never matter; without any traffic only the freshness of
  the last turn ends readiness; a first acknowledgement lost to a crash or a
  failing ledger is a duplicate when it is repeated and never counts as a
  successful turn; a clock set back keeps evidence fresh (saturating_sub); a
  durable capture whose ledger row failed is not counted until it is resent or
  the Relay restarts.
- *Cloud ingest*: a body that is sent again has its errors counted again; equal
  hooks without an event id are one event; two different hooks with one event id
  end in 409 although the raw batch of the second is durable; the `min` over
  attributed errors never matters.
- *Wire*: an Anthropic tool input that does not parse becomes `{}` in a complete
  interaction, which is complete on `stop_reason` without `message_stop`; a
  Responses terminal without output keeps calls that were only announced; chat
  and non-streamed calls are never protocol complete.
- *Assembly*: verification comes after the rename; selecting by Session captures
  that also have a task replaces the old output and then always fails it
  (docs/delivery.md:23); captures that disagree about their root split a Session,
  or not, depending on the number of partitions; a Session id that is another
  capture's task id ends the run; the order of captures is not transitive when
  some have no time (assemble.rs:1509).
- *Messages*: a replay without item ids doubles assistant texts; an equal user
  text in a delta request is lost; "unknown" after a known status is a
  divergence, the reverse is not. *Evidence*: `provider_identity_attested`
  compares counts only; the id of an unlinked gateway row still joins usage;
  two inferences may be conserved by one API capture. *DAG*: a runtime start that
  is read late hides a contradiction (assemble.rs:2059).
- *Spans*: a sub-agent's join recorded in a turn counts as that turn's end
  (model_interaction.rs:5503-5515); a dispatcher result without its call is
  dropped; a tool seen only by PostToolUse stays open; a wire request lost
  without calls or results cannot be noticed.
- *Sources*: a record without a span goes to the only turn of its trace known
  with its Session, even if another turn is named there without one
  (turn_identity.rs:360-374); the second scan compares the set of lines and the
  number of repeats only; a standalone audit keeps no payloads, so that its
  producer is always codex (model_interaction.rs:1323) and cloud acceptance
  refuses a Claude Code Session for sources it does not have.
- *Assessment*: the minimum score can never matter; a "subagent_spawn started"
  result, merged late (assemble.rs:3826, score.rs:1275), clears a recorded
  conflict. *Release*: Sessions that become equal only when they are
  materialised, on different workers, make verification fail; snapshots that
  differ only in prompt or tools count as subsets; a crash between the removal
  of the old output and the rename leaves none.
- *Publication*: a directory rebuilt between its verification and its digests
  can be committed with an entry whose digest is not its key's; the lineage
  digest of a package is taken after its parts were checked; releases may skip
  the remote digests.
- *MaaS*: duplicates are looked for within the date only; a crash in an append
  leaves a date half appended, whose retry is refused as a duplicate; appending
  runs that overlap can overwrite each other (298-311, 351-357); a plain run
  refused at a later date has published the earlier ones; any status is
  exported, but verification wants 100 to 599; a replaced date is removed before
  the rename.

## 6. Proofs

`CaptureWalProofs` proves, for any number of ids, payloads, segments, batch
sizes and faults:

| Theorem | Says | Assumes |
|---|---|---|
| `TypeCorrect` | `Spec => []TypeOK` | constants' assumption |
| `AckedDurable` | `Spec => []AckedReadable` | `OneCrashKind` |
| `FirstPayloadKept` | `Spec => FirstPayloadWins` | - |
| `StoreKeepsPromise` | `Spec => ImplementsPromise` | `OneCrashKind` |
| `SealedKept` | `Spec => SealedImmutable` | `OneCrashKind`, no "flush" fault |
| `RecoveryAlwaysAccepts` | `Spec => []RecoveryAccepts` | `OneCrashKind`, no "flush" fault |
| `LedgerAlwaysComplete` | `Spec => []LedgerIsComplete` | `OneCrashKind`, batches of one record, no "recovery" fault |

`OneCrashKind` says that process kills and power losses do not both occur; the
run `wal_kill_then_power` shows what happens to acknowledgements when they do.
The other assumptions are needed as well, and TLC has a counterexample for each
(section 5 names the code): a flush that fails after its rename leaves the sealed
segment active, where the next batch appends, and a kill in that append leaves an
incomplete line in a sealed file, which the recovery refuses; a batch of two
records that rotates before it is committed leaves records without rows in a file
the recovery trusts; a recovery killed between its rows and its recount leaves
counters that the next one does not correct.

`AckedReadable` is not inductive. The invariant `WalInv` adds: every row points
at its record (`RowsPoint`), so does every staged locator (`StagedPoint`), and it
is staged only for ids without a row (`StagedFresh`); unsynced records exist only
while a batch is being committed, or where only kills happen
(`UnsyncedOnlyInBatch`), which is what makes a power loss harmless to rows;
rows of segments have files (`RowsHaveFiles`), the next file is new
(`NextFileExists`), and the counts in memory and in scanned rows are those of the
files (`ActiveCounts`, `ScannedCounts`); acknowledged records have rows
(`AckedHaveRows`). `WalInvariant` proves it with one step per action. The
refinement then follows because `StoredNow` is the payload column of the table
(`StoredIsRow`). `SealedKept` needs `SealInv` as well: the active segment is open
and only the segment being created lacks a row.

`RecoveryAlwaysAccepts` is about what a scan may meet, so its invariant
`AcceptInv` speaks of the records in files that the next scan will not trust
(`Loose`): no id is there twice (`LooseOnce`), a locator of an id that is there
points there (`LoosePlaced`), and each has a row, or a place in the batch under
way, or waits for a scan (`LooseHave`). Trusted files are left out because a
rotation inside a batch may hide records in them. With `NamesTrue`, the one file
named open is the active or the next one and its row agrees once it is scanned, and
`TornOpen`, incomplete lines are in that file, no scan finds a conflict, an
incomplete sealed tail or two open segments. `LedgerAlwaysComplete` needs the same
of all files: no id is twice in them (`PlacedOnce`), what a row of a segment counts
has locators (`RowCovers`), so that a trusted file hides nothing, every record has
its row or will get it (`AllHave`), a batch that rotates has appended nothing
(`OneAtATime`), and the counters are right or about to be recounted (`Counted`).

`RelayDeliveryProofs` proves, for any number of ids, workers and faults, any
queue and batch size, with and without leases that run out under a worker:

| Theorem | Says |
|---|---|
| `RelayTypeCorrect` | `Spec => []TypeOK`: no counter becomes negative, the queue keeps its bound |
| `LedgerAgrees` | `Spec => []LedgerConsistent` |
| `AcknowledgedHasRow` | `Spec => []AckedHasDelivery` |
| `DeliveredIsTrue` | `Spec => []DeliveredIsRemote` |
| `StartsComplete` | `Spec => StartLeavesNoneOut` |
| `LeaseIsExclusive` | `Spec => []OneHolder` |
| `SettledKept` | `Spec => SettledStays` |
| `ScheduledAreLive` | `Spec => []ScheduledIsLive` |

They rest on `RelayAssumption` alone (finite sets, positive sizes). `AckInv` is
the inductive invariant: the types; that counters and indexes follow the rows;
that a ledger in use has counters, and one that has none has counted nothing
(`CountersKept`), so that the agreement, which speaks of ledgers with counters,
covers every transaction of a running service; that a request past the store has its
capture stored, and past `ensure_many` its row (`HandlersKnow`); that rows are
of stored captures (`RowsStored`) and held ids have rows (`HeldHaveRows`), so
that a late outcome never creates one; and that a worker which knows of a
delivery has it from the Collector (`ReceiptsTrue`). The counters are moved by
differences in the code and counted by their meaning in the invariant:
`RecountIsCount` shows the two agree as long as no transaction removes a row.
`StartsComplete` is then the argument behind the fast path, and its limit: rows
are a subset of the stored ids, so totals that are equal make them equal while
the store's counter counts all it stores (`tallied = stored`). When the counter
lags, equal totals say nothing of the stored captures, and what is left is that
an acknowledged one has its row since before the crash. `LeaseInv` adds that a held id
is "inflight" and not due unless its lease has run out (`UnderLease`), from
which exclusive holders and settled rows follow.

`IngestProofs` proves `ReadyAlwaysTold`, `ReadySpec => []ReadyIsTold`, for
any captures, sources, windows, callers, clocks, lost leases and restarts, from
`ReadinessAssumption`. Its invariant `ReadyInv` relates what the answer reads to
what it promises: the time of the last success is the latest time a capture of a
turn was called new and durable (`FreshIsThanked`), and no such time is missed
(`ThankedIsFresh`); nothing was heard in the future (`HeardInPast`); and the rows
that a health without complaints has counted are delivered and stay so unless
two workers had them (`CountedAreDelivered`), which is why reading the ledger
first is sound.

Beside it, it proves `CloudAnswersAlways`, `CloudSpec =>
[]CloudAnswersHold`, for any bodies, senders and outages, from
`CloudAssumption`. That a 200 hides nothing is a counting argument: there is at
most one mark "telemetry_incomplete" for each record that could not be derived
(`MarksAreFew`), so a batch with no more errors than marks has no other error
and no such record without its mark (`AcceptedIsWhole`). The invariant `CloudInv`
adds what requests in flight know (`SenderTrue`): past the store the whole body is
stored unless a record was refused or in conflict, a conflict is with another
hook (`TakenIsForeign`), and past the count the errors are counted. Captures and
counts only grow, which `GrowthKeeps` uses once for all actions.

`RawArchiveProofs` proves, for any archives, shards, segments, archivers,
restorers and faults, from `ArchiveAssumption` (finite shards, positive bounds,
`None` is no content and no manifest):

| Theorem | Says |
|---|---|
| `ArchiveTypeCorrect` | `ArchiveSpec => []ArchiveTypes` |
| `ArchiveIsSound` | `ArchiveSpec => []ArchiveInv` |
| `OkAlwaysRestorable` | `ArchiveSpec => []OkIsRestorable` |
| `ArchiveCommitsLast` | `ArchiveSpec => ImplementsCommitLast` |

`OkIsRestorable` speaks of archivers that have answered; `ArchiveInv` says what
each relies on before that: its manifest names files of the log and what it has
to upload is in its manifest (`SourceInv`); in a repair the archive is committed
with that manifest, and from the verification on the store is right
(`ArchiverInv`). These stay true under the steps of others because a write is
conditional, a checkpoint stays for ever, and nothing is removed while anyone
archives. A restorer keeps only right records of its manifest (`RestorerInv`) and
leaves the whole of one checkpoint in place (`OutputInv`). The refinement maps
`held` to the contents under their own key and `named` to the checkpoints.

`ServicesProofs` proves, for any numbers of workers, captures, sizes, requests,
operators, archives, connections, ids and shards:

| Theorem | Says |
|---|---|
| `DeliveryPermitsConserved` | `BudgetSpec => []PermitsConserved` |
| `LedgerConservesErrors` | `QualitySpec => []ErrorsConserved` |
| `CollectorKeepsItsWord` | `ShardSpec => [](AnswersHold /\ BodiesBounded)` |
| `PermitsAreKept` | `ServicesSpec => []PermitsKept`, of both budgets |
| `ServicesAreSound` | `ServicesSpec => []ServicesInv`, the composition TLC runs |

These are statements about sums over finite sets, written as folds in the
models. The first lemmas of the module give the sums their algebra (the empty
set, one element more, one element changed, a sum within a sum); each is proved
from the definition of the fold by taking a smallest set for which it fails, since
the induction theorems of the library cannot be instantiated here. The
invariants say, for the budget: no capture is with two workers (`Apart`), one
with permits is being read or waits to be sent (`Holding`), one that waits for
permits has none and waits once (`Queued`), and free and held permits add up
(`Balanced`). For the
quality ledger: live and archived counts add up to what was recorded
(`LedgerTotals`) and to what requests were told (`ToldTotals`), and the view and
the snapshots in flight are the ledger's unless a request came between or the
last refresh failed (`ViewTrue`, `SnapsFresh`). For the Collector: while it serves, its shards are
those of the topology file (`Serving`), an id is only in the shard it hashes to
(`Homes`) with one payload (`OnePayload`), what was told is there (`Known`), a
flush has sealed the shards it has done (`Sealing`), and body permits are those
of the open connections (`Bodies`).

`PublicationProofs` proves, for any directories, publishers, packages and
rebuilds, from `PublicationAssumption` (files and lists are sequences of
contents, `NoDir` is no package):

| Theorem | Says |
|---|---|
| `PublicationIsSound` | `PublicationSpec => []PublicationInv` |
| `CommitsAreOneBuild` | `PublicationSpec => []PublishedIsOneBuild` |
| `PublicationImplementsCommit` | `PublicationSpec => PublicationCommitsLast` |

A commit of a directory that stayed in place is one build because of what the
publisher knows at each step (`Faithful`): the manifest it read, the one whose
digest is the key, the files it checked and those it digested are all those of
the directory as it is. Without that condition the first two may differ
(section 5). That a commit names only what is there does not need it: an object
leaves the list of what is to do only when it was found, with the digest of the
entry (`Along`), nothing is removed while somebody publishes, and an object under
a key is never overwritten.

`OutboxProofs` proves, for any requests, chunks, crashes and refusals, from
`OutboxAssumption`:

| Theorem | Says |
|---|---|
| `OutboxInvariant` | `Spec => []IInv`, the inductive invariant |
| `OutboxTypes` | `Spec => []TypeOK` |
| `EvidenceAlwaysKept` | `Spec => []EvidenceKept` |
| `AlwaysOneVersion` | `Spec => []OneVersion` |

Neither property is inductive: both depend on who may touch an id's files. The
invariant says that, until `start()` fails half-way (`again`, section 5), an id
has one owner at a time. Nothing runs before requests are let in (`StoppedOK`);
the recovery works on transactions of earlier processes only, which no request
has (`OrphanOK`); what a writer holds is what its files say (`OpenOK`,
`StepsOK`, `TemporaryOK`); a record is claimed only when its open files are gone,
and the delivery knows which directories hold it and what it has told the Relay
(`JobsOK`); whatever copies there are agree (`AgreeOK`); and what was taken over
is open or in a directory or at the Relay (`HeldOK`). Each action hands an id from one
owner to the next, and the proof has a lemma for each of them.

`CaptureProofs` proves, for any envelopes, words, members and losses:

| Theorem | Says |
|---|---|
| `AcceptedAlwaysReadable` | `FlowSpec => []AcceptedIsReadable` |
| `DeliveredAlwaysTheSame` | `FlowSpec => []DeliveredIsTheSame` |
| `ConflictAlwaysAnother` | `FlowSpec => []ConflictIsAnother` |
| `TurnScopedAlwaysAgreed` | `FlowSpec => []TurnScopedIsAgreed` |
| `SteadyAlwaysStable` | `FlowSpec => []SteadyIsStable` |
| `CaptureAlwaysTrue` | `FlowSpec => []CaptureStaysTrue`, the five together, as the run `settles` checks them |
| `NormalisingSettles` | `IsEnvelope(e)` implies that a third pass changes nothing |

The assumptions are the shape of an envelope (`FlowAssumption`: every envelope
that is sent `IsEnvelope`, and `Absent` is none) and that the values told apart
differ (`EnvelopeAssumption`, `PartsAssumption`). The state invariant `FlowInv`
is short: the Relay has what it made of the first envelope it accepted, and a
delivered row means equal bytes. The work is in the operators. Parsing, bodies,
ids and headers settle in one pass (`BodySettles` and its like). What the sources
say of a normal envelope is what they said of the parsed one but for the capture
itself, which its evidence speaks for; so a second pass can change the evidence
and the conflicts and nothing else, what it adds is determined, and a third pass
finds it there. An envelope is therefore stable exactly when it is `Steady`, and
every check that an envelope has passed, its normal form passes too, also as
stored bytes at the next start (`StoredIsAccepted`).

Four properties stop short of a behaviour their hazard names, which
`PROJECT.json` says at the hazard: `PublishedIsOneBuild` speaks of directories
that stay in place between verification and digests, `DagsAreTrue` not of a tool
whose runtime start is read after its end, `MaasIsTrue` of exporters that do not
append to one date at once, and `AcceptedIsWhole` of the messages delivered, not
of a conflict that was recorded and overwritten before.

Model-checked only: liveness (`ComesBack`, `AckedSettles`, `Settles`,
`RetryCommits`, `AmpleBudgetEnds`, `SteadyIsDelivered`), which the prover does
not handle under fairness; and the properties of the other offline parts
(`ReleaseAccounts`, `AcceptedIsWhole`, `EvidenceIsTrue`, `AssemblyIsWhole`,
`SessionIsTrue`, `EvidenceIsCounted`, `DagsAreTrue`, `MaasIsTrue`,
`RuntimeIsEarned`, `SourcesAreTrue`). What these parts claim is what a fold over a
sequence, a sorted set or a recursive operator returns, and a proof would be an
induction over the data that is read. The minimal counterexample that serves for the
sums of `ServicesProofs` does not reach a recursive operator, and a module that
declares one loses the prover. The runs check them on
every input of the families in section 4.
Conversely, some of what is proved no run checks any more: the types
(`TypeCorrect`, `RelayTypeCorrect`, `ArchiveTypeCorrect`, `OutboxTypes`) and
`FirstPayloadKept`, which the promise of the store includes.

## 7. Not modelled

`PROJECT.json` gives the status of every component. Not modelled at all:

- *Command line, client integrations, CI and deployment*: argument parsing and
  hooks of a shell keep no state two steps could disagree about.
- *Failed-outbox replay*: it copies files back into `pending`, where they are to
  the outbox what a record of a request is.
- *OTLP delivery, cloud platform service*: stateful, and next in the plan.
- *Cloud acceptance and platform reports*: reports over finished files.

Left out of modelled components: in the outbox, unreadable open files, recovery
receipts, an opening whose directory sync fails after the metadata is linked
(durable-outbox.js:1326), the three separate reads of `findExisting` (1384), what
the periodic recovery leaves until the next drain (1284), a start-up scan that
steady traffic can prolong (1402), power losses; in the store, attempt rows and
`fsync = false`; in the Relay, authentication, OTLP encodings, store health in
`/ready`; in the normalisation, size limits and legacy digests; in the Gateway, routing and non-streamed bodies; in the assembler,
rollout enrichment, managed models, token counts and the semantic score.
