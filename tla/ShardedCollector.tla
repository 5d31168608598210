--------------------------- MODULE ShardedCollector ---------------------------
(***************************************************************************)
(* The Collector: its HTTP routes (collector.rs), the byte budget of the   *)
(* bodies it buffers (ingest.rs) and the store spread over several shards  *)
(* (sharded.rs).  A shard is what DurableCaptures promises of one          *)
(* CaptureWal: it keeps the first payload of an id, and a flush seals what *)
(* it holds.  Which shard an id belongs to is a hash modulo the number of  *)
(* shards, and a topology file keeps that number from changing.            *)
(***************************************************************************)
EXTENDS Naturals, FiniteSets, Functions

CONSTANTS
    Ids, Payloads,   \* capture ids, canonical payloads
    Hash,            \* [Ids -> Nat], the prefix of the SHA-256 of an id
    Batches,         \* the bodies clients send, sets of records
    Counts,          \* shard counts that may be configured
    Connections,     \* connections that send captures
    Capacity,        \* max_inflight_body_bytes
    MaxBody,         \* max_envelope_bytes
    NoCount,         \* no topology file
    MaxFaults        \* bound: crashes and failures of a shard

ASSUME ShardAssumption ==
    /\ Hash \in [Ids -> Nat] /\ Counts \subseteq Nat \ {0} /\ NoCount \notin Counts
    /\ IsFiniteSet(Connections)
    /\ Batches \subseteq (SUBSET (Ids \X Payloads)) \ {{}}
    /\ MaxBody \in Nat \ {0} /\ Capacity \in Nat /\ Capacity >= MaxBody

VARIABLES
    topology,    \* sharding.json: NoCount or a count
    temporary,   \* counts whose temporary file exists
    server,      \* [step, count]
    shard,       \* [number -> [active, sealed]], sets of <<id, payload>>
    inbound,     \* [Connections -> step, body and permits]
    bodyFree,    \* permits of the body budget
    flush,       \* [step, before, todo, failed]
    told,        \* observer: records answered with durable: true
    faults       \* observer: faults so far

files == <<topology, temporary>>
shardVars == <<files, server, shard, inbound, bodyFree, flush, told, faults>>

Numbers == UNION {0 .. count - 1 : count \in Counts}
Records == Ids \X Payloads
Home(id, count) == Hash[id] % count
Held(s) == shard[s].active \cup shard[s].sealed
AllHeld == UNION {Held(s) : s \in Numbers}

Down == [step |-> "down", count |-> NoCount]
Free == [step |-> "idle", body |-> {}, read |-> 0, accounted |-> 0, todo |-> {}, done |-> {}]
NoFlush == [step |-> "idle", before |-> {}, todo |-> {}, failed |-> FALSE]

ShardInit ==
    /\ topology = NoCount /\ temporary = {} /\ server = Down
    /\ shard = [s \in Numbers |-> [active |-> {}, sealed |-> {}]]
    /\ inbound = [q \in Connections |-> Free] /\ bodyFree = Capacity
    /\ flush = NoFlush /\ told = {} /\ faults = 0

Fault == faults < MaxFaults /\ faults' = faults + 1
Up == server.step = "up"

-----------------------------------------------------------------------------
(***************************************************************************)
(* Start: ensure_topology, then the stores.                                *)
(***************************************************************************)

\* Mutant: a topology file that is there is not compared.
Accepts_Any(count) == topology # NoCount

Accepts(count) == topology = count

\* An existing file must say what is configured.  Otherwise a temporary file
\* is created, exclusively: one that a crash has left is in the way.
Open(count) ==
    /\ server.step = "down" /\ count \in Counts
    /\ IF topology # NoCount
       THEN /\ Accepts(count) /\ server' = [step |-> "up", count |-> count]
            /\ UNCHANGED temporary
       ELSE /\ count \notin temporary /\ temporary' = temporary \cup {count}
            /\ server' = [step |-> "temporary", count |-> count]
    /\ UNCHANGED <<topology, shard, inbound, bodyFree, flush, told, faults>>

RenameTopology ==
    /\ server.step = "temporary"
    /\ topology' = server.count /\ temporary' = temporary \ {server.count}
    /\ server' = [server EXCEPT !.step = "renamed"]
    /\ UNCHANGED <<shard, inbound, bodyFree, flush, told, faults>>

SyncTopology ==
    /\ server.step = "renamed" /\ server' = [server EXCEPT !.step = "up"]
    /\ UNCHANGED <<files, shard, inbound, bodyFree, flush, told, faults>>

\* The machine stops.  A rename that is not synced may be undone.
CrashCollector ==
    /\ Fault /\ server.step # "down" /\ server' = Down
    /\ \/ UNCHANGED files
       \/ /\ server.step = "renamed" /\ topology' = NoCount
          /\ temporary' \in {temporary, temporary \cup {server.count}}
    /\ inbound' = [q \in Connections |-> Free] /\ bodyFree' = Capacity /\ flush' = NoFlush
    /\ UNCHANGED <<shard, told>>

-----------------------------------------------------------------------------
(***************************************************************************)
(* Requests: a body of one unit per record.                                *)
(***************************************************************************)

Release(q) == bodyFree' = bodyFree + inbound[q].accounted /\ inbound' = [inbound EXCEPT ![q] = Free]

\* The declared length is reserved before anything is read, or refused.
Receive(q, body, declared) ==
    /\ Up /\ inbound[q].step = "idle"
    /\ declared <= MaxBody /\ declared <= bodyFree
    /\ bodyFree' = bodyFree - declared
    /\ inbound' = [inbound EXCEPT ![q] = [Free EXCEPT !.step = "body", !.body = body,
                                                      !.accounted = declared]]
    /\ UNCHANGED <<files, server, shard, flush, told, faults>>

\* A frame beyond what is accounted for needs permits of its own, at once: a
\* body that is too large, or for which there is no room, is dropped.
ReadFrame(q) ==
    /\ inbound[q].step = "body" /\ inbound[q].read < Cardinality(inbound[q].body)
    /\ LET length == inbound[q].read + 1  more == length > inbound[q].accounted IN
       IF length > MaxBody \/ (more /\ bodyFree = 0) THEN Release(q)
       ELSE /\ bodyFree' = IF more THEN bodyFree - 1 ELSE bodyFree
            /\ inbound' = [inbound EXCEPT ![q].read = length,
                                          ![q].accounted = IF more THEN length ELSE @]
    /\ UNCHANGED <<files, server, shard, flush, told, faults>>

\* Every record of the batch goes to its shard, the records of different
\* shards in any order.
Submit(q) ==
    /\ inbound[q].step = "body" /\ inbound[q].read = Cardinality(inbound[q].body)
    /\ inbound' = [inbound EXCEPT ![q].step = "submit", ![q].todo = inbound[q].body]
    /\ UNCHANGED <<files, server, shard, bodyFree, flush, told, faults>>

\* Too many records or a line that is no capture: 400 or 413, nothing stored.
Reject(q) ==
    /\ inbound[q].step = "body" /\ inbound[q].read = Cardinality(inbound[q].body)
    /\ Release(q)
    /\ UNCHANGED <<files, server, shard, flush, told, faults>>

\* The payload a shard has for the id of a record after it was offered.
Stored(s, r) ==
    IF \E x \in Held(s) : x[1] = r[1] THEN CHOOSE x \in Held(s) : x[1] = r[1] ELSE r

Keep(s, r) ==
    IF Stored(s, r) \in Held(s) THEN shard
    ELSE [shard EXCEPT ![s].active = @ \cup {Stored(s, r)}]

\* The shard answers: accepted or duplicate, or a conflict.
ShardAnswers(q, r) ==
    LET s == Home(r[1], server.count) IN
    /\ inbound[q].step = "submit" /\ r \in inbound[q].todo
    /\ shard' = Keep(s, r)
    /\ inbound' = [inbound EXCEPT ![q].todo = @ \ {r},
                                  ![q].done = IF Stored(s, r) = r THEN @ \cup {r} ELSE @]
    /\ UNCHANGED <<files, server, bodyFree, flush, told, faults>>

\* The shard is unavailable, and may have stored the record.
ShardFails(q, r) ==
    LET s == Home(r[1], server.count) IN
    /\ Fault /\ inbound[q].step = "submit" /\ r \in inbound[q].todo
    /\ shard' \in {shard, Keep(s, r)}
    /\ inbound' = [inbound EXCEPT ![q].todo = @ \ {r}]
    /\ UNCHANGED <<files, server, bodyFree, flush, told>>

\* 200, 202 or 207 with the outcome of every record.
Answer(q) ==
    /\ inbound[q].step = "submit" /\ inbound[q].todo = {}
    /\ told' = told \cup inbound[q].done /\ Release(q)
    /\ UNCHANGED <<files, server, shard, flush, faults>>

\* The time-out, or the client has gone: what was handed to a shard is stored
\* or not, and nobody is told.
Cancel(q) ==
    /\ Fault /\ inbound[q].step \in {"body", "submit"} /\ Release(q)
    /\ \/ UNCHANGED shard
       \/ \E r \in inbound[q].todo : shard' = Keep(Home(r[1], server.count), r)
    /\ UNCHANGED <<files, server, flush, told>>

-----------------------------------------------------------------------------
(***************************************************************************)
(* POST /flush.                                                            *)
(***************************************************************************)

FlushAll ==
    /\ Up /\ flush.step = "idle"
    /\ flush' = [step |-> "run", before |-> AllHeld, todo |-> 0 .. server.count - 1,
                 failed |-> FALSE]
    /\ UNCHANGED <<files, server, shard, inbound, bodyFree, told, faults>>

SealedShard(s) == [shard EXCEPT ![s] = [active |-> {}, sealed |-> Held(s)]]

FlushShard(s) ==
    /\ flush.step = "run" /\ s \in flush.todo
    /\ shard' = SealedShard(s) /\ flush' = [flush EXCEPT !.todo = @ \ {s}]
    /\ UNCHANGED <<files, server, inbound, bodyFree, told, faults>>

\* One shard fails, before or after it has sealed its segment.
FlushFails(s) ==
    /\ Fault /\ flush.step = "run" /\ s \in flush.todo
    /\ shard' \in {shard, SealedShard(s)}
    /\ flush' = [flush EXCEPT !.todo = @ \ {s}, !.failed = TRUE]
    /\ UNCHANGED <<files, server, inbound, bodyFree, told>>

\* The answer is 200 only when no shard has failed.
FlushAnswer ==
    /\ flush.step = "run" /\ flush.todo = {}
    /\ flush' = IF flush.failed THEN NoFlush ELSE [flush EXCEPT !.step = "ok"]
    /\ UNCHANGED <<files, server, shard, inbound, bodyFree, told, faults>>

FlushEnds ==
    /\ flush.step = "ok" /\ flush' = NoFlush
    /\ UNCHANGED <<files, server, shard, inbound, bodyFree, told, faults>>

ShardNext ==
    \/ \E count \in Counts : Open(count)
    \/ RenameTopology \/ SyncTopology \/ CrashCollector
    \/ \E q \in Connections :
          \/ \E body \in Batches, declared \in 0 .. MaxBody : Receive(q, body, declared)
          \/ ReadFrame(q) \/ Submit(q) \/ Reject(q) \/ Answer(q) \/ Cancel(q)
          \/ \E r \in inbound[q].todo : ShardAnswers(q, r) \/ ShardFails(q, r)
    \/ FlushAll \/ FlushAnswer \/ FlushEnds
    \/ \E s \in flush.todo : FlushShard(s) \/ FlushFails(s)

ShardSpec == ShardInit /\ [][ShardNext]_shardVars

-----------------------------------------------------------------------------
\* Whatever shard counts the service is started with, after whatever crash of
\* a start, an id has one home, and one payload in all shards together; and a
\* record that was answered with durable: true is found by the service that is
\* up, in the shard it looks into, with the payload that was answered.
ToldIsFound ==
    /\ \A s \in Numbers : \A r \in Held(s) : topology # NoCount /\ s = Home(r[1], topology)
    /\ \A r, x \in AllHeld : r[1] = x[1] => r = x
    /\ Up => \A r \in told : r \in Held(Home(r[1], server.count))

\* The bodies in memory never exceed the budget, whether their length was
\* declared or not, and every permit comes back.
BodiesBounded ==
    /\ bodyFree + SumFunctionOnSet([q \in Connections |-> inbound[q].accounted], Connections) = Capacity
    /\ SumFunctionOnSet([q \in Connections |-> inbound[q].read], Connections) <= Capacity

\* After a flush that is answered with 200, everything that was stored when it
\* was asked for is in a sealed segment, of every shard.
FlushSeals == flush.step = "ok" => flush.before \subseteq UNION {shard[s].sealed : s \in Numbers}

\* What the service answers holds (server.rs, sharded.rs): durable records are
\* found, and flushed ones are sealed.
AnswersHold == ToldIsFound /\ FlushSeals
=============================================================================
