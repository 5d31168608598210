----------------------------- MODULE IngestQuality -----------------------------
(***************************************************************************)
(* The quality errors of the Relay's cloud ingest (relay.rs): a durable    *)
(* count in the delivery ledger, the copy in memory that /health and       *)
(* /ready report, and the archive an operator may move the count into.     *)
(*                                                                         *)
(* A request first makes its captures durable, then adds to the ledger,    *)
(* then, under another lock, to the copy.  An archive or a restore is one  *)
(* transaction of the ledger; after it the copy is replaced by what the    *)
(* ledger said a step before, unless that refresh fails: then the operator *)
(* gets an error and the copy stays as it is.  Reasons are the keys of a   *)
(* count: an endpoint and why an event was refused.                        *)
(***************************************************************************)
EXTENDS Naturals, FiniteSets, Functions

CONSTANTS
    Keys,         \* endpoint and reason of a quality error
    Requests,     \* requests of the cloud routes
    Operators,    \* callers of the archive routes
    NoArchive,    \* the value when nothing is archived
    MaxErrors,    \* bound: quality errors ever recorded
    MaxArchives,  \* bound: archives ever made
    MaxCrashes,   \* bound: crashes
    RefreshFaults \* may a refresh fail after its archive or restore?

\* What is archived is never what stands for nothing.
Archived == [id : Nat, counters : [Keys -> Nat]]
ASSUME QualityAssumption ==
    /\ IsFiniteSet(Keys) /\ IsFiniteSet(Requests) /\ NoArchive \notin Archived
    /\ {MaxErrors, MaxArchives, MaxCrashes} \subseteq Nat
    /\ RefreshFaults \in BOOLEAN

VARIABLES
    live,       \* ledger: [Keys -> Nat]
    archive,    \* ledger: NoArchive, or an id with counters
    view,       \* memory: [errors -> [Keys -> Nat], archived -> Nat]
    request,    \* [Requests -> step and the errors of its batch]
    operator,   \* [Operators -> step and what it has read]
    archives,   \* observer: archives ever made, their ids are 1 .. archives
    recorded,   \* observer: errors ever added to the ledger
    answered,   \* observer: errors a client has been told of
    mixed,      \* observer: a request ran across a refresh
    failed,     \* observer: the last refresh failed
    crashes     \* observer: crashes so far

ledger == <<live, archive>>
observers == <<archives, recorded, answered, mixed, failed>>
qualityVars == <<ledger, view, request, operator, observers, crashes>>

Zero == [k \in Keys |-> 0]
Total(c) == SumFunctionOnSet(c, Keys)
ArchivedTotal(a) == IF a = NoArchive THEN 0 ELSE Total(a.counters)
Plus(c, S) == [k \in Keys |-> IF k \in S THEN c[k] + 1 ELSE c[k]]
NoRequest == [step |-> "idle", errors |-> {}]
NoOperation == [step |-> "idle", plan |-> 0, snap |-> [errors |-> Zero, archived |-> 0]]

\* ingest_quality_snapshot: counters and archive in one read transaction.
Snapshot == [errors |-> live, archived |-> ArchivedTotal(archive)]

QualityInit ==
    /\ live = Zero /\ archive = NoArchive /\ view = Snapshot
    /\ request = [q \in Requests |-> NoRequest]
    /\ operator = [o \in Operators |-> NoOperation]
    /\ archives = 0 /\ recorded = 0 /\ answered = 0
    /\ mixed = FALSE /\ failed = FALSE /\ crashes = 0

-----------------------------------------------------------------------------
\* relay_cloud_ingest after enqueue_batch: the captures are durable, and
\* errors of some kinds were found in the batch, or none.
CapturesStored(q, errors) ==
    /\ request[q].step = "idle"
    /\ request' = [request EXCEPT ![q] = [step |-> "stored", errors |-> errors]]
    /\ UNCHANGED <<ledger, view, operator, observers, crashes>>

Refreshing == \E o \in Operators : operator[o].step \in {"moved", "read"}

\* record_ingest_quality_with_reasons.
Record(q) ==
    /\ request[q].step = "stored"
    /\ recorded + Cardinality(request[q].errors) <= MaxErrors
    /\ live' = Plus(live, request[q].errors)
    /\ recorded' = recorded + Cardinality(request[q].errors)
    /\ request' = [request EXCEPT ![q].step = "recorded"]
    /\ mixed' = (mixed \/ Refreshing)
    /\ UNCHANGED <<archive, view, operator, archives, answered, failed, crashes>>

\* The ledger fails: the client gets 503 and nothing is counted.
RecordFails(q) ==
    /\ request[q].step = "stored" /\ request[q].errors # {}
    /\ request' = [request EXCEPT ![q] = NoRequest]
    /\ UNCHANGED <<ledger, view, operator, observers, crashes>>

\* observe_cloud, and the answer.
Observe(q) ==
    /\ request[q].step = "recorded"
    /\ view' = [view EXCEPT !.errors = Plus(@, request[q].errors)]
    /\ answered' = answered + Cardinality(request[q].errors)
    /\ request' = [request EXCEPT ![q] = NoRequest]
    /\ mixed' = (mixed \/ Refreshing)
    /\ UNCHANGED <<ledger, operator, archives, recorded, failed, crashes>>

-----------------------------------------------------------------------------
\* The dry run: the operator reads the total the approval will name.
Plan(o) ==
    /\ operator[o].step = "idle"
    /\ operator' = [operator EXCEPT ![o].step = "planned", ![o].plan = Total(live)]
    /\ UNCHANGED <<ledger, view, request, observers, crashes>>

Between == \E q \in Requests : request[q].step = "recorded"
Refused(o) == operator' = [operator EXCEPT ![o] = NoOperation]

\* archive_ingest_quality: moves the whole count if it is the planned one and
\* there is no archive yet.
ArchiveQuality(o) ==
    /\ operator[o].step = "planned"
    /\ IF archive = NoArchive /\ Total(live) = operator[o].plan
       THEN /\ archives < MaxArchives /\ archives' = archives + 1
            /\ archive' = [id |-> archives', counters |-> live] /\ live' = Zero
            /\ operator' = [operator EXCEPT ![o].step = "moved"]
            /\ mixed' = (mixed \/ Between)
       ELSE Refused(o) /\ UNCHANGED <<ledger, archives, mixed>>
    /\ UNCHANGED <<view, request, recorded, answered, failed, crashes>>

\* Mutant: a restore does not ask for an empty count.
RestoreQuality_Over(o, id) ==
    /\ operator[o].step = "idle" /\ archive # NoArchive
    /\ archive.id = id
    /\ live' = archive.counters /\ archive' = NoArchive
    /\ operator' = [operator EXCEPT ![o].step = "moved"]
    /\ mixed' = (mixed \/ Between)
    /\ UNCHANGED <<view, request, archives, recorded, answered, failed, crashes>>

\* restore_ingest_quality: only of the archive that is named, and only over a
\* count of nothing.
RestoreQuality(o, id) ==
    /\ operator[o].step = "idle" /\ archive # NoArchive
    /\ archive.id = id /\ Total(live) = 0
    /\ live' = archive.counters /\ archive' = NoArchive
    /\ operator' = [operator EXCEPT ![o].step = "moved"]
    /\ mixed' = (mixed \/ Between)
    /\ UNCHANGED <<view, request, archives, recorded, answered, failed, crashes>>

\* refresh_ingest_quality, its two locks.
ReadSnapshot(o) ==
    /\ operator[o].step = "moved"
    /\ operator' = [operator EXCEPT ![o].step = "read", ![o].snap = Snapshot]
    /\ UNCHANGED <<ledger, view, request, observers, crashes>>

OthersRefresh(o) == \E p \in Operators \ {o} : operator[p].step \in {"moved", "read"}

ApplySnapshot(o) ==
    /\ operator[o].step = "read"
    /\ view' = operator[o].snap
    /\ operator' = [operator EXCEPT ![o] = NoOperation]
    /\ mixed' = (mixed \/ Between \/ OthersRefresh(o)) /\ failed' = FALSE
    /\ UNCHANGED <<ledger, request, archives, recorded, answered, crashes>>

\* The refresh fails on the ledger it has to read, after the archive or the
\* restore is committed: quality_archive_refresh_failed and
\* quality_restore_refresh_failed.  The copy keeps what it had.
RefreshFails(o) ==
    /\ RefreshFaults /\ operator[o].step \in {"moved", "read"}
    /\ operator' = [operator EXCEPT ![o] = NoOperation]
    /\ mixed' = (mixed \/ OthersRefresh(o)) /\ failed' = TRUE
    /\ UNCHANGED <<ledger, view, request, archives, recorded, answered, crashes>>

\* The process dies and serve_relay reads the ledger before it listens.
Restart ==
    /\ crashes < MaxCrashes /\ crashes' = crashes + 1
    /\ view' = Snapshot /\ mixed' = FALSE /\ failed' = FALSE
    /\ request' = [q \in Requests |-> NoRequest]
    /\ operator' = [o \in Operators |-> NoOperation]
    /\ UNCHANGED <<ledger, archives, recorded, answered>>

QualityNext ==
    \/ \E q \in Requests :
          \/ \E errors \in SUBSET Keys : CapturesStored(q, errors)
          \/ Record(q) \/ RecordFails(q) \/ Observe(q)
    \/ \E o \in Operators :
          \/ Plan(o) \/ ArchiveQuality(o) \/ ReadSnapshot(o) \/ ApplySnapshot(o) \/ RefreshFails(o)
          \/ \E id \in 1 .. archives : RestoreQuality(o, id)
    \/ Restart

QualitySpec == QualityInit /\ [][QualityNext]_qualityVars

-----------------------------------------------------------------------------
InBetween == {q \in Requests : request[q].step = "recorded"}

\* The ledger forgets no quality error and invents none, whatever is
\* archived, restored or refused in between, and whatever crashes: an error a
\* client was told of is in the live count or in the archive.  What /health
\* reports is the ledger, but for requests between their two locks, unless the
\* last refresh failed or a request has run across an archive or a restore:
\* a refresh that meets nobody repairs what a failed one has left.
ErrorsConserved ==
    /\ Total(live) + ArchivedTotal(archive) = recorded
    /\ answered <= recorded
    /\ ~mixed /\ ~failed /\ ~Refreshing =>
        /\ view.archived = ArchivedTotal(archive)
        /\ \A k \in Keys :
              live[k] = view.errors[k] + Cardinality({q \in InBetween : k \in request[q].errors})

\* /ready passes its quality check only when the ledger counts nothing: the
\* copy "always mirrors the ledger it claims to describe".
Resting ==
    /\ \A q \in Requests : request[q].step = "idle"
    /\ \A o \in Operators : operator[o].step \in {"idle", "planned"}
ReadyIsTrue == Resting /\ Total(view.errors) = 0 => Total(live) = 0
=============================================================================
