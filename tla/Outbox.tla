------------------------------- MODULE Outbox -------------------------------
(***************************************************************************)
(* The durable outbox of the Gateway (durable-outbox.js).  A request opens *)
(* a transaction on disk before a byte is forwarded, appends what it sees  *)
(* to spool files, and is finalised into one record in pending/; a drain   *)
(* moves records to processing/, sends them to the Relay and removes,      *)
(* returns or retires them to failed/.  After a crash, start() puts        *)
(* everything back and finalises the transactions that were cut short.     *)
(*                                                                         *)
(* One thread, but every file operation is an await: requests, the drain   *)
(* and recovery interleave between them.  A move between directories is a  *)
(* link and a removal.  A record is told apart by how it was made and by   *)
(* how much of the spools it holds.                                        *)
(***************************************************************************)
EXTENDS Naturals

CONSTANTS
    Ids,            \* captureIds, random and used by one request each
    Recovery,       \* the writer that recovers open transactions
    MaxChunks,      \* maxRequestBytes and maxResponseBytes, in chunks
    Refusals,       \* who may find the outbox or its disk full
    MaxFaults       \* bound: crashes

ASSUME OutboxAssumption ==
    /\ Recovery \notin Ids
    /\ MaxChunks \in Nat
    /\ Refusals \subseteq {"request", "recovery"}
    /\ MaxFaults \in Nat

Writers == Ids \cup {Recovery}

(***************************************************************************)
(* "whole" records come from a finalised request, "cut" ones from a        *)
(* recovery; two recoveries never write the same bytes (recoveredAt).      *)
(***************************************************************************)
Version == [kind : {"whole", "cut"}, chunks : 0 .. MaxChunks, life : 0 .. MaxFaults]
None == [kind |-> "none", chunks |-> 0, life |-> 0]

VARIABLES
    \* files, by captureId
    open,           \* open/: is the metadata of a transaction there?
    spool,          \* open/: chunks in its spool files
    tmp,            \* pending/: complete temporary files
    pending, processing, failed,    \* the record in each directory, or None
    \* the process
    boot,           \* how far start() has come: "off", ..., "on"
    todo,           \* open transactions the recovery has still to visit
    openAt,         \* openAtByName: transactions known to have open files
    armed,          \* is a drain scheduled or running?
    writer,         \* [Writers -> what each is doing, for which id, its record]
    job,            \* [Ids -> step of the delivery of the id, its record]
    \* outside
    relay,          \* the record the Relay has acknowledged or stored
    accepted,       \* ids whose evidence the outbox has taken over
    \* observers
    cutLive,        \* transactions recovered while their request ran
    again,          \* has start() failed in a process that had let requests in?
    faults          \* crashes so far

opened == <<open, spool>>
queues == <<tmp, pending, processing, failed>>
control == <<boot, todo, armed>>
outside == <<relay, accepted, cutLive, again, faults>>
vars == <<opened, queues, control, openAt, writer, job, outside>>

Started == boot \in {"recover", "on"}
IdleWriter(w) == [step |-> "none", id |-> w, record |-> None]
IdleJob == [step |-> "none", record |-> None]
OpenIds == {i \in Ids : open[i]}
Stored(i) == {pending[i], processing[i], failed[i]} \ {None}

\* refreshQueueStats waits for a moment in which nothing changes the files.
Quiet ==
    /\ \A w \in Writers : writer[w].step \in {"none", "live", "stuck"}
    /\ \A i \in Ids : job[i].step \in {"none", "send"}

\* findExisting: the first version in the order of the directories.
FindExisting(i) ==
    IF pending[i] # None THEN pending[i]
    ELSE IF processing[i] # None THEN processing[i] ELSE failed[i]

\* Nothing runs; earlier processes may have left transactions open.
Init ==
    /\ open \in [Ids -> BOOLEAN] /\ spool = [i \in Ids |-> 0]
    /\ tmp = [i \in Ids |-> {}]
    /\ pending = [i \in Ids |-> None] /\ processing = pending /\ failed = pending
    /\ boot = "off" /\ todo = {} /\ openAt = {} /\ armed = FALSE
    /\ writer = [w \in Writers |-> IdleWriter(w)]
    /\ job = [i \in Ids |-> IdleJob]
    /\ relay = pending /\ accepted = OpenIds /\ cutLive = {}
    /\ again = FALSE /\ faults = 0

-----------------------------------------------------------------------------
(***************************************************************************)
(* start().                                                                *)
(***************************************************************************)

Start ==
    /\ boot = "off" /\ boot' = "temporaries"
    /\ UNCHANGED <<opened, queues, todo, armed, openAt, writer, job, outside>>

\* A temporary file becomes the record it holds, if there is none yet; one
\* that differs from it is put aside in failed/ under a name of its own.
RecoverTemporary(i, v) ==
    /\ boot = "temporaries" /\ v \in tmp[i]
    /\ tmp' = [tmp EXCEPT ![i] = @ \ {v}]
    /\ pending' = [pending EXCEPT ![i] = IF @ = None THEN v ELSE @]
    /\ UNCHANGED <<opened, processing, failed, control, openAt, writer, job, outside>>

TemporariesDone ==
    /\ boot = "temporaries" /\ \A i \in Ids : tmp[i] = {}
    /\ boot' = "requeue"
    /\ UNCHANGED <<opened, queues, todo, armed, openAt, writer, job, outside>>

\* Can the record of i move from one directory to the other, or is it there?
Movable(from, to, i) == from[i] # None /\ to[i] \in {None, from[i]}

\* What a crash left in processing goes back to pending.
RequeueProcessing(i) ==
    /\ boot = "requeue" /\ Movable(processing, pending, i)
    /\ pending' = [pending EXCEPT ![i] = processing[i]]
    /\ processing' = [processing EXCEPT ![i] = None]
    /\ UNCHANGED <<opened, tmp, failed, control, openAt, writer, job, outside>>

\* Mutant: records left in processing are not put back.
RequeueDone_Early ==
    /\ boot = "requeue" /\ Quiet
    /\ boot' = "recover"
    /\ openAt' = OpenIds /\ todo' = OpenIds
    /\ UNCHANGED <<opened, queues, armed, writer, job, outside>>

\* From here on requests are let in; the open transactions to recover are
\* listed in the same turn of the event loop.
RequeueDone ==
    /\ boot = "requeue" /\ Quiet /\ \A i \in Ids : ~Movable(processing, pending, i)
    /\ boot' = "recover"
    /\ openAt' = OpenIds /\ todo' = OpenIds
    /\ UNCHANGED <<opened, queues, armed, writer, job, outside>>

RecoveryIdle == writer[Recovery].step = "none"

RecoveryDone ==
    /\ boot = "recover" /\ todo = {} /\ Quiet
    /\ boot' = "on" /\ armed' = TRUE
    /\ UNCHANGED <<opened, queues, todo, openAt, writer, job, outside>>

-----------------------------------------------------------------------------
(***************************************************************************)
(* Writers: requests and the recovery, which both end in enqueueRecord.    *)
(***************************************************************************)

Goto(w, step) == writer' = [writer EXCEPT ![w].step = step]
Done(w) == writer' = [writer EXCEPT ![w] = IdleWriter(w)]

\* An exception: a request keeps its files and its place among the live
\* transactions; a recovery ends, and with it start() when it was part of it.
Throw(w) ==
    IF w = Recovery
    THEN /\ Done(w) /\ todo' = {}
         /\ IF boot = "recover" THEN boot' = "off" /\ again' = TRUE
                                ELSE UNCHANGED <<boot, again>>
    ELSE Goto(w, "stuck") /\ UNCHANGED <<todo, boot, again>>

Unused(i) ==
    /\ i \notin accepted /\ writer[i].step = "none" /\ ~open[i]
    /\ tmp[i] = {} /\ Stored(i) = {} /\ relay[i] = None

BeginCapture(i) ==
    /\ Started /\ Unused(i)
    /\ open' = [open EXCEPT ![i] = TRUE]
    /\ openAt' = openAt \cup {i}
    /\ Goto(i, "live")
    /\ accepted' = accepted \cup {i}
    /\ UNCHANGED <<spool, queues, control, job, relay, cutLive, again, faults>>

AppendChunk(i) ==
    /\ writer[i].step = "live" /\ spool[i] < MaxChunks
    /\ spool' = [spool EXCEPT ![i] = @ + 1]
    /\ UNCHANGED <<open, queues, control, openAt, writer, job, outside>>

Whole(i) == [kind |-> "whole", chunks |-> spool[i], life |-> 0]
Cut(i) == [kind |-> "cut", chunks |-> spool[i], life |-> faults]

\* The transaction is closed and its files are read; without the metadata
\* there is nothing to finalise.
Finalize(i) ==
    /\ writer[i].step = "live"
    /\ writer' = [writer EXCEPT ![i] = IF open[i]
                    THEN [step |-> "write", id |-> i, record |-> Whole(i)]
                    ELSE [@ EXCEPT !.step = "stuck"]]
    /\ UNCHANGED <<opened, queues, control, openAt, job, outside>>

\* A request whose transaction could not be opened is offered as a whole.
SubmitWhole(i) ==
    /\ Started /\ Unused(i)
    /\ writer' = [writer EXCEPT ![i] = [step |-> "write", id |-> i, record |-> Whole(i)]]
    /\ UNCHANGED <<opened, queues, control, openAt, job, outside>>

-----------------------------------------------------------------------------
(***************************************************************************)
(* enqueueRecord, and what its callers do once the record is in pending.   *)
(***************************************************************************)

\* Where a writer goes once its record is durable: to the removal of the open
\* files, if there are any.
Durable(w, i) ==
    /\ IF open[i] THEN Goto(w, "spools") ELSE Done(w)
    /\ accepted' = accepted \cup {i}
    /\ armed' = (armed \/ (w # Recovery /\ ~open[i]))

\* No version of the id is stored: the record is written under a temporary
\* name and synced.
WriteTemporary(w) ==
    LET i == writer[w].id IN
    /\ writer[w].step = "write" /\ Stored(i) = {}
    /\ tmp' = [tmp EXCEPT ![i] = @ \cup {writer[w].record}]
    /\ Goto(w, "link")
    /\ UNCHANGED <<opened, pending, processing, failed, control, openAt, job, outside>>

\* The same bytes are stored already, or others are.
FindStored(w) ==
    LET i == writer[w].id IN
    /\ writer[w].step = "write" /\ Stored(i) # {}
    /\ IF FindExisting(i) = writer[w].record
       THEN Durable(w, i) /\ UNCHANGED <<boot, todo, again>>
       ELSE Throw(w) /\ UNCHANGED <<armed, accepted>>
    /\ UNCHANGED <<opened, queues, openAt, job, relay, cutLive, faults>>

\* The outbox or its disk is full, for a chunk or for the record.
Refuse(w) ==
    /\ IF w = Recovery THEN "recovery" \in Refusals /\ writer[w].step = "write"
                       ELSE "request" \in Refusals /\ writer[w].step \in {"live", "write"}
    /\ Throw(w)
    /\ UNCHANGED <<opened, queues, armed, openAt, job, relay, accepted, cutLive, faults>>

\* link(): creates the record, or finds that there is one, or that somebody
\* has taken the temporary file away.
LinkTemporary(w) ==
    LET i == writer[w].id
        v == writer[w].record IN
    /\ writer[w].step = "link"
    /\ \/ /\ v \in tmp[i] /\ pending[i] = None
          /\ pending' = [pending EXCEPT ![i] = v]
          /\ Goto(w, "unlink")
          /\ UNCHANGED <<tmp, control, accepted, again>>
       \/ /\ v \in tmp[i] /\ pending[i] # None
          /\ tmp' = [tmp EXCEPT ![i] = @ \ {v}]
          /\ IF pending[i] = v
             THEN Durable(w, i) /\ UNCHANGED <<boot, todo, again>>
             ELSE Throw(w) /\ UNCHANGED <<armed, accepted>>
          /\ UNCHANGED pending
       \/ v \notin tmp[i] /\ Throw(w) /\ UNCHANGED <<tmp, pending, armed, accepted>>
    /\ UNCHANGED <<opened, processing, failed, openAt, job, relay, cutLive, faults>>

RemoveTemporary(w) ==
    LET i == writer[w].id
        v == writer[w].record IN
    /\ writer[w].step = "unlink"
    /\ tmp' = [tmp EXCEPT ![i] = @ \ {v}]
    /\ IF v \in tmp[i]
       THEN Durable(w, i) /\ UNCHANGED <<boot, todo, again>>
       ELSE Throw(w) /\ UNCHANGED <<armed, accepted>>
    /\ UNCHANGED <<opened, pending, processing, failed, openAt, job, relay, cutLive, faults>>

\* removeCaptureFiles: the spools go first, the metadata last.
RemoveSpools(w) ==
    /\ writer[w].step = "spools"
    /\ spool' = [spool EXCEPT ![writer[w].id] = 0]
    /\ Goto(w, "metadata")
    /\ UNCHANGED <<open, queues, control, openAt, job, outside>>

\* The transaction is over; only a request asks for a drain.
RemoveMetadata(w) ==
    /\ writer[w].step = "metadata"
    /\ open' = [open EXCEPT ![writer[w].id] = FALSE]
    /\ openAt' = openAt \ {writer[w].id}
    /\ armed' = (armed \/ w # Recovery)
    /\ Done(w)
    /\ UNCHANGED <<spool, queues, boot, todo, job, outside>>

-----------------------------------------------------------------------------
(***************************************************************************)
(* recoverOpenCaptures, at the start of every start() and then by a timer. *)
(***************************************************************************)

\* The timer lists the open transactions again.
Tick ==
    /\ boot = "on" /\ todo = {} /\ RecoveryIdle
    /\ todo' = OpenIds
    /\ UNCHANGED <<opened, queues, boot, armed, openAt, writer, job, outside>>

\* Is the transaction of i one of openCaptures?
Live(i) == writer[i].step # "none"

\* Mutant: age is all that counts.
Recoverable_ByAge(i) == TRUE

\* start() takes every transaction for an orphan; the timer leaves out those
\* of this process.
Recoverable(i) == boot = "recover" \/ ~Live(i)

\* The stored version proves that it holds what the open files hold; a spool
\* that is gone proves nothing.
Matches(i, v) == spool[i] = 0 \/ v.chunks = spool[i]

Pick(i) == Started /\ RecoveryIdle /\ i \in todo

\* The metadata is gone, or the transaction is live or recent.
SkipOpen(i) ==
    /\ Pick(i) /\ ~(open[i] /\ boot = "recover")
    /\ todo' = todo \ {i}
    /\ UNCHANGED <<opened, queues, boot, armed, openAt, writer, job, outside>>

\* The recovery makes a record of what is there, unless one is stored.
RecoverOpen(i) ==
    /\ Pick(i) /\ open[i] /\ Recoverable(i)
    /\ Stored(i) = {} \/ \E v \in Stored(i) : Stored(i) = {v} /\ Matches(i, v)
    /\ todo' = todo \ {i}
    /\ writer' = [writer EXCEPT ![Recovery] =
                    [step |-> IF Stored(i) = {} THEN "write" ELSE "spools",
                     id |-> i, record |-> Cut(i)]]
    /\ cutLive' = IF Live(i) THEN cutLive \cup {i} ELSE cutLive
    /\ UNCHANGED <<opened, queues, boot, armed, openAt, job, relay, accepted, again, faults>>

\* A stored version differs from the open files, or from another one.
RecoveryConflict(i) ==
    /\ Pick(i) /\ open[i] /\ Recoverable(i)
    /\ Stored(i) # {} /\ \A v \in Stored(i) : Stored(i) # {v} \/ ~Matches(i, v)
    /\ Throw(Recovery)
    /\ UNCHANGED <<opened, queues, armed, openAt, job, relay, accepted, cutLive, faults>>

-----------------------------------------------------------------------------
(***************************************************************************)
(* drain and deliverFile.                                                  *)
(***************************************************************************)

Step(i, step) == job' = [job EXCEPT ![i].step = step]
Drop(i) == job' = [job EXCEPT ![i] = IdleJob]

\* Mutant: a record is sent although its open files are still there.
Ready_Always(i) == TRUE

\* cleanupPending: a record whose open files are not removed yet has to wait.
Ready(i) == i \notin openAt

\* The move to processing; a record that is there already is not moved again.
Claim(i) ==
    /\ armed /\ job[i].step = "none"
    /\ Ready(i) /\ Movable(pending, processing, i)
    /\ processing' = [processing EXCEPT ![i] = pending[i]]
    /\ job' = [job EXCEPT ![i] = [step |-> "claimed", record |-> pending[i]]]
    /\ UNCHANGED <<opened, tmp, pending, failed, control, openAt, writer, outside>>

\* The other half of the move, then the record is read; when somebody has
\* taken the one or the other away, the delivery ends there.
ClaimRemove(i) ==
    /\ job[i].step = "claimed"
    /\ IF None \in {pending[i], processing[i]} THEN Drop(i) ELSE Step(i, "send")
    /\ pending' = [pending EXCEPT ![i] = None]
    /\ UNCHANGED <<opened, tmp, processing, failed, control, openAt, writer, outside>>

\* Nothing is left to drain.
DrainIdle ==
    /\ armed /\ \A i \in Ids : pending[i] = None /\ job[i].step = "none"
    /\ armed' = FALSE
    /\ UNCHANGED <<opened, queues, boot, todo, openAt, writer, job, outside>>

\* The Relay stores the record, has it, or holds another one (409).
RelayAnswers(i) ==
    /\ job[i].step = "send"
    /\ IF relay[i] \in {None, job[i].record}
       THEN relay' = [relay EXCEPT ![i] = job[i].record] /\ Step(i, "sent")
       ELSE Step(i, "fail") /\ UNCHANGED relay
    /\ UNCHANGED <<opened, queues, control, openAt, writer, accepted, cutLive, again, faults>>

\* The answer is lost, and so may be the request; the attempt is repeated.
AnswerLost(i) ==
    /\ job[i].step = "send" /\ relay[i] = None
    /\ relay' = [relay EXCEPT ![i] = job[i].record]
    /\ UNCHANGED <<opened, queues, control, openAt, writer, job, accepted, cutLive, again, faults>>

\* The Relay refuses the record for good, or the attempts are used up.
GiveUp(i) ==
    /\ job[i].step = "send"
    /\ Step(i, "fail") \/ Step(i, "return")
    /\ UNCHANGED <<opened, queues, control, openAt, writer, outside>>

\* The record goes once the Relay has it, and once it is linked elsewhere.
RemoveProcessed(i) ==
    /\ job[i].step \in {"sent", "linked"}
    /\ processing' = [processing EXCEPT ![i] = None]
    /\ Drop(i)
    /\ UNCHANGED <<opened, tmp, pending, failed, control, openAt, writer, outside>>

\* moveFailed; a failed version that differs sends the record back to pending.
MoveFailed(i) ==
    /\ job[i].step = "fail"
    /\ IF processing[i] = None THEN Drop(i) /\ UNCHANGED failed
       ELSE IF Movable(processing, failed, i)
            THEN failed' = [failed EXCEPT ![i] = processing[i]] /\ Step(i, "linked")
            ELSE Step(i, "return") /\ UNCHANGED failed
    /\ UNCHANGED <<opened, tmp, pending, processing, control, openAt, writer, outside>>

\* Back to pending; what cannot go back stays in processing until a restart.
MoveBack(i) ==
    /\ job[i].step = "return"
    /\ IF Movable(processing, pending, i)
       THEN pending' = [pending EXCEPT ![i] = processing[i]] /\ Step(i, "linked")
       ELSE Drop(i) /\ UNCHANGED pending
    /\ UNCHANGED <<opened, tmp, processing, failed, control, openAt, writer, outside>>

-----------------------------------------------------------------------------
\* The process is killed, or closed, which may cut short the same steps.
Crash ==
    /\ boot # "off" /\ faults < MaxFaults /\ faults' = faults + 1
    /\ boot' = "off" /\ todo' = {} /\ openAt' = {} /\ armed' = FALSE
    /\ writer' = [w \in Writers |-> IdleWriter(w)]
    /\ job' = [i \in Ids |-> IdleJob]
    /\ UNCHANGED <<opened, queues, relay, accepted, cutLive, again>>

Next ==
    \/ Start \/ TemporariesDone \/ RequeueDone \/ RecoveryDone \/ Tick \/ DrainIdle
    \/ \E i \in Ids :
          \/ \E v \in tmp[i] : RecoverTemporary(i, v)
          \/ RequeueProcessing(i)
          \/ BeginCapture(i) \/ AppendChunk(i) \/ Finalize(i) \/ SubmitWhole(i)
          \/ SkipOpen(i) \/ RecoverOpen(i) \/ RecoveryConflict(i)
          \/ Claim(i) \/ ClaimRemove(i) \/ RelayAnswers(i) \/ AnswerLost(i) \/ GiveUp(i)
          \/ RemoveProcessed(i) \/ MoveFailed(i) \/ MoveBack(i)
    \/ \E w \in Writers :
          \/ WriteTemporary(w) \/ FindStored(w) \/ Refuse(w) \/ LinkTemporary(w)
          \/ RemoveTemporary(w) \/ RemoveSpools(w) \/ RemoveMetadata(w)
    \/ Crash

Spec == Init /\ [][Next]_vars

\* Timers, requests and file operations go on, the service is restarted, and a
\* Relay that is asked again and again answers in the end.
FairSpec ==
    /\ Spec
    /\ WF_vars(Start \/ TemporariesDone \/ RequeueDone \/ RecoveryDone)
    /\ \A i \in Ids :
          /\ WF_vars(\E v \in tmp[i] : RecoverTemporary(i, v)) /\ WF_vars(RequeueProcessing(i))
          /\ WF_vars(Finalize(i))
          /\ WF_vars(SkipOpen(i) \/ RecoverOpen(i) \/ RecoveryConflict(i))
          /\ WF_vars(Claim(i)) /\ WF_vars(ClaimRemove(i)) /\ SF_vars(RelayAnswers(i))
          /\ WF_vars(RemoveProcessed(i) \/ MoveFailed(i) \/ MoveBack(i))
    /\ \A w \in Writers :
          WF_vars(\/ WriteTemporary(w) \/ FindStored(w) \/ LinkTemporary(w)
                  \/ RemoveTemporary(w) \/ RemoveSpools(w) \/ RemoveMetadata(w))

-----------------------------------------------------------------------------
(***************************************************************************)
(* Properties.                                                             *)
(***************************************************************************)

\* Types of the variables.
TypeOK ==
    /\ open \in [Ids -> BOOLEAN] /\ spool \in [Ids -> 0 .. MaxChunks]
    /\ tmp \in [Ids -> SUBSET Version]
    /\ {pending, processing, failed, relay} \subseteq [Ids -> Version \cup {None}]
    /\ boot \in {"off", "temporaries", "requeue", "recover", "on"}
    /\ todo \subseteq Ids /\ openAt \subseteq Ids /\ armed \in BOOLEAN
    /\ writer \in [Writers ->
          [step : {"none", "live", "write", "link", "unlink", "spools", "metadata", "stuck"},
           id : Writers, record : Version \cup {None}]]
    /\ job \in [Ids -> [step : {"none", "claimed", "send", "sent", "fail", "return", "linked"},
                        record : Version \cup {None}]]
    /\ accepted \subseteq Ids /\ cutLive \subseteq Ids /\ again \in BOOLEAN
    /\ faults \in 0 .. MaxFaults

\* Evidence the outbox has taken over is always in one of its directories or
\* at the Relay.
NothingLost ==
    \A i \in accepted : open[i] \/ tmp[i] # {} \/ Stored(i) # {} \/ relay[i] # None

\* "A transaction this process still owns is live by definition, so it is
\* never recovered."
LiveNotCut == cutLive = {}

\* Both hold, whatever is being moved, recovered or retried and wherever a
\* crash falls, as long as start() has not failed half-way and been repeated
\* by the next request.
EvidenceKept == again \/ (NothingLost /\ LiveNotCut)

\* Likewise one captureId means one record: the versions in the directories
\* and at the Relay are the same bytes, so the Relay never meets a conflict of
\* the Gateway's own making.
OneVersion ==
    \A i \in Ids : \A u, v \in tmp[i] \cup Stored(i) \cup ({relay[i]} \ {None}) :
        again \/ u = v

\* Likewise evidence taken over reaches the Relay or failed/ in the end; only a
\* request whose record was refused keeps it in open/.
Settles ==
    \A i \in Ids : i \in accepted ~>
        (again \/ relay[i] # None \/ failed[i] # None \/ writer[i].step = "stuck")

=============================================================================
