----------------------------- MODULE OutboxProofs -----------------------------
(***************************************************************************)
(* Theorems about the durable outbox of the Gateway: for any number of     *)
(* requests and chunks, any number of crashes, and refusals of either      *)
(* kind.                                                                   *)
(*                                                                         *)
(* What keeps evidence is that, until start() fails half-way, an id has    *)
(* one writer: its request, or the recovery once the request is gone.  A   *)
(* record is claimed for delivery only when its open files are removed, so *)
(* that the open files, the temporary file, the directories and the Relay  *)
(* take over from one another.                                             *)
(***************************************************************************)
EXTENDS Outbox, TLAPS

-----------------------------------------------------------------------------
(***************************************************************************)
(* The inductive invariant, by parts.                                      *)
(***************************************************************************)

\* A writer works for an id of its own and writes a version.
WriterOK ==
    \A w \in Writers :
        /\ w \in Ids => writer[w].id = w
        /\ w = Recovery => writer[w].step \notin {"live", "stuck"}
        /\ writer[w].step # "none" => writer[w].id \in Ids
        /\ writer[w].step \in {"write", "link", "unlink"} => writer[w].record \in Version

\* Nothing runs before start() lets requests in.
StoppedOK ==
    ~Started => /\ \A w \in Writers : writer[w].step = "none"
                /\ \A i \in Ids : job[i].step = "none"
                /\ todo = {} /\ ~armed

\* No version of i is anywhere, or no other than v.
NoVersion(i) ==
    tmp[i] = {} /\ pending[i] = None /\ processing[i] = None /\ failed[i] = None /\ relay[i] = None
OnlyVersion(i, v) ==
    /\ tmp[i] \subseteq {v} /\ pending[i] \in {None, v} /\ processing[i] \in {None, v}
    /\ failed[i] \in {None, v} /\ relay[i] \in {None, v}

AgreeOK == \A i \in Ids : \E v \in Version : OnlyVersion(i, v)

\* Open files: nobody has claimed the record of the id, and nobody will.
OpenOK ==
    \A i \in Ids : open[i] =>
        /\ i \in accepted /\ (Started => i \in openAt)
        /\ processing[i] = None /\ failed[i] = None /\ relay[i] = None

\* The recovery works on orphans.
OrphanOK ==
    /\ todo \subseteq accepted
    /\ boot = "recover" => \A i \in todo : writer[i].step = "none"
    /\ writer[Recovery].step # "none" =>
          writer[writer[Recovery].id].step = "none" /\ open[writer[Recovery].id]

\* What a writer finds at each of its steps.
StepOK(w) ==
    LET i == writer[w].id
        v == writer[w].record IN
    /\ writer[w].step = "live" => open[i]
    /\ writer[w].step \in {"live", "write"} => NoVersion(i)
    /\ writer[w].step = "link" => OnlyVersion(i, v) /\ tmp[i] = {v} /\ pending[i] = None
                                  /\ processing[i] = None /\ failed[i] = None /\ relay[i] = None
    /\ writer[w].step = "unlink" => OnlyVersion(i, v) /\ tmp[i] = {v}
                                    /\ ~(pending[i] = None /\ processing[i] = None
                                         /\ failed[i] = None /\ relay[i] = None)
    /\ writer[w].step \in {"spools", "metadata"} => open[i] /\ pending[i] # None
StepsOK == \A w \in Writers : StepOK(w)

\* Once start() is through with them, a temporary file has its writer.
TemporaryOK ==
    boot \notin {"off", "temporaries"} => \A i \in Ids : tmp[i] # {} =>
        \E w \in Writers : writer[w].id = i /\ writer[w].step \in {"link", "unlink"}

\* What a delivery finds at each of its steps.
JobOK(i) ==
    /\ job[i].step # "none" => job[i].record # None /\ processing[i] = job[i].record
    /\ job[i].step = "claimed" => pending[i] = job[i].record
    /\ job[i].step = "sent" => relay[i] = job[i].record
    /\ job[i].step = "linked" => pending[i] # None \/ failed[i] # None
JobsOK == \A i \in Ids : JobOK(i)

\* What was taken over is somewhere.
HeldOK == \A i \in accepted : open[i] \/ ~NoVersion(i)

OneOwner ==
    /\ StoppedOK /\ AgreeOK /\ OpenOK /\ OrphanOK /\ StepsOK /\ TemporaryOK /\ JobsOK
    /\ HeldOK /\ LiveNotCut

IInv == TypeOK /\ WriterOK /\ (again \/ OneOwner)

-----------------------------------------------------------------------------
(***************************************************************************)
(* The owners are kept, action by action.                                  *)
(***************************************************************************)

LEMMA NoneIsNoVersion == None \notin Version
BY SMT DEF None, Version

LEMMA RecordParts ==
    /\ \A v \in Version : v # None
    /\ Recovery \notin Ids /\ Recovery \in Writers /\ Ids \subseteq Writers
    /\ \A w \in Writers : w \in Ids \/ w = Recovery
BY NoneIsNoVersion, OutboxAssumption DEF Writers

LEMMA StoredParts ==
    ASSUME NEW i
    PROVE  Stored(i) = {} <=> pending[i] = None /\ processing[i] = None /\ failed[i] = None
BY DEF Stored

\* The invariant while start() has not failed half-way.
Safe == TypeOK /\ WriterOK /\ ~again /\ OneOwner

\* Two writers at work are at work on two ids.
LEMMA OneWriter ==
    ASSUME Safe, NEW u \in Writers, NEW w \in Writers, u # w,
           writer[u].step # "none", writer[w].step # "none"
    PROVE  writer[u].id # writer[w].id
BY RecordParts DEF Safe, WriterOK, OneOwner, OrphanOK

LEMMA StartKeeps ==
    ASSUME Safe, Start, ~again'
    PROVE  OneOwner'
<1>1. /\ StoppedOK' /\ AgreeOK' /\ OpenOK' /\ OrphanOK' /\ StepsOK' /\ TemporaryOK' /\ JobsOK'
      /\ HeldOK' /\ LiveNotCut'
  BY RecordParts DEF Start, opened, queues, outside, Safe, OneOwner, StoppedOK, Started,
     AgreeOK, OnlyVersion, OpenOK, OrphanOK, StepsOK, StepOK, NoVersion, TemporaryOK, JobsOK,
     JobOK, HeldOK, LiveNotCut
<1>2. QED
  BY <1>1 DEF OneOwner

LEMMA TemporariesDoneKeeps ==
    ASSUME Safe, TemporariesDone, ~again'
    PROVE  OneOwner'
<1>1. /\ StoppedOK' /\ AgreeOK' /\ OpenOK' /\ OrphanOK' /\ StepsOK' /\ TemporaryOK' /\ JobsOK'
      /\ HeldOK' /\ LiveNotCut'
  BY RecordParts DEF TemporariesDone, opened, queues, outside, Safe, OneOwner, StoppedOK,
     Started, AgreeOK, OnlyVersion, OpenOK, OrphanOK, StepsOK, StepOK, NoVersion, TemporaryOK,
     JobsOK, JobOK, HeldOK, LiveNotCut
<1>2. QED
  BY <1>1 DEF OneOwner

LEMMA RequeueDoneKeeps ==
    ASSUME Safe, RequeueDone, ~again'
    PROVE  OneOwner'
<1>1. /\ StoppedOK' /\ AgreeOK' /\ OpenOK' /\ StepsOK' /\ TemporaryOK' /\ JobsOK' /\ HeldOK'
      /\ LiveNotCut'
  BY RecordParts DEF RequeueDone, opened, queues, outside, OpenIds, Quiet, Movable, Safe,
     OneOwner, StoppedOK, Started, AgreeOK, OnlyVersion, OpenOK, StepsOK, StepOK, NoVersion,
     TemporaryOK, JobsOK, JobOK, HeldOK, LiveNotCut
<1>2. OrphanOK'
  BY RecordParts, SMTT(20) DEF RequeueDone, opened, queues, outside, OpenIds, Quiet, Movable,
     Safe, OneOwner, OrphanOK, TypeOK, Writers, WriterOK, OpenOK, StepsOK, StepOK, StoppedOK,
     Started, NoVersion
<1>3. QED
  BY <1>1, <1>2 DEF OneOwner

LEMMA RecoveryDoneKeeps ==
    ASSUME Safe, RecoveryDone, ~again'
    PROVE  OneOwner'
<1>1. /\ StoppedOK' /\ AgreeOK' /\ OpenOK' /\ OrphanOK' /\ StepsOK' /\ TemporaryOK' /\ JobsOK'
      /\ HeldOK' /\ LiveNotCut'
  BY RecordParts DEF RecoveryDone, opened, queues, outside, Quiet, Safe, OneOwner, StoppedOK,
     Started, AgreeOK, OnlyVersion, OpenOK, OrphanOK, StepsOK, StepOK, NoVersion, TemporaryOK,
     JobsOK, JobOK, HeldOK, LiveNotCut
<1>2. QED
  BY <1>1 DEF OneOwner

LEMMA TickKeeps ==
    ASSUME Safe, Tick, ~again'
    PROVE  OneOwner'
<1>1. StoppedOK' /\ AgreeOK' /\ OpenOK' /\ TemporaryOK' /\ JobsOK' /\ HeldOK' /\ LiveNotCut'
  BY RecordParts DEF Tick, opened, queues, outside, OpenIds, RecoveryIdle, Safe, OneOwner,
     StoppedOK, Started, AgreeOK, OnlyVersion, OpenOK, TemporaryOK, JobsOK, JobOK, HeldOK,
     NoVersion, LiveNotCut
<1>2. OrphanOK'
  BY RecordParts, SMTT(20) DEF Tick, opened, queues, outside, OpenIds, RecoveryIdle, Safe,
     OneOwner, OrphanOK, TypeOK, Writers, WriterOK, OpenOK, StepsOK, StepOK, StoppedOK, Started,
     NoVersion
<1>3. StepsOK'
  BY RecordParts, SMTT(20) DEF Tick, opened, queues, outside, OpenIds, RecoveryIdle, Safe,
     OneOwner, StepsOK, StepOK, NoVersion, OnlyVersion, TypeOK, Writers, WriterOK, OpenOK,
     AgreeOK, OrphanOK, StoppedOK, Started, JobsOK, JobOK, TemporaryOK
<1>4. QED
  BY <1>1, <1>2, <1>3 DEF OneOwner

LEMMA DrainIdleKeeps ==
    ASSUME Safe, DrainIdle, ~again'
    PROVE  OneOwner'
<1>1. /\ StoppedOK' /\ AgreeOK' /\ OpenOK' /\ OrphanOK' /\ TemporaryOK' /\ JobsOK' /\ HeldOK'
      /\ LiveNotCut'
  BY RecordParts DEF DrainIdle, opened, queues, outside, Safe, OneOwner, StoppedOK, Started,
     AgreeOK, OnlyVersion, OpenOK, OrphanOK, TemporaryOK, JobsOK, JobOK, HeldOK, NoVersion,
     LiveNotCut
<1>2. StepsOK'
  BY RecordParts, SMTT(20) DEF DrainIdle, opened, queues, outside, Safe, OneOwner, StepsOK,
     StepOK, NoVersion, OnlyVersion, TypeOK, Writers, WriterOK, OpenOK, AgreeOK, OrphanOK,
     StoppedOK, Started, JobsOK, JobOK, TemporaryOK
<1>3. QED
  BY <1>1, <1>2 DEF OneOwner

LEMMA CrashKeeps ==
    ASSUME Safe, Crash, ~again'
    PROVE  OneOwner'
<1>1. /\ StoppedOK' /\ AgreeOK' /\ OpenOK' /\ OrphanOK' /\ StepsOK' /\ TemporaryOK' /\ JobsOK'
      /\ HeldOK' /\ LiveNotCut'
  BY RecordParts DEF Crash, opened, queues, IdleWriter, IdleJob, Safe, OneOwner, StoppedOK,
     Started, AgreeOK, OnlyVersion, OpenOK, OrphanOK, StepsOK, StepOK, NoVersion, TemporaryOK,
     JobsOK, JobOK, HeldOK, LiveNotCut
<1>2. QED
  BY <1>1 DEF OneOwner

LEMMA RecoverTemporaryKeeps ==
    ASSUME Safe, NEW i \in Ids, NEW u \in tmp[i], RecoverTemporary(i, u), ~again'
    PROVE  OneOwner'
<1>1. StoppedOK' /\ AgreeOK' /\ OpenOK' /\ OrphanOK' /\ TemporaryOK' /\ JobsOK' /\ LiveNotCut'
  BY RecordParts DEF RecoverTemporary, opened, control, outside, Safe, OneOwner, StoppedOK,
     Started, AgreeOK, OnlyVersion, OpenOK, OrphanOK, TemporaryOK, JobsOK, JobOK, LiveNotCut
<1>2. StepsOK'
  BY RecordParts, SMTT(20) DEF RecoverTemporary, opened, control, outside, Safe, OneOwner,
     StepsOK, StepOK, NoVersion, OnlyVersion, TypeOK, Writers, WriterOK, OpenOK, AgreeOK,
     OrphanOK, StoppedOK, Started, JobsOK, JobOK, TemporaryOK
<1>3. HeldOK'
  BY RecordParts, SMTT(20) DEF RecoverTemporary, opened, control, outside, Safe, OneOwner,
     HeldOK, NoVersion, TypeOK, Writers
<1>4. QED
  BY <1>1, <1>2, <1>3 DEF OneOwner

LEMMA RequeueProcessingKeeps ==
    ASSUME Safe, NEW i \in Ids, RequeueProcessing(i), ~again'
    PROVE  OneOwner'
<1>1. StoppedOK' /\ AgreeOK' /\ OpenOK' /\ OrphanOK' /\ TemporaryOK' /\ LiveNotCut'
  BY RecordParts DEF RequeueProcessing, opened, control, outside, Movable, Safe, OneOwner,
     StoppedOK, Started, AgreeOK, OnlyVersion, OpenOK, OrphanOK, TemporaryOK, LiveNotCut
<1>2. StepsOK'
  BY RecordParts, SMTT(20) DEF RequeueProcessing, opened, control, outside, Movable, Safe,
     OneOwner, StepsOK, StepOK, NoVersion, OnlyVersion, TypeOK, Writers, WriterOK, OpenOK,
     AgreeOK, OrphanOK, StoppedOK, Started, JobsOK, JobOK, TemporaryOK
<1>3. JobsOK'
  BY RecordParts, SMTT(20) DEF RequeueProcessing, opened, control, outside, Movable, Safe,
     OneOwner, JobsOK, JobOK, TypeOK, Writers, WriterOK, OpenOK, AgreeOK, OnlyVersion, StepsOK,
     StepOK, NoVersion, StoppedOK, Started
<1>4. HeldOK'
  BY RecordParts, SMTT(20) DEF RequeueProcessing, opened, control, outside, Movable, Safe,
     OneOwner, HeldOK, NoVersion, TypeOK, Writers
<1>5. QED
  BY <1>1, <1>2, <1>3, <1>4 DEF OneOwner

LEMMA BeginCaptureKeeps ==
    ASSUME Safe, NEW i \in Ids, BeginCapture(i), ~again'
    PROVE  OneOwner'
<1>1. StoppedOK' /\ AgreeOK' /\ OpenOK' /\ TemporaryOK' /\ JobsOK' /\ LiveNotCut'
  BY RecordParts, StoredParts DEF BeginCapture, queues, control, Started, Goto, Unused, Safe,
     OneOwner, StoppedOK, AgreeOK, OnlyVersion, OpenOK, TemporaryOK, JobsOK, JobOK, LiveNotCut
<1>2. OrphanOK'
  BY RecordParts, StoredParts, SMTT(20) DEF BeginCapture, queues, control, Started, Goto,
     Unused, Safe, OneOwner, OrphanOK, TypeOK, Writers, WriterOK, OpenOK, StepsOK, StepOK,
     StoppedOK, NoVersion
<1>3. StepsOK'
  BY RecordParts, StoredParts, SMTT(20) DEF BeginCapture, queues, control, Started, Goto,
     Unused, Safe, OneOwner, StepsOK, StepOK, NoVersion, OnlyVersion, TypeOK, Writers, WriterOK,
     OpenOK, AgreeOK, OrphanOK, StoppedOK, JobsOK, JobOK, TemporaryOK
<1>4. HeldOK'
  BY RecordParts, StoredParts, SMTT(20) DEF BeginCapture, queues, control, Started, Goto,
     Unused, Safe, OneOwner, HeldOK, NoVersion, TypeOK, Writers
<1>5. QED
  BY <1>1, <1>2, <1>3, <1>4 DEF OneOwner

LEMMA AppendChunkKeeps ==
    ASSUME Safe, NEW i \in Ids, AppendChunk(i), ~again'
    PROVE  OneOwner'
<1>1. StepsOK'
  BY RecordParts DEF AppendChunk, queues, control, outside, Safe, OneOwner, StepsOK, StepOK,
     NoVersion, OnlyVersion
<1>2. /\ StoppedOK' /\ AgreeOK' /\ OpenOK' /\ OrphanOK' /\ TemporaryOK' /\ JobsOK' /\ HeldOK'
      /\ LiveNotCut'
  BY RecordParts DEF AppendChunk, queues, control, outside, Safe, OneOwner, StoppedOK, Started,
     AgreeOK, OnlyVersion, OpenOK, OrphanOK, TemporaryOK, JobsOK, JobOK, HeldOK, NoVersion,
     LiveNotCut
<1>3. QED
  BY <1>1, <1>2 DEF OneOwner

LEMMA FinalizeKeeps ==
    ASSUME Safe, NEW i \in Ids, Finalize(i), ~again'
    PROVE  OneOwner'
<1>1. /\ StoppedOK' /\ AgreeOK' /\ OpenOK' /\ OrphanOK' /\ TemporaryOK' /\ JobsOK' /\ HeldOK'
      /\ LiveNotCut'
  BY RecordParts DEF Finalize, opened, queues, control, outside, Whole, Safe, OneOwner,
     StoppedOK, Started, AgreeOK, OnlyVersion, OpenOK, OrphanOK, TemporaryOK, JobsOK, JobOK,
     HeldOK, NoVersion, LiveNotCut
<1>2. StepsOK'
  BY RecordParts, SMTT(20) DEF Finalize, opened, queues, control, outside, Whole, Safe,
     OneOwner, StepsOK, StepOK, NoVersion, OnlyVersion, TypeOK, Writers, WriterOK, OpenOK,
     AgreeOK, OrphanOK, StoppedOK, Started, JobsOK, JobOK, TemporaryOK
<1>3. QED
  BY <1>1, <1>2 DEF OneOwner

LEMMA SubmitWholeKeeps ==
    ASSUME Safe, NEW i \in Ids, SubmitWhole(i), ~again'
    PROVE  OneOwner'
<1>1. /\ StoppedOK' /\ AgreeOK' /\ OpenOK' /\ OrphanOK' /\ TemporaryOK' /\ JobsOK' /\ HeldOK'
      /\ LiveNotCut'
  BY RecordParts, StoredParts DEF SubmitWhole, opened, queues, control, outside, Started,
     Unused, Whole, Safe, OneOwner, StoppedOK, AgreeOK, OnlyVersion, OpenOK, OrphanOK,
     TemporaryOK, JobsOK, JobOK, HeldOK, NoVersion, LiveNotCut
<1>2. StepsOK'
  BY RecordParts, StoredParts, SMTT(20) DEF SubmitWhole, opened, queues, control, outside,
     Started, Unused, Whole, Safe, OneOwner, StepsOK, StepOK, NoVersion, OnlyVersion, TypeOK,
     Writers, WriterOK, OpenOK, AgreeOK, OrphanOK, StoppedOK, JobsOK, JobOK, TemporaryOK
<1>3. QED
  BY <1>1, <1>2 DEF OneOwner

LEMMA SkipOpenKeeps ==
    ASSUME Safe, NEW i \in Ids, SkipOpen(i), ~again'
    PROVE  OneOwner'
<1>1. StepsOK'
  BY RecordParts DEF SkipOpen, opened, queues, outside, Started, RecoveryIdle, Pick, Safe,
     OneOwner, StepsOK, StepOK, NoVersion, OnlyVersion
<1>2. /\ StoppedOK' /\ AgreeOK' /\ OpenOK' /\ OrphanOK' /\ TemporaryOK' /\ JobsOK' /\ HeldOK'
      /\ LiveNotCut'
  BY RecordParts DEF SkipOpen, opened, queues, outside, Started, RecoveryIdle, Pick, Safe,
     OneOwner, StoppedOK, AgreeOK, OnlyVersion, OpenOK, OrphanOK, TemporaryOK, JobsOK, JobOK,
     HeldOK, NoVersion, LiveNotCut
<1>3. QED
  BY <1>1, <1>2 DEF OneOwner

LEMMA RecoverOpenKeeps ==
    ASSUME Safe, NEW i \in Ids, RecoverOpen(i), ~again'
    PROVE  OneOwner'
<1>1. StoppedOK' /\ AgreeOK' /\ OpenOK' /\ TemporaryOK' /\ JobsOK' /\ HeldOK'
  BY RecordParts, StoredParts DEF RecoverOpen, opened, queues, Started, RecoveryIdle, Cut, Live,
     Recoverable, Matches, Pick, Safe, OneOwner, StoppedOK, AgreeOK, OnlyVersion, OpenOK,
     TemporaryOK, JobsOK, JobOK, HeldOK, NoVersion
<1>2. OrphanOK'
  BY RecordParts, StoredParts, SMTT(20) DEF RecoverOpen, opened, queues, Started, RecoveryIdle,
     Cut, Live, Recoverable, Matches, Pick, Safe, OneOwner, OrphanOK, TypeOK, Writers
<1>3. StepsOK'
  <2>1. SUFFICES ASSUME NEW w \in Writers
                 PROVE  StepOK(w)'
    BY DEF StepsOK
  <2>2. i \in accepted /\ processing[i] = None /\ failed[i] = None /\ relay[i] = None
    BY DEF RecoverOpen, Safe, OneOwner, OpenOK
  <2>3. CASE w = Recovery
    <3>1. writer'[w].id = i /\ writer'[w].step = IF Stored(i) = {} THEN "write" ELSE "spools"
      BY <2>3, RecordParts DEF RecoverOpen, Safe, TypeOK
    <3>2. writer[i].step = "none"
      BY DEF RecoverOpen, Recoverable, Live, Pick, Started, Safe, OneOwner, OrphanOK
    <3>3. tmp[i] = {}
      BY <3>2, RecordParts DEF RecoverOpen, Pick, Started, RecoveryIdle, Safe, OneOwner,
         TemporaryOK, WriterOK
    <3>4. Stored(i) # {} => pending[i] # None
      BY <2>2, StoredParts
    <3>5. open'[i] /\ tmp' = tmp /\ pending' = pending /\ processing' = processing
          /\ failed' = failed /\ relay' = relay
      BY DEF RecoverOpen, opened, queues
    <3>6. QED
      BY <2>2, <3>1, <3>3, <3>4, <3>5, StoredParts DEF StepOK, NoVersion
  <2>4. CASE w # Recovery
    <3>1. writer'[w] = writer[w]
      BY <2>4 DEF RecoverOpen, Safe, TypeOK
    <3>2. QED
      BY <3>1 DEF RecoverOpen, opened, queues, Safe, OneOwner, StepsOK, StepOK, NoVersion,
         OnlyVersion
  <2>5. QED
    BY <2>3, <2>4
<1>4. LiveNotCut'
  BY RecordParts, StoredParts, SMTT(20) DEF RecoverOpen, opened, queues, Started, RecoveryIdle,
     Cut, Live, Recoverable, Matches, Pick, Safe, OneOwner, LiveNotCut, TypeOK, Writers,
     WriterOK, OrphanOK
<1>5. QED
  BY <1>1, <1>2, <1>3, <1>4 DEF OneOwner

LEMMA RecoveryConflictKeeps ==
    ASSUME Safe, NEW i \in Ids, RecoveryConflict(i), ~again'
    PROVE  OneOwner'
<1>1. StoppedOK' /\ AgreeOK' /\ OpenOK' /\ JobsOK' /\ HeldOK' /\ LiveNotCut'
  BY RecordParts, StoredParts DEF RecoveryConflict, opened, queues, Started, IdleWriter,
     RecoveryIdle, Goto, Done, Throw, Live, Recoverable, Matches, Pick, Safe, OneOwner,
     StoppedOK, AgreeOK, OnlyVersion, OpenOK, JobsOK, JobOK, HeldOK, NoVersion, LiveNotCut
<1>2. OrphanOK'
  BY RecordParts, StoredParts, SMTT(20) DEF RecoveryConflict, opened, queues, Started,
     IdleWriter, RecoveryIdle, Goto, Done, Throw, Live, Recoverable, Matches, Pick, Safe,
     OneOwner, OrphanOK, TypeOK, Writers
<1>3. StepsOK'
  BY RecordParts, StoredParts, SMTT(20) DEF RecoveryConflict, opened, queues, Started,
     IdleWriter, RecoveryIdle, Goto, Done, Throw, Live, Recoverable, Matches, Pick, Safe,
     OneOwner, StepsOK, StepOK, NoVersion, OnlyVersion, TypeOK, Writers, WriterOK, OpenOK,
     AgreeOK, OrphanOK, StoppedOK, JobsOK, JobOK, TemporaryOK
<1>4. TemporaryOK'
  BY RecordParts, StoredParts, SMTT(20) DEF RecoveryConflict, opened, queues, Started,
     IdleWriter, RecoveryIdle, Goto, Done, Throw, Live, Recoverable, Matches, Pick, Safe,
     OneOwner, TemporaryOK, TypeOK, Writers
<1>5. QED
  BY <1>1, <1>2, <1>3, <1>4 DEF OneOwner

LEMMA ClaimKeeps ==
    ASSUME Safe, NEW i \in Ids, Claim(i), ~again'
    PROVE  OneOwner'
<1>1. StoppedOK' /\ AgreeOK' /\ OrphanOK' /\ StepsOK' /\ TemporaryOK' /\ HeldOK' /\ LiveNotCut'
  BY RecordParts DEF Claim, opened, control, outside, Movable, Ready, Safe, OneOwner, StoppedOK,
     Started, AgreeOK, OnlyVersion, OrphanOK, StepsOK, StepOK, NoVersion, TemporaryOK, HeldOK,
     LiveNotCut
<1>2. OpenOK'
  BY RecordParts, SMTT(20) DEF Claim, opened, control, outside, Movable, Ready, Safe, OneOwner,
     OpenOK, Started, TypeOK, Writers, WriterOK, JobsOK, JobOK, StepsOK, StepOK, StoppedOK,
     OrphanOK, NoVersion
<1>3. JobsOK'
  BY RecordParts, SMTT(20) DEF Claim, opened, control, outside, Movable, Ready, Safe, OneOwner,
     JobsOK, JobOK, TypeOK, Writers
<1>4. QED
  BY <1>1, <1>2, <1>3 DEF OneOwner

LEMMA ClaimRemoveKeeps ==
    ASSUME Safe, NEW i \in Ids, ClaimRemove(i), ~again'
    PROVE  OneOwner'
<1>1. StoppedOK' /\ AgreeOK' /\ OpenOK' /\ OrphanOK' /\ TemporaryOK' /\ LiveNotCut'
  BY RecordParts DEF ClaimRemove, opened, control, outside, IdleJob, Step, Drop, Safe, OneOwner,
     StoppedOK, Started, AgreeOK, OnlyVersion, OpenOK, OrphanOK, TemporaryOK, LiveNotCut
<1>2. StepsOK'
  BY RecordParts, SMTT(20) DEF ClaimRemove, opened, control, outside, IdleJob, Step, Drop, Safe,
     OneOwner, StepsOK, StepOK, NoVersion, OnlyVersion, TypeOK, Writers, WriterOK, OpenOK,
     AgreeOK, OrphanOK, StoppedOK, Started, JobsOK, JobOK, TemporaryOK
<1>3. JobsOK'
  BY RecordParts, SMTT(20) DEF ClaimRemove, opened, control, outside, IdleJob, Step, Drop, Safe,
     OneOwner, JobsOK, JobOK, TypeOK, Writers
<1>4. HeldOK'
  BY RecordParts, SMTT(20) DEF ClaimRemove, opened, control, outside, IdleJob, Step, Drop, Safe,
     OneOwner, HeldOK, NoVersion, TypeOK, Writers, WriterOK, StepsOK, StepOK, JobsOK, JobOK,
     AgreeOK, OnlyVersion, OpenOK
<1>5. QED
  BY <1>1, <1>2, <1>3, <1>4 DEF OneOwner

LEMMA RelayAnswersKeeps ==
    ASSUME Safe, NEW i \in Ids, RelayAnswers(i), ~again'
    PROVE  OneOwner'
<1>1. StoppedOK' /\ OrphanOK' /\ TemporaryOK' /\ LiveNotCut'
  BY RecordParts DEF RelayAnswers, opened, queues, control, Step, Safe, OneOwner, StoppedOK,
     Started, OrphanOK, TemporaryOK, LiveNotCut
<1>2. AgreeOK'
  BY RecordParts, SMTT(20) DEF RelayAnswers, opened, queues, control, Step, Safe, OneOwner,
     AgreeOK, OnlyVersion, TypeOK, Writers, WriterOK, OpenOK, StepsOK, StepOK, JobsOK, JobOK,
     NoVersion, StoppedOK, Started
<1>3. OpenOK'
  BY RecordParts, SMTT(20) DEF RelayAnswers, opened, queues, control, Step, Safe, OneOwner,
     OpenOK, Started, TypeOK, Writers, WriterOK, JobsOK, JobOK, StepsOK, StepOK, StoppedOK,
     OrphanOK, NoVersion
<1>4. StepsOK'
  BY RecordParts, SMTT(20) DEF RelayAnswers, opened, queues, control, Step, Safe, OneOwner,
     StepsOK, StepOK, NoVersion, OnlyVersion, TypeOK, Writers, WriterOK, OpenOK, AgreeOK,
     OrphanOK, StoppedOK, Started, JobsOK, JobOK, TemporaryOK
<1>5. JobsOK'
  BY RecordParts, SMTT(20) DEF RelayAnswers, opened, queues, control, Step, Safe, OneOwner,
     JobsOK, JobOK, TypeOK, Writers
<1>6. HeldOK'
  BY RecordParts, SMTT(20) DEF RelayAnswers, opened, queues, control, Step, Safe, OneOwner,
     HeldOK, NoVersion, TypeOK, Writers
<1>7. QED
  BY <1>1, <1>2, <1>3, <1>4, <1>5, <1>6 DEF OneOwner

LEMMA AnswerLostKeeps ==
    ASSUME Safe, NEW i \in Ids, AnswerLost(i), ~again'
    PROVE  OneOwner'
<1>1. StoppedOK' /\ OrphanOK' /\ TemporaryOK' /\ JobsOK' /\ HeldOK' /\ LiveNotCut'
  BY RecordParts DEF AnswerLost, opened, queues, control, Safe, OneOwner, StoppedOK, Started,
     OrphanOK, TemporaryOK, JobsOK, JobOK, HeldOK, NoVersion, LiveNotCut
<1>2. AgreeOK'
  BY RecordParts, SMTT(20) DEF AnswerLost, opened, queues, control, Safe, OneOwner, AgreeOK,
     OnlyVersion, TypeOK, Writers, WriterOK, OpenOK, StepsOK, StepOK, JobsOK, JobOK, NoVersion,
     StoppedOK, Started
<1>3. OpenOK'
  BY RecordParts, SMTT(20) DEF AnswerLost, opened, queues, control, Safe, OneOwner, OpenOK,
     Started, TypeOK, Writers, WriterOK, JobsOK, JobOK, StepsOK, StepOK, StoppedOK, OrphanOK,
     NoVersion
<1>4. StepsOK'
  BY RecordParts, SMTT(20) DEF AnswerLost, opened, queues, control, Safe, OneOwner, StepsOK,
     StepOK, NoVersion, OnlyVersion, TypeOK, Writers, WriterOK, OpenOK, AgreeOK, OrphanOK,
     StoppedOK, Started, JobsOK, JobOK, TemporaryOK
<1>5. QED
  BY <1>1, <1>2, <1>3, <1>4 DEF OneOwner

LEMMA GiveUpKeeps ==
    ASSUME Safe, NEW i \in Ids, GiveUp(i), ~again'
    PROVE  OneOwner'
<1>1. StepsOK'
  BY RecordParts DEF GiveUp, opened, queues, control, outside, Step, Safe, OneOwner, StepsOK,
     StepOK, NoVersion, OnlyVersion
<1>2. StoppedOK' /\ AgreeOK' /\ OpenOK' /\ OrphanOK' /\ TemporaryOK' /\ HeldOK' /\ LiveNotCut'
  BY RecordParts DEF GiveUp, opened, queues, control, outside, Step, Safe, OneOwner, StoppedOK,
     Started, AgreeOK, OnlyVersion, OpenOK, OrphanOK, TemporaryOK, HeldOK, NoVersion, LiveNotCut
<1>3. JobsOK'
  BY RecordParts, SMTT(20) DEF GiveUp, opened, queues, control, outside, Step, Safe, OneOwner,
     JobsOK, JobOK, TypeOK, Writers
<1>4. QED
  BY <1>1, <1>2, <1>3 DEF OneOwner

LEMMA RemoveProcessedKeeps ==
    ASSUME Safe, NEW i \in Ids, RemoveProcessed(i), ~again'
    PROVE  OneOwner'
<1>1. StoppedOK' /\ AgreeOK' /\ OpenOK' /\ OrphanOK' /\ TemporaryOK' /\ LiveNotCut'
  BY RecordParts DEF RemoveProcessed, opened, control, outside, IdleJob, Drop, Safe, OneOwner,
     StoppedOK, Started, AgreeOK, OnlyVersion, OpenOK, OrphanOK, TemporaryOK, LiveNotCut
<1>2. StepsOK'
  BY RecordParts, SMTT(20) DEF RemoveProcessed, opened, control, outside, IdleJob, Drop, Safe,
     OneOwner, StepsOK, StepOK, NoVersion, OnlyVersion, TypeOK, Writers, WriterOK, OpenOK,
     AgreeOK, OrphanOK, StoppedOK, Started, JobsOK, JobOK, TemporaryOK
<1>3. JobsOK'
  BY RecordParts, SMTT(20) DEF RemoveProcessed, opened, control, outside, IdleJob, Drop, Safe,
     OneOwner, JobsOK, JobOK, TypeOK, Writers
<1>4. HeldOK'
  BY RecordParts, SMTT(20) DEF RemoveProcessed, opened, control, outside, IdleJob, Drop, Safe,
     OneOwner, HeldOK, NoVersion, TypeOK, Writers, WriterOK, StepsOK, StepOK, JobsOK, JobOK,
     AgreeOK, OnlyVersion, OpenOK
<1>5. QED
  BY <1>1, <1>2, <1>3, <1>4 DEF OneOwner

LEMMA MoveFailedKeeps ==
    ASSUME Safe, NEW i \in Ids, MoveFailed(i), ~again'
    PROVE  OneOwner'
<1>1. StoppedOK' /\ OrphanOK' /\ TemporaryOK' /\ LiveNotCut'
  BY RecordParts DEF MoveFailed, opened, control, outside, IdleJob, Movable, Step, Drop, Safe,
     OneOwner, StoppedOK, Started, OrphanOK, TemporaryOK, LiveNotCut
<1>2. AgreeOK'
  BY RecordParts, SMTT(20) DEF MoveFailed, opened, control, outside, IdleJob, Movable, Step,
     Drop, Safe, OneOwner, AgreeOK, OnlyVersion, TypeOK, Writers
<1>3. OpenOK'
  BY RecordParts, SMTT(20) DEF MoveFailed, opened, control, outside, IdleJob, Movable, Step,
     Drop, Safe, OneOwner, OpenOK, Started, TypeOK, Writers
<1>4. StepsOK'
  BY RecordParts, SMTT(20) DEF MoveFailed, opened, control, outside, IdleJob, Movable, Step,
     Drop, Safe, OneOwner, StepsOK, StepOK, NoVersion, OnlyVersion, TypeOK, Writers, WriterOK,
     OpenOK, AgreeOK, OrphanOK, StoppedOK, Started, JobsOK, JobOK, TemporaryOK
<1>5. JobsOK'
  BY RecordParts, SMTT(20) DEF MoveFailed, opened, control, outside, IdleJob, Movable, Step,
     Drop, Safe, OneOwner, JobsOK, JobOK, TypeOK, Writers, WriterOK, OpenOK, AgreeOK,
     OnlyVersion, StepsOK, StepOK, NoVersion, StoppedOK, Started
<1>6. HeldOK'
  BY RecordParts, SMTT(20) DEF MoveFailed, opened, control, outside, IdleJob, Movable, Step,
     Drop, Safe, OneOwner, HeldOK, NoVersion, TypeOK, Writers
<1>7. QED
  BY <1>1, <1>2, <1>3, <1>4, <1>5, <1>6 DEF OneOwner

LEMMA MoveBackKeeps ==
    ASSUME Safe, NEW i \in Ids, MoveBack(i), ~again'
    PROVE  OneOwner'
<1>1. StoppedOK' /\ OpenOK' /\ OrphanOK' /\ TemporaryOK' /\ LiveNotCut'
  BY RecordParts DEF MoveBack, opened, control, outside, IdleJob, Movable, Step, Drop, Safe,
     OneOwner, StoppedOK, Started, OpenOK, OrphanOK, TemporaryOK, LiveNotCut
<1>2. AgreeOK'
  BY RecordParts, SMTT(20) DEF MoveBack, opened, control, outside, IdleJob, Movable, Step, Drop,
     Safe, OneOwner, AgreeOK, OnlyVersion, TypeOK, Writers
<1>3. StepsOK'
  BY RecordParts, SMTT(20) DEF MoveBack, opened, control, outside, IdleJob, Movable, Step, Drop,
     Safe, OneOwner, StepsOK, StepOK, NoVersion, OnlyVersion, TypeOK, Writers, WriterOK, OpenOK,
     AgreeOK, OrphanOK, StoppedOK, Started, JobsOK, JobOK, TemporaryOK
<1>4. JobsOK'
  BY RecordParts, SMTT(20) DEF MoveBack, opened, control, outside, IdleJob, Movable, Step, Drop,
     Safe, OneOwner, JobsOK, JobOK, TypeOK, Writers, WriterOK, OpenOK, AgreeOK, OnlyVersion,
     StepsOK, StepOK, NoVersion, StoppedOK, Started
<1>5. HeldOK'
  BY RecordParts, SMTT(20) DEF MoveBack, opened, control, outside, IdleJob, Movable, Step, Drop,
     Safe, OneOwner, HeldOK, NoVersion, TypeOK, Writers
<1>6. QED
  BY <1>1, <1>2, <1>3, <1>4, <1>5 DEF OneOwner

LEMMA WriteTemporaryKeeps ==
    ASSUME Safe, NEW w \in Writers, WriteTemporary(w), ~again'
    PROVE  OneOwner'
<1>1. StoppedOK' /\ OpenOK' /\ OrphanOK' /\ JobsOK' /\ HeldOK' /\ LiveNotCut'
  BY RecordParts, StoredParts DEF WriteTemporary, opened, control, outside, Goto, Safe,
     OneOwner, StoppedOK, Started, OpenOK, OrphanOK, JobsOK, JobOK, HeldOK, NoVersion,
     LiveNotCut
<1>2. AgreeOK'
  BY RecordParts, StoredParts, SMTT(20) DEF WriteTemporary, opened, control, outside, Goto,
     Safe, OneOwner, AgreeOK, OnlyVersion, TypeOK, Writers, WriterOK, OpenOK, StepsOK, StepOK,
     JobsOK, JobOK, NoVersion, StoppedOK, Started
<1>3. StepsOK'
  BY RecordParts, StoredParts, SMTT(20) DEF WriteTemporary, opened, control, outside, Goto,
     Safe, OneOwner, StepsOK, StepOK, NoVersion, OnlyVersion, TypeOK, Writers, WriterOK, OpenOK,
     AgreeOK, OrphanOK, StoppedOK, Started, JobsOK, JobOK, TemporaryOK
<1>4. TemporaryOK'
  BY RecordParts, StoredParts, SMTT(20) DEF WriteTemporary, opened, control, outside, Goto,
     Safe, OneOwner, TemporaryOK, Started, TypeOK, Writers
<1>5. QED
  BY <1>1, <1>2, <1>3, <1>4 DEF OneOwner

LEMMA FindStoredKeeps ==
    ASSUME Safe, NEW w \in Writers, FindStored(w), ~again'
    PROVE  OneOwner'
<1>1. StoppedOK' /\ AgreeOK' /\ OpenOK' /\ StepsOK' /\ JobsOK' /\ HeldOK' /\ LiveNotCut'
  BY RecordParts, StoredParts DEF FindStored, opened, queues, IdleWriter, FindExisting, Goto,
     Done, Throw, Durable, Safe, OneOwner, StoppedOK, Started, AgreeOK, OnlyVersion, OpenOK,
     StepsOK, StepOK, NoVersion, JobsOK, JobOK, HeldOK, LiveNotCut
<1>2. OrphanOK'
  BY RecordParts, StoredParts, SMTT(20) DEF FindStored, opened, queues, IdleWriter,
     FindExisting, Goto, Done, Throw, Durable, Safe, OneOwner, OrphanOK, TypeOK, Writers,
     WriterOK, OpenOK, StepsOK, StepOK, StoppedOK, Started, NoVersion
<1>3. TemporaryOK'
  BY RecordParts, StoredParts, SMTT(20) DEF FindStored, opened, queues, IdleWriter,
     FindExisting, Goto, Done, Throw, Durable, Safe, OneOwner, TemporaryOK, Started, TypeOK,
     Writers
<1>4. QED
  BY <1>1, <1>2, <1>3 DEF OneOwner

LEMMA RefuseKeeps ==
    ASSUME Safe, NEW w \in Writers, Refuse(w), ~again'
    PROVE  OneOwner'
<1>1. StoppedOK' /\ AgreeOK' /\ OpenOK' /\ JobsOK' /\ HeldOK' /\ LiveNotCut'
  BY RecordParts DEF Refuse, opened, queues, IdleWriter, Goto, Done, Throw, Safe, OneOwner,
     StoppedOK, Started, AgreeOK, OnlyVersion, OpenOK, JobsOK, JobOK, HeldOK, NoVersion,
     LiveNotCut
<1>2. OrphanOK'
  BY RecordParts, SMTT(20) DEF Refuse, opened, queues, IdleWriter, Goto, Done, Throw, Safe,
     OneOwner, OrphanOK, TypeOK, Writers, WriterOK, OpenOK, StepsOK, StepOK, StoppedOK, Started,
     NoVersion
<1>3. StepsOK'
  BY RecordParts, SMTT(60) DEF Refuse, opened, queues, IdleWriter, Goto, Done, Throw, Safe,
     OneOwner, StepsOK, StepOK, NoVersion, OnlyVersion, TypeOK, Writers, WriterOK, OpenOK,
     AgreeOK, OrphanOK, StoppedOK, Started, JobsOK, JobOK, TemporaryOK
<1>4. TemporaryOK'
  <2>1. SUFFICES ASSUME boot' \notin {"off", "temporaries"}, NEW j \in Ids, tmp'[j] # {}
                 PROVE  \E u \in Writers : writer'[u].id = j /\ writer'[u].step \in {"link", "unlink"}
    BY DEF TemporaryOK
  <2>2. boot = boot' /\ tmp' = tmp
    BY <2>1 DEF Refuse, Throw, opened, queues
  <2>3. PICK u \in Writers : writer[u].id = j /\ writer[u].step \in {"link", "unlink"}
    BY <2>1, <2>2 DEF Safe, OneOwner, TemporaryOK
  <2>4. u # w
    BY <2>3 DEF Refuse
  <2>5. writer'[u] = writer[u]
    BY <2>4 DEF Refuse, Throw, Goto, Done, Safe, TypeOK
  <2>6. QED
    BY <2>3, <2>5
<1>5. QED
  BY <1>1, <1>2, <1>3, <1>4 DEF OneOwner

LEMMA LinkTemporaryKeeps ==
    ASSUME Safe, NEW w \in Writers, LinkTemporary(w), ~again'
    PROVE  OneOwner'
<1>1. writer[w].step = "link"
  BY DEF LinkTemporary
<1> SUFFICES ASSUME NEW i \in Ids, NEW v \in Version, i = writer[w].id, v = writer[w].record
             PROVE  OneOwner'
  BY <1>1 DEF LinkTemporary, Safe, WriterOK
<1>2. OnlyVersion(i, v) /\ tmp[i] = {v} /\ pending[i] = None /\ processing[i] = None
      /\ failed[i] = None /\ relay[i] = None
  BY <1>1 DEF Safe, OneOwner, StepsOK, StepOK
<1>3. /\ pending' = [pending EXCEPT ![i] = v]
      /\ writer' = [writer EXCEPT ![w].step = "unlink"]
      /\ UNCHANGED <<tmp, opened, processing, failed, openAt, job, relay, accepted, control, cutLive>>
  BY <1>1, <1>2 DEF LinkTemporary, Goto
<1>4. StoppedOK' /\ OpenOK' /\ JobsOK' /\ HeldOK' /\ LiveNotCut'
  BY <1>1, <1>2, <1>3, RecordParts
  DEF opened, control, Safe, OneOwner, TypeOK, StoppedOK, Started, OpenOK, JobsOK, JobOK, HeldOK, NoVersion,
      LiveNotCut
<1>5. AgreeOK'
  BY <1>1, <1>2, <1>3 DEF Safe, OneOwner, TypeOK, AgreeOK, OnlyVersion
<1>6. OrphanOK'
  <2>1. todo' \subseteq accepted' /\ \A j \in todo' : j \in Ids
    BY <1>3 DEF control, Safe, TypeOK, OneOwner, OrphanOK
  <2>2. \A u \in Writers : writer[u].step = "none" <=> writer'[u].step = "none"
    BY <1>1, <1>3 DEF Safe, TypeOK
  <2>3. writer'[Recovery].id = writer[Recovery].id
    BY <1>3, RecordParts DEF Safe, TypeOK
  <2>4. writer[Recovery].step # "none" => writer[Recovery].id \in Ids
    BY RecordParts DEF Safe, WriterOK
  <2>5. QED
    BY <1>3, <2>1, <2>2, <2>3, <2>4, RecordParts DEF opened, control, Safe, OneOwner, OrphanOK
<1>7. StepsOK'
  <2>1. SUFFICES ASSUME NEW u \in Writers
                 PROVE  StepOK(u)'
    BY DEF StepsOK
  <2>2. CASE u = w
    <3>1. writer'[w].id = i /\ writer'[w].record = v /\ writer'[w].step = "unlink"
      BY <1>3 DEF Safe, TypeOK
    <3>2. pending'[i] = v /\ v # None
      BY <1>1, <1>3, RecordParts DEF Safe, TypeOK
    <3>3. QED
      BY <1>2, <1>3, <2>2, <3>1, <3>2 DEF StepOK, OnlyVersion
  <2>3. CASE u # w /\ writer[u].step # "none"
    <3>1. writer'[u] = writer[u] /\ writer[u].id # i
      BY <1>1, <1>3, <2>3, OneWriter DEF Safe, TypeOK
    <3>2. pending'[writer[u].id] = pending[writer[u].id]
      BY <1>3, <3>1, <2>3 DEF Safe, TypeOK, WriterOK
    <3>3. QED
      BY <1>3, <3>1, <3>2 DEF opened, Safe, OneOwner, StepsOK, StepOK, NoVersion, OnlyVersion
  <2>4. CASE u # w /\ writer[u].step = "none"
    BY <1>3, <2>4 DEF Safe, TypeOK, StepOK
  <2>5. QED
    BY <2>2, <2>3, <2>4
<1>8. TemporaryOK'
  BY <1>3 DEF control, Safe, OneOwner, TypeOK, TemporaryOK
<1>9. QED
  BY <1>4, <1>5, <1>6, <1>7, <1>8 DEF OneOwner

LEMMA RemoveTemporaryKeeps ==
    ASSUME Safe, NEW w \in Writers, RemoveTemporary(w), ~again'
    PROVE  OneOwner'
<1>1. writer[w].step = "unlink"
  BY DEF RemoveTemporary
<1> SUFFICES ASSUME NEW i \in Ids, NEW v \in Version, i = writer[w].id, v = writer[w].record
             PROVE  OneOwner'
  BY <1>1 DEF RemoveTemporary, Safe, WriterOK
<1>2. OnlyVersion(i, v) /\ tmp[i] = {v}
      /\ ~(pending[i] = None /\ processing[i] = None /\ failed[i] = None /\ relay[i] = None)
  BY <1>1 DEF Safe, OneOwner, StepsOK, StepOK
<1>3. /\ tmp' = [tmp EXCEPT ![i] = {}] /\ Durable(w, i)
      /\ UNCHANGED <<opened, pending, processing, failed, openAt, job, relay, boot, todo, cutLive>>
  BY <1>1, <1>2 DEF RemoveTemporary
<1>4. writer' = IF open[i] THEN [writer EXCEPT ![w].step = "spools"]
                           ELSE [writer EXCEPT ![w] = IdleWriter(w)]
  BY <1>3 DEF Durable, Goto, Done
<1>5. accepted' = accepted \cup {i}
  BY <1>3 DEF Durable
<1>6. StoppedOK' /\ JobsOK' /\ LiveNotCut'
  BY <1>1, <1>3 DEF Safe, OneOwner, StoppedOK, Started, JobsOK, JobOK, LiveNotCut
<1>7. AgreeOK' /\ OpenOK' /\ HeldOK'
  BY <1>1, <1>2, <1>3, <1>5
  DEF opened, Safe, OneOwner, TypeOK, AgreeOK, OnlyVersion, OpenOK, Started, HeldOK, NoVersion
<1>8. OrphanOK'
  <2>1. todo' \subseteq accepted' /\ \A j \in todo' : j \in Ids
    BY <1>3, <1>5 DEF Safe, TypeOK, OneOwner, OrphanOK
  <2>2. \A u \in Writers : writer[u].step = "none" => writer'[u].step = "none"
    BY <1>1, <1>4 DEF Safe, TypeOK, IdleWriter
  <2>3. writer'[Recovery].step # "none" => /\ writer[Recovery].step # "none"
                                           /\ writer'[Recovery].id = writer[Recovery].id
    <3>1. CASE w = Recovery
      BY <1>1, <1>4, <3>1 DEF Safe, TypeOK, IdleWriter
    <3>2. CASE w # Recovery
      BY <1>4, <3>2, RecordParts DEF Safe, TypeOK
    <3>3. QED
      BY <3>1, <3>2
  <2>4. writer[Recovery].step # "none" => writer[Recovery].id \in Ids
    BY RecordParts DEF Safe, WriterOK
  <2>5. QED
    BY <1>3, <2>1, <2>2, <2>3, <2>4, RecordParts DEF opened, Safe, OneOwner, OrphanOK
<1>9. StepsOK'
  <2>1. SUFFICES ASSUME NEW u \in Writers
                 PROVE  StepOK(u)'
    BY DEF StepsOK
  <2>2. CASE u = w /\ open[i]
    <3>1. writer'[w].id = i /\ writer'[w].step = "spools"
      BY <1>4, <2>2 DEF Safe, TypeOK
    <3>2. pending[i] # None
      BY <1>1, <1>2, <2>2 DEF Safe, OneOwner, OpenOK
    <3>3. QED
      BY <1>3, <2>2, <3>1, <3>2 DEF opened, StepOK
  <2>3. CASE u # w /\ writer[u].step # "none"
    <3>1. writer'[u] = writer[u] /\ writer[u].id # i
      BY <1>1, <1>4, <2>3, OneWriter DEF Safe, TypeOK
    <3>2. tmp'[writer[u].id] = tmp[writer[u].id]
      BY <1>3, <3>1, <2>3 DEF Safe, TypeOK, WriterOK
    <3>3. QED
      BY <1>3, <3>1, <3>2 DEF opened, Safe, OneOwner, StepsOK, StepOK, NoVersion, OnlyVersion
  <2>4. CASE u = w /\ ~open[i]
    BY <1>4, <2>4 DEF Safe, TypeOK, StepOK, IdleWriter
  <2>5. CASE u # w /\ writer[u].step = "none"
    BY <1>4, <2>5 DEF Safe, TypeOK, StepOK
  <2>6. QED
    BY <2>2, <2>3, <2>4, <2>5
<1>10. TemporaryOK'
  <2>1. SUFFICES ASSUME boot \notin {"off", "temporaries"}, NEW j \in Ids, tmp[j] # {}, j # i
                 PROVE  \E u \in Writers : writer'[u].id = j /\ writer'[u].step \in {"link", "unlink"}
    BY <1>1, <1>3 DEF TemporaryOK, Safe, TypeOK
  <2>2. PICK u \in Writers : writer[u].id = j /\ writer[u].step \in {"link", "unlink"}
    BY <2>1 DEF Safe, OneOwner, TemporaryOK
  <2>3. writer'[u] = writer[u]
    BY <1>4, <2>1, <2>2 DEF Safe, TypeOK
  <2>4. QED
    BY <2>2, <2>3
<1>11. QED
  BY <1>6, <1>7, <1>8, <1>9, <1>10 DEF OneOwner

LEMMA RemoveSpoolsKeeps ==
    ASSUME Safe, NEW w \in Writers, RemoveSpools(w), ~again'
    PROVE  OneOwner'
<1>1. /\ StoppedOK' /\ AgreeOK' /\ OpenOK' /\ OrphanOK' /\ TemporaryOK' /\ JobsOK' /\ HeldOK'
      /\ LiveNotCut'
  BY RecordParts DEF RemoveSpools, queues, control, outside, Goto, Safe, OneOwner, StoppedOK,
     Started, AgreeOK, OnlyVersion, OpenOK, OrphanOK, TemporaryOK, JobsOK, JobOK, HeldOK,
     NoVersion, LiveNotCut
<1>2. StepsOK'
  BY RecordParts, SMTT(20) DEF RemoveSpools, queues, control, outside, Goto, Safe, OneOwner,
     StepsOK, StepOK, NoVersion, OnlyVersion, TypeOK, Writers, WriterOK, OpenOK, AgreeOK,
     OrphanOK, StoppedOK, Started, JobsOK, JobOK, TemporaryOK
<1>3. QED
  BY <1>1, <1>2 DEF OneOwner

LEMMA RemoveMetadataKeeps ==
    ASSUME Safe, NEW w \in Writers, RemoveMetadata(w), ~again'
    PROVE  OneOwner'
<1>1. StoppedOK' /\ AgreeOK' /\ TemporaryOK' /\ JobsOK' /\ LiveNotCut'
  BY RecordParts DEF RemoveMetadata, queues, outside, IdleWriter, Done, Safe, OneOwner,
     StoppedOK, Started, AgreeOK, OnlyVersion, TemporaryOK, JobsOK, JobOK, LiveNotCut
<1>2. OpenOK'
  BY RecordParts, SMTT(20) DEF RemoveMetadata, queues, outside, IdleWriter, Done, Safe,
     OneOwner, OpenOK, Started, TypeOK, Writers
<1>3. OrphanOK'
  BY RecordParts, SMTT(20) DEF RemoveMetadata, queues, outside, IdleWriter, Done, Safe,
     OneOwner, OrphanOK, TypeOK, Writers, WriterOK, OpenOK, StepsOK, StepOK, StoppedOK, Started,
     NoVersion
<1>4. StepsOK'
  BY RecordParts, SMTT(20) DEF RemoveMetadata, queues, outside, IdleWriter, Done, Safe,
     OneOwner, StepsOK, StepOK, NoVersion, OnlyVersion, TypeOK, Writers, WriterOK, OpenOK,
     AgreeOK, OrphanOK, StoppedOK, Started, JobsOK, JobOK, TemporaryOK
<1>5. HeldOK'
  BY RecordParts, SMTT(20) DEF RemoveMetadata, queues, outside, IdleWriter, Done, Safe,
     OneOwner, HeldOK, NoVersion, TypeOK, Writers, WriterOK, StepsOK, StepOK, JobsOK, JobOK,
     AgreeOK, OnlyVersion, OpenOK
<1>6. QED
  BY <1>1, <1>2, <1>3, <1>4, <1>5 DEF OneOwner

-----------------------------------------------------------------------------
(***************************************************************************)
(* Types, whether or not start() has failed half-way.                      *)
(***************************************************************************)

\* The types, by parts.
FileTypes ==
    /\ open \in [Ids -> BOOLEAN] /\ spool \in [Ids -> 0 .. MaxChunks] /\ tmp \in [Ids -> SUBSET Version]
    /\ {pending, processing, failed, relay} \subseteq [Ids -> Version \cup {None}]
WriterTypes ==
    writer \in [Writers ->
        [step : {"none", "live", "write", "link", "unlink", "spools", "metadata", "stuck"},
         id : Writers, record : Version \cup {None}]]
JobTypes ==
    job \in [Ids -> [step : {"none", "claimed", "send", "sent", "fail", "return", "linked"},
                      record : Version \cup {None}]]
OtherTypes ==
    /\ boot \in {"off", "temporaries", "requeue", "recover", "on"}
    /\ todo \subseteq Ids /\ openAt \subseteq Ids /\ accepted \subseteq Ids /\ cutLive \subseteq Ids
    /\ faults \in 0 .. MaxFaults
FlagTypes == armed \in BOOLEAN /\ again \in BOOLEAN

LEMMA TypeParts == TypeOK <=> FileTypes /\ WriterTypes /\ JobTypes /\ OtherTypes /\ FlagTypes
BY DEF TypeOK, FileTypes, WriterTypes, JobTypes, OtherTypes, FlagTypes

LEMMA TypePartsNext == TypeOK' <=> FileTypes' /\ WriterTypes' /\ JobTypes' /\ OtherTypes' /\ FlagTypes'
BY DEF TypeOK, FileTypes, WriterTypes, JobTypes, OtherTypes, FlagTypes

\* No step leaves the types, whatever happens to the owners.
LEMMA TypesKept ==
    ASSUME TypeOK, WriterOK, [Next]_vars
    PROVE  TypeOK' /\ WriterOK'
<1>1. ASSUME Start
      PROVE  TypeOK' /\ WriterOK'
  BY <1>1, RecordParts, SMTT(20) DEF Start, opened, queues, outside, TypeOK, WriterOK
<1>2. ASSUME TemporariesDone
      PROVE  TypeOK' /\ WriterOK'
  BY <1>2, RecordParts, SMTT(20) DEF TemporariesDone, opened, queues, outside, TypeOK, WriterOK
<1>3. ASSUME RequeueDone
      PROVE  TypeOK' /\ WriterOK'
  BY <1>3, RecordParts, SMTT(20) DEF RequeueDone, opened, queues, outside, OpenIds, Quiet,
     Movable, TypeOK, WriterOK
<1>4. ASSUME RecoveryDone
      PROVE  TypeOK' /\ WriterOK'
  BY <1>4, RecordParts, SMTT(20) DEF RecoveryDone, opened, queues, outside, Quiet, TypeOK,
     WriterOK
<1>5. ASSUME Tick
      PROVE  TypeOK' /\ WriterOK'
  BY <1>5, RecordParts, SMTT(20) DEF Tick, opened, queues, outside, OpenIds, RecoveryIdle,
     TypeOK, WriterOK
<1>6. ASSUME DrainIdle
      PROVE  TypeOK' /\ WriterOK'
  <2>1. FileTypes'
    BY <1>6, TypeParts, RecordParts, OutboxAssumption, SMTT(20) DEF DrainIdle, opened, queues,
       outside, FileTypes, WriterOK, WriterTypes
  <2>2. WriterTypes'
    BY <1>6, TypeParts, RecordParts, OutboxAssumption, SMTT(20) DEF DrainIdle, opened, queues,
       outside, WriterTypes, FileTypes, OtherTypes
  <2>3. JobTypes'
    BY <1>6, TypeParts, RecordParts, SMTT(20) DEF DrainIdle, opened, queues, outside, JobTypes,
       FileTypes
  <2>4. OtherTypes'
    BY <1>6, TypeParts, RecordParts, OutboxAssumption, SMTT(20) DEF DrainIdle, opened, queues,
       outside, OtherTypes, WriterOK, WriterTypes
  <2>5. WriterOK'
    BY <1>6, TypeParts, RecordParts, OutboxAssumption, SMTT(20) DEF DrainIdle, opened, queues,
       outside, WriterOK, WriterTypes, FileTypes
  <2>6. FlagTypes'
    BY <1>6, TypeParts, Zenon DEF DrainIdle, opened, queues, outside, FlagTypes
  <2>7. QED
    BY <2>1, <2>2, <2>3, <2>4, <2>5, <2>6, TypePartsNext
<1>7. ASSUME Crash
      PROVE  TypeOK' /\ WriterOK'
  <2>1. FileTypes'
    BY <1>7, TypeParts, RecordParts, OutboxAssumption, SMTT(20) DEF Crash, opened, queues,
       IdleWriter, IdleJob, FileTypes, WriterOK, WriterTypes
  <2>2. WriterTypes'
    BY <1>7, TypeParts, RecordParts, OutboxAssumption, SMTT(20) DEF Crash, opened, queues,
       IdleWriter, IdleJob, WriterTypes, FileTypes, OtherTypes
  <2>3. JobTypes'
    BY <1>7, TypeParts, RecordParts, SMTT(20) DEF Crash, opened, queues, IdleWriter, IdleJob,
       JobTypes, FileTypes
  <2>4. OtherTypes'
    BY <1>7, TypeParts, RecordParts, OutboxAssumption, SMTT(20) DEF Crash, opened, queues,
       IdleWriter, IdleJob, OtherTypes, WriterOK, WriterTypes
  <2>5. WriterOK'
    BY <1>7, TypeParts, RecordParts, OutboxAssumption, SMTT(20) DEF Crash, opened, queues,
       IdleWriter, IdleJob, WriterOK, WriterTypes, FileTypes
  <2>6. FlagTypes'
    BY <1>7, TypeParts, Zenon DEF Crash, opened, queues, IdleWriter, IdleJob, FlagTypes
  <2>7. QED
    BY <2>1, <2>2, <2>3, <2>4, <2>5, <2>6, TypePartsNext
<1>8. ASSUME NEW i \in Ids, NEW u \in tmp[i], RecoverTemporary(i, u)
      PROVE  TypeOK' /\ WriterOK'
  BY <1>8, RecordParts, SMTT(20) DEF RecoverTemporary, opened, control, outside, TypeOK,
     WriterOK
<1>9. ASSUME NEW i \in Ids, RequeueProcessing(i)
      PROVE  TypeOK' /\ WriterOK'
  BY <1>9, RecordParts, SMTT(20) DEF RequeueProcessing, opened, control, outside, Movable,
     TypeOK, WriterOK
<1>10. ASSUME NEW i \in Ids, BeginCapture(i)
      PROVE  TypeOK' /\ WriterOK'
  <2>1. FileTypes'
    BY <1>10, TypeParts, RecordParts, OutboxAssumption, SMTT(20) DEF BeginCapture, queues, control, Started, Goto,
       Unused, FileTypes, WriterOK, WriterTypes
  <2>2. WriterTypes'
    BY <1>10, TypeParts, RecordParts, OutboxAssumption, SMTT(20) DEF BeginCapture, queues, control, Started, Goto,
       Unused, WriterTypes, FileTypes, OtherTypes
  <2>3. JobTypes'
    BY <1>10, TypeParts, RecordParts, SMTT(20) DEF BeginCapture, queues, control, Started, Goto,
       Unused, JobTypes, FileTypes
  <2>4. OtherTypes'
    BY <1>10, TypeParts, RecordParts, OutboxAssumption, SMTT(20) DEF BeginCapture, queues, control, Started, Goto,
       Unused, OtherTypes, WriterOK, WriterTypes
  <2>5. WriterOK'
    BY <1>10, TypeParts, RecordParts, OutboxAssumption, SMTT(20) DEF BeginCapture, queues, control, Started, Goto,
       Unused, WriterOK, WriterTypes, FileTypes
  <2>6. FlagTypes'
    BY <1>10, TypeParts, Zenon DEF BeginCapture, queues, control, FlagTypes
  <2>7. QED
    BY <2>1, <2>2, <2>3, <2>4, <2>5, <2>6, TypePartsNext
<1>11. ASSUME NEW i \in Ids, AppendChunk(i)
      PROVE  TypeOK' /\ WriterOK'
  <2>1. FileTypes'
    BY <1>11, TypeParts, RecordParts, OutboxAssumption, SMTT(20) DEF AppendChunk, queues,
       control, outside, FileTypes, WriterOK, WriterTypes
  <2>2. WriterTypes'
    BY <1>11, TypeParts, RecordParts, OutboxAssumption, SMTT(20) DEF AppendChunk, queues,
       control, outside, WriterTypes, FileTypes, OtherTypes
  <2>3. JobTypes'
    BY <1>11, TypeParts, RecordParts, SMTT(20) DEF AppendChunk, queues, control, outside,
       JobTypes, FileTypes
  <2>4. OtherTypes'
    BY <1>11, TypeParts, RecordParts, OutboxAssumption, SMTT(20) DEF AppendChunk, queues,
       control, outside, OtherTypes, WriterOK, WriterTypes
  <2>5. WriterOK'
    BY <1>11, TypeParts, RecordParts, OutboxAssumption, SMTT(20) DEF AppendChunk, queues,
       control, outside, WriterOK, WriterTypes, FileTypes
  <2>6. FlagTypes'
    BY <1>11, TypeParts, Zenon DEF AppendChunk, queues, control, outside, FlagTypes
  <2>7. QED
    BY <2>1, <2>2, <2>3, <2>4, <2>5, <2>6, TypePartsNext
<1>12. ASSUME NEW i \in Ids, Finalize(i)
      PROVE  TypeOK' /\ WriterOK'
  <2>1. FileTypes'
    BY <1>12, TypeParts, RecordParts, OutboxAssumption, SMTT(20) DEF Finalize, opened, queues,
       control, outside, Whole, Version, FileTypes, WriterOK, WriterTypes
  <2>2. WriterTypes'
    BY <1>12, TypeParts, RecordParts, OutboxAssumption, SMTT(20) DEF Finalize, opened, queues,
       control, outside, Whole, Version, WriterTypes, FileTypes, OtherTypes
  <2>3. JobTypes'
    BY <1>12, TypeParts, RecordParts, SMTT(20) DEF Finalize, opened, queues, control, outside,
       Whole, Version, JobTypes, FileTypes
  <2>4. OtherTypes'
    BY <1>12, TypeParts, RecordParts, OutboxAssumption, SMTT(20) DEF Finalize, opened, queues,
       control, outside, Whole, Version, OtherTypes, WriterOK, WriterTypes
  <2>5. WriterOK'
    BY <1>12, TypeParts, RecordParts, OutboxAssumption, SMTT(20) DEF Finalize, opened, queues,
       control, outside, Whole, Version, WriterOK, WriterTypes, FileTypes
  <2>6. FlagTypes'
    BY <1>12, TypeParts, Zenon DEF Finalize, opened, queues, control, outside, Whole, Version,
       FlagTypes
  <2>7. QED
    BY <2>1, <2>2, <2>3, <2>4, <2>5, <2>6, TypePartsNext
<1>13. ASSUME NEW i \in Ids, SubmitWhole(i)
      PROVE  TypeOK' /\ WriterOK'
  <2>1. FileTypes'
    BY <1>13, TypeParts, RecordParts, OutboxAssumption, SMTT(20) DEF SubmitWhole, opened,
       queues, control, outside, Started, Unused, Whole, Version, FileTypes, WriterOK,
       WriterTypes
  <2>2. WriterTypes'
    BY <1>13, TypeParts, RecordParts, OutboxAssumption, SMTT(20) DEF SubmitWhole, opened,
       queues, control, outside, Started, Unused, Whole, Version, WriterTypes, FileTypes,
       OtherTypes
  <2>3. JobTypes'
    BY <1>13, TypeParts, RecordParts, SMTT(20) DEF SubmitWhole, opened, queues, control,
       outside, Started, Unused, Whole, Version, JobTypes, FileTypes
  <2>4. OtherTypes'
    BY <1>13, TypeParts, RecordParts, OutboxAssumption, SMTT(20) DEF SubmitWhole, opened,
       queues, control, outside, Started, Unused, Whole, Version, OtherTypes, WriterOK,
       WriterTypes
  <2>5. WriterOK'
    BY <1>13, TypeParts, RecordParts, OutboxAssumption, SMTT(20) DEF SubmitWhole, opened,
       queues, control, outside, Started, Unused, Whole, Version, WriterOK, WriterTypes,
       FileTypes
  <2>6. FlagTypes'
    BY <1>13, TypeParts, Zenon DEF SubmitWhole, opened, queues, control, outside, Started,
       Unused, Whole, Version, FlagTypes
  <2>7. QED
    BY <2>1, <2>2, <2>3, <2>4, <2>5, <2>6, TypePartsNext
<1>14. ASSUME NEW i \in Ids, SkipOpen(i)
      PROVE  TypeOK' /\ WriterOK'
  BY <1>14, RecordParts, SMTT(20) DEF SkipOpen, opened, queues, outside, Started, RecoveryIdle,
     Pick, TypeOK, WriterOK
<1>15. ASSUME NEW i \in Ids, RecoverOpen(i)
      PROVE  TypeOK' /\ WriterOK'
  BY <1>15, RecordParts, SMTT(20) DEF RecoverOpen, opened, queues, Started, RecoveryIdle, Cut,
     Live, Recoverable, Matches, Pick, TypeOK, WriterOK, Version
<1>16. ASSUME NEW i \in Ids, RecoveryConflict(i)
      PROVE  TypeOK' /\ WriterOK'
  <2>1. FileTypes'
    BY <1>16, TypeParts, RecordParts, OutboxAssumption, SMTT(20) DEF RecoveryConflict, opened,
       queues, Started, IdleWriter, RecoveryIdle, Goto, Done, Throw, Live, Recoverable, Matches,
       Pick, FileTypes, WriterOK, WriterTypes
  <2>2. WriterTypes'
    BY <1>16, TypeParts, RecordParts, OutboxAssumption, SMTT(20) DEF RecoveryConflict, opened,
       queues, Started, IdleWriter, RecoveryIdle, Goto, Done, Throw, Live, Recoverable, Matches,
       Pick, WriterTypes, FileTypes, OtherTypes
  <2>3. JobTypes'
    BY <1>16, TypeParts, RecordParts, SMTT(20) DEF RecoveryConflict, opened, queues, Started,
       IdleWriter, RecoveryIdle, Goto, Done, Throw, Live, Recoverable, Matches, Pick, JobTypes,
       FileTypes
  <2>4. OtherTypes'
    BY <1>16, TypeParts, RecordParts, OutboxAssumption, SMTT(20) DEF RecoveryConflict, opened,
       queues, Started, IdleWriter, RecoveryIdle, Goto, Done, Throw, Live, Recoverable, Matches,
       Pick, OtherTypes, WriterOK, WriterTypes
  <2>5. WriterOK'
    BY <1>16, TypeParts, RecordParts, OutboxAssumption, SMTT(20) DEF RecoveryConflict, opened,
       queues, Started, IdleWriter, RecoveryIdle, Goto, Done, Throw, Live, Recoverable, Matches,
       Pick, WriterOK, WriterTypes, FileTypes
  <2>6. FlagTypes'
    BY <1>16, TypeParts, Zenon DEF RecoveryConflict, opened, queues, Started, IdleWriter,
       RecoveryIdle, Goto, Done, Throw, Live, Recoverable, Matches, Pick, FlagTypes
  <2>7. QED
    BY <2>1, <2>2, <2>3, <2>4, <2>5, <2>6, TypePartsNext
<1>17. ASSUME NEW i \in Ids, Claim(i)
      PROVE  TypeOK' /\ WriterOK'
  BY <1>17, RecordParts, SMTT(20) DEF Claim, opened, control, outside, Movable, Ready, TypeOK,
     WriterOK
<1>18. ASSUME NEW i \in Ids, ClaimRemove(i)
      PROVE  TypeOK' /\ WriterOK'
  <2>1. FileTypes'
    BY <1>18, TypeParts, RecordParts, OutboxAssumption, SMTT(20) DEF ClaimRemove, opened,
       control, outside, IdleJob, Step, Drop, FileTypes, WriterOK, WriterTypes
  <2>2. WriterTypes'
    BY <1>18, TypeParts, RecordParts, OutboxAssumption, SMTT(20) DEF ClaimRemove, opened,
       control, outside, IdleJob, Step, Drop, WriterTypes, FileTypes, OtherTypes
  <2>3. JobTypes'
    BY <1>18, TypeParts, RecordParts, SMTT(60) DEF ClaimRemove, opened, control, outside,
       IdleJob, Step, Drop, JobTypes, FileTypes
  <2>4. OtherTypes'
    BY <1>18, TypeParts, RecordParts, OutboxAssumption, SMTT(20) DEF ClaimRemove, opened,
       control, outside, IdleJob, Step, Drop, OtherTypes, WriterOK, WriterTypes
  <2>5. WriterOK'
    BY <1>18, TypeParts, RecordParts, OutboxAssumption, SMTT(20) DEF ClaimRemove, opened,
       control, outside, IdleJob, Step, Drop, WriterOK, WriterTypes, FileTypes
  <2>6. FlagTypes'
    BY <1>18, TypeParts, Zenon DEF ClaimRemove, opened, control, outside, IdleJob, Step, Drop,
       FlagTypes
  <2>7. QED
    BY <2>1, <2>2, <2>3, <2>4, <2>5, <2>6, TypePartsNext
<1>19. ASSUME NEW i \in Ids, RelayAnswers(i)
      PROVE  TypeOK' /\ WriterOK'
  BY <1>19, RecordParts, SMTT(60) DEF RelayAnswers, opened, queues, control, Step, TypeOK,
     WriterOK
<1>20. ASSUME NEW i \in Ids, AnswerLost(i)
      PROVE  TypeOK' /\ WriterOK'
  BY <1>20, RecordParts, SMTT(20) DEF AnswerLost, opened, queues, control, TypeOK, WriterOK
<1>21. ASSUME NEW i \in Ids, GiveUp(i)
      PROVE  TypeOK' /\ WriterOK'
  <2>1. FileTypes'
    BY <1>21, TypeParts, RecordParts, OutboxAssumption, SMTT(20) DEF GiveUp, opened, queues,
       control, outside, Step, FileTypes, WriterOK, WriterTypes
  <2>2. WriterTypes'
    BY <1>21, TypeParts, RecordParts, OutboxAssumption, SMTT(20) DEF GiveUp, opened, queues,
       control, outside, Step, WriterTypes, FileTypes, OtherTypes
  <2>3. JobTypes'
    BY <1>21, TypeParts, RecordParts, SMTT(20) DEF GiveUp, opened, queues, control, outside,
       Step, JobTypes, FileTypes
  <2>4. OtherTypes'
    BY <1>21, TypeParts, RecordParts, OutboxAssumption, SMTT(20) DEF GiveUp, opened, queues,
       control, outside, Step, OtherTypes, WriterOK, WriterTypes
  <2>5. WriterOK'
    BY <1>21, TypeParts, RecordParts, OutboxAssumption, SMTT(20) DEF GiveUp, opened, queues,
       control, outside, Step, WriterOK, WriterTypes, FileTypes
  <2>6. FlagTypes'
    BY <1>21, TypeParts, Zenon DEF GiveUp, opened, queues, control, outside, Step, FlagTypes
  <2>7. QED
    BY <2>1, <2>2, <2>3, <2>4, <2>5, <2>6, TypePartsNext
<1>22. ASSUME NEW i \in Ids, RemoveProcessed(i)
      PROVE  TypeOK' /\ WriterOK'
  BY <1>22, RecordParts, SMTT(20) DEF RemoveProcessed, opened, control, outside, IdleJob, Drop,
     TypeOK, WriterOK
<1>23. ASSUME NEW i \in Ids, MoveFailed(i)
      PROVE  TypeOK' /\ WriterOK'
  <2>1. FileTypes'
    BY <1>23, TypeParts, RecordParts, OutboxAssumption, SMTT(20) DEF MoveFailed, opened,
       control, outside, IdleJob, Movable, Step, Drop, FileTypes, WriterOK, WriterTypes
  <2>2. WriterTypes'
    BY <1>23, TypeParts, RecordParts, OutboxAssumption, SMTT(20) DEF MoveFailed, opened,
       control, outside, IdleJob, Movable, Step, Drop, WriterTypes, FileTypes, OtherTypes
  <2>3. JobTypes'
    BY <1>23, TypeParts, RecordParts, SMTT(20) DEF MoveFailed, opened, control, outside,
       IdleJob, Movable, Step, Drop, JobTypes, FileTypes
  <2>4. OtherTypes'
    BY <1>23, TypeParts, RecordParts, OutboxAssumption, SMTT(20) DEF MoveFailed, opened,
       control, outside, IdleJob, Movable, Step, Drop, OtherTypes, WriterOK, WriterTypes
  <2>5. WriterOK'
    BY <1>23, TypeParts, RecordParts, OutboxAssumption, SMTT(20) DEF MoveFailed, opened,
       control, outside, IdleJob, Movable, Step, Drop, WriterOK, WriterTypes, FileTypes
  <2>6. FlagTypes'
    BY <1>23, TypeParts, Zenon DEF MoveFailed, opened, control, outside, IdleJob, Movable, Step,
       Drop, FlagTypes
  <2>7. QED
    BY <2>1, <2>2, <2>3, <2>4, <2>5, <2>6, TypePartsNext
<1>24. ASSUME NEW i \in Ids, MoveBack(i)
      PROVE  TypeOK' /\ WriterOK'
  BY <1>24, RecordParts, SMTT(20) DEF MoveBack, opened, control, outside, IdleJob, Movable,
     Step, Drop, TypeOK, WriterOK
<1>25. ASSUME NEW w \in Writers, WriteTemporary(w)
      PROVE  TypeOK' /\ WriterOK'
  BY <1>25, RecordParts, SMTT(20) DEF WriteTemporary, opened, control, outside, Goto, TypeOK,
     WriterOK
<1>26. ASSUME NEW w \in Writers, FindStored(w)
      PROVE  TypeOK' /\ WriterOK'
  <2>1. FileTypes'
    BY <1>26, TypeParts, RecordParts, OutboxAssumption, SMTT(20) DEF FindStored, opened, queues,
       IdleWriter, FindExisting, Goto, Done, Throw, Durable, FileTypes, WriterOK, WriterTypes
  <2>2. WriterTypes'
    BY <1>26, TypeParts, RecordParts, OutboxAssumption, SMTT(20) DEF FindStored, opened, queues,
       IdleWriter, FindExisting, Goto, Done, Throw, Durable, WriterTypes, FileTypes, OtherTypes
  <2>3. JobTypes'
    BY <1>26, TypeParts, RecordParts, SMTT(20) DEF FindStored, opened, queues, IdleWriter,
       FindExisting, Goto, Done, Throw, Durable, JobTypes, FileTypes
  <2>4. OtherTypes'
    BY <1>26, TypeParts, RecordParts, OutboxAssumption, SMTT(20) DEF FindStored, opened, queues,
       IdleWriter, FindExisting, Goto, Done, Throw, Durable, OtherTypes, WriterOK, WriterTypes
  <2>5. WriterOK'
    BY <1>26, TypeParts, RecordParts, OutboxAssumption, SMTT(20) DEF FindStored, opened, queues,
       IdleWriter, FindExisting, Goto, Done, Throw, Durable, WriterOK, WriterTypes, FileTypes
  <2>6. FlagTypes'
    BY <1>26, TypeParts, Zenon DEF FindStored, opened, queues, IdleWriter, FindExisting, Goto,
       Done, Throw, Durable, FlagTypes
  <2>7. QED
    BY <2>1, <2>2, <2>3, <2>4, <2>5, <2>6, TypePartsNext
<1>27. ASSUME NEW w \in Writers, Refuse(w)
      PROVE  TypeOK' /\ WriterOK'
  <2>1. FileTypes'
    BY <1>27, TypeParts, RecordParts, OutboxAssumption, SMTT(20) DEF Refuse, opened, queues,
       IdleWriter, Goto, Done, Throw, FileTypes, WriterOK, WriterTypes
  <2>2. WriterTypes'
    BY <1>27, TypeParts, RecordParts, OutboxAssumption, SMTT(20) DEF Refuse, opened, queues,
       IdleWriter, Goto, Done, Throw, WriterTypes, FileTypes, OtherTypes
  <2>3. JobTypes'
    BY <1>27, TypeParts, RecordParts, SMTT(20) DEF Refuse, opened, queues, IdleWriter, Goto,
       Done, Throw, JobTypes, FileTypes
  <2>4. OtherTypes'
    BY <1>27, TypeParts, RecordParts, OutboxAssumption, SMTT(20) DEF Refuse, opened, queues,
       IdleWriter, Goto, Done, Throw, OtherTypes, WriterOK, WriterTypes
  <2>5. WriterOK'
    BY <1>27, TypeParts, RecordParts, OutboxAssumption, SMTT(20) DEF Refuse, opened, queues,
       IdleWriter, Goto, Done, Throw, WriterOK, WriterTypes, FileTypes
  <2>6. FlagTypes'
    BY <1>27, TypeParts, Zenon DEF Refuse, opened, queues, IdleWriter, Goto, Done, Throw,
       FlagTypes
  <2>7. QED
    BY <2>1, <2>2, <2>3, <2>4, <2>5, <2>6, TypePartsNext
<1>28. ASSUME NEW w \in Writers, LinkTemporary(w)
      PROVE  TypeOK' /\ WriterOK'
  <2>1. FileTypes'
    BY <1>28, TypeParts, RecordParts, OutboxAssumption, SMTT(20) DEF LinkTemporary, opened,
       control, IdleWriter, Goto, Done, Throw, Durable, FileTypes, WriterOK, WriterTypes
  <2>2. WriterTypes'
    BY <1>28, TypeParts, RecordParts, OutboxAssumption, SMTT(20) DEF LinkTemporary, opened,
       control, IdleWriter, Goto, Done, Throw, Durable, WriterTypes, FileTypes, OtherTypes
  <2>3. JobTypes'
    BY <1>28, TypeParts, RecordParts, SMTT(20) DEF LinkTemporary, opened, control, IdleWriter,
       Goto, Done, Throw, Durable, JobTypes, FileTypes
  <2>4. OtherTypes'
    BY <1>28, TypeParts, RecordParts, OutboxAssumption, SMTT(20) DEF LinkTemporary, opened,
       control, IdleWriter, Goto, Done, Throw, Durable, OtherTypes, WriterOK, WriterTypes
  <2>5. WriterOK'
    BY <1>28, TypeParts, RecordParts, OutboxAssumption, SMTT(20) DEF LinkTemporary, opened,
       control, IdleWriter, Goto, Done, Throw, Durable, WriterOK, WriterTypes, FileTypes
  <2>6. FlagTypes'
    BY <1>28, TypeParts, Zenon DEF LinkTemporary, opened, control, IdleWriter, Goto, Done,
       Throw, Durable, FlagTypes
  <2>7. QED
    BY <2>1, <2>2, <2>3, <2>4, <2>5, <2>6, TypePartsNext
<1>29. ASSUME NEW w \in Writers, RemoveTemporary(w)
      PROVE  TypeOK' /\ WriterOK'
  <2>1. FileTypes'
    BY <1>29, TypeParts, RecordParts, OutboxAssumption, SMTT(20) DEF RemoveTemporary, opened,
       IdleWriter, Goto, Done, Throw, Durable, FileTypes, WriterOK, WriterTypes
  <2>2. WriterTypes'
    BY <1>29, TypeParts, RecordParts, OutboxAssumption, SMTT(20) DEF RemoveTemporary, opened,
       IdleWriter, Goto, Done, Throw, Durable, WriterTypes, FileTypes, OtherTypes
  <2>3. JobTypes'
    BY <1>29, TypeParts, RecordParts, SMTT(20) DEF RemoveTemporary, opened, IdleWriter, Goto,
       Done, Throw, Durable, JobTypes, FileTypes
  <2>4. OtherTypes'
    BY <1>29, TypeParts, RecordParts, OutboxAssumption, SMTT(20) DEF RemoveTemporary, opened,
       IdleWriter, Goto, Done, Throw, Durable, OtherTypes, WriterOK, WriterTypes
  <2>5. WriterOK'
    BY <1>29, TypeParts, RecordParts, OutboxAssumption, SMTT(20) DEF RemoveTemporary, opened,
       IdleWriter, Goto, Done, Throw, Durable, WriterOK, WriterTypes, FileTypes
  <2>6. FlagTypes'
    BY <1>29, TypeParts, Zenon DEF RemoveTemporary, opened, IdleWriter, Goto, Done, Throw,
       Durable, FlagTypes
  <2>7. QED
    BY <2>1, <2>2, <2>3, <2>4, <2>5, <2>6, TypePartsNext
<1>30. ASSUME NEW w \in Writers, RemoveSpools(w)
      PROVE  TypeOK' /\ WriterOK'
  <2>1. FileTypes'
    BY <1>30, TypeParts, RecordParts, OutboxAssumption, SMTT(20) DEF RemoveSpools, queues,
       control, outside, Goto, FileTypes, WriterOK, WriterTypes
  <2>2. WriterTypes'
    BY <1>30, TypeParts, RecordParts, OutboxAssumption, SMTT(20) DEF RemoveSpools, queues,
       control, outside, Goto, WriterTypes, FileTypes, OtherTypes
  <2>3. JobTypes'
    BY <1>30, TypeParts, RecordParts, SMTT(20) DEF RemoveSpools, queues, control, outside, Goto,
       JobTypes, FileTypes
  <2>4. OtherTypes'
    BY <1>30, TypeParts, RecordParts, OutboxAssumption, SMTT(20) DEF RemoveSpools, queues,
       control, outside, Goto, OtherTypes, WriterOK, WriterTypes
  <2>5. WriterOK'
    BY <1>30, TypeParts, RecordParts, OutboxAssumption, SMTT(20) DEF RemoveSpools, queues,
       control, outside, Goto, WriterOK, WriterTypes, FileTypes
  <2>6. FlagTypes'
    BY <1>30, TypeParts, Zenon DEF RemoveSpools, queues, control, outside, Goto, FlagTypes
  <2>7. QED
    BY <2>1, <2>2, <2>3, <2>4, <2>5, <2>6, TypePartsNext
<1>31. ASSUME NEW w \in Writers, RemoveMetadata(w)
      PROVE  TypeOK' /\ WriterOK'
  BY <1>31, RecordParts, SMTT(20) DEF RemoveMetadata, queues, outside, IdleWriter, Done, TypeOK,
     WriterOK
<1>32. CASE UNCHANGED vars
  BY <1>32 DEF vars, opened, queues, control, outside, TypeOK, WriterOK
<1>33. QED
  BY <1>1, <1>2, <1>3, <1>4, <1>5, <1>6, <1>7, <1>8, <1>9, <1>10, <1>11, <1>12, <1>13, <1>14,
     <1>15, <1>16, <1>17, <1>18, <1>19, <1>20, <1>21, <1>22, <1>23, <1>24, <1>25, <1>26, <1>27,
     <1>28, <1>29, <1>30, <1>31, <1>32 DEF Next

-----------------------------------------------------------------------------
(***************************************************************************)
(* The theorems.                                                           *)
(***************************************************************************)
\* No step but a failed start() ends the ownership.
LEMMA OwnerKept ==
    ASSUME TypeOK, WriterOK, ~again, OneOwner, [Next]_vars, ~again'
    PROVE  OneOwner'
<1> USE DEF Safe
<1>1. CASE UNCHANGED vars
  BY <1>1 DEF vars, opened, queues, control, outside, OneOwner, StoppedOK, Started, AgreeOK,
     OnlyVersion, OpenOK, OrphanOK, StepsOK, StepOK, NoVersion, TemporaryOK, JobsOK, JobOK,
     HeldOK, LiveNotCut
<1>2. CASE Next
  BY <1>2, StartKeeps, TemporariesDoneKeeps, RequeueDoneKeeps, RecoveryDoneKeeps, TickKeeps,
     DrainIdleKeeps, CrashKeeps, RecoverTemporaryKeeps, RequeueProcessingKeeps,
     BeginCaptureKeeps, AppendChunkKeeps, FinalizeKeeps, SubmitWholeKeeps, SkipOpenKeeps,
     RecoverOpenKeeps, RecoveryConflictKeeps, ClaimKeeps, ClaimRemoveKeeps, RelayAnswersKeeps,
     AnswerLostKeeps, GiveUpKeeps, RemoveProcessedKeeps, MoveFailedKeeps, MoveBackKeeps,
     WriteTemporaryKeeps, FindStoredKeeps, RefuseKeeps, LinkTemporaryKeeps,
     RemoveTemporaryKeeps, RemoveSpoolsKeeps, RemoveMetadataKeeps
  DEF Next
<1>3. QED
  BY <1>1, <1>2

\* An empty outbox is owned.
LEMMA InitOwned == Init => IInv
<1> SUFFICES ASSUME Init PROVE IInv
  OBVIOUS
<1>1. TypeOK /\ WriterOK
  <2>1. FileTypes
    BY OutboxAssumption DEF Init, FileTypes
  <2>2. WriterTypes /\ JobTypes /\ WriterOK
    BY RecordParts DEF Init, WriterTypes, JobTypes, WriterOK, IdleWriter, IdleJob
  <2>3. OtherTypes
    BY OutboxAssumption DEF Init, OtherTypes, OpenIds
  <2>4. FlagTypes
    BY Zenon DEF Init, FlagTypes
  <2>5. QED
    BY <2>1, <2>2, <2>3, <2>4, TypeParts
<1>2. AgreeOK
  <2>1. [kind |-> "whole", chunks |-> 0, life |-> 0] \in Version
    BY OutboxAssumption DEF Version
  <2>2. QED
    BY <2>1 DEF Init, AgreeOK, OnlyVersion
<1>3. StoppedOK /\ OpenOK /\ OrphanOK /\ TemporaryOK /\ JobsOK /\ HeldOK /\ LiveNotCut
  BY RecordParts DEF Init, OpenIds, IdleWriter, IdleJob, Started, StoppedOK, OpenOK, OrphanOK,
     TemporaryOK, JobsOK, JobOK, HeldOK, LiveNotCut
<1>4. StepsOK
  BY DEF Init, IdleWriter, StepsOK, StepOK
<1>5. QED
  BY <1>1, <1>2, <1>3, <1>4 DEF IInv, OneOwner

\* The outbox stays within its types, and an id has one owner of its evidence
\* until start() fails half-way.
THEOREM OutboxInvariant == Spec => []IInv
<1>1. IInv /\ [Next]_vars => IInv'
  <2> SUFFICES ASSUME IInv, [Next]_vars PROVE IInv'
    OBVIOUS
  <2>1. TypeOK' /\ WriterOK'
    BY TypesKept DEF IInv
  <2>2. again => again'
    BY DEF Next, vars, outside, control, Start, TemporariesDone, RequeueDone, RecoveryDone,
       Tick, DrainIdle, Crash, RecoverTemporary, RequeueProcessing, BeginCapture, AppendChunk,
       Finalize, SubmitWhole, SkipOpen, RecoverOpen, RecoveryConflict, Claim, ClaimRemove,
       RelayAnswers, AnswerLost, GiveUp, RemoveProcessed, MoveFailed, MoveBack, WriteTemporary,
       FindStored, Refuse, LinkTemporary, RemoveTemporary, RemoveSpools, RemoveMetadata, Throw
  <2>3. ~again' => OneOwner'
    BY <2>2, OwnerKept DEF IInv
  <2>4. QED
    BY <2>1, <2>3 DEF IInv
<1>2. QED
  BY <1>1, InitOwned, PTL DEF Spec

\* Every variable keeps its type.
THEOREM OutboxTypes == Spec => []TypeOK
<1>1. IInv => TypeOK
  BY DEF IInv
<1>2. QED
  BY <1>1, OutboxInvariant, PTL

\* Evidence the outbox has taken over is in one of its directories or at the
\* Relay, and no transaction is cut while its request runs.
THEOREM EvidenceAlwaysKept == Spec => []EvidenceKept
<1>1. IInv => EvidenceKept
  BY StoredParts DEF IInv, OneOwner, EvidenceKept, NothingLost, HeldOK, NoVersion
<1>2. QED
  BY <1>1, OutboxInvariant, PTL

\* A captureId means one record in the directories and at the Relay.
THEOREM AlwaysOneVersion == Spec => []OneVersion
<1>1. IInv => OneVersion
  <2> SUFFICES ASSUME IInv, ~again, NEW i \in Ids,
                      NEW u \in tmp[i] \cup Stored(i) \cup ({relay[i]} \ {None}),
                      NEW v \in tmp[i] \cup Stored(i) \cup ({relay[i]} \ {None})
               PROVE  u = v
    BY DEF OneVersion
  <2>1. PICK o \in Version : OnlyVersion(i, o)
    BY DEF IInv, OneOwner, AgreeOK
  <2>2. QED
    BY <2>1 DEF OnlyVersion, Stored
<1>2. QED
  BY <1>1, OutboxInvariant, PTL

====
