--------------------------- MODULE CaptureWalProofs ---------------------------
(***************************************************************************)
(* What holds of CaptureWal for every number of ids, payloads, segments,   *)
(* batch sizes and faults.                                                 *)
(***************************************************************************)
EXTENDS CaptureWal, FiniteSetTheorems, SequenceTheorems, TLAPS

\* Every nonempty set of positions has a first one: "the first record of an
\* id" in a recovery scan exists.
LEMMA FirstPosition ==
    ASSUME NEW S, S \subseteq Nat, S # {}
    PROVE  \E m \in S : \A k \in S : m <= k
  <1> DEFINE Less == OpToRel(<, Nat)
  <1>1. IsWellFoundedOn(Less, Nat)
    BY NatLessThanWellFounded
  <1>2. \A k, m \in Nat : k < m => <<k, m>> \in Less
    BY DEF OpToRel
  <1> HIDE DEF Less
  <1>3. PICK m \in S : \A k \in S : ~(<<k, m>> \in Less)
    BY <1>1, WFMin
  <1>4. \A k \in S : ~(k < m)
    BY <1>2, <1>3
  <1> QED
    BY <1>4

\* The locator a recovery takes from segment s for captureId i.
RecoveredRow(s, i) == CHOOSE row \in RowsFrom(s, i) : TRUE

\* It is a locator of s and points at a record of i.
LEMMA RecoveredLocator ==
    ASSUME TypeOK, NEW s \in SegIds, NEW i \in Ids, Positions(s, i) # {}
    PROVE  /\ RecoveredRow(s, i) \in Locator
           /\ RecoveredRow(s, i).seg = s
           /\ RecoveredRow(s, i).pos \in 1 .. Len(recs[s])
           /\ recs[s][RecoveredRow(s, i).pos] = [id |-> i, payload |-> RecoveredRow(s, i).payload]
  <1>1. Positions(s, i) \subseteq Nat
    BY DEF Positions
  <1>2. PICK m \in Positions(s, i) : \A k \in Positions(s, i) : m <= k
    BY <1>1, FirstPosition
  <1>3. RowsFrom(s, i) # {}
    BY <1>2 DEF RowsFrom
  <1>4. ASSUME NEW row \in RowsFrom(s, i)
        PROVE  /\ row \in Locator
               /\ row.seg = s
               /\ row.pos \in 1 .. Len(recs[s])
               /\ recs[s][row.pos] = [id |-> i, payload |-> row.payload]
    <2>1. PICK n \in Positions(s, i) : row = [seg |-> s, pos |-> n, payload |-> recs[s][n].payload]
      BY DEF RowsFrom
    <2>2. n \in 1 .. Len(recs[s]) /\ recs[s][n].id = i
      BY DEF Positions
    <2>3. recs[s] \in Seq(Record)
      BY DEF TypeOK
    <2>4. recs[s][n] \in Record
      BY <2>2, <2>3, ElementOfSeq
    <2> QED
      BY <2>1, <2>2, <2>4, ConstantsAssumption DEF Record, Locator, SegIds
  <1>5. RecoveredRow(s, i) \in RowsFrom(s, i)
    BY <1>3 DEF RecoveredRow
  <1> QED
    BY <1>4, <1>5

\* The rows after the scan of a segment.
LEMMA RowsAfterScan ==
    ASSUME NEW s \in SegIds, RecoverSegment(s)
    PROVE  captures' = [i \in Ids |-> IF Known(i) \/ Positions(s, i) = {} THEN captures[i]
                                      ELSE RecoveredRow(s, i)]
  BY DEF RecoverSegment, RecoveredRow

-----------------------------------------------------------------------------
\* The type invariant: every step of the writer, of a crash and of a recovery
\* leaves the files, the ledger and the writer's memory well formed.
LEMMA TypeStep ==
    ASSUME TypeOK, [Next]_vars
    PROVE  TypeOK'
  <1> USE ConstantsAssumption DEF TypeOK, disk, ledger, task, scan
  <1> DEFINE Act == [seg : 0 .. MaxSegments, state : {"none", "open", "sealed"},
                     bytes : Nat, sha : Nat]
  <1>0. /\ NoRow \in Locator
        /\ NothingStaged \in [Ids -> Locator]
        /\ NoActive \in Act
        /\ <<>> \in Seq(Record)
        /\ RowOf(active) \in SegmentRow
        /\ active.seg \in 0 .. MaxSegments /\ active.bytes \in Nat
        /\ active.bytes + 1 \in Nat /\ cursor + 1 \in Nat \ {0}
        /\ counters.captures \in Nat /\ counters.sealed \in Nat
        /\ counters.sealed + 1 \in Nat
    BY DEF NoRow, Locator, NothingStaged, NoActive, RowOf, SegmentRow
  <1>1. ASSUME NEW b \in Batches, TakeBatch(b) PROVE TypeOK'
    <2>1. b \in Seq(Record)
      BY DEF Batches
    <2> QED
      BY <1>0, <1>1, <2>1 DEF TakeBatch
  <1>2. CASE Classify
    BY <1>2 DEF Classify
  <1>3. CASE Append1
    <2>1. batch[cursor] \in Record
      BY <1>3, ElementOfSeq DEF Append1, AtFresh
    <2> DEFINE r == batch[cursor]
               new == [seg |-> active.seg, pos |-> active.bytes + 1, payload |-> r.payload]
    <2>2. \A s \in SegIds : Append(recs[s], r) \in Seq(Record)
      BY <2>1, AppendProperties
    <2>3. new \in Locator
      BY <1>0, <2>1 DEF Locator, Record
    <2>4. /\ recs' = [recs EXCEPT ![active.seg] = Append(@, r)]
          /\ active' = [active EXCEPT !.bytes = @ + 1]
          /\ staged' = [staged EXCEPT ![r.id] = new]
          /\ cursor' = cursor + 1
          /\ UNCHANGED <<name, synced, torn, ledger, pc, batch, resume, scan, acked, faults>>
      BY <1>3 DEF Append1
    <2> HIDE DEF new
    <2>5. recs' \in [SegIds -> Seq(Record)]
      BY <2>2, <2>4
    <2>6. staged' \in [Ids -> Locator]
      BY <2>3, <2>4
    <2>7. active' \in Act
      BY <1>0, <2>4
    <2> QED
      BY <1>0, <2>4, <2>5, <2>6, <2>7
  <1>4. CASE RotateInBatch
    BY <1>4 DEF RotateInBatch
  <1>5. CASE SyncBatch
    <2>1. \A s \in SegIds : Len(recs[s]) \in Nat
      BY LenProperties
    <2> QED
      BY <1>5, <2>1 DEF SyncBatch
  <1>6. CASE CommitBatch
    <2>1. IsFiniteSet(Staged) /\ Cardinality(Staged) \in Nat
      BY FS_Subset, FS_CardinalityType DEF Staged
    <2>2. counters' \in [captures : Nat, sealed : Nat]
      BY <1>6, <2>1 DEF CommitBatch
    <2> QED
      BY <1>0, <1>6, <2>2 DEF CommitBatch
  <1>7. CASE Reply
    <2>1. BatchRecordsOf(batch) \subseteq Record
      BY ElementOfSeq DEF BatchRecordsOf
    <2> QED
      BY <1>0, <1>7, <2>1 DEF Reply
  <1>8. CASE SealRename
    <2>1. \A s \in SegIds : Len(recs[s]) \in Nat
      BY LenProperties
    <2> QED
      BY <1>8, <2>1 DEF SealRename
  <1>9. CASE SealRow
    <2>1. segments' \in [SegIds -> SegmentRow]
      BY <1>0, <1>9 DEF SealRow
    <2>2. counters' \in [captures : Nat, sealed : Nat]
      BY <1>0, <1>9 DEF SealRow
    <2>3. active' \in Act
      BY <1>0, <1>9 DEF SealRow
    <2> QED
      BY <1>9, <2>1, <2>2, <2>3 DEF SealRow
  <1>10. CASE CreateFile
    BY <1>10 DEF CreateFile
  <1>11. CASE CreateRow
    <2>1. [NoSegment EXCEPT !.state = "open"] \in SegmentRow
      BY DEF NoSegment, SegmentRow
    <2>2. segments' \in [SegIds -> SegmentRow]
      BY <1>11, <2>1 DEF CreateRow
    <2>3. active' \in Act
      BY <1>11 DEF CreateRow, SegIds
    <2>4. pc' \in {"append", "reply", "idle"}
      BY <1>11 DEF CreateRow
    <2> QED
      BY <1>11, <2>2, <2>3, <2>4 DEF CreateRow
  <1>12. CASE CreateRefused
    <2>1. CASE resume = "flush"
      BY <1>12, <2>1 DEF CreateRefused
    <2>2. CASE resume # "flush"
      BY <1>0, <1>12, <2>2 DEF CreateRefused
    <2> QED
      BY <2>1, <2>2
  <1>13. CASE Flush
    BY <1>13 DEF Flush
  <1>14. CASE FlushFails
    BY <1>14 DEF FlushFails
  <1>15. CASE Shutdown
    BY <1>0, <1>15 DEF Shutdown
  <1>16. CASE Inspect
    BY <1>16 DEF Inspect, vars
  <1>17. ASSUME LoseMemory, torn' \in [SegIds -> BOOLEAN],
                recs' \in [SegIds -> Seq(Record)], synced' \in [SegIds -> Nat]
         PROVE  TypeOK'
    <2>1. faults' \in 0 .. MaxFaults
      BY <1>17 DEF LoseMemory
    <2>2. active' \in Act
      BY <1>0, <1>17 DEF LoseMemory
    <2>3. batch' \in Seq(Record) /\ cursor' \in Nat \ {0}
      BY <1>0, <1>17 DEF LoseMemory
    <2>4. staged' \in [Ids -> Locator]
      BY <1>0, <1>17 DEF LoseMemory
    <2>5. todo' \subseteq SegIds /\ changed' \in BOOLEAN
      BY <1>17 DEF LoseMemory
    <2> QED
      BY <1>17, <2>1, <2>2, <2>3, <2>4, <2>5 DEF LoseMemory
  <1>18. CASE ProcessCrash
    BY <1>17, <1>18 DEF ProcessCrash
  <1>19. CASE PowerCrash
    <2>1. PICK keep \in [SegIds -> 0 .. SegmentMax] :
             /\ \A s \in SegIds : keep[s] \in synced[s] .. Len(recs[s])
             /\ recs' = [s \in SegIds |-> SubSeq(recs[s], 1, keep[s])]
             /\ synced' = keep
      BY <1>19 DEF PowerCrash
    <2>2. ASSUME NEW s \in SegIds PROVE SubSeq(recs[s], 1, keep[s]) \in Seq(Record)
      BY <2>1, ElementOfSeq, LenProperties, SubSeqProperties
    <2>3. torn' \in [SegIds -> BOOLEAN]
      BY <1>19 DEF PowerCrash
    <2> QED
      BY <1>17, <1>19, <2>1, <2>2, <2>3 DEF PowerCrash
  <1>20. CASE Restart
    BY <1>20 DEF Restart
  <1>21. ASSUME NEW s \in SegIds, SkipSegment(s) PROVE TypeOK'
    BY <1>21 DEF SkipSegment
  <1>22. ASSUME NEW s \in SegIds, RecoverSegment(s) PROVE TypeOK'
    <2>1. captures' \in [Ids -> Locator]
      <3>1. ASSUME NEW i \in Ids, Positions(s, i) # {}
            PROVE  RecoveredRow(s, i) \in Locator
        BY <3>1, RecoveredLocator
      <3>2. \A i \in Ids : captures[i] \in Locator
        OBVIOUS
      <3>3. captures' = [i \in Ids |-> IF Known(i) \/ Positions(s, i) = {} THEN captures[i]
                                       ELSE RecoveredRow(s, i)]
        BY <1>22, RowsAfterScan
      <3> QED
        BY <3>1, <3>2, <3>3
    <2>2. Len(recs[s]) \in Nat
      BY LenProperties
    <2>3. ScannedRow(s) \in SegmentRow
      BY <2>2 DEF ScannedRow, SegmentRow
    <2>4. changed' \in BOOLEAN
      BY <1>22 DEF RecoverSegment
    <2> QED
      BY <1>22, <2>1, <2>3, <2>4 DEF RecoverSegment
  <1>23. ASSUME NEW s \in SegIds, RecoveryRefused(s) PROVE TypeOK'
    BY <1>23 DEF RecoveryRefused
  <1>24. CASE FinishRecovery
    <2>1. Cardinality(KnownIds) \in Nat
      BY FS_Subset, FS_CardinalityType DEF KnownIds
    <2>2. IsFiniteSet(SegIds)
      BY FS_Interval DEF SegIds
    <2>3. Cardinality(SealedRows) \in Nat
      BY <2>2, FS_Subset, FS_CardinalityType DEF SealedRows
    <2> QED
      BY <1>24, <2>1, <2>3 DEF FinishRecovery
  <1>25. CASE OpenActive
    <2>1. CASE OpenRows = {}
      BY <1>25, <2>1 DEF OpenActive
    <2>2. CASE OpenRows # {}
      <3>1. PICK s \in OpenRows :
               /\ active' = [seg |-> s, state |-> "open", bytes |-> segments[s].bytes, sha |-> 0]
               /\ pc' = IF OpenRows = {s} THEN "idle" ELSE "refused"
               /\ UNCHANGED resume
        BY <1>25, <2>2 DEF OpenActive
      <3>2. s \in SegIds /\ s \in 0 .. MaxSegments /\ segments[s].bytes \in Nat
        BY DEF OpenRows, SegIds, SegmentRow
      <3>3. active' \in Act
        BY <3>1, <3>2
      <3>4. pc' \in {"idle", "refused"}
        BY <3>1
      <3> QED
        BY <1>25, <3>1, <3>3, <3>4 DEF OpenActive
    <2> QED
      BY <2>1, <2>2
  <1>26. CASE UNCHANGED vars
    BY <1>26 DEF vars
  <1> QED
    BY <1>1, <1>2, <1>3, <1>4, <1>5, <1>6, <1>7, <1>8, <1>9, <1>10, <1>11, <1>12, <1>13,
       <1>14, <1>15, <1>16, <1>18, <1>19, <1>20, <1>21, <1>22, <1>23, <1>24, <1>25, <1>26
    DEF Next

\* The initial state is well formed.
LEMMA InitTypeOK == Init => TypeOK
  <1>1. /\ NoRow \in Locator
        /\ NoSegment \in SegmentRow
        /\ NoActive \in [seg : 0 .. MaxSegments, state : {"none", "open", "sealed"},
                         bytes : Nat, sha : Nat]
    BY ConstantsAssumption DEF NoRow, Locator, NoSegment, SegmentRow, NoActive
  <1>2. <<>> \in Seq(Record)
    OBVIOUS
  <1> SUFFICES ASSUME Init PROVE TypeOK
    OBVIOUS
  <1>3. /\ recs \in [SegIds -> Seq(Record)]
        /\ captures \in [Ids -> Locator] /\ staged \in [Ids -> Locator]
        /\ segments \in [SegIds -> SegmentRow]
        /\ batch \in Seq(Record)
    BY <1>1, <1>2 DEF Init, NothingStaged
  <1>4. /\ active \in [seg : 0 .. MaxSegments, state : {"none", "open", "sealed"},
                        bytes : Nat, sha : Nat]
        /\ counters \in [captures : Nat, sealed : Nat]
        /\ faults \in 0 .. MaxFaults
    BY <1>1, ConstantsAssumption DEF Init
  <1>5. /\ name \in [SegIds -> {"absent", "open", "sealed"}]
        /\ synced \in [SegIds -> Nat]
        /\ torn \in [SegIds -> BOOLEAN]
    BY DEF Init
  <1>6. pc \in {"down"} /\ resume = "start" /\ cursor \in Nat \ {0}
    BY DEF Init
  <1>7. todo \subseteq SegIds /\ changed \in BOOLEAN /\ acked \subseteq Record
    BY DEF Init
  <1> QED
    BY <1>3, <1>4, <1>5, <1>6, <1>7 DEF TypeOK

\* Type correctness of the capture store.
THEOREM TypeCorrect == Spec => []TypeOK
  <1>1. Init => TypeOK
    BY InitTypeOK
  <1>2. TypeOK /\ [Next]_vars => TypeOK'
    BY TypeStep
  <1> QED
    BY <1>1, <1>2, PTL DEF Spec

-----------------------------------------------------------------------------
(***************************************************************************)
(* The inductive invariant behind the durability of an acknowledgement.    *)
(***************************************************************************)

\* A machine loses its page cache or a process is killed, but not first the
\* one and then the other (see the run wal_kill_then_power).
OneCrashKind == ~({"process", "power"} \subseteq Faults)

\* Locator l designates a record with captureId i, and survives a crash.
PointsAt(l, i) ==
    /\ l.seg \in SegIds
    /\ l.pos \in 1 .. Len(recs[l.seg])
    /\ recs[l.seg][l.pos] = [id |-> i, payload |-> l.payload]

\* Rows point at records that the next power loss cannot take away.
RowsPoint ==
    \A i \in Ids :
        \/ captures[i] = NoRow
        \/ /\ PointsAt(captures[i], i)
           /\ "power" \in Faults => captures[i].pos <= synced[captures[i].seg]

\* Records appended by the batch under way are where their locators say.
StagedPoint == \A i \in Ids : staged[i].seg # 0 => PointsAt(staged[i], i)

\* The batch under way has not reached its ledger transaction.
Uncommitted ==
    \/ pc \in {"append", "commit"}
    \/ resume = "append" /\ pc \in {"seal", "seal_row", "create", "create_row"}

\* Only ids without a row are staged.
StagedFresh == Uncommitted => \A i \in Ids : staged[i].seg # 0 => ~Known(i)

\* Unsynced records exist only in the active segment, between an append and
\* the sync_data or sync_all that follows it.
UnsyncedOnlyInBatch ==
    \A s \in SegIds :
        /\ synced[s] <= Len(recs[s])
        /\ "power" \in Faults =>
             \/ synced[s] = Len(recs[s])
             \/ /\ s = active.seg /\ Staged # {}
                /\ pc = "append" \/ (pc = "seal" /\ resume = "append")

\* A row has a file and a file without a row is empty.
RowsHaveFiles ==
    \A s \in SegIds :
        /\ segments[s].state # "none" => name[s] # "absent"
        /\ segments[s].state = "none" => recs[s] = <<>>

\* The in-memory metadata counts the records of the active segment.
ActiveCounts ==
    /\ \/ pc \in {"idle", "append", "commit", "reply", "seal", "seal_row"}
       \/ pc \in {"create", "create_row"} /\ resume # "start"
       => active.seg # 0
    /\ active.seg # 0 =>
         /\ active.state # "none"
         /\ active.bytes = Len(recs[active.seg])
         /\ segments[active.seg].state # "none"

\* The file of the segment about to get its row is there.
NextFileExists ==
    pc = "create_row" => \A n \in SegIds : IsNextId(n) => name[n] # "absent"

\* Scanned open segments have a row that counts their records.
ScannedCounts ==
    /\ pc = "recover" => \A s \in SegIds :
          IF s \in todo THEN name[s] # "absent"
          ELSE segments[s].state = "open" => segments[s].bytes = Len(recs[s])
    /\ pc = "open" => \A s \in SegIds :
          segments[s].state = "open" => segments[s].bytes = Len(recs[s])

\* What was acknowledged has a row with the same payload.
AckedHaveRows == \A r \in acked : captures[r.id].payload = r.payload

WalInv ==
    /\ TypeOK
    /\ RowsPoint
    /\ StagedPoint
    /\ StagedFresh
    /\ UnsyncedOnlyInBatch
    /\ RowsHaveFiles
    /\ ActiveCounts
    /\ NextFileExists
    /\ ScannedCounts
    /\ AckedHaveRows

\* Two segment ids cannot both be the next one.
LEMMA NextIdUnique ==
    ASSUME NEW m \in SegIds, NEW n \in SegIds, IsNextId(m), IsNextId(n)
    PROVE  m = n
  BY ConstantsAssumption DEF IsNextId, SegIds

\* What RowsPoint says of an id that has a row.
LEMMA RowHere ==
    ASSUME TypeOK, RowsPoint, NEW i \in Ids, captures[i] # NoRow
    PROVE  LET l == captures[i] IN
           /\ l.seg \in SegIds /\ l.pos \in Nat
           /\ synced[l.seg] \in Nat /\ Len(recs[l.seg]) \in Nat
           /\ 1 <= l.pos /\ l.pos <= Len(recs[l.seg])
           /\ recs[l.seg][l.pos] = [id |-> i, payload |-> l.payload]
           /\ "power" \in Faults => l.pos <= synced[l.seg]
           /\ Known(i)
  <1>1. captures[i].seg \in SegIds /\ captures[i].pos \in 1 .. Len(recs[captures[i].seg])
    BY DEF RowsPoint, PointsAt
  <1>2. recs[captures[i].seg] \in Seq(Record) /\ synced[captures[i].seg] \in Nat
    BY <1>1 DEF TypeOK
  <1>3. Len(recs[captures[i].seg]) \in Nat
    BY <1>2, LenProperties
  <1>4. Known(i)
    BY <1>1 DEF Known, SegIds
  <1> QED
    BY <1>1, <1>2, <1>3, <1>4 DEF RowsPoint, PointsAt

\* What was acknowledged has a row.
LEMMA AckedKnown ==
    ASSUME TypeOK, RowsPoint, AckedHaveRows, NEW r \in acked
    PROVE  r.id \in Ids /\ captures[r.id] # NoRow /\ Known(r.id)
  <1>1. r \in Record /\ r.id \in Ids /\ captures[r.id].payload \in Payloads
    BY DEF AckedHaveRows, TypeOK, Record
  <1>2. captures[r.id] # NoRow
    BY <1>1, ConstantsAssumption DEF NoRow
  <1> QED
    BY <1>1, <1>2, RowHere

\* A batch whose transaction is still to come holds only ids without a row.
LEMMA StagedFreshStep ==
    ASSUME TypeOK, StagedFresh, [Next]_vars
    PROVE  StagedFresh'
  <1> USE DEF disk, ledger, task, scan, StagedFresh, Uncommitted, Known
  <1>1. NothingStaged = [i \in Ids |-> NoRow] /\ NoRow.seg = 0
    BY DEF NothingStaged, NoRow
  <1>2. ASSUME NEW b \in Batches, TakeBatch(b) PROVE StagedFresh'
    BY <1>1, <1>2 DEF TakeBatch
  <1>3. CASE Append1
    <2>1. captures[batch[cursor].id].seg = 0
      BY <1>3 DEF Append1, AtFresh
    <2>2. \A i \in Ids \ {batch[cursor].id} : staged'[i] = staged[i]
      BY <1>3 DEF Append1, TypeOK
    <2> QED
      BY <1>3, <2>1, <2>2 DEF Append1
  <1>4. CASE CommitBatch
    BY <1>4 DEF CommitBatch
  <1>5. CASE Classify \/ RotateInBatch \/ SyncBatch
    BY <1>5 DEF Classify, RotateInBatch, SyncBatch
  <1>6. CASE Reply
    BY <1>1, <1>6 DEF Reply
  <1>7. CASE SealRename \/ SealRow \/ CreateFile \/ CreateRow
    BY <1>7 DEF SealRename, SealRow, CreateFile, CreateRow
  <1>8. CASE CreateRefused
    BY <1>1, <1>8 DEF CreateRefused
  <1>9. CASE Flush \/ FlushFails \/ Shutdown \/ Inspect \/ UNCHANGED vars
    BY <1>9 DEF Flush, FlushFails, Shutdown, Inspect, vars
  <1>10. CASE ProcessCrash \/ PowerCrash
    BY <1>10 DEF ProcessCrash, PowerCrash, LoseMemory
  <1>11. CASE Restart \/ FinishRecovery \/ OpenActive
    BY <1>11 DEF Restart, FinishRecovery, OpenActive
  <1>12. ASSUME NEW s \in SegIds, SkipSegment(s) \/ RecoverSegment(s) \/ RecoveryRefused(s)
         PROVE  StagedFresh'
    BY <1>12 DEF SkipSegment, RecoverSegment, RecoveryRefused
  <1> QED
    BY <1>2, <1>3, <1>4, <1>5, <1>6, <1>7, <1>8, <1>9, <1>10, <1>11, <1>12 DEF Next

\* Every step preserves the inductive invariant.
LEMMA WalStep ==
    ASSUME OneCrashKind, WalInv, [Next]_vars
    PROVE  WalInv'
  <1> USE DEF disk, ledger, task, scan
  <1>0. /\ TypeOK /\ TypeOK'
        /\ RowsPoint /\ StagedPoint /\ StagedFresh /\ UnsyncedOnlyInBatch
        /\ RowsHaveFiles /\ ActiveCounts /\ NextFileExists /\ ScannedCounts
        /\ AckedHaveRows /\ StagedFresh'
    BY TypeStep, StagedFreshStep DEF WalInv
  <1>26. CASE UNCHANGED vars
    <2>1. /\ RowsPoint' /\ StagedPoint' /\ StagedFresh' /\ UnsyncedOnlyInBatch'
          /\ RowsHaveFiles' /\ ActiveCounts' /\ NextFileExists' /\ ScannedCounts'
          /\ AckedHaveRows'
      BY <1>0, <1>26, ConstantsAssumption DEF vars, RowsPoint, StagedPoint,
         UnsyncedOnlyInBatch, Staged, RowsHaveFiles, ActiveCounts, NextFileExists, IsNextId,
         ScannedCounts, AckedHaveRows, PointsAt, NoActive, NothingStaged, NoRow, TypeOK
    <2> QED
      BY <1>0, <2>1 DEF WalInv
  <1>1. ASSUME NEW b \in Batches, TakeBatch(b) PROVE WalInv'
    BY <1>0, <1>1, ConstantsAssumption DEF TakeBatch, WalInv, TypeOK, RowsPoint, PointsAt,
       StagedPoint, StagedFresh, Uncommitted, UnsyncedOnlyInBatch, Staged, RowsHaveFiles, ActiveCounts,
       NextFileExists, ScannedCounts, AckedHaveRows, Known, NothingStaged, NoRow, NoActive
  <1>2. CASE Classify
    BY <1>0, <1>2, ConstantsAssumption DEF Classify, WalInv, TypeOK, RowsPoint, PointsAt,
       StagedPoint, StagedFresh, Uncommitted, UnsyncedOnlyInBatch, Staged, RowsHaveFiles, ActiveCounts,
       NextFileExists, ScannedCounts, AckedHaveRows, Known, NothingStaged, NoRow, NoActive
  <1>3. CASE Append1
    <2> DEFINE a == active.seg
               r == batch[cursor]
    <2>1. /\ a \in SegIds /\ active.bytes = Len(recs[a]) /\ segments[a].state # "none"
          /\ pc = "append" /\ pc' = "append"
      BY <1>0, <1>3 DEF Append1, ActiveCounts, TypeOK, SegIds
    <2>2. r \in Record /\ r.id \in Ids /\ ~Known(r.id) /\ r = [id |-> r.id, payload |-> r.payload]
      BY <1>0, <1>3, ElementOfSeq DEF Append1, AtFresh, TypeOK, Record
    <2>3. /\ recs' = [recs EXCEPT ![a] = Append(@, r)]
          /\ staged' = [staged EXCEPT ![r.id] =
                          [seg |-> a, pos |-> active.bytes + 1, payload |-> r.payload]]
          /\ active' = [active EXCEPT !.bytes = @ + 1]
          /\ UNCHANGED <<name, synced, captures, segments, pc, resume, todo, acked>>
      BY <1>3 DEF Append1
    <2>4. ASSUME NEW s \in SegIds
          PROVE  /\ Len(recs[s]) \in Nat
                 /\ Len(recs'[s]) = IF s = a THEN Len(recs[s]) + 1 ELSE Len(recs[s])
                 /\ \A k \in 1 .. Len(recs[s]) : recs'[s][k] = recs[s][k]
                 /\ s = a => recs'[s][Len(recs[s]) + 1] = r
      <3>1. recs[s] \in Seq(Record)
        BY <1>0 DEF TypeOK
      <3>2. CASE s = a
        BY <1>0, <2>1, <2>2, <2>3, <3>1, <3>2, AppendProperties, LenProperties DEF TypeOK
      <3>3. CASE s # a
        BY <1>0, <2>3, <3>1, <3>3, LenProperties DEF TypeOK
      <3> QED
        BY <3>2, <3>3
    <2> HIDE DEF a, r
    <2>5. ASSUME NEW l, NEW i, PointsAt(l, i), l.pos \in Nat
          PROVE  PointsAt(l, i)'
      BY <2>4, <2>5 DEF PointsAt
    <2>6. RowsPoint'
      BY <1>0, <2>3, <2>5 DEF RowsPoint, TypeOK, Locator
    <2>7. StagedPoint'
      <3> SUFFICES ASSUME NEW i \in Ids, staged'[i].seg # 0
                   PROVE  PointsAt(staged[i], i)'
        BY DEF StagedPoint
      <3>1. CASE i = r.id
        <4>1. staged'[i] = [seg |-> a, pos |-> Len(recs[a]) + 1, payload |-> r.payload]
          BY <1>0, <2>1, <2>3, <3>1 DEF TypeOK
        <4> QED
          BY <2>1, <2>2, <2>4, <3>1, <4>1 DEF PointsAt
      <3>2. CASE i # r.id
        <4>1. staged'[i] = staged[i]
          BY <1>0, <2>3, <3>2 DEF TypeOK
        <4>2. PointsAt(staged[i], i) /\ staged[i].pos \in Nat
          BY <1>0, <4>1 DEF StagedPoint, TypeOK, Locator
        <4> QED
          BY <2>4, <4>1, <4>2 DEF PointsAt
      <3> QED
        BY <3>1, <3>2
    <2>8. StagedFresh'
      BY <1>0
    <2>9. UnsyncedOnlyInBatch'
      <3>1. active'.seg = a
        BY <1>0, <2>3 DEF TypeOK, a
      <3> SUFFICES ASSUME NEW s \in SegIds
                   PROVE  /\ synced'[s] <= Len(recs'[s])
                          /\ "power" \in Faults => synced'[s] = Len(recs'[s]) \/ s = a
        <4>1. r.id \in Staged'
          BY <1>0, <2>1, <2>2, <2>3 DEF Staged, TypeOK, SegIds
        <4> QED
          BY <2>1, <3>1, <4>1 DEF UnsyncedOnlyInBatch
      <3>2. synced'[s] = synced[s] /\ synced[s] \in Nat /\ synced[s] <= Len(recs[s])
        BY <1>0, <2>3 DEF UnsyncedOnlyInBatch, Staged, TypeOK
      <3>3. "power" \in Faults => synced[s] = Len(recs[s]) \/ s = a
        BY <1>0 DEF UnsyncedOnlyInBatch, Staged, a
      <3> QED
        BY <2>4, <3>2, <3>3
    <2>10. RowsHaveFiles'
      BY <1>0, <2>1, <2>3 DEF RowsHaveFiles, TypeOK
    <2>11. ActiveCounts'
      BY <1>0, <2>1, <2>3, <2>4 DEF ActiveCounts, TypeOK, a
    <2>12. NextFileExists' /\ ScannedCounts' /\ AckedHaveRows'
      BY <1>0, <2>1, <2>3 DEF NextFileExists, ScannedCounts, AckedHaveRows
    <2> QED
      BY <1>0, <2>6, <2>7, <2>8, <2>9, <2>10, <2>11, <2>12 DEF WalInv
  <1>4. CASE RotateInBatch
    BY <1>0, <1>4, ConstantsAssumption DEF RotateInBatch, WalInv, TypeOK, RowsPoint, PointsAt,
       StagedPoint, StagedFresh, Uncommitted, UnsyncedOnlyInBatch, Staged, RowsHaveFiles, ActiveCounts,
       NextFileExists, ScannedCounts, AckedHaveRows, Known, NothingStaged, NoRow, NoActive
  <1>5. CASE SyncBatch
    BY <1>0, <1>5, ConstantsAssumption DEF SyncBatch, WalInv, TypeOK, RowsPoint, PointsAt,
       StagedPoint, StagedFresh, Uncommitted, UnsyncedOnlyInBatch, Staged, RowsHaveFiles, ActiveCounts,
       NextFileExists, ScannedCounts, AckedHaveRows, Known, NothingStaged, NoRow, NoActive
  <1>6. CASE CommitBatch
    <2>1. StagedPoint' /\ UnsyncedOnlyInBatch' /\ NextFileExists' /\ ScannedCounts'
      BY <1>0, <1>6 DEF CommitBatch, StagedPoint, UnsyncedOnlyInBatch, Staged, NextFileExists,
         ScannedCounts, PointsAt
    <2>2. StagedFresh'
      BY <1>0, <1>6 DEF CommitBatch, StagedFresh, Uncommitted
    <2>3. /\ active.seg \in SegIds /\ active.state # "none"
          /\ active.bytes = Len(recs[active.seg]) /\ segments[active.seg].state # "none"
          /\ recs' = recs /\ name' = name /\ active' = active
      BY <1>0, <1>6, ConstantsAssumption DEF CommitBatch, ActiveCounts, TypeOK, SegIds, disk
    <2>4. \A s \in SegIds : IF s = active.seg THEN segments'[s].state = active.state
                                              ELSE segments'[s] = segments[s]
      BY <1>0, <1>6 DEF CommitBatch, TypeOK, RowOf
    <2>5. RowsHaveFiles'
      BY <1>0, <2>3, <2>4 DEF ActiveCounts, RowsHaveFiles
    <2>6. ActiveCounts'
      BY <2>3, <2>4, ConstantsAssumption DEF ActiveCounts, SegIds
    <2>7. RowsPoint'
      <3>1. \A s \in SegIds : "power" \in Faults => synced[s] = Len(recs[s])
        BY <1>0, <1>6 DEF CommitBatch, UnsyncedOnlyInBatch
      <3>2. ASSUME NEW i \in Ids, i \in Staged
            PROVE  captures'[i] = staged[i] /\ PointsAt(staged[i], i)
        BY <1>0, <1>6, <3>2 DEF CommitBatch, Staged, StagedPoint
      <3>3. ASSUME NEW i \in Ids, i \notin Staged
            PROVE  captures'[i] = captures[i]
        BY <1>6, <3>3 DEF CommitBatch
      <3>4. recs' = recs /\ synced' = synced
        BY <1>6 DEF CommitBatch
      <3> SUFFICES ASSUME NEW i \in Ids, captures'[i] # NoRow
                   PROVE  /\ PointsAt(captures[i], i)'
                          /\ "power" \in Faults => captures'[i].pos <= synced'[captures'[i].seg]
        BY DEF RowsPoint
      <3>5. CASE i \in Staged
        <4>1. /\ captures'[i] = staged[i] /\ staged[i].seg \in SegIds
              /\ staged[i].pos \in 1 .. Len(recs[staged[i].seg])
              /\ recs[staged[i].seg][staged[i].pos] = [id |-> i, payload |-> staged[i].payload]
          BY <3>2, <3>5 DEF PointsAt
        <4>2. Len(recs[staged[i].seg]) \in Nat
          BY <1>0, <4>1, LenProperties DEF TypeOK
        <4> QED
          BY <3>1, <3>4, <4>1, <4>2 DEF PointsAt
      <3>6. CASE i \notin Staged
        BY <1>0, <3>3, <3>4, <3>6, RowHere DEF PointsAt
      <3> QED
        BY <3>5, <3>6
    <2>8. AckedHaveRows'
      <3>1. ASSUME NEW r \in acked PROVE captures'[r.id] = captures[r.id]
        <4>1. r.id \in Ids /\ Known(r.id)
          BY <1>0, AckedKnown
        <4>2. r.id \notin Staged
          BY <1>0, <1>6, <4>1 DEF StagedFresh, Uncommitted, Staged, CommitBatch
        <4> QED
          BY <1>6, <4>1, <4>2 DEF CommitBatch
      <3> QED
        BY <1>0, <1>6, <3>1 DEF AckedHaveRows, CommitBatch
    <2> QED
      BY <1>0, <2>1, <2>2, <2>5, <2>6, <2>7, <2>8 DEF WalInv
  <1>7. CASE Reply
    BY <1>0, <1>7, ConstantsAssumption DEF Reply, WalInv, TypeOK, RowsPoint, PointsAt,
       StagedPoint, StagedFresh, Uncommitted, UnsyncedOnlyInBatch, Staged, RowsHaveFiles, ActiveCounts,
       NextFileExists, ScannedCounts, AckedHaveRows, Known, NothingStaged, NoRow, NoActive
  <1>8. CASE SealRename
    <2>1. /\ StagedPoint' /\ StagedFresh' /\ UnsyncedOnlyInBatch' /\ RowsHaveFiles'
          /\ ActiveCounts' /\ NextFileExists' /\ ScannedCounts' /\ AckedHaveRows'
      BY <1>0, <1>8, ConstantsAssumption DEF SealRename, StagedPoint, UnsyncedOnlyInBatch, Staged,
         RowsHaveFiles, ActiveCounts, NextFileExists, IsNextId, ScannedCounts, AckedHaveRows,
         PointsAt, NoActive, NothingStaged, NoRow, TypeOK
    <2>2. RowsPoint'
      <3>1. \A s \in SegIds : synced[s] <= synced'[s] /\ synced'[s] \in Nat /\ synced[s] \in Nat
        BY <1>0, <1>8, LenProperties DEF SealRename, UnsyncedOnlyInBatch, Staged, TypeOK
      <3>2. captures' = captures /\ recs' = recs
        BY <1>8 DEF SealRename
      <3> SUFFICES ASSUME NEW i \in Ids, captures'[i] # NoRow
                   PROVE  /\ PointsAt(captures[i], i)'
                          /\ "power" \in Faults => captures'[i].pos <= synced'[captures'[i].seg]
        BY DEF RowsPoint
      <3> QED
        BY <1>0, <3>1, <3>2, RowHere DEF PointsAt
    <2> QED
      BY <1>0, <2>1, <2>2 DEF WalInv
  <1>9. CASE SealRow
    <2>1. /\ RowsPoint' /\ StagedPoint' /\ StagedFresh' /\ UnsyncedOnlyInBatch'
          /\ NextFileExists' /\ ScannedCounts' /\ AckedHaveRows'
      BY <1>0, <1>9 DEF SealRow, RowsPoint, StagedPoint, UnsyncedOnlyInBatch, Staged, NextFileExists,
         ScannedCounts, AckedHaveRows, PointsAt, NoActive
    <2>2. RowsHaveFiles'
      BY <1>0, <1>9, ConstantsAssumption
      DEF SealRow, TypeOK, RowsHaveFiles, ActiveCounts, RowOf, SegIds
    <2>3. ActiveCounts'
      <3>1. /\ active.seg \in SegIds /\ active.state # "none"
            /\ active.bytes = Len(recs[active.seg])
        BY <1>0, <1>9, ConstantsAssumption DEF SealRow, ActiveCounts, TypeOK, SegIds
      <3>2. segments'[active.seg].state # "none" /\ recs' = recs
        BY <1>0, <1>9, <3>1 DEF SealRow, TypeOK, RowOf, disk
      <3>3. CASE resume = "shutdown"
        BY <1>9, <3>3 DEF SealRow, ActiveCounts, NoActive
      <3>4. CASE resume # "shutdown"
        <4>1. active' = active
          BY <1>9, <3>4 DEF SealRow
        <4> QED
          BY <3>1, <3>2, <4>1, ConstantsAssumption DEF ActiveCounts, SegIds
      <3> QED
        BY <3>3, <3>4
    <2> QED
      BY <1>0, <2>1, <2>2, <2>3 DEF WalInv
  <1>10. CASE CreateFile
    <2>1. /\ RowsPoint' /\ StagedPoint' /\ StagedFresh' /\ UnsyncedOnlyInBatch'
          /\ RowsHaveFiles' /\ ActiveCounts' /\ ScannedCounts' /\ AckedHaveRows'
      BY <1>0, <1>10, ConstantsAssumption DEF CreateFile, RowsPoint, StagedPoint,
         UnsyncedOnlyInBatch, Staged, RowsHaveFiles, ActiveCounts, ScannedCounts, AckedHaveRows,
         PointsAt, NoActive, NothingStaged, NoRow, TypeOK
    <2>2. NextFileExists'
      <3>1. PICK n \in SegIds : IsNextId(n) /\ name' = [name EXCEPT ![n] = "open"]
        BY <1>10 DEF CreateFile
      <3>2. \A m \in SegIds : IsNextId(m)' => m = n
        BY <1>10, <3>1, NextIdUnique DEF CreateFile, IsNextId
      <3> QED
        BY <1>0, <3>1, <3>2 DEF NextFileExists, TypeOK
    <2> QED
      BY <1>0, <2>1, <2>2 DEF WalInv
  <1>11. CASE CreateRow
    <2>1. /\ RowsPoint' /\ StagedPoint' /\ StagedFresh' /\ UnsyncedOnlyInBatch'
          /\ NextFileExists' /\ ScannedCounts' /\ AckedHaveRows'
      BY <1>0, <1>11, ConstantsAssumption DEF CreateRow, RowsPoint, StagedPoint,
         UnsyncedOnlyInBatch, Staged, NextFileExists, IsNextId, ScannedCounts, AckedHaveRows, PointsAt,
         NoActive, NothingStaged, NoRow, TypeOK
    <2>2. RowsHaveFiles'
      <3>1. PICK n \in SegIds :
               /\ IsNextId(n)
               /\ segments' = [segments EXCEPT ![n] = [NoSegment EXCEPT !.state = "open"]]
               /\ active' = [seg |-> n, state |-> "open", bytes |-> 0, sha |-> 0]
        BY <1>11 DEF CreateRow
      <3>2. segments[n].state = "none" /\ recs[n] = <<>> /\ name[n] # "absent" /\ n # 0
        BY <1>0, <1>11, <3>1 DEF CreateRow, IsNextId, RowsHaveFiles, NextFileExists, SegIds
      <3>3. segments'[n].state = "open" /\ \A s \in SegIds \ {n} : segments'[s] = segments[s]
        BY <1>0, <3>1 DEF TypeOK, NoSegment
      <3> QED
        BY <1>0, <1>11, <3>1, <3>2, <3>3 DEF CreateRow, RowsHaveFiles, ActiveCounts
    <2>3. ActiveCounts'
      <3>1. PICK n \in SegIds :
               /\ IsNextId(n)
               /\ segments' = [segments EXCEPT ![n] = [NoSegment EXCEPT !.state = "open"]]
               /\ active' = [seg |-> n, state |-> "open", bytes |-> 0, sha |-> 0]
        BY <1>11 DEF CreateRow
      <3>2. segments[n].state = "none" /\ recs[n] = <<>> /\ name[n] # "absent" /\ n # 0
        BY <1>0, <1>11, <3>1 DEF CreateRow, IsNextId, RowsHaveFiles, NextFileExists, SegIds
      <3>3. segments'[n].state = "open" /\ \A s \in SegIds \ {n} : segments'[s] = segments[s]
        BY <1>0, <3>1 DEF TypeOK, NoSegment
      <3> QED
        BY <1>0, <1>11, <3>1, <3>2, <3>3 DEF CreateRow, RowsHaveFiles, ActiveCounts
    <2> QED
      BY <1>0, <2>1, <2>2, <2>3 DEF WalInv
  <1>12. CASE CreateRefused
    <2>1. /\ RowsPoint' /\ StagedPoint' /\ StagedFresh' /\ UnsyncedOnlyInBatch'
          /\ RowsHaveFiles' /\ ActiveCounts' /\ NextFileExists' /\ ScannedCounts'
          /\ AckedHaveRows'
      BY <1>0, <1>12, ConstantsAssumption DEF CreateRefused, RowsPoint, StagedPoint,
         UnsyncedOnlyInBatch, Staged, RowsHaveFiles, ActiveCounts, NextFileExists, IsNextId,
         ScannedCounts, AckedHaveRows, PointsAt, NoActive, NothingStaged, NoRow, TypeOK
    <2> QED
      BY <1>0, <2>1 DEF WalInv
  <1>13. CASE Flush
    BY <1>0, <1>13, ConstantsAssumption DEF Flush, WalInv, TypeOK, RowsPoint, PointsAt,
       StagedPoint, StagedFresh, Uncommitted, UnsyncedOnlyInBatch, Staged, RowsHaveFiles, ActiveCounts,
       NextFileExists, ScannedCounts, AckedHaveRows, Known, NothingStaged, NoRow, NoActive
  <1>14. CASE FlushFails
    <2>1. /\ RowsPoint' /\ StagedPoint' /\ StagedFresh' /\ UnsyncedOnlyInBatch'
          /\ RowsHaveFiles' /\ ActiveCounts' /\ NextFileExists' /\ ScannedCounts'
          /\ AckedHaveRows'
      BY <1>0, <1>14, ConstantsAssumption DEF FlushFails, RowsPoint, StagedPoint,
         UnsyncedOnlyInBatch, Staged, RowsHaveFiles, ActiveCounts, NextFileExists, IsNextId,
         ScannedCounts, AckedHaveRows, PointsAt, NoActive, NothingStaged, NoRow, TypeOK
    <2> QED
      BY <1>0, <2>1 DEF WalInv
  <1>15. CASE Shutdown
    BY <1>0, <1>15, ConstantsAssumption DEF Shutdown, WalInv, TypeOK, RowsPoint, PointsAt,
       StagedPoint, StagedFresh, Uncommitted, UnsyncedOnlyInBatch, Staged, RowsHaveFiles, ActiveCounts,
       NextFileExists, ScannedCounts, AckedHaveRows, Known, NothingStaged, NoRow, NoActive
  <1>16. CASE Inspect
    BY <1>0, <1>16, <1>26 DEF Inspect
  <1>17. CASE ProcessCrash
    <2>1. /\ RowsPoint' /\ StagedPoint' /\ StagedFresh' /\ UnsyncedOnlyInBatch'
          /\ RowsHaveFiles' /\ ActiveCounts' /\ NextFileExists' /\ ScannedCounts'
          /\ AckedHaveRows'
      BY <1>0, <1>17, ConstantsAssumption DEF ProcessCrash, RowsPoint, LoseMemory, StagedPoint,
         UnsyncedOnlyInBatch, Staged, OneCrashKind, RowsHaveFiles, ActiveCounts, NextFileExists,
         IsNextId, ScannedCounts, AckedHaveRows, PointsAt, NoActive, NothingStaged, NoRow,
         TypeOK
    <2> QED
      BY <1>0, <2>1 DEF WalInv
  <1>18. CASE PowerCrash
    <2>1. /\ StagedPoint' /\ StagedFresh' /\ UnsyncedOnlyInBatch' /\ RowsHaveFiles'
          /\ ActiveCounts' /\ NextFileExists' /\ ScannedCounts' /\ AckedHaveRows'
      BY <1>0, <1>18, ConstantsAssumption DEF PowerCrash, StagedPoint, LoseMemory,
         UnsyncedOnlyInBatch, Staged, RowsHaveFiles, ActiveCounts, NextFileExists, IsNextId,
         ScannedCounts, AckedHaveRows, PointsAt, NoActive, NothingStaged, NoRow, TypeOK
    <2>2. RowsPoint'
      <3>1. PICK keep \in [SegIds -> 0 .. SegmentMax] :
               /\ \A s \in SegIds : keep[s] \in synced[s] .. Len(recs[s])
               /\ recs' = [s \in SegIds |-> SubSeq(recs[s], 1, keep[s])]
               /\ synced' = keep
        BY <1>18 DEF PowerCrash
      <3>2. ASSUME NEW s \in SegIds
            PROVE  /\ Len(recs'[s]) = keep[s] /\ synced[s] <= keep[s] /\ keep[s] \in Nat
                   /\ \A k \in 1 .. keep[s] : recs'[s][k] = recs[s][k]
        <4>1. recs[s] \in Seq(Record) /\ synced[s] \in Nat
          BY <1>0 DEF TypeOK
        <4>2. Len(recs[s]) \in Nat
          BY <4>1, LenProperties
        <4>3. keep[s] \in synced[s] .. Len(recs[s]) /\ recs'[s] = SubSeq(recs[s], 1, keep[s])
          BY <3>1
        <4>4. keep[s] \in Nat /\ synced[s] <= keep[s] /\ keep[s] <= Len(recs[s])
          BY <4>1, <4>2, <4>3
        <4>5. /\ 1 \in 1 .. Len(recs[s]) + 1 /\ keep[s] \in 0 .. Len(recs[s])
          BY <4>4, <4>2
        <4>6. /\ Len(recs'[s]) = keep[s]
              /\ \A k \in 1 .. keep[s] : recs'[s][k] = recs[s][k]
          <5>1. \A k \in 1 .. keep[s] : recs[s][k] \in Record
            BY <4>4, <4>1, <4>2, ElementOfSeq
          <5> QED
            BY <4>4, <4>3, <5>1, SubSeqProperties
        <4> QED
          BY <4>4, <4>6
      <3>3. captures' = captures
        BY <1>18 DEF PowerCrash, LoseMemory
      <3> SUFFICES ASSUME NEW i \in Ids, captures'[i] # NoRow
                   PROVE  /\ PointsAt(captures[i], i)'
                          /\ "power" \in Faults => captures'[i].pos <= synced'[captures'[i].seg]
        BY DEF RowsPoint
      <3> DEFINE l == captures[i]
      <3>4. /\ l.seg \in SegIds /\ l.pos \in Nat /\ 1 <= l.pos
            /\ l.pos <= synced[l.seg] /\ synced[l.seg] \in Nat
            /\ recs[l.seg][l.pos] = [id |-> i, payload |-> l.payload]
        BY <1>0, <1>18, <3>3, RowHere DEF PowerCrash
      <3>5. l.pos \in 1 .. keep[l.seg]
        BY <3>2, <3>4
      <3> QED
        BY <3>1, <3>2, <3>3, <3>4, <3>5 DEF PointsAt
    <2> QED
      BY <1>0, <2>1, <2>2 DEF WalInv
  <1>19. CASE Restart
    BY <1>0, <1>19, ConstantsAssumption DEF Restart, WalInv, TypeOK, RowsPoint, PointsAt,
       StagedPoint, StagedFresh, Uncommitted, UnsyncedOnlyInBatch, Staged, RowsHaveFiles, ActiveCounts,
       NextFileExists, ScannedCounts, AckedHaveRows, Known, NothingStaged, NoRow, NoActive
  <1>20. CASE FinishRecovery
    BY <1>0, <1>20, ConstantsAssumption DEF FinishRecovery, WalInv, TypeOK, RowsPoint, PointsAt,
       StagedPoint, StagedFresh, Uncommitted, UnsyncedOnlyInBatch, Staged, RowsHaveFiles, ActiveCounts,
       NextFileExists, ScannedCounts, AckedHaveRows, Known, NothingStaged, NoRow, NoActive
  <1>21. CASE OpenActive
    <2>1. /\ RowsPoint' /\ StagedPoint' /\ StagedFresh' /\ UnsyncedOnlyInBatch'
          /\ RowsHaveFiles' /\ NextFileExists' /\ ScannedCounts' /\ AckedHaveRows'
      BY <1>0, <1>21, ConstantsAssumption DEF OpenActive, RowsPoint, StagedPoint,
         UnsyncedOnlyInBatch, Staged, RowsHaveFiles, NextFileExists, IsNextId, ScannedCounts,
         AckedHaveRows, PointsAt, NoActive, NothingStaged, NoRow, TypeOK
    <2>2. ActiveCounts'
      <3>1. CASE OpenRows = {}
        BY <1>0, <1>21, <3>1 DEF OpenActive, ActiveCounts
      <3>2. CASE OpenRows # {}
        <4>1. PICK s \in OpenRows :
                 active' = [seg |-> s, state |-> "open", bytes |-> segments[s].bytes, sha |-> 0]
          BY <1>21, <3>2 DEF OpenActive
        <4>2. s \in SegIds /\ s # 0 /\ segments[s].state = "open" /\ segments[s].bytes = Len(recs[s])
          BY <1>0, <1>21 DEF OpenActive, OpenRows, ScannedCounts, SegIds
        <4> QED
          BY <1>21, <4>1, <4>2 DEF OpenActive, ActiveCounts
      <3> QED
        BY <3>1, <3>2
    <2> QED
      BY <1>0, <2>1, <2>2 DEF WalInv
  <1>22. ASSUME NEW s \in SegIds, SkipSegment(s) PROVE WalInv'
    <2>1. /\ RowsPoint' /\ StagedPoint' /\ StagedFresh' /\ UnsyncedOnlyInBatch'
          /\ RowsHaveFiles' /\ ActiveCounts' /\ NextFileExists' /\ ScannedCounts'
          /\ AckedHaveRows'
      BY <1>0, <1>22, ConstantsAssumption DEF SkipSegment, RowsPoint, StagedPoint,
         UnsyncedOnlyInBatch, Staged, RowsHaveFiles, ActiveCounts, NextFileExists, IsNextId, Trusted,
         ScannedCounts, AckedHaveRows, PointsAt, NoActive, NothingStaged, NoRow, TypeOK
    <2> QED
      BY <1>0, <2>1 DEF WalInv
  <1>23. ASSUME NEW s \in SegIds, RecoverSegment(s) PROVE WalInv'
    <2>1. /\ StagedPoint' /\ StagedFresh' /\ UnsyncedOnlyInBatch' /\ RowsHaveFiles'
          /\ ActiveCounts' /\ NextFileExists' /\ ScannedCounts'
      BY <1>0, <1>23, ConstantsAssumption DEF RecoverSegment, StagedPoint, UnsyncedOnlyInBatch, Staged,
         FirstTodo, RowsHaveFiles, ScannedCounts, ScannedRow, ActiveCounts, NextFileExists,
         IsNextId, PointsAt, NoActive, NothingStaged, NoRow, TypeOK
    <2>2. RowsPoint'
      <3>1. ASSUME NEW i \in Ids, captures'[i] # captures[i]
            PROVE  /\ captures'[i].seg = s
                   /\ captures'[i].pos \in 1 .. Len(recs[s])
                   /\ recs[s][captures'[i].pos] = [id |-> i, payload |-> captures'[i].payload]
        <4>1. Positions(s, i) # {} /\ captures'[i] = RecoveredRow(s, i)
          BY <1>23, <3>1, RowsAfterScan
        <4> QED
          BY <1>0, <4>1, RecoveredLocator
      <3>2. recs' = recs /\ synced' = synced /\ ("power" \in Faults => synced[s] = Len(recs[s]))
        BY <1>0, <1>23 DEF RecoverSegment, UnsyncedOnlyInBatch
      <3>3. Len(recs[s]) \in Nat
        BY <1>0, LenProperties DEF TypeOK
      <3> SUFFICES ASSUME NEW i \in Ids, captures'[i] # NoRow
                   PROVE  /\ PointsAt(captures[i], i)'
                          /\ "power" \in Faults => captures'[i].pos <= synced'[captures'[i].seg]
        BY DEF RowsPoint
      <3>4. CASE captures'[i] = captures[i]
        BY <1>0, <3>2, <3>4, RowHere DEF PointsAt
      <3>5. CASE captures'[i] # captures[i]
        BY <3>1, <3>2, <3>3, <3>5 DEF PointsAt
      <3> QED
        BY <3>4, <3>5
    <2>3. AckedHaveRows'
      <3>1. ASSUME NEW r \in acked PROVE captures'[r.id] = captures[r.id]
        <4>1. r.id \in Ids /\ Known(r.id)
          BY <1>0, AckedKnown
        <4> QED
          BY <1>23, <4>1 DEF RecoverSegment
      <3> QED
        BY <1>0, <1>23, <3>1 DEF AckedHaveRows, RecoverSegment
    <2> QED
      BY <1>0, <2>1, <2>2, <2>3 DEF WalInv
  <1>24. ASSUME NEW s \in SegIds, RecoveryRefused(s) PROVE WalInv'
    BY <1>0, <1>24, ConstantsAssumption DEF RecoveryRefused, WalInv, TypeOK, RowsPoint,
       PointsAt, StagedPoint, StagedFresh, Uncommitted, UnsyncedOnlyInBatch, Staged, RowsHaveFiles,
       ActiveCounts, NextFileExists, ScannedCounts, AckedHaveRows, Known, NothingStaged, NoRow,
       NoActive
  <1> QED
    BY <1>1, <1>2, <1>3, <1>4, <1>5, <1>6, <1>7, <1>8, <1>9, <1>10, <1>11, <1>12, <1>13, <1>14, <1>15, <1>16, <1>17, <1>18, <1>19, <1>20, <1>21, <1>22, <1>23, <1>24, <1>26 DEF
       Next

-----------------------------------------------------------------------------
\* The inductive invariant holds of every state, when the environment has one
\* kind of crash.
THEOREM WalInvariant == OneCrashKind => (Spec => []WalInv)
  <1> SUFFICES ASSUME OneCrashKind PROVE Spec => []WalInv
    OBVIOUS
  <1>1. Init => WalInv
    <2> SUFFICES ASSUME Init PROVE WalInv
      OBVIOUS
    <2>1. TypeOK
      BY InitTypeOK
    <2>2. RowsPoint /\ StagedPoint /\ StagedFresh
      BY DEF Init, RowsPoint, StagedPoint, StagedFresh, Uncommitted, NothingStaged, NoRow
    <2>3. UnsyncedOnlyInBatch
      BY DEF Init, UnsyncedOnlyInBatch
    <2>4. RowsHaveFiles /\ ActiveCounts /\ NextFileExists /\ ScannedCounts /\ AckedHaveRows
      BY DEF Init, RowsHaveFiles, ActiveCounts, NextFileExists, ScannedCounts,
             AckedHaveRows, NoSegment, NoActive
    <2> QED
      BY <2>1, <2>2, <2>3, <2>4 DEF WalInv
  <1>2. WalInv /\ [Next]_vars => WalInv'
    BY WalStep
  <1> QED
    BY <1>1, <1>2, PTL DEF Spec

\* A record acknowledged as durable stays readable through its locator, across
\* any number of crashes of one kind, in a batch, a rotation or a recovery.
THEOREM AckedDurable == OneCrashKind => (Spec => []AckedReadable)
  <1> SUFFICES ASSUME OneCrashKind PROVE Spec => []AckedReadable
    OBVIOUS
  <1>1. WalInv => AckedReadable
    <2> SUFFICES ASSUME WalInv, NEW r \in acked
                 PROVE  Readable(r.id) /\ captures[r.id].payload = r.payload
      BY DEF AckedReadable
    <2>1. r.id \in Ids /\ captures[r.id] # NoRow
      BY AckedKnown DEF WalInv
    <2>2. Readable(r.id)
      BY <2>1 DEF WalInv, RowsPoint, PointsAt, Readable
    <2> QED
      BY <2>2 DEF WalInv, AckedHaveRows
  <1> QED
    BY <1>1, WalInvariant, PTL

\* No step moves or replaces the row of an id.
LEMMA RowsKept ==
    ASSUME TypeOK, StagedFresh, [Next]_vars, NEW i \in Ids, Known(i)
    PROVE  captures'[i] = captures[i]
  <1>1. CASE CommitBatch
    <2>1. i \notin Staged
      BY <1>1 DEF CommitBatch, StagedFresh, Uncommitted, Staged
    <2> QED
      BY <1>1, <2>1 DEF CommitBatch
  <1>2. ASSUME NEW s \in SegIds, RecoverSegment(s) PROVE captures'[i] = captures[i]
    BY <1>2 DEF RecoverSegment
  <1>3. CASE UNCHANGED captures
    BY <1>3
  <1>4. CommitBatch \/ UNCHANGED captures \/ \E s \in SegIds : RecoverSegment(s)
    BY DEF Next, TakeBatch, Classify, Append1, RotateInBatch, SyncBatch, Reply, SealRename,
       SealRow, CreateFile, CreateRow, CreateRefused, Flush, FlushFails, Shutdown, Inspect,
       ProcessCrash, PowerCrash, LoseMemory, Restart, SkipSegment, RecoveryRefused,
       FinishRecovery, OpenActive, vars, ledger
  <1> QED
    BY <1>1, <1>2, <1>3, <1>4

\* The first payload that got a row under a captureId keeps it and its
\* locator, whatever the crashes and the failures of a Flush.
THEOREM FirstPayloadKept == Spec => FirstPayloadWins
  <1>1. Init => StagedFresh
    BY DEF Init, StagedFresh, Uncommitted
  <1>2. TypeOK /\ StagedFresh /\ [Next]_vars => StagedFresh'
    BY StagedFreshStep
  <1>3. TypeOK /\ StagedFresh /\ [Next]_vars
        => [\A i \in Ids : Known(i) => captures'[i] = captures[i]]_vars
    BY RowsKept
  <1> QED
    BY <1>1, <1>2, <1>3, TypeCorrect, PTL DEF Spec, FirstPayloadWins

-----------------------------------------------------------------------------
\* What a reader finds behind the locators is what the rows say.
LEMMA StoredIsRow == WalInv => StoredNow = [i \in Ids |-> captures[i].payload]
  <1> SUFFICES ASSUME WalInv, NEW i \in Ids
               PROVE  (IF Readable(i) THEN captures[i].payload ELSE NoPayload) = captures[i].payload
    BY DEF StoredNow
  <1>1. CASE captures[i] = NoRow
    BY <1>1 DEF NoRow
  <1>2. CASE captures[i] # NoRow
    BY <1>2 DEF WalInv, RowsPoint, PointsAt, Readable
  <1> QED
    BY <1>1, <1>2

\* Files, segments, batches, crashes and recoveries are invisible to the
\* callers: the store implements the promise of DurableCaptures.
THEOREM StoreKeepsPromise == OneCrashKind => (Spec => ImplementsPromise)
  <1> SUFFICES ASSUME OneCrashKind PROVE Spec => ImplementsPromise
    OBVIOUS
  <1>1. Init => Promise!PromiseInit
    BY DEF Init, Promise!PromiseInit, StoredNow, Readable, NoRow
  <1>2. (WalInv => StoredNow = [i \in Ids |-> captures[i].payload])'
    BY StoredIsRow, PTL
  <1>3. ASSUME WalInv, WalInv', [Next]_vars
        PROVE  [Promise!PromiseNext]_(Promise!promiseVars)
    <2>1. /\ StoredNow = [i \in Ids |-> captures[i].payload]
          /\ StoredNow' = [i \in Ids |-> captures'[i].payload]
      BY <1>3, <1>2, StoredIsRow
    <2>2. TypeOK /\ TypeOK' /\ StagedFresh /\ RowsPoint
      BY <1>3 DEF WalInv
    <2>3. CASE Reply
      <3>1. StoredNow' = StoredNow
        BY <2>1, <2>3 DEF Reply, ledger
      <3>2. \A r \in acked' \ acked : r \in Record /\ captures[r.id].payload = r.payload
        BY <2>2, <2>3 DEF Reply, TypeOK
      <3>3. \A r \in acked' \ acked : StoredNow[r.id] = r.payload
        BY <2>1, <3>2 DEF Record
      <3>4. acked \subseteq acked' /\ acked' \subseteq Promise!Record
        BY <2>2, <2>3 DEF Reply, TypeOK, Record, Promise!Record
      <3> QED
        BY <3>1, <3>3, <3>4 DEF Promise!PromiseNext, Promise!Acknowledge
    <2>4. CASE UNCHANGED acked
      <3>1. StoredNow' \in [Ids -> Payloads \cup {NoPayload}]
        BY <2>1, <2>2 DEF TypeOK, Locator
      <3>2. ASSUME NEW i \in Ids, StoredNow[i] # NoPayload
            PROVE  StoredNow'[i] = StoredNow[i]
        <4>1. captures[i] # NoRow
          BY <2>1, <3>2 DEF NoRow
        <4>2. captures'[i] = captures[i]
          BY <1>3, <2>2, <4>1, RowHere, RowsKept
        <4> QED
          BY <2>1, <4>2
      <3> QED
        BY <2>4, <3>1, <3>2 DEF Promise!PromiseNext, Promise!Store
    <2>5. Reply \/ UNCHANGED acked
      BY <1>3 DEF Next, TakeBatch, Classify, Append1, RotateInBatch, SyncBatch, CommitBatch,
         SealRename, SealRow, CreateFile, CreateRow, CreateRefused, Flush, FlushFails, Shutdown,
         Inspect, ProcessCrash, PowerCrash, LoseMemory, Restart, SkipSegment, RecoverSegment,
         RecoveryRefused, FinishRecovery, OpenActive, vars
    <2> QED
      BY <2>3, <2>4, <2>5
  <1> QED
    BY <1>1, <1>3, WalInvariant, PTL DEF Spec, ImplementsPromise, Promise!PromiseSpec

-----------------------------------------------------------------------------
(***************************************************************************)
(* Sealed segments, when no step of a Flush fails.                         *)
(***************************************************************************)
Quiet == pc \in {"down", "recover", "refused"}

\* Nothing is appended to a segment whose row is sealed.
ActiveOpen ==
    pc \in {"idle", "append", "commit", "reply", "seal"} =>
        segments[active.seg].state = "open" /\ active.state = "open"

\* A file without a row is the one just created for the next segment.
OnlyNextLacksRow ==
    /\ ~Quiet => \A s \in SegIds :
          segments[s].state = "none" =>
             name[s] = "absent" \/ (pc = "create_row" /\ IsNextId(s))
    /\ pc = "recover" => \A s \in SegIds \ todo :
          segments[s].state = "none" => name[s] = "absent"

SealInv == ActiveOpen /\ OnlyNextLacksRow

\* Every step preserves it.
LEMMA SealStep ==
    ASSUME "flush" \notin Faults, WalInv, SealInv, [Next]_vars
    PROVE  SealInv'
  <1> USE DEF disk, ledger, task, scan, SealInv, ActiveOpen, OnlyNextLacksRow, Quiet
  <1>0. TypeOK /\ TypeOK' /\ ActiveCounts /\ RowsHaveFiles /\ ScannedCounts
    BY TypeStep DEF WalInv
  <1>1. ASSUME NEW b \in Batches, TakeBatch(b) PROVE SealInv'
    BY <1>1 DEF TakeBatch
  <1>2. CASE Classify \/ RotateInBatch \/ SyncBatch \/ Reply
    BY <1>2 DEF Classify, RotateInBatch, SyncBatch, Reply
  <1>3. CASE Append1
    BY <1>0, <1>3 DEF Append1, TypeOK
  <1>4. CASE CommitBatch
    BY <1>0, <1>4 DEF CommitBatch, ActiveCounts, TypeOK, SegIds, RowOf
  <1>5. CASE SealRename
    BY <1>0, <1>5 DEF SealRename, TypeOK
  <1>6. CASE SealRow
    <2>1. active.state \in {"open", "sealed"} /\ active.seg \in SegIds
      BY <1>0, <1>6 DEF SealRow, ActiveCounts, TypeOK, SegIds
    <2>2. \A s \in SegIds : segments'[s].state = "none" => segments[s].state = "none"
      BY <1>0, <1>6, <2>1 DEF SealRow, TypeOK, RowOf
    <2> QED
      BY <1>6, <2>1, <2>2 DEF SealRow
  <1>7. CASE CreateFile
    <2>1. PICK n \in SegIds : IsNextId(n) /\ name' = [name EXCEPT ![n] = "open"]
      BY <1>7 DEF CreateFile
    <2>2. IsNextId(n)'
      BY <1>7, <2>1 DEF CreateFile, IsNextId
    <2> QED
      BY <1>0, <1>7, <2>1, <2>2 DEF CreateFile, TypeOK
  <1>8. CASE CreateRow
    <2>1. PICK n \in SegIds :
             /\ IsNextId(n)
             /\ segments' = [segments EXCEPT ![n] = [NoSegment EXCEPT !.state = "open"]]
             /\ active' = [seg |-> n, state |-> "open", bytes |-> 0, sha |-> 0]
      BY <1>8 DEF CreateRow
    <2>2. segments'[n].state = "open" /\ \A s \in SegIds \ {n} : segments'[s] = segments[s]
      BY <1>0, <2>1 DEF TypeOK, NoSegment
    <2>3. \A s \in SegIds : segments'[s].state = "none" => name[s] = "absent"
      BY <1>8, <2>1, <2>2, NextIdUnique DEF CreateRow
    <2> QED
      BY <1>8, <2>1, <2>2, <2>3 DEF CreateRow
  <1>9. CASE CreateRefused
    <2>1. PICK n \in SegIds : IsNextId(n) /\ name[n] # "absent"
      BY <1>9 DEF CreateRefused
    <2>2. segments[n].state = "none"
      BY <2>1 DEF IsNextId, SegIds
    <2> QED
      BY <1>9, <2>1, <2>2 DEF CreateRefused
  <1>10. CASE Flush \/ FlushFails \/ Shutdown \/ Inspect \/ UNCHANGED vars
    <2>1. CASE Flush \/ FlushFails
      BY <2>1 DEF Flush, FlushFails
    <2>2. CASE Shutdown
      BY <2>2 DEF Shutdown
    <2>3. CASE Inspect \/ UNCHANGED vars
      BY <2>3 DEF Inspect, vars, IsNextId
    <2> QED
      BY <1>10, <2>1, <2>2, <2>3
  <1>11. CASE ProcessCrash \/ PowerCrash
    BY <1>11 DEF ProcessCrash, PowerCrash, LoseMemory
  <1>12. CASE Restart
    BY <1>12 DEF Restart
  <1>13. CASE FinishRecovery
    BY <1>13 DEF FinishRecovery
  <1>14. CASE OpenActive
    BY <1>14 DEF OpenActive, OpenRows
  <1>15. ASSUME NEW s \in SegIds, SkipSegment(s) PROVE SealInv'
    BY <1>15 DEF SkipSegment, Trusted
  <1>16. ASSUME NEW s \in SegIds, RecoverSegment(s) PROVE SealInv'
    BY <1>0, <1>16 DEF RecoverSegment, ScannedRow, TypeOK
  <1>17. ASSUME NEW s \in SegIds, RecoveryRefused(s) PROVE SealInv'
    BY <1>17 DEF RecoveryRefused
  <1> QED
    BY <1>1, <1>2, <1>3, <1>4, <1>5, <1>6, <1>7, <1>8, <1>9, <1>10, <1>11, <1>12, <1>13,
       <1>14, <1>15, <1>16, <1>17 DEF Next

\* The file of a sealed segment, which the Raw Archive hashes and uploads,
\* never changes, when no I/O step of a Flush fails: a Flush that cannot create
\* the next segment goes on with the sealed one.
THEOREM SealedKept ==
    OneCrashKind /\ "flush" \notin Faults => (Spec => SealedImmutable)
  <1> SUFFICES ASSUME OneCrashKind, "flush" \notin Faults PROVE Spec => SealedImmutable
    OBVIOUS
  <1>1. Init => SealInv
    BY DEF Init, SealInv, ActiveOpen, OnlyNextLacksRow, Quiet
  <1>2. WalInv /\ SealInv /\ [Next]_vars => SealInv'
    BY SealStep
  <1>3. ASSUME WalInv, SealInv, [Next]_vars
        PROVE  [\A s \in SegIds : segments[s].state = "sealed" => recs'[s] = recs[s]]_vars
    <2> SUFFICES ASSUME NEW s \in SegIds, segments[s].state = "sealed"
                 PROVE  recs'[s] = recs[s]
      OBVIOUS
    <2>1. CASE Append1
      BY <1>3, <2>1 DEF Append1, SealInv, ActiveOpen, WalInv, TypeOK
    <2>2. CASE PowerCrash
      <3>1. s # active.seg \/ pc \notin {"append", "seal"}
        BY <1>3 DEF SealInv, ActiveOpen
      <3>2. synced[s] = Len(recs[s])
        BY <1>3, <2>2, <3>1 DEF WalInv, UnsyncedOnlyInBatch, PowerCrash
      <3>3. recs[s] \in Seq(Record) /\ Len(recs[s]) \in Nat
        BY <1>3, LenProperties DEF WalInv, TypeOK
      <3>4. recs'[s] = SubSeq(recs[s], 1, Len(recs[s]))
        BY <2>2, <3>2, <3>3 DEF PowerCrash
      <3> QED
        BY <3>3, <3>4
    <2>3. CASE UNCHANGED recs
      BY <2>3
    <2>4. Append1 \/ PowerCrash \/ UNCHANGED recs
      BY <1>3 DEF Next, TakeBatch, Classify, RotateInBatch, SyncBatch, CommitBatch, Reply,
         SealRename, SealRow, CreateFile, CreateRow, CreateRefused, Flush, FlushFails, Shutdown,
         Inspect, ProcessCrash, Restart, SkipSegment, RecoverSegment, RecoveryRefused,
         FinishRecovery, OpenActive, vars, disk
    <2> QED
      BY <2>1, <2>2, <2>3, <2>4
  <1> QED
    BY <1>1, <1>2, <1>3, WalInvariant, PTL DEF Spec, SealedImmutable

-----------------------------------------------------------------------------
(***************************************************************************)
(* A recovery never refuses what a crash left, when no step of a Flush     *)
(* fails.                                                                  *)
(***************************************************************************)

\* The positions of a file that a recovery may scan.
Loose(s) == {n \in 1 .. Len(recs[s]) : ~Trusted(s)}

\* The one file whose name says "open" is the active one, or the next one, and
\* after a scan its row says so too.
NamesTrue ==
    /\ \A s, t \in SegIds : name[s] = "open" /\ name[t] = "open" => s = t
    /\ pc \in {"idle", "append", "commit", "reply", "seal"} => name[active.seg] = "open"
    /\ pc \in {"seal_row", "create"} => \A s \in SegIds : name[s] # "open"
    /\ pc = "seal_row" => segments[active.seg].state = "open"
    /\ pc = "create_row" => \A n \in SegIds : IsNextId(n) => name[n] = "open"
    /\ pc \in {"recover", "open"} => \A s \in SegIds :
          (pc = "recover" => s \notin todo) =>
              (name[s] = "open" <=> segments[s].state = "open")

\* An incomplete line is at the end of an open file, and goes with its scan.
TornOpen ==
    \A s \in SegIds : torn[s] =>
        name[s] = "open" /\ (pc = "down" \/ (pc = "recover" /\ s \in todo))

\* No id is twice in the files to scan.
LooseOnce ==
    \A s, t \in SegIds : \A n \in Loose(s), m \in Loose(t) :
        recs[s][n].id = recs[t][m].id => s = t /\ n = m

\* A locator of a record in such a file points at that record.
IsPlace(l, s, n) == l.seg # 0 => l.seg = s /\ l.pos = n
LoosePlaced ==
    \A s \in SegIds : \A n \in Loose(s) :
        /\ IsPlace(captures[recs[s][n].id], s, n)
        /\ IsPlace(staged[recs[s][n].id], s, n)

\* Every record there has a row, or will get one from its batch or a scan.
LooseHave ==
    \A s \in SegIds : \A n \in Loose(s) :
        \/ Known(recs[s][n].id)
        \/ Uncommitted /\ staged[recs[s][n].id].seg # 0
        \/ pc = "down" \/ (pc = "recover" /\ s \in todo)

AcceptInv == RecoveryAccepts /\ NamesTrue /\ TornOpen /\ LooseOnce /\ LoosePlaced /\ LooseHave

\* The steps that change a file or a row.
LEMMA DurableSteps ==
    ASSUME [Next]_vars
    PROVE  \/ UNCHANGED <<name, recs, torn, captures, segments>>
           \/ Append1 \/ CommitBatch \/ SealRename \/ SealRow \/ CreateFile \/ CreateRow
           \/ ProcessCrash \/ PowerCrash \/ \E s \in SegIds : RecoverSegment(s)
  BY DEF Next, TakeBatch, Classify, RotateInBatch, SyncBatch, Reply, CreateRefused, Flush,
     FlushFails, Shutdown, Inspect, Restart, SkipSegment, RecoveryRefused, FinishRecovery,
     OpenActive, vars, disk, ledger

\* While a file is loaded as active its segment exists.
LEMMA ActiveSegment ==
    ASSUME WalInv, pc \in {"idle", "append", "commit", "reply", "seal", "seal_row"}
    PROVE  /\ active.seg \in SegIds /\ active.bytes = Len(recs[active.seg])
           /\ active.state # "none" /\ recs[active.seg] \in Seq(Record)
           /\ Len(recs[active.seg]) \in Nat
  <1>1. active.seg \in SegIds
    BY DEF WalInv, ActiveCounts, TypeOK, SegIds
  <1>2. recs[active.seg] \in Seq(Record)
    BY <1>1 DEF WalInv, TypeOK
  <1>3. Len(recs[active.seg]) \in Nat
    BY <1>2, LenProperties
  <1> QED
    BY <1>1, <1>2, <1>3 DEF WalInv, ActiveCounts

\* Files keep the names that the writer and the ledger expect.
LEMMA NamesStep ==
    ASSUME "flush" \notin Faults, WalInv, SealInv, NamesTrue, [Next]_vars
    PROVE  NamesTrue'
  <1> USE DEF disk, ledger, task, scan, NamesTrue
  <1>0. /\ TypeOK /\ RowsHaveFiles /\ ActiveOpen /\ OnlyNextLacksRow
        /\ \A s \in SegIds : name[s] \in {"absent", "open", "sealed"}
    BY DEF WalInv, SealInv, TypeOK
  <1>1. ASSUME NEW b \in Batches, TakeBatch(b) PROVE NamesTrue'
    BY <1>1 DEF TakeBatch
  <1>2. CASE Classify \/ RotateInBatch \/ SyncBatch \/ Reply
    BY <1>2 DEF Classify, RotateInBatch, SyncBatch, Reply
  <1>3. CASE Append1
    BY <1>3, <1>0 DEF Append1, TypeOK
  <1>4. CASE CommitBatch
    BY <1>4 DEF CommitBatch
  <1>5. CASE SealRename
    <2>1. /\ active.seg \in SegIds /\ name[active.seg] = "open"
          /\ active' = [active EXCEPT !.state = "sealed", !.sha = active.bytes]
      BY <1>5, ActiveSegment DEF SealRename
    <2>2. \A s \in SegIds : name'[s] # "open"
      BY <1>0, <1>5, <2>1 DEF SealRename, TypeOK
    <2>3. active'.seg = active.seg /\ segments[active.seg].state = "open"
      BY <1>0, <1>5, <2>1 DEF SealRename, TypeOK, ActiveOpen
    <2> QED
      BY <1>5, <2>2, <2>3 DEF SealRename
  <1>6. CASE SealRow
    BY <1>6 DEF SealRow
  <1>7. CASE CreateFile
    <2>1. PICK n \in SegIds : IsNextId(n) /\ name' = [name EXCEPT ![n] = "open"]
      BY <1>7 DEF CreateFile
    <2>2. \A s \in SegIds : name'[s] = "open" => s = n
      BY <1>0, <1>7, <2>1 DEF CreateFile, TypeOK
    <2>3. \A k \in SegIds : IsNextId(k)' => k = n
      BY <1>7, <2>1, NextIdUnique DEF CreateFile, IsNextId
    <2>4. name'[n] = "open"
      BY <1>0, <2>1 DEF TypeOK
    <2> QED
      BY <1>7, <2>2, <2>3, <2>4 DEF CreateFile
  <1>8. CASE CreateRow
    <2>1. PICK n \in SegIds :
             /\ IsNextId(n)
             /\ active' = [seg |-> n, state |-> "open", bytes |-> 0, sha |-> 0]
      BY <1>8 DEF CreateRow
    <2>2. name[n] = "open" /\ active'.seg = n
      BY <1>8, <2>1 DEF CreateRow
    <2> QED
      BY <1>8, <2>2 DEF CreateRow
  <1>9. CASE CreateRefused
    <2>1. PICK n \in SegIds : IsNextId(n) /\ name[n] # "absent"
      BY <1>9 DEF CreateRefused
    <2>2. segments[n].state = "none"
      BY <2>1 DEF IsNextId, SegIds
    <2> QED
      BY <1>0, <1>9, <2>1, <2>2 DEF CreateRefused, OnlyNextLacksRow, Quiet
  <1>10. CASE Flush \/ FlushFails \/ Shutdown
    BY <1>10 DEF Flush, FlushFails, Shutdown
  <1>11. CASE Inspect \/ UNCHANGED vars
    BY <1>11 DEF Inspect, vars, IsNextId
  <1>12. CASE ProcessCrash \/ PowerCrash
    BY <1>12 DEF ProcessCrash, PowerCrash, LoseMemory
  <1>13. CASE Restart
    <2>1. \A s \in SegIds : s \notin todo' => name[s] = "absent" /\ segments[s].state = "none"
      BY <1>0, <1>13 DEF Restart, RowsHaveFiles
    <2> QED
      BY <1>13, <2>1 DEF Restart
  <1>14. ASSUME NEW s \in SegIds, SkipSegment(s) PROVE NamesTrue'
    BY <1>14 DEF SkipSegment, Trusted
  <1>15. ASSUME NEW s \in SegIds, RecoverSegment(s) PROVE NamesTrue'
    <2>1. /\ segments'[s] = ScannedRow(s) /\ \A t \in SegIds \ {s} : segments'[t] = segments[t]
          /\ pc = "recover" /\ UNCHANGED <<name, pc, active>> /\ todo' = todo \ {s}
      BY <1>0, <1>15 DEF RecoverSegment, TypeOK
    <2>2. segments'[s].state = "open" <=> name[s] = "open"
      BY <2>1 DEF ScannedRow
    <2> QED
      BY <2>1, <2>2
  <1>16. ASSUME NEW s \in SegIds, RecoveryRefused(s) PROVE NamesTrue'
    BY <1>16 DEF RecoveryRefused
  <1>17. CASE FinishRecovery
    BY <1>17 DEF FinishRecovery
  <1>18. CASE OpenActive
    <2>1. CASE OpenRows = {}
      BY <1>18, <2>1 DEF OpenActive, OpenRows
    <2>2. CASE OpenRows # {}
      <3>1. PICK s \in OpenRows :
               /\ active' = [seg |-> s, state |-> "open", bytes |-> segments[s].bytes, sha |-> 0]
               /\ pc' = IF OpenRows = {s} THEN "idle" ELSE "refused"
        BY <1>18, <2>2 DEF OpenActive
      <3>2. active'.seg = s /\ name[s] = "open"
        BY <1>18, <3>1 DEF OpenRows, OpenActive
      <3> QED
        BY <1>18, <3>1, <3>2 DEF OpenActive
    <2> QED
      BY <2>1, <2>2
  <1> QED
    BY <1>1, <1>2, <1>3, <1>4, <1>5, <1>6, <1>7, <1>8, <1>9, <1>10, <1>11, <1>12, <1>13,
       <1>14, <1>15, <1>16, <1>17, <1>18 DEF Next

\* No step of a recovery finds what makes it refuse.
LEMMA NoRefusal ==
    ASSUME WalInv, AcceptInv, [Next]_vars
    PROVE  RecoveryAccepts'
  <1> USE DEF AcceptInv, RecoveryAccepts
  <1>1. ASSUME NEW s \in SegIds, RecoveryRefused(s) PROVE FALSE
    <2>1. pc = "recover" /\ ~Trusted(s) /\ (ConflictIn(s) \/ (torn[s] /\ name[s] = "sealed"))
      BY <1>1 DEF RecoveryRefused
    <2>2. ConflictIn(s)
      BY <2>1 DEF TornOpen
    <2>10. PICK i \in Ids : \E m \in Positions(s, i) :
             \/ Known(i) /\ captures[i].payload # recs[s][m].payload
             \/ \E n \in Positions(s, i) : recs[s][n].payload # recs[s][m].payload
      BY <2>2 DEF ConflictIn
    <2>3. PICK m \in Positions(s, i) :
             \/ Known(i) /\ captures[i].payload # recs[s][m].payload
             \/ \E n \in Positions(s, i) : recs[s][n].payload # recs[s][m].payload
      BY <2>10
    <2>4. \A n \in Positions(s, i) : n \in Loose(s) /\ recs[s][n].id = i
      BY <2>1 DEF Positions, Loose
    <2>5. \A n \in Positions(s, i) : n = m
      BY <2>4 DEF LooseOnce
    <2>6. Known(i) /\ captures[i].payload # recs[s][m].payload
      BY <2>3, <2>5
    <2>7. captures[i].seg = s /\ captures[i].pos = m
      BY <2>4, <2>6 DEF LoosePlaced, IsPlace, Known
    <2>8. captures[i] # NoRow
      BY <2>6 DEF Known, NoRow
    <2>9. recs[s][m] = [id |-> i, payload |-> captures[i].payload]
      BY <2>7, <2>8, RowHere DEF WalInv
    <2> QED
      BY <2>6, <2>9
  <1>2. CASE OpenActive
    <2>1. ASSUME NEW s \in OpenRows, NEW t \in OpenRows PROVE s = t
      BY <1>2, <2>1 DEF OpenActive, OpenRows, NamesTrue
    <2> QED
      BY <1>2, <2>1 DEF OpenActive
  <1> QED
    BY <1>1, <1>2 DEF Next, TakeBatch, Classify, Append1, RotateInBatch, SyncBatch, CommitBatch,
       Reply, SealRename, SealRow, CreateFile, CreateRow, CreateRefused, Flush, FlushFails,
       Shutdown, Inspect, ProcessCrash, PowerCrash, LoseMemory, Restart, SkipSegment,
       RecoverSegment, FinishRecovery, vars

\* Only a crash leaves an incomplete line, and only in the open file.
LEMMA TornStep ==
    ASSUME WalInv, NamesTrue, TornOpen, [Next]_vars, RecoveryAccepts'
    PROVE  TornOpen'
  <1> USE DEF disk, ledger, task, scan, TornOpen
  <1>0. TypeOK /\ RowsHaveFiles /\ UnsyncedOnlyInBatch
    BY DEF WalInv
  <1>1. CASE CreateFile
    <2>1. PICK n \in SegIds : name[n] = "absent" /\ name' = [name EXCEPT ![n] = "open"]
      BY <1>1 DEF CreateFile
    <2> QED
      BY <1>0, <1>1, <2>1 DEF CreateFile, TypeOK
  <1>2. CASE SealRename
    BY <1>0, <1>2 DEF SealRename, TypeOK
  <1>3. CASE ProcessCrash
    <2>1. ASSUME NEW s \in SegIds, torn'[s] PROVE name[s] = "open"
      BY <1>3, <2>1 DEF ProcessCrash, LoseMemory, NamesTrue
    <2> QED
      BY <1>3, <2>1 DEF ProcessCrash, LoseMemory
  <1>4. CASE PowerCrash
    <2>1. PICK keep \in [SegIds -> 0 .. SegmentMax], cut \in BOOLEAN :
             /\ \A s \in SegIds : keep[s] \in synced[s] .. Len(recs[s])
             /\ torn' = [s \in SegIds |->
                           torn[s] \/ (cut /\ (\/ keep[s] < Len(recs[s])
                                               \/ s = active.seg /\ pc = "append"))]
      BY <1>4 DEF PowerCrash
    <2>2. ASSUME NEW s \in SegIds, torn'[s] PROVE name[s] = "open"
      <3>1. CASE torn[s]
        BY <3>1
      <3>2. CASE s = active.seg /\ pc = "append"
        BY <3>2 DEF NamesTrue
      <3>3. CASE keep[s] < Len(recs[s])
        <4>1. synced[s] \in Nat /\ recs[s] \in Seq(Record) /\ Len(recs[s]) \in Nat
          BY <1>0, LenProperties DEF TypeOK
        <4>2. synced[s] # Len(recs[s])
          BY <2>1, <3>3, <4>1
        <4>3. s = active.seg /\ pc \in {"append", "seal"}
          BY <1>0, <1>4, <4>2 DEF UnsyncedOnlyInBatch, PowerCrash
        <4> QED
          BY <4>3 DEF NamesTrue
      <3> QED
        BY <2>1, <2>2, <3>1, <3>2, <3>3
    <2> QED
      BY <1>4, <2>2 DEF PowerCrash, LoseMemory
  <1>5. CASE Restart
    <2>1. \A s \in SegIds : name[s] = "open" => s \in todo'
      BY <1>5 DEF Restart
    <2> QED
      BY <1>5, <2>1 DEF Restart
  <1>6. ASSUME NEW s \in SegIds, SkipSegment(s) PROVE TornOpen'
    BY <1>6 DEF SkipSegment, Trusted
  <1>7. ASSUME NEW s \in SegIds, RecoverSegment(s) PROVE TornOpen'
    BY <1>0, <1>7 DEF RecoverSegment, TypeOK
  <1>8. ASSUME NEW s \in SegIds, RecoveryRefused(s) PROVE TornOpen'
    BY <1>8 DEF RecoveryRefused, RecoveryAccepts
  <1>9. CASE FinishRecovery
    BY <1>9 DEF FinishRecovery
  <1>10. ASSUME UNCHANGED <<name, torn>>, pc \notin {"down", "recover"} PROVE TornOpen'
    BY <1>10
  <1>11. CASE UNCHANGED vars
    BY <1>11 DEF vars
  <1> QED
    BY <1>1, <1>2, <1>3, <1>4, <1>5, <1>6, <1>7, <1>8, <1>9, <1>10, <1>11 DEF Next, TakeBatch,
       Classify, Append1, RotateInBatch, SyncBatch, CommitBatch, Reply, SealRow, CreateRow,
       CreateRefused, Flush, FlushFails, Shutdown, Inspect, OpenActive

\* A file that the next recovery may trust stays so.
LEMMA TrustedStays ==
    ASSUME WalInv, SealInv, NamesTrue, TornOpen, [Next]_vars, NEW s \in SegIds, Trusted(s)
    PROVE  Trusted(s)'
  <1> USE DEF Trusted
  <1>0. TypeOK /\ UnsyncedOnlyInBatch /\ name[s] = "sealed" /\ segments[s].state = "sealed"
    BY DEF WalInv
  <1>1. ASSUME UNCHANGED <<name, recs, torn, captures, segments>> PROVE Trusted(s)'
    BY <1>1
  <1>2. CASE Append1
    <2>1. s # active.seg
      BY <1>0, <1>2 DEF Append1, NamesTrue
    <2> QED
      BY <1>0, <1>2, <2>1 DEF Append1, TypeOK, ledger
  <1>3. CASE CommitBatch
    <2>1. s # active.seg
      BY <1>0, <1>3 DEF CommitBatch, NamesTrue
    <2> QED
      BY <1>0, <1>3, <2>1 DEF CommitBatch, TypeOK, disk
  <1>4. CASE SealRename
    BY <1>0, <1>4 DEF SealRename, TypeOK, ledger
  <1>5. CASE SealRow
    <2>1. s # active.seg
      BY <1>0, <1>5 DEF SealRow, NamesTrue
    <2> QED
      BY <1>0, <1>5, <2>1 DEF SealRow, TypeOK, disk
  <1>6. CASE CreateFile
    BY <1>0, <1>6 DEF CreateFile, TypeOK, ledger
  <1>7. CASE CreateRow
    <2>1. PICK n \in SegIds :
             /\ IsNextId(n)
             /\ segments' = [segments EXCEPT ![n] = [NoSegment EXCEPT !.state = "open"]]
      BY <1>7 DEF CreateRow
    <2>2. s # n
      BY <1>0, <2>1 DEF IsNextId, SegIds
    <2> QED
      BY <1>0, <1>7, <2>1, <2>2 DEF CreateRow, TypeOK, disk
  <1>8. CASE ProcessCrash
    <2>1. ~(s = active.seg /\ pc = "append")
      BY <1>0 DEF NamesTrue
    <2> QED
      BY <1>8, <2>1 DEF ProcessCrash, LoseMemory, ledger
  <1>9. CASE PowerCrash
    <2>1. PICK keep \in [SegIds -> 0 .. SegmentMax], cut \in BOOLEAN :
             /\ \A t \in SegIds : keep[t] \in synced[t] .. Len(recs[t])
             /\ recs' = [t \in SegIds |-> SubSeq(recs[t], 1, keep[t])]
             /\ torn' = [t \in SegIds |->
                           torn[t] \/ (cut /\ (\/ keep[t] < Len(recs[t])
                                               \/ t = active.seg /\ pc = "append"))]
      BY <1>9 DEF PowerCrash
    <2>2. ~(s = active.seg /\ pc \in {"append", "seal"})
      BY <1>0 DEF NamesTrue
    <2>3. synced[s] = Len(recs[s]) /\ recs[s] \in Seq(Record) /\ Len(recs[s]) \in Nat
      BY <1>0, <1>9, <2>2, LenProperties DEF UnsyncedOnlyInBatch, PowerCrash, TypeOK
    <2>4. keep[s] = Len(recs[s])
      BY <2>1, <2>3
    <2>5. recs'[s] = SubSeq(recs[s], 1, Len(recs[s]))
      BY <2>1, <2>4
    <2>6. recs'[s] = recs[s]
      BY <2>3, <2>5
    <2>7. torn'[s] = (torn[s] \/ (cut /\ (\/ keep[s] < Len(recs[s])
                                          \/ s = active.seg /\ pc = "append")))
      BY <2>1
    <2>8. ~(keep[s] < Len(recs[s]))
      BY <2>3, <2>4
    <2>9. ~torn'[s]
      BY <2>2, <2>7, <2>8
    <2> QED
      BY <1>9, <2>6, <2>9 DEF PowerCrash, LoseMemory, ledger
  <1>10. ASSUME NEW t \in SegIds, RecoverSegment(t) PROVE Trusted(s)'
    <2>1. s # t
      BY <1>10 DEF RecoverSegment
    <2> QED
      BY <1>0, <1>10, <2>1 DEF RecoverSegment, TypeOK
  <1> QED
    BY <1>1, <1>2, <1>3, <1>4, <1>5, <1>6, <1>7, <1>8, <1>9, <1>10, DurableSteps

\* A record of a file was there before, or is appended now.
LEMMA RecordBefore ==
    ASSUME WalInv, [Next]_vars, NEW s \in SegIds, NEW n \in 1 .. Len(recs'[s])
    PROVE  \/ n \in 1 .. Len(recs[s]) /\ recs'[s][n] = recs[s][n]
           \/ /\ Append1 /\ s = active.seg /\ n = Len(recs[s]) + 1
              /\ recs'[s][n] = batch[cursor]
  <1>0. TypeOK /\ recs[s] \in Seq(Record) /\ Len(recs[s]) \in Nat
    BY LenProperties DEF WalInv, TypeOK
  <1>1. n \in 1 .. Len(recs'[s])
    OBVIOUS
  <1>2. CASE UNCHANGED recs
    BY <1>1, <1>2
  <1>3. CASE Append1
    <2>1. recs' = [recs EXCEPT ![active.seg] = Append(@, batch[cursor])] /\ active.seg \in SegIds
      BY <1>3, ActiveSegment DEF Append1
    <2>2. CASE s # active.seg
      BY <1>0, <1>1, <2>1, <2>2 DEF TypeOK
    <2>3. CASE s = active.seg
      <3>1. recs'[s] = Append(recs[s], batch[cursor])
        BY <1>0, <2>1, <2>3 DEF TypeOK
      <3>2. batch[cursor] \in Record
        BY <1>0, <1>3, ElementOfSeq DEF Append1, AtFresh, TypeOK
      <3>3. /\ Len(recs'[s]) = Len(recs[s]) + 1 /\ recs'[s][Len(recs[s]) + 1] = batch[cursor]
            /\ \A k \in 1 .. Len(recs[s]) : recs'[s][k] = recs[s][k]
        BY <1>0, <3>1, <3>2, AppendProperties
      <3>4. n \in 1 .. Len(recs[s]) \/ n = Len(recs[s]) + 1
        BY <1>0, <1>1, <3>3
      <3> QED
        BY <1>1, <1>3, <2>3, <3>3, <3>4
    <2> QED
      BY <2>2, <2>3
  <1>4. CASE PowerCrash
    <2>1. PICK keep \in [SegIds -> 0 .. SegmentMax] :
             /\ \A t \in SegIds : keep[t] \in synced[t] .. Len(recs[t])
             /\ recs' = [t \in SegIds |-> SubSeq(recs[t], 1, keep[t])]
      BY <1>4 DEF PowerCrash
    <2>2. keep[s] \in Nat /\ keep[s] <= Len(recs[s]) /\ recs'[s] = SubSeq(recs[s], 1, keep[s])
      BY <1>0, <2>1 DEF TypeOK
    <2>3. Len(recs'[s]) = keep[s] /\ \A k \in 1 .. keep[s] : recs'[s][k] = recs[s][k]
      BY <1>0, <2>2, SubSeqProperties
    <2> QED
      BY <1>0, <1>1, <2>2, <2>3
  <1>5. UNCHANGED recs \/ Append1 \/ PowerCrash
    BY DurableSteps DEF CommitBatch, SealRename, SealRow, CreateFile, CreateRow, ProcessCrash,
       RecoverSegment, disk
  <1> QED
    BY <1>2, <1>3, <1>4, <1>5

\* So is a record of a file to scan.
LEMMA LooseBefore ==
    ASSUME WalInv, SealInv, NamesTrue, TornOpen, [Next]_vars,
           NEW s \in SegIds, NEW n \in Loose(s)'
    PROVE  \/ n \in Loose(s) /\ recs'[s][n] = recs[s][n]
           \/ /\ Append1 /\ s = active.seg /\ n = Len(recs[s]) + 1
              /\ recs'[s][n] = batch[cursor]
  <1>1. ~Trusted(s) /\ n \in 1 .. Len(recs'[s])
    BY TrustedStays DEF Loose
  <1> QED
    BY <1>1, RecordBefore DEF Loose

\* The record that is being appended is not in the files to scan.
LEMMA AppendedIsNew ==
    ASSUME TypeOK, LooseHave, Append1, NEW s \in SegIds, NEW n \in Loose(s)
    PROVE  /\ batch[cursor] \in Record /\ recs[s][n] \in Record
           /\ recs[s][n].id # batch[cursor].id
  <1>1. batch[cursor] \in Record /\ recs[s] \in Seq(Record) /\ n \in 1 .. Len(recs[s])
    BY ElementOfSeq DEF Append1, AtFresh, TypeOK, Loose
  <1>2. recs[s][n] \in Record
    BY <1>1, ElementOfSeq
  <1>3. pc = "append" /\ ~Known(batch[cursor].id) /\ staged[batch[cursor].id].seg = 0
    BY DEF Append1, AtFresh
  <1> QED
    BY <1>1, <1>2, <1>3 DEF LooseHave

\* A record is appended once: its id is not in the files to scan.
LEMMA LooseOnceStep ==
    ASSUME WalInv, SealInv, AcceptInv, [Next]_vars
    PROVE  LooseOnce'
  <1> SUFFICES ASSUME NEW s \in SegIds, NEW t \in SegIds, NEW n \in Loose(s)', NEW m \in Loose(t)',
                      recs'[s][n].id = recs'[t][m].id
               PROVE  s = t /\ n = m
    BY DEF LooseOnce
  <1>1. TypeOK /\ NamesTrue /\ TornOpen /\ LooseOnce /\ LooseHave
    BY DEF WalInv, AcceptInv
  <1>2. \/ n \in Loose(s) /\ recs'[s][n] = recs[s][n]
        \/ Append1 /\ s = active.seg /\ n = Len(recs[s]) + 1 /\ recs'[s][n] = batch[cursor]
    BY <1>1, LooseBefore
  <1>3. \/ m \in Loose(t) /\ recs'[t][m] = recs[t][m]
        \/ Append1 /\ t = active.seg /\ m = Len(recs[t]) + 1 /\ recs'[t][m] = batch[cursor]
    BY <1>1, LooseBefore
  <1>4. CASE n \in Loose(s) /\ m \in Loose(t) /\ recs'[s][n] = recs[s][n] /\ recs'[t][m] = recs[t][m]
    BY <1>1, <1>4 DEF LooseOnce
  <1>5. ASSUME Append1, n \in Loose(s) PROVE recs[s][n].id # batch[cursor].id
    BY <1>1, <1>5, AppendedIsNew
  <1>6. ASSUME Append1, m \in Loose(t) PROVE recs[t][m].id # batch[cursor].id
    BY <1>1, <1>6, AppendedIsNew
  <1> QED
    BY <1>2, <1>3, <1>4, <1>5, <1>6

\* What a step does to the batch under way.
LEMMA StagedSteps ==
    ASSUME [Next]_vars
    PROVE  Append1 \/ UNCHANGED staged \/ staged' = NothingStaged
  BY DEF Next, TakeBatch, Classify, RotateInBatch, SyncBatch, CommitBatch, Reply, SealRename,
     SealRow, CreateFile, CreateRow, CreateRefused, Flush, FlushFails, Shutdown, Inspect,
     ProcessCrash, PowerCrash, LoseMemory, Restart, SkipSegment, RecoverSegment,
     RecoveryRefused, FinishRecovery, OpenActive, vars, task

\* A row that a scan adds is of a record of the file it scans.
LEMMA AddedBy ==
    ASSUME TypeOK, NEW s \in SegIds, RecoverSegment(s), NEW i \in Ids, captures'[i] # captures[i]
    PROVE  /\ captures'[i].seg = s
           /\ captures'[i].pos \in Loose(s)
           /\ recs[s][captures'[i].pos].id = i
  <1>1. Positions(s, i) # {} /\ captures'[i] = RecoveredRow(s, i)
    BY RowsAfterScan
  <1>2. /\ captures'[i].seg = s
        /\ captures'[i].pos \in 1 .. Len(recs[s])
        /\ recs[s][captures'[i].pos] = [id |-> i, payload |-> captures'[i].payload]
    BY <1>1, RecoveredLocator
  <1> QED
    BY <1>2 DEF Loose, RecoverSegment

\* After the scan of a file each of its records has a row.
LEMMA AllAdded ==
    ASSUME TypeOK, NEW s \in SegIds, RecoverSegment(s), NEW i \in Ids, Positions(s, i) # {}
    PROVE  captures'[i].seg # 0
  <1>1. CASE Known(i)
    BY <1>1 DEF RecoverSegment, Known
  <1>2. CASE ~Known(i)
    <2>1. captures'[i] = RecoveredRow(s, i)
      BY <1>2, RowsAfterScan
    <2>2. captures'[i].seg = s
      BY <2>1, RecoveredLocator
    <2> QED
      BY <2>2 DEF SegIds
  <1> QED
    BY <1>1, <1>2

\* Commits and scans take locators from where the records are.
LEMMA LoosePlacedStep ==
    ASSUME WalInv, SealInv, AcceptInv, [Next]_vars
    PROVE  LoosePlaced'
  <1> SUFFICES ASSUME NEW s \in SegIds, NEW n \in Loose(s)'
               PROVE  /\ IsPlace(captures'[recs'[s][n].id], s, n)
                      /\ IsPlace(staged'[recs'[s][n].id], s, n)
    BY DEF LoosePlaced, IsPlace
  <1>1. TypeOK /\ NamesTrue /\ TornOpen /\ LooseOnce /\ LoosePlaced /\ LooseHave
    BY DEF WalInv, AcceptInv
  <1>2. CASE n \in Loose(s) /\ recs'[s][n] = recs[s][n]
    <2> DEFINE i == recs[s][n].id
    <2>1. i \in Ids
      <3>1. recs[s] \in Seq(Record) /\ n \in 1 .. Len(recs[s])
        BY <1>1, <1>2 DEF TypeOK, Loose
      <3>2. recs[s][n] \in Record
        BY <3>1, ElementOfSeq
      <3> QED
        BY <3>1, <3>2 DEF Record
    <2>2. IsPlace(captures[i], s, n) /\ IsPlace(staged[i], s, n)
      BY <1>1, <1>2 DEF LoosePlaced
    <2>3. \A t \in SegIds : \A m \in Loose(t) : recs[t][m].id = i => t = s /\ m = n
      BY <1>1, <1>2 DEF LooseOnce
    <2>4. ASSUME Append1 PROVE batch[cursor].id # i
      BY <1>1, <1>2, <2>4, AppendedIsNew
    <2> HIDE DEF i
    <2>5. IsPlace(captures'[i], s, n)
      <3>1. CASE CommitBatch
        <4>1. captures'[i] = staged[i] \/ captures'[i] = captures[i]
          BY <2>1, <3>1 DEF CommitBatch
        <4> QED
          BY <2>2, <4>1
      <3>2. ASSUME NEW t \in SegIds, RecoverSegment(t) PROVE IsPlace(captures'[i], s, n)
        <4>1. CASE captures'[i] = captures[i]
          BY <2>2, <4>1
        <4>2. CASE captures'[i] # captures[i]
          BY <1>1, <2>1, <2>3, <3>2, <4>2, AddedBy DEF IsPlace
        <4> QED
          BY <4>1, <4>2
      <3>3. CASE UNCHANGED captures
        BY <2>2, <3>3
      <3>4. CommitBatch \/ UNCHANGED captures \/ \E t \in SegIds : RecoverSegment(t)
        BY DurableSteps DEF Append1, SealRename, SealRow, CreateFile, CreateRow, ProcessCrash,
           PowerCrash, LoseMemory, ledger
      <3> QED
        BY <3>1, <3>2, <3>3, <3>4
    <2>6. IsPlace(staged'[i], s, n)
      <3>1. CASE Append1
        <4>1. staged'[i] = staged[i]
          BY <1>1, <2>1, <2>4, <3>1 DEF Append1, TypeOK
        <4> QED
          BY <2>2, <4>1
      <3>2. CASE staged' = NothingStaged
        <4>1. staged'[i].seg = 0
          BY <2>1, <3>2 DEF NothingStaged, NoRow
        <4> QED
          BY <4>1 DEF IsPlace
      <3>3. CASE UNCHANGED staged
        BY <2>2, <3>3
      <3> QED
        BY <3>1, <3>2, <3>3, StagedSteps
    <2> QED
      BY <1>2, <2>5, <2>6 DEF i
  <1>3. CASE /\ Append1 /\ s = active.seg /\ n = Len(recs[s]) + 1
             /\ recs'[s][n] = batch[cursor]
    <2>1. batch[cursor] \in Record /\ batch[cursor].id \in Ids
      <3>1. batch[cursor] \in Record
        BY <1>1, <1>3, ElementOfSeq DEF Append1, AtFresh, TypeOK
      <3> QED
        BY <3>1 DEF Record
    <2>2. captures'[batch[cursor].id].seg = 0
      BY <1>3 DEF Append1, AtFresh, Known, ledger
    <2>3. active.bytes = Len(recs[s])
      BY <1>3, ActiveSegment DEF Append1
    <2>4. staged'[batch[cursor].id].seg = s /\ staged'[batch[cursor].id].pos = n
      BY <1>1, <1>3, <2>1, <2>3 DEF Append1, TypeOK
    <2> QED
      BY <1>3, <2>2, <2>4 DEF IsPlace
  <1> QED
    BY <1>1, <1>2, <1>3, LooseBefore

\* No record of a file to scan is forgotten by the ledger.
LEMMA LooseHaveStep ==
    ASSUME WalInv, SealInv, AcceptInv, [Next]_vars
    PROVE  LooseHave'
  <1> USE DEF disk, ledger, task, scan
  <1> SUFFICES ASSUME NEW s \in SegIds, NEW n \in Loose(s)'
               PROVE  \/ captures'[recs'[s][n].id].seg # 0
                      \/ Uncommitted' /\ staged'[recs'[s][n].id].seg # 0
                      \/ pc' = "down" \/ (pc' = "recover" /\ s \in todo')
    BY DEF LooseHave, Known
  <1>1. /\ TypeOK /\ StagedFresh /\ RowsHaveFiles
        /\ NamesTrue /\ TornOpen /\ LooseOnce /\ LoosePlaced /\ LooseHave
    BY DEF WalInv, AcceptInv
  <1>2. CASE n \in Loose(s) /\ recs'[s][n] = recs[s][n]
    <2> DEFINE i == recs[s][n].id
    <2>1. i \in Ids /\ recs[s] # <<>> /\ n \in 1 .. Len(recs[s])
      <3>1. recs[s] \in Seq(Record) /\ n \in 1 .. Len(recs[s])
        BY <1>1, <1>2 DEF TypeOK, Loose
      <3>2. recs[s][n] \in Record
        BY <3>1, ElementOfSeq
      <3> QED
        BY <3>1, <3>2 DEF Record
    <2>2. ~Trusted(s) /\ recs[s][n].id = i
      BY <1>2 DEF Loose
    <2>3. \/ Known(i)
          \/ Uncommitted /\ staged[i].seg # 0
          \/ pc = "down" \/ (pc = "recover" /\ s \in todo)
      BY <1>1, <1>2 DEF LooseHave
    <2>4. ASSUME Append1 PROVE batch[cursor].id # i
      BY <1>1, <1>2, <2>4, AppendedIsNew
    <2> HIDE DEF i
    <2>5. CASE Known(i)
      <3>1. captures'[i] = captures[i]
        BY <1>1, <2>1, <2>5, RowsKept
      <3> QED
        BY <1>2, <2>2, <2>5, <3>1 DEF Known
    <2>6. CASE Uncommitted /\ staged[i].seg # 0
      <3>1. CASE Append1
        <4>1. staged'[i] = staged[i]
          BY <1>1, <2>1, <2>4, <3>1 DEF Append1, TypeOK
        <4> QED
          BY <1>2, <2>2, <2>6, <3>1, <4>1 DEF Append1, Uncommitted
      <3>2. CASE CommitBatch
        <4>1. captures'[i] = staged[i]
          BY <2>1, <2>6, <3>2 DEF CommitBatch, Staged
        <4> QED
          BY <1>2, <2>2, <2>6, <4>1 DEF Known
      <3>3. CASE pc' = "down"
        BY <3>3
      <3>4. CASE UNCHANGED staged /\ Uncommitted'
        BY <1>2, <2>2, <2>6, <3>4
      <3> QED
        BY <2>6, <3>1, <3>2, <3>3, <3>4 DEF Next, Uncommitted, TakeBatch, Classify, RotateInBatch,
           SyncBatch, Reply, SealRename, SealRow, CreateFile, CreateRow, CreateRefused, Flush,
           FlushFails, Shutdown, Inspect, ProcessCrash, PowerCrash, LoseMemory, Restart,
           SkipSegment, RecoverSegment, RecoveryRefused, FinishRecovery, OpenActive, vars
    <2>7. CASE pc = "down"
      <3>1. CASE Restart
        <4>1. name[s] # "absent"
          BY <1>1, <2>1 DEF RowsHaveFiles
        <4> QED
          BY <3>1, <4>1 DEF Restart
      <3>2. CASE pc' = "down"
        BY <3>2
      <3> QED
        BY <2>7, <3>1, <3>2 DEF Next, TakeBatch, Classify, Append1, RotateInBatch,
           SyncBatch, CommitBatch, Reply, SealRename, SealRow, CreateFile, CreateRow,
           CreateRefused, Flush, FlushFails, Shutdown, Inspect, ProcessCrash, PowerCrash,
           LoseMemory, SkipSegment, RecoverSegment, RecoveryRefused, FinishRecovery,
           OpenActive, vars
    <2>8. CASE pc = "recover" /\ s \in todo
      <3>1. ASSUME NEW t \in SegIds, RecoverSegment(t)
            PROVE  captures'[i].seg # 0 \/ (pc' = "recover" /\ s \in todo')
        <4>1. CASE s = t
          <5>1. Positions(s, i) # {}
            BY <2>1, <2>2 DEF Positions
          <5> QED
            BY <1>1, <2>1, <3>1, <4>1, <5>1, AllAdded
        <4>2. CASE s # t
          BY <2>8, <3>1, <4>2 DEF RecoverSegment
        <4> QED
          BY <4>1, <4>2
      <3>2. ASSUME NEW t \in SegIds, SkipSegment(t) PROVE pc' = "recover" /\ s \in todo'
        BY <2>2, <2>8, <3>2 DEF SkipSegment
      <3>3. pc' # "refused"
        BY NoRefusal DEF RecoveryAccepts
      <3>4. CASE pc' = "down" \/ (pc' = "recover" /\ s \in todo')
        BY <3>4
      <3> QED
        BY <1>2, <2>2, <2>8, <3>1, <3>2, <3>3, <3>4 DEF Next, TakeBatch, Classify, Append1, RotateInBatch,
           SyncBatch, CommitBatch, Reply, SealRename, SealRow, CreateFile, CreateRow,
           CreateRefused, Flush, FlushFails, Shutdown, Inspect, ProcessCrash, PowerCrash,
           LoseMemory, Restart, RecoveryRefused, FinishRecovery, OpenActive, vars
    <2> QED
      BY <2>3, <2>5, <2>6, <2>7, <2>8
  <1>3. CASE /\ Append1 /\ s = active.seg /\ n = Len(recs[s]) + 1
             /\ recs'[s][n] = batch[cursor]
    <2>1. batch[cursor] \in Record /\ batch[cursor].id \in Ids
      <3>1. batch[cursor] \in Record
        BY <1>1, <1>3, ElementOfSeq DEF Append1, AtFresh, TypeOK
      <3> QED
        BY <3>1 DEF Record
    <2>2. staged'[batch[cursor].id].seg = s /\ s # 0
      BY <1>1, <1>3, <2>1 DEF Append1, TypeOK, SegIds
    <2> QED
      BY <1>3, <2>2 DEF Append1, Uncommitted
  <1> QED
    BY <1>1, <1>2, <1>3, LooseBefore

\* Opening the store again never ends in an error of the recovery, whatever
\* the crashes of one kind, when no I/O step of a Flush fails.
THEOREM RecoveryAlwaysAccepts ==
    OneCrashKind /\ "flush" \notin Faults => (Spec => []RecoveryAccepts)
  <1> SUFFICES ASSUME OneCrashKind, "flush" \notin Faults PROVE Spec => []RecoveryAccepts
    OBVIOUS
  <1>1. Init => SealInv /\ AcceptInv
    <2> SUFFICES ASSUME Init PROVE SealInv /\ AcceptInv
      OBVIOUS
    <2>1. SealInv /\ RecoveryAccepts /\ NamesTrue /\ TornOpen
      BY DEF Init, SealInv, ActiveOpen, OnlyNextLacksRow, Quiet, RecoveryAccepts, NamesTrue, TornOpen
    <2>2. \A s \in SegIds : Loose(s) = {}
      BY DEF Init, Loose
    <2> QED
      BY <2>1, <2>2 DEF AcceptInv, LooseOnce, LoosePlaced, LooseHave
  <1>2. WalInv /\ SealInv /\ [Next]_vars => SealInv'
    BY SealStep
  <1>3. ASSUME WalInv, SealInv, AcceptInv, [Next]_vars
        PROVE  AcceptInv'
    <2>1. NamesTrue /\ TornOpen
      BY <1>3 DEF AcceptInv
    <2>2. RecoveryAccepts' /\ NamesTrue' /\ TornOpen'
      BY <1>3, <2>1, NoRefusal, NamesStep, TornStep
    <2>3. LooseOnce' /\ LoosePlaced' /\ LooseHave'
      BY <1>3, LooseOnceStep, LoosePlacedStep, LooseHaveStep
    <2> QED
      BY <2>2, <2>3 DEF AcceptInv
  <1>4. AcceptInv => RecoveryAccepts
    BY DEF AcceptInv
  <1> QED
    BY <1>1, <1>2, <1>3, <1>4, WalInvariant, PTL DEF Spec

-----------------------------------------------------------------------------
(***************************************************************************)
(* The ledger of an open store is complete, when a batch is one record and *)
(* a recovery runs to its end.                                             *)
(***************************************************************************)

\* No id is twice in the files.
PlacedOnce ==
    \A s, t \in SegIds : \A n \in 1 .. Len(recs[s]), m \in 1 .. Len(recs[t]) :
        recs[s][n].id = recs[t][m].id => s = t /\ n = m

\* What the row of a segment counts has locators; it counts nothing that is
\* not in the file under way.
RowCovers ==
    /\ \A s \in SegIds : \A n \in 1 .. Len(recs[s]) :
          n <= segments[s].bytes => Known(recs[s][n].id)
    /\ active.seg # 0 => segments[active.seg].bytes <= Len(recs[active.seg])

\* Every record has a row, or will get one from its batch or a scan.
AllHave ==
    \A s \in SegIds : \A n \in 1 .. Len(recs[s]) :
        \/ Known(recs[s][n].id)
        \/ pc \in {"append", "commit"} /\ staged[recs[s][n].id].seg # 0
        \/ pc \in {"down", "refused"} \/ (pc = "recover" /\ s \in todo)

\* A batch that meets a full segment has appended nothing.
OneAtATime ==
    /\ Len(batch) <= 1
    /\ Uncommitted /\ (pc = "append" => cursor = 1) /\ pc # "commit" => Staged = {}

\* The counters are right, or a recovery is about to recount.
Counted ==
    \/ pc = "refused" \/ (pc = "recover" /\ changed)
    \/ counters.captures = Cardinality(KnownIds)

CompleteInv == PlacedOnce /\ RowCovers /\ AllHave /\ OneAtATime /\ Counted

\* A record in a file is a record.
LEMMA RecordThere ==
    ASSUME TypeOK, NEW s \in SegIds, NEW n \in 1 .. Len(recs[s])
    PROVE  recs[s][n] \in Record /\ recs[s][n].id \in Ids
  <1>1. recs[s] \in Seq(Record)
    BY DEF TypeOK
  <1>2. recs[s][n] \in Record
    BY <1>1, ElementOfSeq
  <1> QED
    BY <1>2 DEF Record

\* A record is appended once: its id is in no file.
LEMMA PlacedOnceStep ==
    ASSUME WalInv, CompleteInv, [Next]_vars
    PROVE  PlacedOnce'
  <1> SUFFICES ASSUME NEW s \in SegIds, NEW t \in SegIds,
                      NEW n \in 1 .. Len(recs'[s]), NEW m \in 1 .. Len(recs'[t]),
                      recs'[s][n].id = recs'[t][m].id
               PROVE  s = t /\ n = m
    BY DEF PlacedOnce
  <1>1. TypeOK /\ PlacedOnce /\ AllHave
    BY DEF WalInv, CompleteInv
  <1>2. \/ n \in 1 .. Len(recs[s]) /\ recs'[s][n] = recs[s][n]
        \/ Append1 /\ s = active.seg /\ n = Len(recs[s]) + 1 /\ recs'[s][n] = batch[cursor]
    BY RecordBefore
  <1>3. \/ m \in 1 .. Len(recs[t]) /\ recs'[t][m] = recs[t][m]
        \/ Append1 /\ t = active.seg /\ m = Len(recs[t]) + 1 /\ recs'[t][m] = batch[cursor]
    BY RecordBefore
  <1>4. CASE /\ n \in 1 .. Len(recs[s]) /\ m \in 1 .. Len(recs[t])
             /\ recs'[s][n] = recs[s][n] /\ recs'[t][m] = recs[t][m]
    BY <1>1, <1>4 DEF PlacedOnce
  <1>5. ASSUME Append1
        PROVE  \A u \in SegIds : \A k \in 1 .. Len(recs[u]) : recs[u][k].id # batch[cursor].id
    <2>1. pc = "append" /\ ~Known(batch[cursor].id) /\ staged[batch[cursor].id].seg = 0
      BY <1>5 DEF Append1, AtFresh
    <2> QED
      BY <1>1, <2>1 DEF AllHave
  <1> QED
    BY <1>2, <1>3, <1>4, <1>5

\* A batch of one record rotates before its record is appended.
LEMMA OneAtATimeStep ==
    ASSUME BatchRecords = 1, TypeOK, OneAtATime, [Next]_vars
    PROVE  OneAtATime'
  <1> USE DEF disk, ledger, task, scan, OneAtATime, Uncommitted, Staged
  <1>1. NothingStaged = [i \in Ids |-> NoRow] /\ NoRow.seg = 0 /\ Len(<<>>) = 0
    BY DEF NothingStaged, NoRow
  <1>2. ASSUME NEW b \in Batches, TakeBatch(b) PROVE OneAtATime'
    <2>1. b \in [1 .. 1 -> Record]
      BY DEF Batches
    <2>2. Len(b) = 1
      BY <2>1
    <2> QED
      BY <1>1, <1>2, <2>2 DEF TakeBatch
  <1>3. CASE Append1 \/ Classify
    BY <1>3 DEF Append1, Classify, AtFresh, TypeOK
  <1>4. CASE RotateInBatch
    <2>1. cursor = 1
      <3>1. batch \in Seq(Record) /\ Len(batch) \in Nat /\ cursor \in Nat \ {0}
        BY LenProperties DEF TypeOK
      <3> QED
        BY <1>4, <3>1 DEF RotateInBatch, AtFresh
    <2> QED
      BY <1>4, <2>1 DEF RotateInBatch
  <1>5. CASE SyncBatch \/ CommitBatch
    BY <1>5 DEF SyncBatch, CommitBatch
  <1>6. CASE Reply \/ CreateRefused
    BY <1>1, <1>6 DEF Reply, CreateRefused
  <1>7. CASE SealRename \/ SealRow \/ CreateFile \/ CreateRow
    BY <1>7 DEF SealRename, SealRow, CreateFile, CreateRow
  <1>9. CASE Flush \/ FlushFails \/ Shutdown \/ Inspect \/ UNCHANGED vars
    BY <1>9 DEF Flush, FlushFails, Shutdown, Inspect, vars
  <1>10. CASE ProcessCrash \/ PowerCrash
    BY <1>1, <1>10 DEF ProcessCrash, PowerCrash, LoseMemory
  <1>11. CASE Restart \/ FinishRecovery \/ OpenActive
    BY <1>11 DEF Restart, FinishRecovery, OpenActive
  <1>12. ASSUME NEW s \in SegIds, SkipSegment(s) \/ RecoverSegment(s) \/ RecoveryRefused(s)
         PROVE  OneAtATime'
    BY <1>12 DEF SkipSegment, RecoverSegment, RecoveryRefused
  <1> QED
    BY <1>2, <1>3, <1>4, <1>5, <1>6, <1>7, <1>9, <1>10, <1>11, <1>12 DEF Next

\* The steps that load a segment, or change its file or its row.
LEMMA ActiveSteps ==
    ASSUME [Next]_vars
    PROVE  \/ Append1 \/ CommitBatch \/ SealRename \/ SealRow \/ CreateRow \/ OpenActive
           \/ \E s \in SegIds : RecoverSegment(s)
           \/ active' = NoActive
           \/ UNCHANGED <<recs, segments, active>>
  BY DEF Next, TakeBatch, Classify, RotateInBatch, SyncBatch, Reply, CreateFile, CreateRefused,
     Flush, FlushFails, Shutdown, Inspect, ProcessCrash, PowerCrash, LoseMemory, Restart,
     SkipSegment, RecoveryRefused, FinishRecovery, vars, disk, ledger

\* A row is written when the records it counts have theirs.
LEMMA RowCoversStep ==
    ASSUME WalInv, CompleteInv, [Next]_vars
    PROVE  RowCovers'
  <1> USE DEF disk, ledger, task, scan
  <1>1. /\ TypeOK /\ StagedFresh /\ ScannedCounts /\ ActiveCounts
        /\ RowCovers /\ AllHave /\ OneAtATime
    BY DEF WalInv, CompleteInv
  <1>2. ASSUME NEW s \in SegIds, NEW n \in 1 .. Len(recs'[s]), n <= segments'[s].bytes
        PROVE  captures'[recs'[s][n].id].seg # 0
    <2>1. CASE Append1 /\ s = active.seg /\ n = Len(recs[s]) + 1
      <3>1. segments' = segments /\ active.seg # 0 /\ segments[s].bytes \in Nat /\ Len(recs[s]) \in Nat
        BY <1>1, <2>1, ActiveSegment DEF Append1, TypeOK, SegmentRow, SegIds
      <3> QED
        BY <1>1, <1>2, <2>1, <3>1 DEF RowCovers
    <2>2. CASE n \in 1 .. Len(recs[s]) /\ recs'[s][n] = recs[s][n]
      <3> DEFINE i == recs[s][n].id
      <3>1. i \in Ids
        BY <1>1, <2>2, RecordThere
      <3>2. /\ n <= segments[s].bytes => Known(i)
            /\ pc \in {"commit", "seal_row"} =>
                 Known(i) \/ (pc = "commit" /\ staged[i].seg # 0)
        BY <1>1, <2>2 DEF RowCovers, AllHave
      <3>3. n \in Positions(s, i)
        BY <2>2 DEF Positions
      <3> HIDE DEF i
      <3>4. Known(i) => captures'[i].seg # 0
        BY <1>1, <3>1, RowsKept DEF Known
      <3>5. CASE CommitBatch
        <4>1. staged[i].seg # 0 => captures'[i] = staged[i]
          BY <3>1, <3>5 DEF CommitBatch, Staged
        <4> QED
          BY <3>2, <3>4, <3>5, <4>1, <2>2 DEF CommitBatch, i
      <3>6. CASE SealRow
        BY <3>2, <3>4, <3>6, <2>2 DEF SealRow, i
      <3>7. CASE CreateRow
        <4>1. PICK k \in SegIds : segments' = [segments EXCEPT ![k] = [NoSegment EXCEPT !.state = "open"]]
          BY <3>7 DEF CreateRow
        <4>2. segments'[s] = segments[s] \/ segments'[s].bytes = 0
          BY <1>1, <4>1 DEF TypeOK, NoSegment
        <4>3. n \in Nat /\ n >= 1
          BY <2>2
        <4> QED
          BY <1>2, <2>2, <3>2, <3>4, <4>2, <4>3 DEF i
      <3>8. ASSUME NEW t \in SegIds, RecoverSegment(t) PROVE captures'[i].seg # 0
        <4>1. CASE s = t
          BY <1>1, <3>1, <3>3, <3>8, <4>1, AllAdded
        <4>2. CASE s # t
          BY <1>1, <1>2, <3>2, <3>4, <3>8, <4>2 DEF RecoverSegment, TypeOK
        <4> QED
          BY <4>1, <4>2
      <3>9. CASE UNCHANGED segments
        BY <1>2, <2>2, <3>2, <3>4, <3>9 DEF i
      <3> QED
        BY <2>2, <3>5, <3>6, <3>7, <3>8, <3>9, DurableSteps DEF Append1, SealRename, CreateFile,
           ProcessCrash, PowerCrash, LoseMemory, i
    <2> QED
      BY <2>1, <2>2, RecordBefore
  <1>3. active'.seg # 0 => segments'[active'.seg].bytes <= Len(recs'[active'.seg])
    <2> SUFFICES ASSUME active'.seg # 0
                 PROVE  segments'[active'.seg].bytes <= Len(recs'[active'.seg])
      OBVIOUS
    <2>1. \A s \in SegIds : recs[s] \in Seq(Record) /\ Len(recs[s]) \in Nat
      BY <1>1, LenProperties DEF TypeOK
    <2>2. CASE Append1
      <3>1. /\ recs' = [recs EXCEPT ![active.seg] = Append(@, batch[cursor])]
            /\ active.seg \in SegIds /\ active'.seg = active.seg /\ segments' = segments
        BY <1>1, <2>2, ActiveSegment DEF Append1, TypeOK
      <3>2. batch[cursor] \in Record
        BY <1>1, <2>2, ElementOfSeq DEF Append1, AtFresh, TypeOK
      <3>3. Len(recs'[active.seg]) = Len(recs[active.seg]) + 1
        BY <1>1, <2>1, <3>1, <3>2, AppendProperties DEF TypeOK
      <3>4. segments[active.seg].bytes \in Nat /\ segments[active.seg].bytes <= Len(recs[active.seg])
        BY <1>1, <3>1 DEF RowCovers, TypeOK, SegmentRow, SegIds
      <3> QED
        BY <2>1, <3>1, <3>3, <3>4
    <2>3. CASE CommitBatch \/ SealRow
      <3>1. /\ active.seg \in SegIds /\ active.bytes = Len(recs[active.seg])
            /\ active'.seg = active.seg /\ recs' = recs
            /\ segments' = [segments EXCEPT ![active.seg] = RowOf(active)]
        BY <2>3, ActiveSegment DEF CommitBatch, SealRow, NoActive
      <3> QED
        BY <1>1, <2>1, <3>1 DEF TypeOK, RowOf
    <2>4. CASE CreateRow
      <3>1. PICK k \in SegIds :
               /\ segments' = [segments EXCEPT ![k] = [NoSegment EXCEPT !.state = "open"]]
               /\ active' = [seg |-> k, state |-> "open", bytes |-> 0, sha |-> 0]
        BY <2>4 DEF CreateRow
      <3>2. active'.seg = k /\ segments'[k].bytes = 0 /\ recs' = recs
        BY <1>1, <2>4, <3>1 DEF CreateRow, TypeOK, NoSegment
      <3> QED
        BY <2>1, <3>2
    <2>5. CASE OpenActive
      <3>1. CASE OpenRows = {}
        BY <1>1, <2>5, <3>1 DEF OpenActive, RowCovers
      <3>2. CASE OpenRows # {}
        <4>1. PICK s \in OpenRows : active' = [seg |-> s, state |-> "open",
                                               bytes |-> segments[s].bytes, sha |-> 0]
          BY <2>5, <3>2 DEF OpenActive
        <4>2. active'.seg = s /\ s \in SegIds /\ segments[s].bytes = Len(recs[s])
          BY <1>1, <2>5, <4>1 DEF OpenActive, OpenRows, ScannedCounts
        <4>3. recs' = recs /\ segments' = segments
          BY <2>5 DEF OpenActive
        <4> QED
          BY <2>1, <4>2, <4>3
      <3> QED
        BY <3>1, <3>2
    <2>6. ASSUME NEW s \in SegIds, RecoverSegment(s)
          PROVE  segments'[active'.seg].bytes <= Len(recs'[active'.seg])
      <3>1. active' = active /\ recs' = recs /\ active.seg \in SegIds
        BY <1>1, <2>6 DEF RecoverSegment, TypeOK, SegIds
      <3>2. segments'[s].bytes = Len(recs[s]) /\ \A u \in SegIds \ {s} : segments'[u] = segments[u]
        BY <1>1, <2>6 DEF RecoverSegment, TypeOK, ScannedRow
      <3> QED
        BY <1>1, <2>1, <3>1, <3>2 DEF RowCovers
    <2>7. CASE UNCHANGED <<recs, segments>> /\ active'.seg = active.seg
      BY <1>1, <2>7 DEF RowCovers
    <2>8. active' # NoActive
      BY DEF NoActive
    <2>9. CASE SealRename
      BY <1>1, <2>7, <2>9 DEF SealRename, TypeOK
    <2> QED
      BY <2>2, <2>3, <2>4, <2>5, <2>6, <2>7, <2>8, <2>9, ActiveSteps
  <1> QED
    BY <1>2, <1>3 DEF RowCovers, Known

\* No record is forgotten by the ledger.
LEMMA AllHaveStep ==
    ASSUME "recovery" \notin Faults, WalInv, CompleteInv, [Next]_vars
    PROVE  AllHave'
  <1> USE DEF disk, ledger, task, scan
  <1> SUFFICES ASSUME NEW s \in SegIds, NEW n \in 1 .. Len(recs'[s])
               PROVE  \/ captures'[recs'[s][n].id].seg # 0
                      \/ pc' \in {"append", "commit"} /\ staged'[recs'[s][n].id].seg # 0
                      \/ pc' \in {"down", "refused"} \/ (pc' = "recover" /\ s \in todo')
    BY DEF AllHave, Known
  <1>1. /\ TypeOK /\ StagedFresh /\ RowsHaveFiles
        /\ RowCovers /\ AllHave /\ OneAtATime
    BY DEF WalInv, CompleteInv
  <1>2. CASE n \in 1 .. Len(recs[s]) /\ recs'[s][n] = recs[s][n]
    <2> DEFINE i == recs[s][n].id
    <2>1. i \in Ids /\ recs'[s][n].id = i
      BY <1>1, <1>2, RecordThere
    <2>2. \/ Known(i)
          \/ pc \in {"append", "commit"} /\ staged[i].seg # 0
          \/ pc \in {"down", "refused"} \/ (pc = "recover" /\ s \in todo)
      BY <1>1, <1>2 DEF AllHave
    <2>3. n \in Positions(s, i)
      BY <1>2 DEF Positions
    <2>4. Trusted(s) => Known(i)
      BY <1>1, <1>2 DEF Trusted, RowCovers
    <2>5. recs[s] # <<>>
      BY <1>2
    <2> HIDE DEF i
    <2>6. CASE Known(i)
      <3>1. captures'[i] = captures[i]
        BY <1>1, <2>1, <2>6, RowsKept
      <3> QED
        BY <2>1, <2>6, <3>1 DEF Known
    <2>7. CASE pc \in {"append", "commit"} /\ staged[i].seg # 0
      <3>1. CASE Append1
        <4>1. staged'[i] = staged[i] \/ staged'[i].seg = active.seg
          BY <1>1, <2>1, <3>1 DEF Append1, TypeOK
        <4>2. active.seg # 0
          BY <3>1, ActiveSegment DEF Append1, SegIds
        <4> QED
          BY <2>1, <2>7, <3>1, <4>1, <4>2 DEF Append1
      <3>2. CASE CommitBatch
        <4>1. captures'[i] = staged[i]
          BY <2>1, <2>7, <3>2 DEF CommitBatch, Staged
        <4> QED
          BY <2>1, <2>7, <4>1
      <3>3. CASE RotateInBatch
        <4>1. cursor = 1
          <5>1. Len(batch) \in Nat /\ Len(batch) <= 1 /\ cursor \in Nat \ {0}
            BY <1>1, LenProperties DEF TypeOK, OneAtATime
          <5> QED
            BY <3>3, <5>1 DEF RotateInBatch, AtFresh
        <4>2. Staged = {}
          BY <1>1, <3>3, <4>1 DEF OneAtATime, RotateInBatch, Uncommitted
        <4> QED
          BY <2>1, <2>7, <4>2 DEF Staged
      <3>4. CASE pc' = "down"
        BY <3>4
      <3>5. CASE UNCHANGED staged /\ pc' \in {"append", "commit"}
        BY <2>1, <2>7, <3>5
      <3> QED
        BY <2>7, <3>1, <3>2, <3>3, <3>4, <3>5 DEF Next, TakeBatch, Classify,
           SyncBatch, Reply, SealRename, SealRow, CreateFile, CreateRow, CreateRefused, Flush,
           FlushFails, Shutdown, Inspect, ProcessCrash, PowerCrash, LoseMemory, Restart,
           SkipSegment, RecoverSegment, RecoveryRefused, FinishRecovery, OpenActive, vars
    <2>8. CASE pc \in {"down", "refused"}
      <3>1. CASE Restart
        <4>1. name[s] # "absent"
          BY <1>1, <2>5 DEF RowsHaveFiles
        <4> QED
          BY <3>1, <4>1 DEF Restart
      <3>2. CASE pc' \in {"down", "refused"}
        BY <3>2
      <3> QED
        BY <2>8, <3>1, <3>2 DEF Next, TakeBatch, Classify, Append1, RotateInBatch,
           SyncBatch, CommitBatch, Reply, SealRename, SealRow, CreateFile, CreateRow,
           CreateRefused, Flush, FlushFails, Shutdown, Inspect, ProcessCrash, PowerCrash,
           LoseMemory, SkipSegment, RecoverSegment, RecoveryRefused, FinishRecovery,
           OpenActive, vars
    <2>9. CASE pc = "recover" /\ s \in todo /\ ~Known(i)
      <3>1. ASSUME NEW t \in SegIds, RecoverSegment(t)
            PROVE  captures'[i].seg # 0 \/ (pc' = "recover" /\ s \in todo')
        <4>1. CASE s = t
          BY <1>1, <2>1, <2>3, <3>1, <4>1, AllAdded
        <4>2. CASE s # t
          BY <2>9, <3>1, <4>2 DEF RecoverSegment
        <4> QED
          BY <4>1, <4>2
      <3>2. ASSUME NEW t \in SegIds, SkipSegment(t) PROVE pc' = "recover" /\ s \in todo'
        BY <2>4, <2>9, <3>2 DEF SkipSegment
      <3>3. CASE pc' \in {"down", "refused"} \/ (pc' = "recover" /\ s \in todo')
        BY <3>3
      <3> QED
        BY <2>1, <2>9, <3>1, <3>2, <3>3 DEF Next, TakeBatch, Classify, Append1, RotateInBatch,
           SyncBatch, CommitBatch, Reply, SealRename, SealRow, CreateFile, CreateRow,
           CreateRefused, Flush, FlushFails, Shutdown, Inspect, ProcessCrash, PowerCrash,
           LoseMemory, Restart, RecoveryRefused, FinishRecovery, OpenActive, vars
    <2> QED
      BY <2>2, <2>6, <2>7, <2>8, <2>9
  <1>3. CASE /\ Append1 /\ s = active.seg /\ n = Len(recs[s]) + 1
             /\ recs'[s][n] = batch[cursor]
    <2>1. batch[cursor] \in Record /\ batch[cursor].id \in Ids
      <3>1. batch[cursor] \in Record
        BY <1>1, <1>3, ElementOfSeq DEF Append1, AtFresh, TypeOK
      <3> QED
        BY <3>1 DEF Record
    <2>2. staged'[batch[cursor].id].seg = s /\ s # 0
      BY <1>1, <1>3, <2>1 DEF Append1, TypeOK, SegIds
    <2> QED
      BY <1>3, <2>2 DEF Append1
  <1> QED
    BY <1>2, <1>3, RecordBefore

\* A transaction that adds rows counts them; a scan that adds some recounts.
LEMMA CountedStep ==
    ASSUME "recovery" \notin Faults, WalInv, Counted, [Next]_vars
    PROVE  Counted'
  <1> USE DEF disk, ledger, task, scan, Counted
  <1>1. TypeOK /\ StagedFresh
    BY DEF WalInv
  <1>2. CASE CommitBatch
    <2>1. KnownIds' = KnownIds \cup Staged
      <3>1. \A i \in Ids : captures'[i].seg # 0 <=> (captures[i].seg # 0 \/ i \in Staged)
        BY <1>2 DEF CommitBatch, Staged
      <3> QED
        BY <3>1 DEF KnownIds, Known, Staged
    <2>2. KnownIds \cap Staged = {}
      BY <1>1, <1>2 DEF CommitBatch, StagedFresh, Uncommitted, Staged, KnownIds
    <2>3. IsFiniteSet(KnownIds) /\ IsFiniteSet(Staged)
      BY ConstantsAssumption, FS_Subset DEF KnownIds, Staged
    <2>4. Cardinality(KnownIds \cup Staged) = Cardinality(KnownIds) + Cardinality(Staged)
      <3>1. Cardinality(KnownIds \cup Staged)
              = Cardinality(KnownIds) + Cardinality(Staged) - Cardinality(KnownIds \cap Staged)
        BY <2>3, FS_Union
      <3>2. Cardinality(KnownIds) \in Nat /\ Cardinality(Staged) \in Nat
        BY <2>3, FS_CardinalityType
      <3>3. Cardinality(KnownIds \cap Staged) = 0
        BY <2>2, FS_EmptySet
      <3> QED
        BY <3>1, <3>2, <3>3
    <2>5. counters'.captures = counters.captures + Cardinality(Staged)
      BY <1>1, <1>2 DEF CommitBatch, TypeOK
    <2>6. counters.captures = Cardinality(KnownIds)
      BY <1>2 DEF CommitBatch
    <2> QED
      BY <2>1, <2>4, <2>5, <2>6
  <1>3. CASE SealRow
    BY <1>1, <1>3 DEF SealRow, TypeOK, KnownIds, Known
  <1>4. CASE FinishRecovery
    <2>1. KnownIds' = KnownIds
      BY <1>4 DEF FinishRecovery, KnownIds, Known
    <2> QED
      BY <1>4, <2>1 DEF FinishRecovery
  <1>5. ASSUME NEW s \in SegIds, RecoverSegment(s) PROVE Counted'
    <2>1. captures' = captures => KnownIds' = KnownIds
      BY DEF KnownIds, Known
    <2> QED
      BY <1>5, <2>1 DEF RecoverSegment
  <1>6. ASSUME UNCHANGED <<captures, counters>>,
               \/ pc' = "refused"
               \/ pc' = "recover" /\ pc = "recover" /\ changed' = changed
               \/ pc \notin {"recover", "refused"}
        PROVE  Counted'
    <2>1. Cardinality(KnownIds)' = Cardinality(KnownIds) /\ counters' = counters
      BY <1>6 DEF KnownIds, Known
    <2>2. CASE pc' = "refused"
      BY <2>2
    <2>3. CASE pc' = "recover" /\ pc = "recover" /\ changed' = changed
      BY <1>6, <2>1, <2>3
    <2>4. CASE pc \notin {"recover", "refused"}
      BY <2>1, <2>4
    <2> QED
      BY <1>6, <2>2, <2>3, <2>4
  <1>7. CASE UNCHANGED vars
    BY <1>7 DEF vars, KnownIds, Known
  <1> QED
    BY <1>2, <1>3, <1>4, <1>5, <1>6, <1>7 DEF Next, TakeBatch, Classify, Append1, RotateInBatch,
       SyncBatch, Reply, SealRename, CreateFile, CreateRow, CreateRefused, Flush, FlushFails,
       Shutdown, Inspect, ProcessCrash, PowerCrash, LoseMemory, Recovering, Restart,
       SkipSegment, RecoveryRefused, OpenActive

\* An open store has a locator for each of its records and counts what it has,
\* whatever the crashes of one kind and the failures of a Flush, when a batch
\* is one record and no crash interrupts a recovery.
THEOREM LedgerAlwaysComplete ==
    OneCrashKind /\ BatchRecords = 1 /\ "recovery" \notin Faults
        => (Spec => []LedgerIsComplete)
  <1> SUFFICES ASSUME OneCrashKind, BatchRecords = 1, "recovery" \notin Faults
               PROVE  Spec => []LedgerIsComplete
    OBVIOUS
  <1>1. Init => CompleteInv
    <2> SUFFICES ASSUME Init PROVE CompleteInv
      OBVIOUS
    <2>1. PlacedOnce /\ RowCovers /\ AllHave
      BY DEF Init, PlacedOnce, RowCovers, AllHave, NoActive
    <2>2. OneAtATime
      BY DEF Init, OneAtATime, Uncommitted
    <2>3. KnownIds = {}
      BY DEF Init, KnownIds, Known, NoRow
    <2>4. Counted
      BY <2>3, FS_EmptySet DEF Init, Counted
    <2> QED
      BY <2>1, <2>2, <2>4 DEF CompleteInv
  <1>2. ASSUME WalInv, CompleteInv, [Next]_vars
        PROVE  CompleteInv'
    <2>1. TypeOK /\ OneAtATime /\ Counted
      BY <1>2 DEF WalInv, CompleteInv
    <2>2. PlacedOnce' /\ RowCovers' /\ AllHave'
      BY <1>2, PlacedOnceStep, RowCoversStep, AllHaveStep
    <2>3. OneAtATime' /\ Counted'
      BY <1>2, <2>1, OneAtATimeStep, CountedStep
    <2> QED
      BY <2>2, <2>3 DEF CompleteInv
  <1>3. ASSUME WalInv, CompleteInv PROVE LedgerIsComplete
    <2>1. TypeOK /\ RowsPoint /\ PlacedOnce /\ AllHave /\ Counted
      BY <1>3 DEF WalInv, CompleteInv
    <2>2. CountersMatch
      BY <2>1 DEF CountersMatch, Counted
    <2>3. LocatorCoverage
      <3> SUFFICES ASSUME pc = "idle", NEW s \in SegIds, NEW n \in 1 .. Len(recs[s])
                   PROVE  \E i \in Ids : captures[i].seg = s /\ captures[i].pos = n
        BY DEF LocatorCoverage
      <3>1. PICK i \in Ids : recs[s][n].id = i
        BY <2>1, RecordThere
      <3>2. captures[i] # NoRow
        BY <2>1, <3>1 DEF AllHave, Known, NoRow
      <3>3. /\ captures[i].seg \in SegIds
            /\ captures[i].pos \in 1 .. Len(recs[captures[i].seg])
            /\ recs[captures[i].seg][captures[i].pos] = [id |-> i, payload |-> captures[i].payload]
        BY <2>1, <3>2 DEF RowsPoint, PointsAt
      <3>4. recs[captures[i].seg][captures[i].pos].id = i
        BY <3>3
      <3> QED
        BY <2>1, <3>1, <3>3, <3>4 DEF PlacedOnce
    <2> QED
      BY <2>2, <2>3 DEF LedgerIsComplete
  <1> QED
    BY <1>1, <1>2, <1>3, WalInvariant, PTL DEF Spec

=============================================================================
