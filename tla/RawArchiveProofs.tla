--------------------------- MODULE RawArchiveProofs ---------------------------
(***************************************************************************)
(* An archive that was reported to be made can be restored, and the raw    *)
(* archive implements CommitLast, for any number of archives, segments,    *)
(* processes and faults.                                                   *)
(*                                                                         *)
(* The argument follows an archiver through its steps.  What the store     *)
(* holds stays while anyone archives, because a write is conditional and   *)
(* removals wait; and a checkpoint stays for ever.  So what an archiver    *)
(* has found before its commit is still so after it, whoever else writes.  *)
(***************************************************************************)
EXTENDS RawArchive, FiniteSetTheorems, SequenceTheorems, TLAPS

\* What an archiver relies on: in a repair that the archive is committed with
\* its own manifest, and from the verification on that the store is right.
ArchiverInv(p) ==
    LET a == archiver[p] IN
    /\ a.step \in {"repair", "reverify", "ok"} => checkpoint[a.id] = a.man
    /\ a.step \in {"commit", "ok"} => StoreRight(a.man, a.id)

\* What a restore has downloaded is of its manifest, and right.
RestorerInv(r) ==
    LET a == restorer[r] IN
    a.step = "download" =>
        /\ SequenceValid(a.man) /\ a.got \subseteq a.man.entries
        /\ \A e \in a.got : e.records = Records(e.sha)

\* What a restore leaves in place is the whole of one checkpoint.
OutputInv ==
    output # None =>
        /\ output.man = checkpoint[output.id] /\ output.files = output.man.entries
        /\ \A e \in output.files : e.records = Records(e.sha)
        /\ output.man.complete => Contiguous(IdsOf(output.man))

\* What an archiver still has to upload is in its manifest, and the manifest
\* names files of the log.
SourceInv(p) ==
    LET a == archiver[p] IN
    a.step # "idle" =>
        /\ a.todo \subseteq Keys(a.man)
        /\ \A e \in a.man.entries : e.id \in DOMAIN wal[e.shard]

ArchiveInv ==
    /\ ArchiveTypes
    /\ \A p \in Archivers : SourceInv(p) /\ ArchiverInv(p)
    /\ \A r \in Restorers : RestorerInv(r)
    /\ OutputInv

ArchiverRecords ==
    [step : Steps, id : Archives, man : Manifests, todo : SUBSET Contents]
RestorerRecords ==
    [step : {"download"}, id : Archives, man : Manifests, got : SUBSET Entries]

-----------------------------------------------------------------------------
(***************************************************************************)
(* Types.                                                                  *)
(***************************************************************************)

\* An archiver that is not idle has an archive and a manifest.
LEMMA BusyArchiver ==
    ASSUME ArchiveTypes, NEW p \in Archivers, archiver[p].step # "idle"
    PROVE  archiver[p] \in ArchiverRecords
BY DEF ArchiveTypes, ArchiverRecords, Idle

LEMMA BusyRestorer ==
    ASSUME ArchiveTypes, NEW r \in Restorers, restorer[r].step # "idle"
    PROVE  restorer[r] \in RestorerRecords
BY DEF ArchiveTypes, RestorerRecords, AtRest

\* An archiver goes on, or gives up.
LEMMA GoTyped ==
    ASSUME ArchiveTypes, NEW p \in Archivers, archiver[p].step # "idle",
           NEW step \in Steps, Go(p, step) \/ Fails(p)
    PROVE  archiver' \in [Archivers -> {Idle} \cup ArchiverRecords]
<1>1. archiver[p] \in ArchiverRecords
  BY BusyArchiver
<1>2. [archiver[p] EXCEPT !.step = step] \in ArchiverRecords
  BY <1>1 DEF ArchiverRecords
<1>3. archiver \in [Archivers -> {Idle} \cup ArchiverRecords]
  BY DEF ArchiveTypes, ArchiverRecords
<1>4. QED
  BY <1>2, <1>3 DEF Go, Fails

\* A sealed file that changes still has contents.
LEMMA BecomesTyped ==
    ASSUME ArchiveTypes, NEW s \in Shards, NEW n, NEW v \in {"grown", "altered"}, Becomes(s, n, v)
    PROVE  /\ wal' \in [Shards -> Seq(Contents)] /\ \A t \in Shards : Len(wal'[t]) <= MaxSealed
           /\ n \in 1 .. MaxSealed /\ wal[s][n] \in DataContents
           /\ [wal[s][n] EXCEPT !.ver = v] \in DataContents
           /\ mishaps' \in 0 .. MaxMishaps
<1>1. /\ wal \in [Shards -> Seq(Contents)] /\ wal[s] \in Seq(Contents)
      /\ Len(wal[s]) \in Nat /\ Len(wal[s]) <= MaxSealed
      /\ n \in 1 .. Len(wal[s]) /\ MaxSealed \in Nat
  BY ArchiveAssumption DEF ArchiveTypes, Becomes
<1>2. wal[s][n] \in DataContents
  BY <1>1 DEF Contents, Becomes
<1>3. [wal[s][n] EXCEPT !.ver = v] \in DataContents
  BY <1>2 DEF DataContents
<1>4. /\ [wal[s] EXCEPT ![n] = [wal[s][n] EXCEPT !.ver = v]] \in Seq(Contents)
      /\ Len([wal[s] EXCEPT ![n] = [wal[s][n] EXCEPT !.ver = v]]) = Len(wal[s])
  BY <1>1, <1>3, ExceptSeq DEF Contents
<1>5. wal' = [wal EXCEPT ![s] = [wal[s] EXCEPT ![n] = [wal[s][n] EXCEPT !.ver = v]]]
  BY <1>1 DEF Becomes
<1>6. wal' \in [Shards -> Seq(Contents)] /\ \A t \in Shards : Len(wal'[t]) <= MaxSealed
  BY <1>1, <1>4, <1>5 DEF ArchiveTypes
<1>7. mishaps' \in 0 .. MaxMishaps
  BY ArchiveAssumption DEF ArchiveTypes, Becomes, Fault
<1>8. QED
  BY <1>1, <1>2, <1>3, <1>6, <1>7

\* What is read of sealed files are entries.
LEMMA ReadingTyped ==
    ASSUME ArchiveTypes, NEW sn \in Sealed
    PROVE  Reading(sn) \in Entries /\ sn = <<sn[1], sn[2]>> /\ sn[1] \in Shards
<1> DEFINE s == sn[1]  n == sn[2]
<1>1. s \in Shards /\ n \in 1 .. MaxSealed /\ sn = <<s, n>> /\ n \in DOMAIN wal[s]
  BY DEF Sealed
<1>2. wal[s] \in Seq(Contents) /\ n \in 1 .. Len(wal[s]) /\ wal[s][n] \in Contents
  BY <1>1 DEF ArchiveTypes
<1>3. \A c : Records(c) \in 0 .. 2
  BY DEF Records, Length
<1>4. QED
  BY <1>1, <1>2, <1>3 DEF Reading, Entries

LEMMA BeginsTyped ==
    ASSUME ArchiveTypes, NEW p \in Archivers, NEW i \in Archives, NEW S \in SUBSET Sealed,
           NEW c \in BOOLEAN, NEW E \in SUBSET Entries, Begins(p, i, S, c, E)
    PROVE  archiver' \in [Archivers -> {Idle} \cup ArchiverRecords]
<1>1. {e.sha : e \in E} \in SUBSET Contents /\ [entries |-> E, complete |-> c] \in Manifests
  BY DEF Entries, Manifests
<1>2. [step |-> "look", id |-> i, todo |-> {e.sha : e \in E},
       man |-> [entries |-> E, complete |-> c]] \in ArchiverRecords
  BY <1>1 DEF ArchiverRecords, Steps
<1>3. archiver \in [Archivers -> {Idle} \cup ArchiverRecords]
  BY DEF ArchiveTypes, ArchiverRecords
<1>4. QED
  BY <1>2, <1>3 DEF Begins

\* The torn entry is one, too: a file that has grown has records.
LEMMA TornTyped ==
    ASSUME ArchiveTypes, NEW sn \in Sealed, Becomes(sn[1], sn[2], "grown")
    PROVE  [Reading(sn) EXCEPT !.sha.ver = "grown"] \in Entries
<1>1. Reading(sn) \in Entries /\ sn[1] \in Shards
  BY ReadingTyped
<1>2. [wal[sn[1]][sn[2]] EXCEPT !.ver = "grown"] \in Contents
  BY <1>1, BecomesTyped DEF Contents
<1>3. Reading(sn).sha = wal[sn[1]][sn[2]]
  BY DEF Reading
<1>4. [Reading(sn) EXCEPT !.sha.ver = "grown"]
         = [Reading(sn) EXCEPT !.sha = [Reading(sn).sha EXCEPT !.ver = "grown"]]
  BY <1>1 DEF Entries
<1>5. QED
  BY <1>1, <1>2, <1>3, <1>4 DEF Entries

\* A set of naturals has a least member: the intervals up to its members are
\* ordered by inclusion, and a least one of them is of a least member.
LEMMA LeastMember ==
    ASSUME NEW T \in SUBSET Nat, T # {}
    PROVE  \E m \in T : \A n \in T : m <= n
<1> DEFINE Z == {1 .. n : n \in T}
<1>1. Z \subseteq FiniteSubsetsOf(Nat)
  <2>1. ASSUME NEW n \in T
        PROVE  1 .. n \in FiniteSubsetsOf(Nat)
    <3>1. IsFiniteSet(1 .. n)
      BY FS_Interval
    <3>2. 1 .. n \in SUBSET Nat
      OBVIOUS
    <3>3. QED
      BY <3>1, <3>2 DEF FiniteSubsetsOf
  <2>2. QED
    BY <2>1
<1>2. \E x \in Z : \A y \in Z : ~(<<y, x>> \in StrictSubsetOrdering(Nat))
  <2>1. Z # {}
    OBVIOUS
  <2>2. IsWellFoundedOn(StrictSubsetOrdering(Nat), FiniteSubsetsOf(Nat))
    BY FS_StrictSubsetOrderingWellFounded
  <2> HIDE DEF Z
  <2>3. QED
    BY <1>1, <2>1, <2>2, WFMin
<1>3. PICK m \in T : \A n \in T : ~(<<1 .. n, 1 .. m>> \in StrictSubsetOrdering(Nat))
  BY <1>2
<1>4. ASSUME NEW n \in T, n < m
      PROVE  <<1 .. n, 1 .. m>> \in StrictSubsetOrdering(Nat)
  <2>1. 1 .. n \in SUBSET Nat /\ 1 .. m \in SUBSET Nat /\ 1 .. n \subseteq 1 .. m
    BY <1>4
  <2>2. m \in 1 .. m /\ m \notin 1 .. n
    BY <1>4
  <2>3. 1 .. n # 1 .. m
    BY <2>2
  <2>4. QED
    BY <2>1, <2>3 DEF StrictSubsetOrdering
<1> HIDE DEF Z
<1>5. ASSUME NEW n \in T
      PROVE  m <= n
  <2>1. m \in Nat /\ n \in Nat /\ ~(n < m)
    BY <1>3, <1>4
  <2>2. QED
    BY <2>1
<1>6. QED
  BY <1>5

\* The file a key is uploaded from is one of the files that had its digest.
LEMMA FileIsOne ==
    ASSUME NEW man \in Manifests, NEW key \in Keys(man)
    PROVE  \E e \in man.entries : e.sha = key /\ FileOf(man, key) = <<e.shard, e.id>>
<1> DEFINE files == {<<e.shard, e.id>> : e \in {x \in man.entries : x.sha = key}}
<1>1. PICK d \in man.entries : d.sha = key
  BY DEF Keys
<1> DEFINE T == {f[2] : f \in {g \in files : g[1] = d.shard}}
<1>2. T \in SUBSET Nat /\ T # {}
  <2>1. \A e \in man.entries : e.id \in Nat
    BY ArchiveAssumption DEF Manifests, Entries
  <2>2. \A g \in files : g[2] \in Nat
    BY <2>1
  <2>3. <<d.shard, d.id>> \in {g \in files : g[1] = d.shard}
    BY <1>1
  <2> HIDE DEF files
  <2>4. <<d.shard, d.id>>[2] \in T
    BY <2>3
  <2>5. QED
    BY <2>2, <2>4
<1>3. PICK m \in T : \A n \in T : m <= n
  <2> HIDE DEF T
  <2>1. QED
    BY <1>2, LeastMember
<1>4. PICK f \in files : f[1] = d.shard /\ f[2] = m
  OBVIOUS
<1>5. \A g \in files : f[1] = g[1] => f[2] <= g[2]
  BY <1>3, <1>4
<1>6. FileOf(man, key) \in files
  BY <1>4, <1>5 DEF FileOf
<1>7. QED
  BY <1>6

\* What is uploaded is the content of a file of the log.
LEMMA UploadTyped ==
    ASSUME ArchiveTypes, NEW p \in Archivers, SourceInv(p), NEW key \in archiver[p].todo,
           EnsureObject(p, key)
    PROVE  /\ key \in Contents /\ archiver[p] \in ArchiverRecords
           /\ \E there \in Contents :
                 /\ objects[key] # None => there = objects[key]
                 /\ objects' = [objects EXCEPT ![key] = there]
<1>1. archiver[p] \in ArchiverRecords
  BY BusyArchiver DEF EnsureObject
<1>2. key \in Contents /\ key \in Keys(archiver[p].man) /\ archiver[p].man \in Manifests
  BY <1>1 DEF ArchiverRecords, SourceInv, EnsureObject
<1> DEFINE f == FileOf(archiver[p].man, key)
           there == IF objects[key] = None THEN wal[f[1]][f[2]] ELSE objects[key]
<1>3. PICK e \in archiver[p].man.entries : f = <<e.shard, e.id>>
  BY <1>2, FileIsOne
<1>4. e \in Entries /\ e.id \in DOMAIN wal[e.shard] /\ e.shard \in Shards
  BY <1>2, <1>3 DEF SourceInv, EnsureObject, Manifests, Entries
<1>5. wal[e.shard] \in Seq(Contents) /\ wal[e.shard][e.id] \in Contents
  BY <1>4 DEF ArchiveTypes
<1>6. there \in Contents /\ (objects[key] # None => there = objects[key])
  BY <1>2, <1>3, <1>5 DEF ArchiveTypes
<1>7. objects' = [objects EXCEPT ![key] = there]
  BY DEF EnsureObject
<1> HIDE DEF there
<1>8. QED
  BY <1>1, <1>2, <1>6, <1>7

\* Every step keeps the types.
LEMMA TypesKept ==
    ASSUME ArchiveTypes, \A p \in Archivers : SourceInv(p), [ArchiveNext]_archiveVars
    PROVE  ArchiveTypes'
<1> USE DEF store
<1>1. ASSUME NEW s \in Shards, NEW c \in Contents, Seal(s, c)
      PROVE  ArchiveTypes'
  <2>1. /\ wal[s] \in Seq(Contents) /\ Len(wal[s]) \in Nat /\ Len(wal[s]) < MaxSealed
        /\ MaxSealed \in Nat
    BY <1>1, ArchiveAssumption DEF ArchiveTypes, Seal
  <2>2. Append(wal[s], c) \in Seq(Contents) /\ Len(Append(wal[s], c)) <= MaxSealed
    BY <2>1, AppendProperties
  <2>3. wal' = [wal EXCEPT ![s] = Append(wal[s], c)]
    BY <1>1 DEF Seal
  <2>4. wal' \in [Shards -> Seq(Contents)] /\ \A t \in Shards : Len(wal'[t]) <= MaxSealed
    BY <2>2, <2>3 DEF ArchiveTypes
  <2>5. QED
    BY <1>1, <2>4 DEF ArchiveTypes, Seal
<1>2. ASSUME NEW s \in Shards, NEW n, NEW v \in {"grown", "altered"}, SourceChanges(s, n, v)
      PROVE  ArchiveTypes'
  <2>1. Becomes(s, n, v) /\ UNCHANGED <<store, archiver, restorer, output>>
    BY <1>2 DEF SourceChanges
  <2>2. /\ wal' \in [Shards -> Seq(Contents)] /\ \A t \in Shards : Len(wal'[t]) <= MaxSealed
        /\ mishaps' \in 0 .. MaxMishaps
    BY <2>1, BecomesTyped
  <2>3. QED
    BY <2>1, <2>2 DEF ArchiveTypes
<1>3. ASSUME NEW p \in Archivers, NEW i \in Archives, NEW S \in SUBSET Sealed, NEW c \in BOOLEAN,
             ArchiveRaw(p, i, S, c)
      PROVE  ArchiveTypes'
  <2>1. {Reading(sn) : sn \in S} \in SUBSET Entries
    BY ReadingTyped
  <2>2. archiver' \in [Archivers -> {Idle} \cup ArchiverRecords]
    BY <1>3, <2>1, BeginsTyped DEF ArchiveRaw
  <2>3. QED
    BY <1>3, <2>2 DEF ArchiveTypes, ArchiveRaw, Begins, ArchiverRecords
<1>4. ASSUME NEW p \in Archivers, NEW i \in Archives, NEW S \in SUBSET Sealed, NEW c \in BOOLEAN,
             NEW sn \in S, ArchiveTorn(p, i, S, c, sn)
      PROVE  ArchiveTypes'
  <2> DEFINE E == {Reading(x) : x \in S \ {sn}} \cup {[Reading(sn) EXCEPT !.sha.ver = "grown"]}
  <2>1. Becomes(sn[1], sn[2], "grown") /\ Begins(p, i, S, c, E) /\ sn[1] \in Shards
    BY <1>4, ReadingTyped DEF ArchiveTorn
  <2>2. E \in SUBSET Entries
    BY <2>1, ReadingTyped, TornTyped
  <2>3. archiver' \in [Archivers -> {Idle} \cup ArchiverRecords]
    BY <2>1, <2>2, BeginsTyped
  <2>4. /\ wal' \in [Shards -> Seq(Contents)] /\ \A t \in Shards : Len(wal'[t]) <= MaxSealed
        /\ mishaps' \in 0 .. MaxMishaps
    BY <2>1, BecomesTyped
  <2>5. UNCHANGED <<store, restorer, output>>
    BY <2>1 DEF Begins
  <2>6. QED
    BY <2>3, <2>4, <2>5 DEF ArchiveTypes, ArchiverRecords
<1>5. ASSUME NEW p \in Archivers, Archiving(p)
      PROVE  ArchiveTypes'
  <2>1. ASSUME Look(p)
        PROVE  ArchiveTypes'
    <3>1. archiver' \in [Archivers -> {Idle} \cup ArchiverRecords]
      BY <2>1, GoTyped DEF Look, Steps
    <3>2. QED
      BY <2>1, <3>1 DEF ArchiveTypes, Look, ArchiverRecords
  <2>2. ASSUME WriteManifest(p)
        PROVE  ArchiveTypes'
    <3>1. archiver' \in [Archivers -> {Idle} \cup ArchiverRecords]
      BY <2>2, GoTyped DEF WriteManifest, Steps
    <3>2. archiver[p] \in ArchiverRecords
      BY <2>2, BusyArchiver DEF WriteManifest
    <3>3. manifest' \in [Archives -> Manifests \cup {None}]
      BY <2>2, <3>2 DEF WriteManifest, ArchiveTypes, ArchiverRecords
    <3>4. QED
      BY <2>2, <3>1, <3>3 DEF ArchiveTypes, WriteManifest, ArchiverRecords
  <2>3. ASSUME Verify(p)
        PROVE  ArchiveTypes'
    <3>1. archiver' \in [Archivers -> {Idle} \cup ArchiverRecords]
      BY <2>3, GoTyped DEF Verify, Steps
    <3>2. QED
      BY <2>3, <3>1 DEF ArchiveTypes, Verify, ArchiverRecords
  <2>4. ASSUME WriteCheckpoint(p)
        PROVE  ArchiveTypes'
    <3>1. archiver' \in [Archivers -> {Idle} \cup ArchiverRecords]
      BY <2>4, GoTyped DEF WriteCheckpoint, Steps
    <3>2. archiver[p] \in ArchiverRecords
      BY <2>4, BusyArchiver DEF WriteCheckpoint
    <3>3. checkpoint' \in [Archives -> Manifests \cup {None}]
      BY <2>4, <3>2 DEF WriteCheckpoint, ArchiveTypes, ArchiverRecords
    <3>4. QED
      BY <2>4, <3>1, <3>3 DEF ArchiveTypes, WriteCheckpoint, ArchiverRecords
  <2>5. ASSUME Return(p)
        PROVE  ArchiveTypes'
    <3>1. archiver' \in [Archivers -> {Idle} \cup ArchiverRecords]
      BY <2>5, GoTyped DEF Return, Steps
    <3>2. QED
      BY <2>5, <3>1 DEF ArchiveTypes, Return, ArchiverRecords
  <2>6. ASSUME NEW key \in archiver[p].todo, EnsureObject(p, key)
        PROVE  ArchiveTypes'
    <3>1. archiver[p] \in ArchiverRecords
      BY <2>6, BusyArchiver DEF EnsureObject
    <3>2. objects' \in [Contents -> Contents \cup {None}]
      <4>1. PICK there \in Contents : objects' = [objects EXCEPT ![key] = there]
        BY <2>6, UploadTyped
      <4>2. QED
        BY <4>1 DEF ArchiveTypes
    <3>3. [archiver[p] EXCEPT !.todo = @ \ {key}] \in ArchiverRecords
      BY <3>1 DEF ArchiverRecords
    <3>4. archiver' \in [Archivers -> {Idle} \cup ArchiverRecords]
      BY <2>6, <3>3 DEF EnsureObject, Fails, ArchiveTypes, ArchiverRecords
    <3>5. QED
      BY <2>6, <3>2, <3>4 DEF ArchiveTypes, EnsureObject, ArchiverRecords
  <2>7. QED
    BY <1>5, <2>1, <2>2, <2>3, <2>4, <2>5, <2>6 DEF Archiving
<1>6. ASSUME NEW r \in Restorers, NEW i \in Archives, NEW b, NEW c, RestoreArchive(r, i, b, c)
      PROVE  ArchiveTypes'
  <2>1. [step |-> "download", id |-> i, man |-> manifest[i], got |-> {}] \in RestorerRecords
    BY <1>6 DEF RestoreArchive, ArchiveTypes, RestorerRecords
  <2>2. restorer' \in [Restorers -> {AtRest} \cup RestorerRecords]
    BY <1>6, <2>1 DEF RestoreArchive, ArchiveTypes, RestorerRecords
  <2>3. QED
    BY <1>6, <2>2 DEF ArchiveTypes, RestoreArchive, RestorerRecords
<1>7. ASSUME NEW r \in Restorers, NEW e \in Entries, Download(r, e)
      PROVE  ArchiveTypes'
  <2>1. restorer[r] \in RestorerRecords
    BY <1>7, BusyRestorer DEF Download
  <2>2. [restorer[r] EXCEPT !.got = @ \cup {e}] \in RestorerRecords
    BY <2>1 DEF RestorerRecords
  <2>3. restorer' \in [Restorers -> {AtRest} \cup RestorerRecords]
    BY <1>7, <2>2 DEF Download, Rest, ArchiveTypes, RestorerRecords
  <2>4. QED
    BY <1>7, <2>3 DEF ArchiveTypes, Download, RestorerRecords
<1>8. ASSUME NEW r \in Restorers, Publish(r)
      PROVE  ArchiveTypes'
  <2>1. restorer[r] \in RestorerRecords
    BY <1>8, BusyRestorer DEF Publish
  <2>2. output' \in {None} \cup [id : Archives, man : Manifests, files : SUBSET Entries]
    BY <1>8, <2>1 DEF Publish, ArchiveTypes, RestorerRecords
  <2>3. restorer' \in [Restorers -> {AtRest} \cup RestorerRecords]
    BY <1>8 DEF Publish, Rest, ArchiveTypes, RestorerRecords
  <2>4. QED
    BY <1>8, <2>2, <2>3 DEF ArchiveTypes, Publish, RestorerRecords
<1>9. ASSUME mishaps < MaxMishaps, mishaps' = mishaps + 1
      PROVE  mishaps' \in 0 .. MaxMishaps
  BY <1>9, ArchiveAssumption DEF ArchiveTypes
<1>10. ASSUME NEW p \in Archivers, ArchiverDies(p)
       PROVE  ArchiveTypes'
  BY <1>9, <1>10 DEF ArchiveTypes, ArchiverDies, Fails, Fault
<1>11. ASSUME NEW r \in Restorers, RestorerDies(r)
       PROVE  ArchiveTypes'
  BY <1>9, <1>11 DEF ArchiveTypes, RestorerDies, Rest, Fault
<1>12. ASSUME NEW key \in Contents, RemoveObject(key)
       PROVE  ArchiveTypes'
  BY <1>9, <1>12 DEF ArchiveTypes, RemoveObject, Fault
<1>13. ASSUME NEW i \in Archives, RemoveManifest(i)
       PROVE  ArchiveTypes'
  BY <1>9, <1>13 DEF ArchiveTypes, RemoveManifest, Fault
<1>14. CASE UNCHANGED archiveVars
  BY <1>14 DEF ArchiveTypes, archiveVars
<1>15. QED
  BY <1>1, <1>2, <1>3, <1>4, <1>5, <1>6, <1>7, <1>8, <1>10, <1>11, <1>12, <1>13, <1>14 DEF ArchiveNext

-----------------------------------------------------------------------------
(***************************************************************************)
(* What a step leaves as it is.                                            *)
(***************************************************************************)

\* The log only grows.
LogGrows == \A s \in Shards : DOMAIN wal[s] \subseteq DOMAIN wal'[s]

\* A checkpoint stays; and while anyone archives, so does everything else that
\* is in the store.
StoreKeeps ==
    /\ \A i \in Archives : checkpoint[i] # None => checkpoint'[i] = checkpoint[i]
    /\ ~Quiet =>
          /\ \A i \in Archives : manifest[i] # None => manifest'[i] = manifest[i]
          /\ \A c \in Contents : objects[c] # None => objects'[c] = objects[c]

\* A file that changes stays one.
LEMMA BecomesGrows ==
    ASSUME ArchiveTypes, NEW s, NEW n, NEW v, Becomes(s, n, v)
    PROVE  LogGrows
<1>1. wal \in [Shards -> Seq(Contents)]
  BY DEF ArchiveTypes
<1>2. CASE s \in Shards
  <2>1. wal[s] \in Seq(Contents)
    BY <1>1, <1>2
  <2>2. wal' = [wal EXCEPT ![s] = [wal[s] EXCEPT ![n] = [wal[s][n] EXCEPT !.ver = v]]]
    BY <1>1, <1>2 DEF Becomes
  <2>3. DOMAIN [wal[s] EXCEPT ![n] = [wal[s][n] EXCEPT !.ver = v]] = DOMAIN wal[s]
    OBVIOUS
  <2>4. QED
    BY <1>1, <1>2, <2>2, <2>3 DEF LogGrows
<1>3. CASE s \notin Shards
  BY <1>1, <1>3 DEF LogGrows, Becomes
<1>4. QED
  BY <1>2, <1>3

\* Every step keeps the log, and the store.
LEMMA StepKeeps ==
    ASSUME ArchiveTypes, \A p \in Archivers : SourceInv(p), [ArchiveNext]_archiveVars
    PROVE  LogGrows /\ StoreKeeps
<1> USE DEF store
<1>1. ASSUME UNCHANGED wal
      PROVE  LogGrows
  BY <1>1 DEF LogGrows
<1>2. ASSUME UNCHANGED store
      PROVE  StoreKeeps
  BY <1>2 DEF StoreKeeps
<1>3. ASSUME NEW s \in Shards, NEW c \in Contents, Seal(s, c)
      PROVE  LogGrows
  <2>1. wal \in [Shards -> Seq(Contents)] /\ wal[s] \in Seq(Contents)
    BY DEF ArchiveTypes
  <2>2. DOMAIN wal[s] \subseteq DOMAIN Append(wal[s], c)
    BY <2>1
  <2>3. wal' = [wal EXCEPT ![s] = Append(wal[s], c)]
    BY <1>3 DEF Seal
  <2>4. QED
    BY <2>1, <2>2, <2>3 DEF LogGrows
<1>4. ASSUME NEW p \in Archivers, Archiving(p)
      PROVE  LogGrows /\ StoreKeeps
  <2>1. CASE Look(p) \/ Verify(p) \/ Return(p)
    BY <1>1, <1>2, <2>1 DEF Look, Verify, Return
  <2>2. CASE WriteManifest(p)
    <3>1. \A i \in Archives : manifest[i] # None => manifest'[i] = manifest[i]
      BY <2>2 DEF WriteManifest, ArchiveTypes
    <3>2. UNCHANGED <<wal, objects, checkpoint>>
      BY <2>2 DEF WriteManifest
    <3>3. QED
      BY <3>1, <3>2 DEF LogGrows, StoreKeeps
  <2>3. CASE WriteCheckpoint(p)
    <3>1. \A i \in Archives : checkpoint[i] # None => checkpoint'[i] = checkpoint[i]
      BY <2>3 DEF WriteCheckpoint, ArchiveTypes
    <3>2. UNCHANGED <<wal, objects, manifest>>
      BY <2>3 DEF WriteCheckpoint
    <3>3. QED
      BY <3>1, <3>2 DEF LogGrows, StoreKeeps
  <2>4. ASSUME NEW key \in archiver[p].todo, EnsureObject(p, key)
        PROVE  LogGrows /\ StoreKeeps
    <3>1. PICK there \in Contents : /\ objects[key] # None => there = objects[key]
                                    /\ objects' = [objects EXCEPT ![key] = there]
      BY <2>4, UploadTyped
    <3>2. \A c \in Contents : objects[c] # None => objects'[c] = objects[c]
      BY <3>1 DEF ArchiveTypes
    <3>3. UNCHANGED <<wal, manifest, checkpoint>>
      BY <2>4 DEF EnsureObject
    <3>4. QED
      BY <3>2, <3>3 DEF LogGrows, StoreKeeps
  <2>5. QED
    BY <1>4, <2>1, <2>2, <2>3, <2>4 DEF Archiving
<1>5. ASSUME NEW key \in Contents, RemoveObject(key)
      PROVE  LogGrows /\ StoreKeeps
  BY <1>5 DEF RemoveObject, LogGrows, StoreKeeps
<1>6. ASSUME NEW i \in Archives, RemoveManifest(i)
      PROVE  LogGrows /\ StoreKeeps
  BY <1>6 DEF RemoveManifest, LogGrows, StoreKeeps
<1>7. ASSUME NEW s \in Shards, NEW n, NEW v, SourceChanges(s, n, v)
      PROVE  LogGrows /\ StoreKeeps
  BY <1>7, <1>2, BecomesGrows DEF SourceChanges
<1>8. ASSUME NEW p \in Archivers, NEW i, NEW S, NEW c,
             ArchiveRaw(p, i, S, c) \/ \E sn \in S : ArchiveTorn(p, i, S, c, sn)
      PROVE  LogGrows /\ StoreKeeps
  BY <1>8, <1>1, <1>2, BecomesGrows DEF ArchiveRaw, ArchiveTorn, Begins
<1>9. ASSUME NEW r \in Restorers,
             \/ \E i \in Archives, b, c \in BOOLEAN : RestoreArchive(r, i, b, c)
             \/ Publish(r) \/ RestorerDies(r) \/ \E e \in Entries : Download(r, e)
      PROVE  LogGrows /\ StoreKeeps
  BY <1>9, <1>1, <1>2 DEF RestoreArchive, Publish, RestorerDies, Download
<1>10. ASSUME NEW p \in Archivers, ArchiverDies(p)
       PROVE  LogGrows /\ StoreKeeps
  BY <1>10, <1>1, <1>2 DEF ArchiverDies
<1>11. ASSUME NEW s \in Shards, NEW c, Seal(s, c)
       PROVE  StoreKeeps
  BY <1>11, <1>2 DEF Seal
<1>12. CASE UNCHANGED archiveVars
  BY <1>12, <1>1, <1>2 DEF archiveVars
<1>13. QED
  BY <1>3, <1>4, <1>5, <1>6, <1>7, <1>8, <1>9, <1>10, <1>11, <1>12 DEF ArchiveNext

-----------------------------------------------------------------------------
(***************************************************************************)
(* What an archiver relies on.                                             *)
(***************************************************************************)

\* The store that was right is right as long as someone archives.
LEMMA StoreStaysRight ==
    ASSUME ArchiveTypes, StoreKeeps, ~Quiet, NEW man \in Manifests, NEW i \in Archives,
           StoreRight(man, i)
    PROVE  StoreRight(man, i)'
<1>1. manifest'[i] = man /\ SequenceValid(man)
  BY ArchiveAssumption DEF StoreRight, StoreKeeps
<1>2. ASSUME NEW e \in man.entries
      PROVE  ObjectRight(e)'
  <2>1. e.sha \in Contents /\ objects[e.sha] = e.sha /\ Records(e.sha) = e.records
    BY <1>2 DEF StoreRight, ObjectRight, Manifests, Entries
  <2>2. objects'[e.sha] = e.sha
    BY <2>1, ArchiveAssumption DEF StoreKeeps
  <2>3. QED
    BY <2>1, <2>2 DEF ObjectRight
<1>3. QED
  BY <1>1, <1>2 DEF StoreRight

\* Another process's step leaves an archiver what it relies on.
LEMMA ArchiverKept ==
    ASSUME ArchiveTypes, LogGrows, StoreKeeps, NEW p \in Archivers,
           SourceInv(p), ArchiverInv(p), archiver'[p] = archiver[p]
    PROVE  SourceInv(p)' /\ ArchiverInv(p)'
<1>1. CASE archiver[p].step = "idle"
  BY <1>1 DEF SourceInv, ArchiverInv
<1>2. CASE archiver[p].step # "idle"
  <2>1. archiver[p] \in ArchiverRecords /\ ~Quiet
    BY <1>2, BusyArchiver DEF Quiet
  <2>2. /\ archiver[p].id \in Archives /\ archiver[p].man \in Manifests
        /\ \A e \in archiver[p].man.entries : e.shard \in Shards
    BY <2>1 DEF ArchiverRecords, Manifests, Entries
  <2>3. SourceInv(p)'
    BY <1>2, <2>2 DEF SourceInv, LogGrows
  <2>4. checkpoint[archiver[p].id] = archiver[p].man
           => checkpoint'[archiver[p].id] = archiver[p].man
    BY <2>2, ArchiveAssumption DEF StoreKeeps
  <2>5. StoreRight(archiver[p].man, archiver[p].id)
           => StoreRight(archiver[p].man, archiver[p].id)'
    BY <2>1, <2>2, StoreStaysRight
  <2>6. ArchiverInv(p)'
    BY <2>4, <2>5 DEF ArchiverInv
  <2>7. QED
    BY <2>3, <2>6
<1>3. QED
  BY <1>1, <1>2

\* An archiver that begins names files of the log.
LEMMA BeginsSources ==
    ASSUME ArchiveTypes, LogGrows, NEW p \in Archivers, NEW i, NEW S \in SUBSET Sealed, NEW c,
           NEW E, Begins(p, i, S, c, E),
           \A e \in E : \E sn \in S : e.shard = sn[1] /\ e.id = sn[2]
    PROVE  SourceInv(p)' /\ ArchiverInv(p)'
<1>1. archiver'[p] = [step |-> "look", id |-> i, todo |-> {e.sha : e \in E},
                      man |-> [entries |-> E, complete |-> c]]
  BY DEF Begins, ArchiveTypes
<1>2. ArchiverInv(p)'
  BY <1>1 DEF ArchiverInv
<1>3. \A e \in E : e.shard \in Shards /\ e.id \in DOMAIN wal[e.shard]
  BY DEF Sealed
<1>4. archiver'[p].todo \subseteq Keys(archiver'[p].man)
  BY <1>1 DEF Keys
<1>5. SourceInv(p)'
  BY <1>1, <1>3, <1>4 DEF SourceInv, LogGrows
<1>6. QED
  BY <1>2, <1>5

\* An archiver's own step finds what it relies on next.
LEMMA ArchivingKept ==
    ASSUME ArchiveTypes, LogGrows, StoreKeeps, NEW p \in Archivers, SourceInv(p), ArchiverInv(p),
           Archiving(p)
    PROVE  SourceInv(p)' /\ ArchiverInv(p)'
<1> DEFINE a == archiver[p]
<1>1. /\ a \in ArchiverRecords /\ a.step # "idle" /\ ~Quiet
      /\ a.id \in Archives /\ a.man \in Manifests
  <2>1. a.step # "idle"
    BY DEF Archiving, Look, WriteManifest, Verify, WriteCheckpoint, Return, EnsureObject
  <2>2. QED
    BY <2>1, BusyArchiver DEF Quiet, ArchiverRecords
<1> PICK man \in Manifests, id \in Archives : man = a.man /\ id = a.id
  BY <1>1
<1>2. archiver \in [Archivers -> {Idle} \cup ArchiverRecords]
  BY DEF ArchiveTypes, ArchiverRecords
<1>3. /\ a.todo \subseteq Keys(a.man)
      /\ \A e \in a.man.entries : e.id \in DOMAIN wal'[e.shard]
  BY <1>1 DEF SourceInv, LogGrows, Manifests, Entries
<1>4. ASSUME archiver'[p] = Idle
      PROVE  SourceInv(p)' /\ ArchiverInv(p)'
  BY <1>4 DEF SourceInv, ArchiverInv, Idle
<1>5. ASSUME NEW step \in Steps, archiver'[p] = [a EXCEPT !.step = step],
             step \in {"repair", "reverify", "ok"} => checkpoint'[id] = man,
             step \in {"commit", "ok"} => StoreRight(man, id)'
      PROVE  SourceInv(p)' /\ ArchiverInv(p)'
  <2>1. /\ archiver'[p].step = step /\ archiver'[p].id = id
        /\ archiver'[p].man = man /\ archiver'[p].todo = a.todo
    BY <1>1, <1>5 DEF ArchiverRecords
  <2>2. SourceInv(p)'
    BY <1>3, <2>1 DEF SourceInv
  <2>3. ArchiverInv(p)'
    BY <1>5, <2>1 DEF ArchiverInv
  <2>4. QED
    BY <2>2, <2>3
<1>6. \A step : Go(p, step) => archiver'[p] = [a EXCEPT !.step = step]
  BY <1>2 DEF Go
<1>7. Fails(p) => archiver'[p] = Idle
  BY <1>2 DEF Fails
<1>8. checkpoint[id] = man => checkpoint'[id] = man
  BY <1>1, ArchiveAssumption DEF StoreKeeps
<1>9. StoreRight(man, id) => StoreRight(man, id)'
  BY <1>1, StoreStaysRight
<1>10. CASE Look(p)
  BY <1>4, <1>5, <1>6, <1>7, <1>8, <1>10 DEF Look, Steps
<1>11. CASE WriteManifest(p)
  BY <1>4, <1>5, <1>6, <1>7, <1>8, <1>11 DEF WriteManifest, Steps, ArchiverInv
<1>12. CASE Verify(p)
  BY <1>4, <1>5, <1>6, <1>7, <1>8, <1>9, <1>12 DEF Verify, Steps, ArchiverInv
<1>13. CASE WriteCheckpoint(p)
  BY <1>4, <1>5, <1>6, <1>7, <1>9, <1>13 DEF WriteCheckpoint, Steps, ArchiverInv
<1>14. CASE Return(p)
  BY <1>4, <1>7, <1>14 DEF Return
<1>15. ASSUME NEW key \in a.todo, EnsureObject(p, key)
       PROVE  SourceInv(p)' /\ ArchiverInv(p)'
  <2>1. CASE archiver' = [archiver EXCEPT ![p].todo = @ \ {key}]
    <3>1. archiver'[p] = [a EXCEPT !.todo = @ \ {key}]
      BY <1>2, <2>1
    <3>2. /\ archiver'[p].step = a.step /\ archiver'[p].id = id
          /\ archiver'[p].man = man /\ archiver'[p].todo \subseteq a.todo
      BY <1>1, <3>1 DEF ArchiverRecords
    <3>3. SourceInv(p)'
      BY <1>3, <3>2 DEF SourceInv
    <3>4. ArchiverInv(p)'
      BY <1>8, <1>9, <3>2 DEF ArchiverInv
    <3>5. QED
      BY <3>3, <3>4
  <2>2. CASE Fails(p)
    BY <1>4, <1>7, <2>2
  <2>3. QED
    BY <1>15, <2>1, <2>2 DEF EnsureObject
<1>16. QED
  BY <1>10, <1>11, <1>12, <1>13, <1>14, <1>15 DEF Archiving

\* Every step leaves every archiver what it relies on.
LEMMA ArchiversKept ==
    ASSUME ArchiveTypes, \A p \in Archivers : SourceInv(p) /\ ArchiverInv(p), [ArchiveNext]_archiveVars
    PROVE  \A p \in Archivers : SourceInv(p)' /\ ArchiverInv(p)'
<1> LogGrows /\ StoreKeeps
  BY StepKeeps
<1>1. TAKE q \in Archivers
<1>2. ASSUME archiver'[q] = archiver[q]
      PROVE  SourceInv(q)' /\ ArchiverInv(q)'
  BY <1>2, ArchiverKept
<1>3. ASSUME archiver'[q] = Idle
      PROVE  SourceInv(q)' /\ ArchiverInv(q)'
  BY <1>3 DEF SourceInv, ArchiverInv, Idle
<1>4. DOMAIN archiver = Archivers
  BY DEF ArchiveTypes
<1>5. ASSUME NEW p \in Archivers, NEW i \in Archives, NEW S \in SUBSET Sealed, NEW c \in BOOLEAN,
             ArchiveRaw(p, i, S, c) \/ \E sn \in S : ArchiveTorn(p, i, S, c, sn)
      PROVE  SourceInv(q)' /\ ArchiverInv(q)'
  <2>1. CASE p # q
    BY <1>2, <1>4, <1>5, <2>1 DEF ArchiveRaw, ArchiveTorn, Begins
  <2>2. CASE p = q /\ ArchiveRaw(p, i, S, c)
    <3> DEFINE E == {Reading(sn) : sn \in S}
    <3>1. Begins(p, i, S, c, E)
      BY <2>2 DEF ArchiveRaw
    <3>2. \A e \in E : \E sn \in S : e.shard = sn[1] /\ e.id = sn[2]
      BY DEF Reading
    <3>3. QED
      BY <2>2, <3>1, <3>2, BeginsSources
  <2>3. ASSUME p = q, NEW sn \in S, ArchiveTorn(p, i, S, c, sn)
        PROVE  SourceInv(q)' /\ ArchiverInv(q)'
    <3> DEFINE torn == [Reading(sn) EXCEPT !.sha.ver = "grown"]
               E == {Reading(x) : x \in S \ {sn}} \cup {torn}
    <3>1. Begins(p, i, S, c, E)
      BY <2>3 DEF ArchiveTorn
    <3>2. torn.shard = sn[1] /\ torn.id = sn[2]
      BY DEF Reading
    <3>3. \A x : Reading(x).shard = x[1] /\ Reading(x).id = x[2]
      BY DEF Reading
    <3> HIDE DEF torn
    <3>4. \A e \in E : \E x \in S : e.shard = x[1] /\ e.id = x[2]
      BY <3>2, <3>3
    <3> HIDE DEF E
    <3>5. QED
      BY <2>3, <3>1, <3>4, BeginsSources
  <2>4. QED
    BY <1>5, <2>1, <2>2, <2>3
<1>6. ASSUME NEW p \in Archivers, Archiving(p)
      PROVE  SourceInv(q)' /\ ArchiverInv(q)'
  <2>1. CASE p = q
    BY <1>6, <2>1, ArchivingKept
  <2>2. CASE p # q
    <3>1. archiver'[q] = archiver[q]
      BY <1>4, <1>6, <2>2
         DEF Archiving, Look, WriteManifest, Verify, WriteCheckpoint, Return, EnsureObject,
             Go, Fails
    <3>2. QED
      BY <1>2, <3>1
  <2>3. QED
    BY <2>1, <2>2
<1>7. ASSUME NEW p \in Archivers, ArchiverDies(p)
      PROVE  SourceInv(q)' /\ ArchiverInv(q)'
  BY <1>2, <1>3, <1>4, <1>7 DEF ArchiverDies, Fails
<1>8. ASSUME UNCHANGED archiver
      PROVE  SourceInv(q)' /\ ArchiverInv(q)'
  BY <1>2, <1>8
<1>9. QED
  BY <1>5, <1>6, <1>7, <1>8
     DEF ArchiveNext, Seal, SourceChanges, RestoreArchive, Publish, RestorerDies, Download,
         RemoveObject, RemoveManifest, archiveVars

-----------------------------------------------------------------------------
(***************************************************************************)
(* What a restore has, and leaves.                                         *)
(***************************************************************************)

\* Every step leaves every restore what it has.
LEMMA RestorersKept ==
    ASSUME ArchiveTypes, \A r \in Restorers : RestorerInv(r), [ArchiveNext]_archiveVars
    PROVE  \A r \in Restorers : RestorerInv(r)'
<1>1. TAKE q \in Restorers
<1>2. DOMAIN restorer = Restorers
  BY DEF ArchiveTypes
<1>3. ASSUME restorer'[q] = restorer[q]
      PROVE  RestorerInv(q)'
  BY <1>3 DEF RestorerInv, SequenceValid
<1>4. ASSUME restorer'[q] = AtRest
      PROVE  RestorerInv(q)'
  BY <1>4 DEF RestorerInv, AtRest
<1>5. ASSUME NEW r \in Restorers, NEW i, NEW b, NEW c, RestoreArchive(r, i, b, c)
      PROVE  RestorerInv(q)'
  <2>1. CASE r = q
    <3>1. /\ restorer'[q] = [step |-> "download", id |-> i, man |-> manifest[i], got |-> {}]
          /\ SequenceValid(manifest[i])
      BY <1>2, <1>5, <2>1 DEF RestoreArchive
    <3>2. QED
      BY <3>1 DEF RestorerInv, SequenceValid
  <2>2. CASE r # q
    BY <1>2, <1>3, <1>5, <2>2 DEF RestoreArchive
  <2>3. QED
    BY <2>1, <2>2
<1>6. ASSUME NEW r \in Restorers, NEW e \in Entries, Download(r, e)
      PROVE  RestorerInv(q)'
  <2>1. CASE r = q /\ ObjectRight(e)
    <3>1. restorer[q] \in RestorerRecords
      BY <1>6, <2>1, BusyRestorer DEF Download
    <3>2. restorer'[q] = [restorer[q] EXCEPT !.got = @ \cup {e}]
      BY <1>2, <1>6, <2>1 DEF Download
    <3>3. /\ restorer'[q].step = restorer[q].step /\ restorer'[q].man = restorer[q].man
          /\ restorer'[q].got = restorer[q].got \cup {e}
      BY <3>1, <3>2 DEF RestorerRecords
    <3>4. e \in restorer[q].man.entries /\ e.records = Records(e.sha)
      BY <1>6, <2>1 DEF Download, ObjectRight
    <3>5. QED
      BY <3>3, <3>4 DEF RestorerInv, SequenceValid
  <2>2. CASE r = q /\ ~ObjectRight(e)
    BY <1>2, <1>4, <1>6, <2>2 DEF Download, Rest
  <2>3. CASE r # q
    BY <1>2, <1>3, <1>6, <2>3 DEF Download, Rest
  <2>4. QED
    BY <2>1, <2>2, <2>3
<1>7. ASSUME NEW r \in Restorers, Publish(r) \/ RestorerDies(r)
      PROVE  RestorerInv(q)'
  BY <1>2, <1>3, <1>4, <1>7 DEF Publish, RestorerDies, Rest
<1>8. ASSUME UNCHANGED restorer
      PROVE  RestorerInv(q)'
  BY <1>3, <1>8
<1>9. QED
  BY <1>5, <1>6, <1>7, <1>8
     DEF ArchiveNext, Seal, SourceChanges, ArchiveRaw, ArchiveTorn, Begins, Archiving, Look,
         WriteManifest, Verify, WriteCheckpoint, Return, EnsureObject, ArchiverDies,
         RemoveObject, RemoveManifest, archiveVars

\* Every step leaves in place what a restore has put there, or replaces it with
\* a whole set.
LEMMA OutputKept ==
    ASSUME ArchiveTypes, StoreKeeps, \A r \in Restorers : RestorerInv(r), OutputInv, [ArchiveNext]_archiveVars
    PROVE  OutputInv'
<1>1. ASSUME UNCHANGED output
      PROVE  OutputInv'
  <2>1. CASE output = None
    BY <1>1, <2>1 DEF OutputInv
  <2>2. CASE output # None
    <3>1. output.man # None /\ output.id \in Archives
      BY <2>2, ArchiveAssumption DEF ArchiveTypes
    <3>2. checkpoint'[output.id] = output.man
      BY <2>2, <3>1 DEF OutputInv, StoreKeeps
    <3>3. QED
      BY <1>1, <2>2, <3>2 DEF OutputInv, Contiguous, IdsOf
  <2>3. QED
    BY <2>1, <2>2
<1>2. ASSUME NEW r \in Restorers, Publish(r), output' # output
      PROVE  OutputInv'
  <2>1. /\ checkpoint[restorer[r].id] = restorer[r].man /\ UNCHANGED checkpoint
        /\ restorer[r].got = restorer[r].man.entries /\ restorer[r].step = "download"
        /\ output' = [id |-> restorer[r].id, man |-> restorer[r].man, files |-> restorer[r].got]
    BY <1>2 DEF Publish, store
  <2>2. /\ SequenceValid(restorer[r].man)
        /\ \A e \in restorer[r].got : e.records = Records(e.sha)
    BY <2>1 DEF RestorerInv
  <2>3. QED
    BY <2>1, <2>2 DEF OutputInv, SequenceValid, Contiguous, IdsOf
<1>3. QED
  BY <1>1, <1>2
     DEF ArchiveNext, Seal, SourceChanges, ArchiveRaw, ArchiveTorn, Begins, Archiving, Look,
         WriteManifest, Verify, WriteCheckpoint, Return, EnsureObject, ArchiverDies,
         RestoreArchive, Download, RestorerDies, RemoveObject, RemoveManifest, archiveVars

-----------------------------------------------------------------------------
(***************************************************************************)
(* The theorems.                                                           *)
(***************************************************************************)

LEMMA ArchiveStarts == ArchiveInit => ArchiveInv
<1> SUFFICES ASSUME ArchiveInit PROVE ArchiveInv
  OBVIOUS
<1>1. ArchiveTypes
  <2>1. wal \in [Shards -> Seq(Contents)] /\ \A s \in Shards : Len(wal[s]) <= MaxSealed
    BY ArchiveAssumption DEF ArchiveInit
  <2>2. objects \in [Contents -> Contents \cup {None}]
    BY DEF ArchiveInit
  <2>3. {manifest, checkpoint} \subseteq [Archives -> Manifests \cup {None}]
    BY DEF ArchiveInit
  <2>4. archiver \in [Archivers -> {Idle} \cup ArchiverRecords]
    BY DEF ArchiveInit
  <2>5. restorer \in [Restorers -> {AtRest} \cup RestorerRecords]
    BY DEF ArchiveInit
  <2>6. mishaps \in 0 .. MaxMishaps
    BY ArchiveAssumption DEF ArchiveInit
  <2>7. QED
    BY <2>1, <2>2, <2>3, <2>4, <2>5, <2>6 DEF ArchiveTypes, ArchiveInit, ArchiverRecords, RestorerRecords
<1>2. \A p \in Archivers : SourceInv(p) /\ ArchiverInv(p)
  BY DEF ArchiveInit, Idle, SourceInv, ArchiverInv
<1>3. \A r \in Restorers : RestorerInv(r)
  BY DEF ArchiveInit, AtRest, RestorerInv
<1>4. OutputInv
  BY DEF ArchiveInit, OutputInv
<1>5. QED
  BY <1>1, <1>2, <1>3, <1>4 DEF ArchiveInv

LEMMA ArchiveKeeps == ArchiveInv /\ [ArchiveNext]_archiveVars => ArchiveInv'
<1> SUFFICES ASSUME ArchiveInv, [ArchiveNext]_archiveVars PROVE ArchiveInv'
  OBVIOUS
<1>1. /\ ArchiveTypes /\ \A p \in Archivers : SourceInv(p) /\ ArchiverInv(p)
      /\ \A r \in Restorers : RestorerInv(r)
      /\ OutputInv
  BY DEF ArchiveInv
<1>2. ArchiveTypes' /\ StoreKeeps
  BY <1>1, TypesKept, StepKeeps
<1>3. \A p \in Archivers : SourceInv(p)' /\ ArchiverInv(p)'
  BY <1>1, ArchiversKept
<1>4. \A r \in Restorers : RestorerInv(r)'
  BY <1>1, RestorersKept
<1>5. OutputInv'
  BY <1>1, <1>2, OutputKept
<1>6. QED
  BY <1>2, <1>3, <1>4, <1>5 DEF ArchiveInv

\* The invariant holds in every state.
THEOREM ArchiveIsSound == ArchiveSpec => []ArchiveInv
BY ArchiveStarts, ArchiveKeeps, PTL DEF ArchiveSpec

\* The types of the raw archive's variables.
THEOREM ArchiveTypeCorrect == ArchiveSpec => []ArchiveTypes
<1>1. ArchiveInv => ArchiveTypes
  BY DEF ArchiveInv
<1>2. QED
  BY <1>1, ArchiveIsSound, PTL

\* A caller that is told "ok" can restore, and what a restore leaves in place is
\* everything one checkpoint names (archive_raw, restore_raw_archive).
THEOREM OkAlwaysRestorable == ArchiveSpec => []OkIsRestorable
<1>1. ArchiveInv => OkIsRestorable
  BY DEF ArchiveInv, ArchiverInv, OutputInv, OkIsRestorable
<1>2. QED
  BY <1>1, ArchiveIsSound, PTL

\* The raw archive starts as the commit protocol does.
LEMMA CommitStarts == ArchiveInit => ArchivePromise!CommitInit
<1> SUFFICES ASSUME ArchiveInit PROVE ArchivePromise!CommitInit
  OBVIOUS
<1>1. Held = {}
  BY ArchiveAssumption DEF ArchiveInit, Held
<1>2. Named = [i \in Archives |-> None]
  BY DEF ArchiveInit, Named
<1>3. QED
  BY <1>1, <1>2 DEF ArchivePromise!CommitInit

\* A step that leaves objects and checkpoints is none of the commit protocol.
LEMMA CommitStutters ==
    ASSUME UNCHANGED <<objects, checkpoint>>
    PROVE  UNCHANGED ArchivePromise!commitVars
BY DEF ArchivePromise!commitVars, Held, Named, Keys

\* An upload puts the content of its key under it, or something else, or
\* nothing.
LEMMA UploadPuts ==
    ASSUME ArchiveTypes, NEW p \in Archivers, SourceInv(p), NEW key \in archiver[p].todo,
           EnsureObject(p, key)
    PROVE  [ArchivePromise!CommitNext]_ArchivePromise!commitVars
<1>1. PICK there \in Contents : /\ objects[key] # None => there = objects[key]
                                /\ objects' = [objects EXCEPT ![key] = there]
  BY UploadTyped
<1>2. key \in Contents /\ objects \in [Contents -> Contents \cup {None}]
  BY UploadTyped DEF ArchiveTypes
<1>3. UNCHANGED Named
  BY DEF EnsureObject, Named, Keys
<1>4. Held' = Held \/ Held' = Held \cup {key}
  BY <1>1, <1>2, ArchiveAssumption DEF Held
<1>5. QED
  BY <1>2, <1>3, <1>4 DEF ArchivePromise!CommitNext, ArchivePromise!Put, ArchivePromise!commitVars

\* A checkpoint that is new names what the archiver has verified.
LEMMA CheckpointCommits ==
    ASSUME ArchiveTypes, NEW p \in Archivers, ArchiverInv(p), WriteCheckpoint(p)
    PROVE  [ArchivePromise!CommitNext]_ArchivePromise!commitVars
<1> DEFINE a == archiver[p]
<1>1. a \in ArchiverRecords /\ a.step = "commit"
  BY BusyArchiver DEF WriteCheckpoint
<1> PICK man \in Manifests, id \in Archives : man = a.man /\ id = a.id
  BY <1>1 DEF ArchiverRecords
<1>2. UNCHANGED Held
  BY DEF WriteCheckpoint, Held
<1>3. checkpoint' = [checkpoint EXCEPT ![id] = IF @ = None THEN man ELSE @]
  BY DEF WriteCheckpoint
<1>4. checkpoint \in [Archives -> Manifests \cup {None}] /\ man # None
  BY ArchiveAssumption DEF ArchiveTypes
<1>5. CASE checkpoint[id] # None
  <2>1. checkpoint' = checkpoint
    BY <1>3, <1>4, <1>5
  <2>2. QED
    BY <1>2, <2>1 DEF Named, Keys, ArchivePromise!commitVars
<1>6. CASE checkpoint[id] = None
  <2>1. checkpoint' = [checkpoint EXCEPT ![id] = man]
    BY <1>3, <1>4, <1>6
  <2>2. Named[id] = None /\ Named' = [Named EXCEPT ![id] = Keys(man)]
    BY <1>4, <1>6, <2>1 DEF Named, Keys
  <2>3. Keys(man) \subseteq Held
    BY <1>1 DEF ArchiverInv, StoreRight, ObjectRight, Keys, Held, Manifests, Entries
  <2>4. Keys(man) # None
    <3>1. Keys(man) \in SUBSET Contents
      BY DEF Keys, Manifests, Entries
    <3>2. QED
      BY <3>1, ArchiveAssumption
  <2>5. Named'[id] = Keys(man)
    BY <2>2 DEF Named
  <2>6. QED
    BY <1>2, <2>2, <2>3, <2>4, <2>5 DEF ArchivePromise!CommitNext, ArchivePromise!Commit
<1>7. QED
  BY <1>5, <1>6

LEMMA RemovalRemoves ==
    ASSUME ArchiveTypes, NEW key \in Contents, RemoveObject(key)
    PROVE  [ArchivePromise!CommitNext]_ArchivePromise!commitVars
<1>1. UNCHANGED Named /\ objects' = [objects EXCEPT ![key] = None]
  BY DEF RemoveObject, Named, Keys
<1>2. CASE key \in Held
  <2>1. Held' = Held \ {key}
    BY <1>1, ArchiveAssumption DEF Held, ArchiveTypes
  <2>2. QED
    BY <1>1, <1>2, <2>1 DEF ArchivePromise!CommitNext, ArchivePromise!Remove
<1>3. CASE key \notin Held
  <2>1. Held' = Held
    BY <1>1, <1>3, ArchiveAssumption DEF Held, ArchiveTypes
  <2>2. QED
    BY <1>1, <2>1 DEF ArchivePromise!commitVars
<1>4. QED
  BY <1>2, <1>3

\* Every step is one of the commit protocol, or none of it.
LEMMA StepCommits ==
    ArchiveInv /\ [ArchiveNext]_archiveVars => [ArchivePromise!CommitNext]_ArchivePromise!commitVars
<1> SUFFICES ASSUME ArchiveInv, [ArchiveNext]_archiveVars
             PROVE  [ArchivePromise!CommitNext]_ArchivePromise!commitVars
  OBVIOUS
<1>1. ArchiveTypes /\ \A p \in Archivers : SourceInv(p) /\ ArchiverInv(p)
  BY DEF ArchiveInv
<1>2. ASSUME UNCHANGED <<objects, checkpoint>>
      PROVE  [ArchivePromise!CommitNext]_ArchivePromise!commitVars
  BY <1>2, CommitStutters
<1>3. ASSUME NEW p \in Archivers, Archiving(p)
      PROVE  [ArchivePromise!CommitNext]_ArchivePromise!commitVars
  <2>1. CASE Look(p) \/ WriteManifest(p) \/ Verify(p) \/ Return(p)
    BY <1>2, <2>1 DEF Look, WriteManifest, Verify, Return, store
  <2>2. QED
    BY <1>1, <1>3, <2>1, UploadPuts, CheckpointCommits DEF Archiving
<1>4. ASSUME NEW key \in Contents, RemoveObject(key)
      PROVE  [ArchivePromise!CommitNext]_ArchivePromise!commitVars
  BY <1>1, <1>4, RemovalRemoves
<1>5. QED
  BY <1>2, <1>3, <1>4
     DEF ArchiveNext, Seal, SourceChanges, ArchiveRaw, ArchiveTorn, Begins, ArchiverDies,
         RestoreArchive, Download, Publish, RestorerDies, RemoveManifest, archiveVars, store

\* The raw archive implements the commit protocol: a checkpoint appears when all
\* it names is in the store, and never changes.
THEOREM ArchiveCommitsLast == ArchiveSpec => ImplementsCommitLast
<1>1. ArchiveSpec => ArchivePromise!CommitInit /\ [][ArchivePromise!CommitNext]_ArchivePromise!commitVars
  BY ArchiveIsSound, CommitStarts, StepCommits, PTL DEF ArchiveSpec
<1>2. QED
  BY <1>1 DEF ImplementsCommitLast, ArchivePromise!CommitSpec
=============================================================================
