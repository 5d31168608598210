------------------------------ MODULE RawArchive ------------------------------
(***************************************************************************)
(* The raw archive (raw_archive.rs over object_store.rs): sealed segments  *)
(* of a write-ahead log become immutable objects named by their digest, a  *)
(* manifest describes the set, and a checkpoint is written last.  A retry  *)
(* of a committed archive repairs what an operator removed.  A restore     *)
(* downloads a committed set beside its destination and renames it there.  *)
(*                                                                         *)
(* Every access to the object store or to a source file is a step of its   *)
(* own.  A digest is the content itself; a length tells an altered file    *)
(* from its original only when it has grown.  Uploads are visible when     *)
(* they are closed, and a conditional write is atomic (the store's part).  *)
(***************************************************************************)
EXTENDS Naturals, Sequences, FiniteSets

CONSTANTS
    Archives,      \* archive ids
    Shards,        \* shard directories of the write-ahead log
    MaxSealed,   \* bound: sealed segments of one shard
    Archivers,     \* processes that run archive_raw
    Restorers,     \* processes that run restore_raw_archive
    None,          \* the value of an object that is not there
    MaxMishaps,     \* bound: crashes, removals and changes of sealed files
    Mishaps         \* which of MishapKinds may happen

\* "crash": a process dies.  "remove": an operator removes an object or a
\* manifest.  "change": a sealed file does not stay as it is.
MishapKinds == {"crash", "remove", "change"}

Empty == [shard |-> None, id |-> 0, ver |-> "sealed"]
DataContents ==
    [shard : Shards, id : 1 .. MaxSealed, ver : {"sealed", "grown", "altered"}]
Contents == DataContents \cup {Empty}

Length(c) == IF c = Empty THEN 0 ELSE IF c.ver = "grown" THEN 2 ELSE 1

\* The lines of a segment: here as many as make up its length.
Records(c) == Length(c)

\* RawSegmentEntry and RawEmptySegmentEntry: records = 0 is what tells the
\* two lists of the manifest apart.
Entries == [shard : Shards, id : 1 .. MaxSealed, sha : Contents, records : 0 .. 2]
Manifests == [entries : SUBSET Entries, complete : BOOLEAN]

\* What is not there is no content, no manifest and no set of contents.
ASSUME ArchiveAssumption ==
    /\ IsFiniteSet(Shards) /\ MaxSealed \in Nat \ {0} /\ MaxMishaps \in Nat
    /\ Mishaps \subseteq MishapKinds
    /\ None \notin Contents /\ None \notin Manifests
    /\ \A S \in SUBSET Contents : S # None

VARIABLES
    wal,           \* [Shards -> Seq(Contents)], the sealed files in order
    objects,       \* [Contents -> Contents \cup {None}], by content-addressed key
    manifest,      \* [Archives -> manifests \cup {None}]
    checkpoint,    \* [Archives -> manifests \cup {None}], named by its digest
    archiver,      \* [Archivers -> step, archive, manifest, keys still to do]
    restorer,      \* [Restorers -> step, archive, manifest, entries on disk]
    output,        \* the restored directory, None when there is none
    mishaps        \* observer: faults so far

store == <<objects, manifest, checkpoint>>
archiveVars == <<wal, store, archiver, restorer, output, mishaps>>

Idle == [step |-> "idle", id |-> None, man |-> None, todo |-> {}]
AtRest == [step |-> "idle", id |-> None, man |-> None, got |-> {}]

ArchiveInit ==
    /\ wal = [s \in Shards |-> <<>>]
    /\ objects = [c \in Contents |-> None]
    /\ manifest = [i \in Archives |-> None] /\ checkpoint = [i \in Archives |-> None]
    /\ archiver = [p \in Archivers |-> Idle]
    /\ restorer = [r \in Restorers |-> AtRest]
    /\ output = None /\ mishaps = 0

Fault(kind) == kind \in Mishaps /\ mishaps < MaxMishaps /\ mishaps' = mishaps + 1

-----------------------------------------------------------------------------
(***************************************************************************)
(* The write-ahead log beside the archive.                                 *)
(***************************************************************************)

\* POST /flush or a rotation seals the active file: with records, or without
\* any, as a rotation marker.
Seal(s, content) ==
    /\ Len(wal[s]) < MaxSealed
    /\ content \in {Empty, [shard |-> s, id |-> Len(wal[s]) + 1, ver |-> "sealed"]}
    /\ wal' = [wal EXCEPT ![s] = Append(@, content)]
    /\ UNCHANGED <<store, archiver, restorer, output, mishaps>>

\* A sealed file that is appended to after a failed flush, or damaged.
Becomes(s, n, ver) ==
    /\ Fault("change") /\ n \in DOMAIN wal[s]
    /\ wal[s][n] # Empty /\ wal[s][n].ver = "sealed"
    /\ wal' = [wal EXCEPT ![s][n].ver = ver]
SourceChanges(s, n, ver) ==
    /\ ver \in {"grown", "altered"} /\ Becomes(s, n, ver)
    /\ UNCHANGED <<store, archiver, restorer, output>>

-----------------------------------------------------------------------------
(***************************************************************************)
(* archive_raw.                                                            *)
(***************************************************************************)

Sealed == {sn \in Shards \X (1 .. MaxSealed) : sn[2] \in DOMAIN wal[sn[1]]}

\* A shard's ids start at 1 and have no gap.
Contiguous(S) == \A sn \in S : \A k \in 1 .. sn[2] : <<sn[1], k>> \in S

IdsOf(man) == {<<e.shard, e.id>> : e \in man.entries}
Keys(man) == {e.sha : e \in man.entries}

\* read_segment: the entry of a file.
Reading(sn) ==
    LET sha == wal[sn[1]][sn[2]]
    IN [shard |-> sn[1], id |-> sn[2], sha |-> sha, records |-> Records(sha)]

\* discover_segments and build_manifest: some sealed files of the log, without
\* gaps unless they are allowed and the snapshot is called partial, and not
\* rotation markers only.  (A directory stands for all files in it.)
Found(S, complete) ==
    /\ S \subseteq Sealed
    /\ complete => Contiguous(S)
    /\ \E sn \in S : wal[sn[1]][sn[2]] # Empty

Begins(p, i, S, complete, E) ==
    /\ archiver[p].step = "idle" /\ Found(S, complete)
    /\ archiver' = [archiver EXCEPT ![p] =
                      [step |-> "look", id |-> i, todo |-> {e.sha : e \in E},
                       man |-> [entries |-> E, complete |-> complete]]]
    /\ UNCHANGED <<store, restorer, output>>

ArchiveRaw(p, i, S, complete) ==
    Begins(p, i, S, complete, {Reading(sn) : sn \in S}) /\ UNCHANGED <<wal, mishaps>>

\* A file is read twice, its lines are counted and then it is hashed, and
\* between the two it grows.
ArchiveTorn(p, i, S, complete, sn) ==
    /\ sn \in S /\ Becomes(sn[1], sn[2], "grown")
    /\ Begins(p, i, S, complete, {Reading(x) : x \in S \ {sn}}
                                   \cup {[Reading(sn) EXCEPT !.sha.ver = "grown"]})

Go(p, step) == archiver' = [archiver EXCEPT ![p].step = step]
Fails(p) == archiver' = [archiver EXCEPT ![p] = Idle]

\* Mutant: an archive that is committed is not looked at again.
Look_Trusts(p) ==
    /\ archiver[p].step = "look"
    /\ LET a == archiver[p] IN
       IF checkpoint[a.id] = None THEN Go(p, "upload")
       ELSE IF checkpoint[a.id] = a.man THEN Go(p, "ok") ELSE Fails(p)
    /\ UNCHANGED <<wal, store, restorer, output, mishaps>>

\* read_checkpoint and validate_checkpoint: an archive that is committed with
\* another manifest is refused.
Look(p) ==
    /\ archiver[p].step = "look"
    /\ LET a == archiver[p] IN
       IF checkpoint[a.id] = None THEN Go(p, "upload")
       ELSE IF checkpoint[a.id] = a.man THEN Go(p, "repair") ELSE Fails(p)
    /\ UNCHANGED <<wal, store, restorer, output, mishaps>>

\* The file a key is uploaded from, the first one that had its digest.
FileOf(man, key) ==
    LET files == {<<e.shard, e.id>> : e \in {x \in man.entries : x.sha = key}} IN
    CHOOSE f \in files : \A g \in files : f[1] = g[1] => f[2] <= g[2]

\* ensure_object: what is already under the key counts when its length is
\* right; otherwise the file is read and written once more, on condition that
\* the key is still free.  Its digest is not looked at here.
EnsureObject(p, key) ==
    /\ archiver[p].step \in {"upload", "repair"} /\ key \in archiver[p].todo
    /\ LET f == FileOf(archiver[p].man, key)
           there == IF objects[key] = None THEN wal[f[1]][f[2]] ELSE objects[key] IN
       /\ objects' = [objects EXCEPT ![key] = there]
       /\ IF Length(there) = Length(key)
          THEN archiver' = [archiver EXCEPT ![p].todo = @ \ {key}]
          ELSE Fails(p)
    /\ UNCHANGED <<wal, manifest, checkpoint, restorer, output, mishaps>>

\* Mutant: a manifest that is there is a conflict, whatever it says.
WriteManifest_CreateOnly(p) ==
    /\ archiver[p].step \in {"upload", "repair"} /\ archiver[p].todo = {}
    /\ LET a == archiver[p] IN
       /\ manifest' = [manifest EXCEPT ![a.id] = IF @ = None THEN a.man ELSE @]
       /\ IF a.step = "upload" /\ manifest[a.id] # None THEN Fails(p)
          ELSE Go(p, IF a.step = "upload" THEN "verify" ELSE "reverify")
    /\ UNCHANGED <<wal, objects, checkpoint, restorer, output, mishaps>>

\* write_immutable_bytes of the manifest: other bytes under its key stay.  A
\* repair writes it only where it is missing.
WriteManifest(p) ==
    /\ archiver[p].step \in {"upload", "repair"} /\ archiver[p].todo = {}
    /\ LET a == archiver[p] IN
       /\ manifest' = [manifest EXCEPT ![a.id] = IF @ = None THEN a.man ELSE @]
       /\ IF a.step = "upload" /\ manifest'[a.id] # a.man THEN Fails(p)
          ELSE Go(p, IF a.step = "upload" THEN "verify" ELSE "reverify")
    /\ UNCHANGED <<wal, objects, checkpoint, restorer, output, mishaps>>

\* validate_manifest_sequence: ids are distinct, complete sets without gaps.
SequenceValid(man) ==
    /\ \A d, e \in man.entries : <<d.shard, d.id>> = <<e.shard, e.id>> => d = e
    /\ man.complete => Contiguous(IdsOf(man))

\* verify_manifest_objects: length, digest and number of records of each
\* object, against the manifest in the store.
ObjectRight(e) == objects[e.sha] = e.sha /\ Records(e.sha) = e.records
StoreRight(man, i) ==
    /\ manifest[i] = man /\ SequenceValid(man)
    /\ \A e \in man.entries : ObjectRight(e)

\* Mutant: the objects of a new archive are taken for what was uploaded.
Verify_Lengths(p) ==
    /\ archiver[p].step \in {"verify", "reverify"}
    /\ LET a == archiver[p] IN
       IF \A e \in a.man.entries : objects[e.sha] # None
       THEN Go(p, IF a.step = "verify" THEN "commit" ELSE "ok") ELSE Fails(p)
    /\ UNCHANGED <<wal, store, restorer, output, mishaps>>

Verify(p) ==
    /\ archiver[p].step \in {"verify", "reverify"}
    /\ LET a == archiver[p] IN
       IF StoreRight(a.man, a.id)
       THEN Go(p, IF a.step = "verify" THEN "commit" ELSE "ok") ELSE Fails(p)
    /\ UNCHANGED <<wal, store, restorer, output, mishaps>>

\* write_checkpoint: on condition that there is none; one that another writer
\* was first with must say the same.
WriteCheckpoint(p) ==
    /\ archiver[p].step = "commit"
    /\ LET a == archiver[p] IN
       /\ checkpoint' = [checkpoint EXCEPT ![a.id] = IF @ = None THEN a.man ELSE @]
       /\ IF checkpoint'[a.id] = a.man THEN Go(p, "ok") ELSE Fails(p)
    /\ UNCHANGED <<wal, objects, manifest, restorer, output, mishaps>>

\* The caller has its result.
Return(p) ==
    /\ archiver[p].step = "ok" /\ Fails(p)
    /\ UNCHANGED <<wal, store, restorer, output, mishaps>>

-----------------------------------------------------------------------------
(***************************************************************************)
(* restore_raw_archive.                                                    *)
(***************************************************************************)

\* A lock on the destination keeps other restores away, and is released by
\* the system when the process dies.
Locked == \E r \in Restorers : restorer[r].step # "idle"

\* What is there is replaced only on request.
RestoreArchive(r, i, replace, partial) ==
    /\ ~Locked /\ (output # None => replace)
    /\ checkpoint[i] # None /\ manifest[i] = checkpoint[i] /\ SequenceValid(manifest[i])
    /\ manifest[i].complete \/ partial
    /\ restorer' = [restorer EXCEPT ![r] =
                      [step |-> "download", id |-> i, man |-> manifest[i], got |-> {}]]
    /\ UNCHANGED <<wal, store, archiver, output, mishaps>>

Rest(r) == restorer' = [restorer EXCEPT ![r] = AtRest]

\* download_object and local_segment_records, into a directory of its own.
Download(r, e) ==
    /\ restorer[r].step = "download" /\ e \in restorer[r].man.entries \ restorer[r].got
    /\ IF ObjectRight(e)
       THEN restorer' = [restorer EXCEPT ![r].got = @ \cup {e}] ELSE Rest(r)
    /\ UNCHANGED <<wal, store, archiver, output, mishaps>>

\* publish_restored_directory: one rename, or one exchange, puts a complete
\* directory in place, if the checkpoint still says what it said.
Publish(r) ==
    /\ restorer[r].step = "download" /\ restorer[r].got = restorer[r].man.entries
    /\ output' = IF checkpoint[restorer[r].id] # restorer[r].man THEN output
                 ELSE [id |-> restorer[r].id, man |-> restorer[r].man, files |-> restorer[r].got]
    /\ Rest(r)
    /\ UNCHANGED <<wal, store, archiver, mishaps>>

-----------------------------------------------------------------------------
(***************************************************************************)
(* Faults.                                                                 *)
(***************************************************************************)

ArchiverDies(p) ==
    /\ Fault("crash") /\ archiver[p].step # "idle" /\ Fails(p)
    /\ UNCHANGED <<wal, store, restorer, output>>

RestorerDies(r) ==
    /\ Fault("crash") /\ restorer[r].step # "idle" /\ Rest(r)
    /\ UNCHANGED <<wal, store, archiver, output>>

\* An operator removes what no retention rule protects, of an archive that is
\* committed and while no archive is being made.
Quiet == \A p \in Archivers : archiver[p].step = "idle"

RemoveObject(key) ==
    /\ Fault("remove") /\ Quiet /\ objects[key] # None
    /\ \E i \in Archives : checkpoint[i] # None /\ key \in Keys(checkpoint[i])
    /\ objects' = [objects EXCEPT ![key] = None]
    /\ UNCHANGED <<wal, manifest, checkpoint, archiver, restorer, output>>

RemoveManifest(i) ==
    /\ Fault("remove") /\ Quiet /\ checkpoint[i] # None /\ manifest[i] # None
    /\ manifest' = [manifest EXCEPT ![i] = None]
    /\ UNCHANGED <<wal, objects, checkpoint, archiver, restorer, output>>

Archiving(p) ==
    \/ Look(p) \/ WriteManifest(p) \/ Verify(p) \/ WriteCheckpoint(p) \/ Return(p)
    \/ \E key \in archiver[p].todo : EnsureObject(p, key)

ArchiveNext ==
    \/ \E s \in Shards : \E c \in Contents : Seal(s, c)
    \/ \E s \in Shards, n \in 1 .. MaxSealed, v \in {"grown", "altered"} : SourceChanges(s, n, v)
    \/ \E p \in Archivers, i \in Archives, S \in SUBSET Sealed, c \in BOOLEAN :
          ArchiveRaw(p, i, S, c) \/ \E sn \in S : ArchiveTorn(p, i, S, c, sn)
    \/ \E p \in Archivers : Archiving(p) \/ ArchiverDies(p)
    \/ \E r \in Restorers, i \in Archives, b, c \in BOOLEAN : RestoreArchive(r, i, b, c)
    \/ \E r \in Restorers : Publish(r) \/ RestorerDies(r)
    \/ \E r \in Restorers, e \in Entries : Download(r, e)
    \/ \E key \in Contents : RemoveObject(key)
    \/ \E i \in Archives : RemoveManifest(i)

ArchiveSpec == ArchiveInit /\ [][ArchiveNext]_archiveVars

\* The command that wrote a manifest is given again, with the same input.
Repeat(p, i) ==
    manifest[i] # None /\ ArchiveRaw(p, i, IdsOf(manifest[i]), manifest[i].complete)

\* Processes run on, and a command that failed is repeated.
ArchiveFairSpec ==
    /\ ArchiveSpec
    /\ \A p \in Archivers : WF_archiveVars(Archiving(p))
    /\ \A p \in Archivers, i \in Archives : SF_archiveVars(Repeat(p, i))

-----------------------------------------------------------------------------
(***************************************************************************)
(* Properties.                                                             *)
(***************************************************************************)

Steps == {"look", "upload", "repair", "verify", "reverify", "commit", "ok"}

\* Types of the variables.
ArchiveTypes ==
    /\ wal \in [Shards -> Seq(Contents)] /\ \A s \in Shards : Len(wal[s]) <= MaxSealed
    /\ objects \in [Contents -> Contents \cup {None}]
    /\ {manifest, checkpoint} \subseteq [Archives -> Manifests \cup {None}]
    /\ archiver \in [Archivers -> {Idle} \cup
          [step : Steps, id : Archives, man : Manifests, todo : SUBSET Contents]]
    /\ restorer \in [Restorers -> {AtRest} \cup
          [step : {"download"}, id : Archives, man : Manifests, got : SUBSET Entries]]
    /\ output \in {None} \cup [id : Archives, man : Manifests, files : SUBSET Entries]
    /\ mishaps \in 0 .. MaxMishaps

\* The contents that are intact under their own key, and the sets that
\* checkpoints name.
Held == {c \in Contents : objects[c] = c}
Named == [i \in Archives |-> IF checkpoint[i] = None THEN None ELSE Keys(checkpoint[i])]

\* The archive implements the commit protocol: a checkpoint appears only when
\* every object it names is in the store with the bytes it is named by, and it
\* stays, whatever changed at the source, whoever else was archiving.
ArchivePromise == INSTANCE CommitLast WITH
    Markers <- Archives, NoSet <- None, held <- Held, named <- Named
ImplementsCommitLast == ArchivePromise!CommitSpec

\* A caller that is told "ok" can restore: the store holds the manifest that
\* the checkpoint names, and each of its objects with the right number of
\* records, also where an operator had removed some of them before.  What a
\* restore leaves in place, in any state in between too, is everything one
\* checkpoint names, and called complete only without gaps.
OkIsRestorable ==
    /\ \A p \in Archivers : archiver[p].step = "ok" =>
          /\ checkpoint[archiver[p].id] = archiver[p].man
          /\ StoreRight(archiver[p].man, archiver[p].id)
    /\ output # None =>
          /\ output.man = checkpoint[output.id] /\ output.files = output.man.entries
          /\ \A e \in output.files : e.records = Records(e.sha)
          /\ output.man.complete => Contiguous(IdsOf(output.man))

\* An archive whose manifest is written can be completed by repeating the
\* command, whatever crash came in between, if its source files are what the
\* manifest says and no wrong object has been uploaded under its keys.
Completable(i) ==
    /\ manifest[i] # None
    /\ \A e \in manifest[i].entries :
          /\ wal[e.shard][e.id] = e.sha /\ Records(e.sha) = e.records
          /\ objects[e.sha] \in {None, e.sha}
RetryCommits == \A i \in Archives : <>[]Completable(i) => <>(checkpoint[i] # None)
=============================================================================
