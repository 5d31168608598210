------------------------------ MODULE Publication ------------------------------
(***************************************************************************)
(* The publication of a Release and of the buyer package made from it      *)
(* (publish.rs over object_store.rs, buyer.rs).  A publisher verifies a    *)
(* directory, digests its files, puts them under a key that holds the      *)
(* digest of the manifest, and writes COMMIT.json last, on condition that  *)
(* there is none.  Every look at a directory and every access to the store *)
(* is a step of its own: a build may put another directory in place        *)
(* between any two of them.                                                *)
(*                                                                         *)
(* A directory is [man, files]; files are numbered from 1 and a manifest   *)
(* lists what they should be.  File 0 is the manifest itself.  A digest is *)
(* the content it is of.  Checksums, token totals and the assessments in   *)
(* the files, which verification derives from the same files, are left     *)
(* out: they are right exactly when a file is what the manifest lists.     *)
(***************************************************************************)
EXTENDS Naturals, Sequences, FiniteSets

CONSTANTS
    Data,          \* contents of data files: records [data, bytes]
    ReleaseDirs,   \* the directories a build or a fault may leave at the source
    Publishers,    \* processes that run publish
    MaxChanges,    \* bound: Release directories replaced and objects removed
    MaxPackages,   \* bound: buyer packages made
    MaxStarts,     \* bound: publish commands
    NoDir, NoCommit

Kinds == {"release", "buyer"}

VARIABLES
    release,     \* the Release directory
    package,     \* the buyer package directory, or NoDir
    packager,    \* the process that runs package_buyer_release
    publisher,   \* [Publishers -> what the process is doing]
    objects,     \* pairs <<key, content>>, one for a key
    commit,      \* [Kinds -> [sha, objects, remote, steady] or NoCommit]
    changes,     \* observer: changes so far
    starts       \* observer: publish commands so far

publicationVars ==
    <<release, package, packager, publisher, objects, commit, changes,
      starts>>

Idle == [step |-> "idle"]

ReleaseManifests == {d.man : d \in ReleaseDirs}
\* A package manifest names the Release manifest it was made from, and its
\* time of creation, so that no two are the same.
PackageManifests ==
    [build : 1 .. MaxPackages, lists : {m.lists : m \in ReleaseManifests},
     from : {<<m>> : m \in ReleaseManifests}]
Manifests == ReleaseManifests \cup PackageManifests
PackageDirs == [man : PackageManifests, files : Seq(Data), steady : BOOLEAN]

\* The numbers of the files a manifest may list, and of the manifest.
FileNumbers == {0} \cup UNION {DOMAIN m.lists : m \in ReleaseManifests}

ASSUME PublicationAssumption ==
    /\ \A d \in ReleaseDirs : d.man.lists \in Seq(Data) /\ d.files \in Seq(Data)
    /\ NoDir \notin PackageDirs /\ MaxPackages \in Nat

Length(c) == IF "bytes" \in DOMAIN c THEN c.bytes ELSE Len(c.lists)

Key(kind, sha, i) == <<kind, sha, i>>
Stored(key) == {o[2] : o \in {x \in objects : x[1] = key}}

PublicationInit ==
    /\ release \in ReleaseDirs /\ package = NoDir
    /\ packager = Idle /\ publisher = [p \in Publishers |-> Idle]
    /\ objects = {} /\ commit = [k \in Kinds |-> NoCommit]
    /\ changes = 0 /\ starts = 0

Change == changes < MaxChanges /\ changes' = changes + 1

Dir(kind) == IF kind = "release" THEN release ELSE package
\* What is in file i of a directory; nothing when it is not there.
FileOf(dir, i) ==
    IF i = 0 THEN {dir.man} ELSE {dir.files[k] : k \in {i} \cap DOMAIN dir.files}

\* Observer: the directory of kind was replaced under a process reading it.
Shaken(r, kind) ==
    IF r.step # "idle" /\ r.kind = kind THEN [r EXCEPT !.steady = FALSE] ELSE r

\* build_release with --replace, or damage to a file of the directory.
Rebuild ==
    /\ Change
    /\ release' \in ReleaseDirs \ {release}
    /\ packager' = Shaken(packager, "release")
    /\ publisher' = [p \in Publishers |-> Shaken(publisher[p], "release")]
    /\ UNCHANGED <<package, objects, commit, starts>>

-----------------------------------------------------------------------------
(* package_buyer_release.                                                  *)

Packages == IF package = NoDir THEN 0 ELSE package.man.build

StartPackage ==
    /\ packager.step = "idle"
    /\ packager' = [step |-> "parts", kind |-> "release", man |-> release.man,
                    steady |-> TRUE]
    /\ UNCHANGED <<release, package, publisher, objects, commit, changes, starts>>

\* verify_archive, and what verify_release says of a Release: the files are
\* what the manifest lists.
HoldsWhat(dir, lists) == dir.files = lists

\* verify_release, and package_part: "source Release part changed during buyer
\* packaging".
PackageParts ==
    /\ packager.step = "parts"
    /\ packager' = IF HoldsWhat(release, packager.man.lists)
                   THEN [packager EXCEPT !.step = "lineage"] ELSE Idle
    /\ UNCHANGED <<release, package, publisher, objects, commit, changes, starts>>

\* The manifest of the Release is digested now; the rename puts the package in
\* place of an older one.
FinishPackage ==
    /\ packager.step = "lineage" /\ Packages < MaxPackages
    /\ package' = [man |-> [build |-> Packages + 1, lists |-> packager.man.lists,
                            from |-> <<release.man>>],
                   files |-> packager.man.lists, steady |-> packager.steady]
    /\ publisher' = [p \in Publishers |-> Shaken(publisher[p], "buyer")]
    /\ packager' = Idle
    /\ UNCHANGED <<release, objects, commit, changes, starts>>

-----------------------------------------------------------------------------
(* publish.                                                                *)

Set(p, r) == publisher' = [publisher EXCEPT ![p] = r]
Step(p, s) == Set(p, [publisher[p] EXCEPT !.step = s])

\* verify_local_artifact reads the manifest.  A buyer package is published
\* only with verification of the remote digests.
StartPublish(p, kind, remote) ==
    /\ starts < MaxStarts /\ starts' = starts + 1
    /\ publisher[p].step = "idle" /\ Dir(kind) # NoDir
    /\ kind = "buyer" => remote
    /\ Set(p, [step |-> "check", kind |-> kind, remote |-> remote,
               man |-> Dir(kind).man, sha |-> Dir(kind).man, hashed |-> <<>>,
               todo |-> {}, steady |-> kind = "release" \/ package.steady])
    /\ UNCHANGED <<release, package, packager, objects, commit, changes>>

\* Mutant: the files are counted, and their content is not looked at.
CheckFiles_Count(p) ==
    /\ publisher[p].step = "check"
    /\ IF DOMAIN Dir(publisher[p].kind).files = DOMAIN publisher[p].man.lists
       THEN Step(p, "digest") ELSE Set(p, Idle)
    /\ UNCHANGED <<release, package, packager, objects, commit, changes, starts>>

\* verify_release or verify_buyer_package, against the manifest read before.
CheckFiles(p) ==
    /\ publisher[p].step = "check"
    /\ IF HoldsWhat(Dir(publisher[p].kind), publisher[p].man.lists)
       THEN Step(p, "digest") ELSE Set(p, Idle)
    /\ UNCHANGED <<release, package, packager, objects, commit, changes, starts>>

\* The digest of manifest.json that names the staging area.
DigestManifest(p) ==
    /\ publisher[p].step = "digest"
    /\ Set(p, [publisher[p] EXCEPT !.step = "hash",
                                   !.sha = Dir(publisher[p].kind).man])
    /\ UNCHANGED <<release, package, packager, objects, commit, changes, starts>>

Expected(r) ==
    {<<Key(r.kind, r.sha, i - 1), r.hashed[i]>> : i \in DOMAIN r.hashed}

\* artifact_files: the files the verified manifest named, one after another.
HashFile(p) ==
    LET r == publisher[p]  i == Len(publisher[p].hashed)
        file == FileOf(Dir(publisher[p].kind), Len(publisher[p].hashed))
    IN  /\ r.step = "hash" /\ i <= Len(r.man.lists)
        /\ \/ file = {} /\ Set(p, Idle)
           \/ \E c \in file : Set(p, [r EXCEPT !.hashed = Append(@, c)])
        /\ UNCHANGED <<release, package, packager, objects, commit, changes, starts>>

SameCommit(c, r) == c.sha = r.sha /\ c.objects = Expected(r)

\* read_existing_commit and validate_commit.
ReadCommit(p) ==
    LET r == publisher[p]  c == commit[publisher[p].kind]
    IN  /\ r.step = "hash" /\ Len(r.hashed) > Len(r.man.lists)
        /\ IF c # NoCommit /\ ~SameCommit(c, r) THEN Set(p, Idle)
           ELSE Set(p, [r EXCEPT !.step = IF c = NoCommit THEN "upload" ELSE "again",
                                 !.todo = 0 .. Len(r.man.lists)])
        /\ UNCHANGED <<release, package, packager, objects, commit, changes, starts>>

\* ensure_object: an object that is there must have the length, and when that
\* is asked for the digest; one that is not is uploaded from the file as it is
\* now, and checked in the same way.
EnsureObject(p, i) ==
    LET r == publisher[p]  key == Key(publisher[p].kind, publisher[p].sha, i)
        source == IF Stored(key) = {} THEN FileOf(Dir(r.kind), i) ELSE Stored(key)
        right(c) == IF r.remote THEN c = r.hashed[i + 1]
                    ELSE Length(c) = Length(r.hashed[i + 1])
    IN  /\ r.step \in {"upload", "again"} /\ i \in r.todo
        /\ objects' = objects \cup {<<key, c>> : c \in source}
        /\ IF \E c \in source : right(c)
           THEN Set(p, [r EXCEPT !.todo = @ \ {i}]) ELSE Set(p, Idle)
        /\ UNCHANGED <<release, package, packager, commit, changes, starts>>

\* Mutant: the COMMIT does not wait for the objects.
WriteCommit_First(p) ==
    LET r == publisher[p]
    IN  /\ r.step = "upload"
        /\ commit' = [commit EXCEPT ![r.kind] =
               IF @ # NoCommit THEN @
               ELSE [sha |-> r.sha, objects |-> Expected(r), remote |-> r.remote,
                     steady |-> r.steady]]
        /\ IF SameCommit(commit'[r.kind], r) THEN Step(p, "ok") ELSE Set(p, Idle)
        /\ UNCHANGED <<release, package, packager, objects, changes, starts>>

\* write_commit, and the COMMIT read back: one that another publisher was
\* first with must say the same.
WriteCommit(p) ==
    LET r == publisher[p]
    IN  /\ r.step = "upload" /\ r.todo = {}
        /\ commit' = [commit EXCEPT ![r.kind] =
               IF @ # NoCommit THEN @
               ELSE [sha |-> r.sha, objects |-> Expected(r), remote |-> r.remote,
                     steady |-> r.steady]]
        /\ IF SameCommit(commit'[r.kind], r) THEN Step(p, "ok") ELSE Set(p, Idle)
        /\ UNCHANGED <<release, package, packager, objects, changes, starts>>

PublishedAgain(p) ==
    /\ publisher[p].step = "again" /\ publisher[p].todo = {} /\ Step(p, "ok")
    /\ UNCHANGED <<release, package, packager, objects, commit, changes, starts>>

\* The answer is given, or the process dies, or an access fails.
PublishEnds(p) ==
    /\ publisher[p].step # "idle" /\ Set(p, Idle)
    /\ UNCHANGED <<release, package, packager, objects, commit, changes, starts>>

\* Retention removes an object while nobody publishes.
RemoveObject ==
    /\ Change /\ \A p \in Publishers : publisher[p] = Idle
    /\ \E o \in objects : objects' = objects \ {o}
    /\ UNCHANGED <<release, package, packager, publisher, commit, starts>>

PublicationNext ==
    \/ Rebuild \/ StartPackage \/ PackageParts \/ FinishPackage \/ RemoveObject
    \/ \E p \in Publishers :
         \/ \E k \in Kinds, b \in BOOLEAN : StartPublish(p, k, b)
         \/ CheckFiles(p) \/ DigestManifest(p) \/ HashFile(p) \/ ReadCommit(p)
         \/ \E i \in FileNumbers : EnsureObject(p, i)
         \/ WriteCommit(p) \/ PublishedAgain(p) \/ PublishEnds(p)

PublicationSpec == PublicationInit /\ [][PublicationNext]_publicationVars

-----------------------------------------------------------------------------
\* The pairs a commit made with verification of the remote digests names.
Named ==
    [k \in Kinds |-> IF commit[k] = NoCommit \/ ~commit[k].remote THEN {}
                     ELSE commit[k].objects]
Pairs ==
    {Key(k, m, i) : k \in Kinds, m \in Manifests, i \in FileNumbers}
    \X (Data \cup Manifests)

Protocol == INSTANCE CommitLast WITH
    Markers <- Kinds, Contents <- Pairs, NoSet <- {},
    held <- objects, named <- Named

\* Publication is the commit protocol too: whatever directories replace the one
\* that is being published and whoever else publishes it, a COMMIT made with
\* remote verification names only objects that are in the store with the bytes
\* it says, and it never changes (publish.rs:148-221, object_store.rs:181-298).
PublicationCommitsLast == Protocol!CommitSpec

\* A COMMIT whose directory nobody replaced while it was read is one verified
\* build: it names its manifest and every file with the content the manifest
\* lists, which is what verify_published looks for, and the Release that a
\* buyer package names is the one its files came from (publish.rs:313-462,
\* buyer.rs:95-192).  Which objects are there is the other property's part.
PublishedIsOneBuild ==
    \A k \in Kinds :
        commit[k] # NoCommit /\ commit[k].steady =>
          LET m == commit[k].sha
          IN  /\ commit[k].objects =
                   {<<Key(k, m, 0), m>>} \cup
                   {<<Key(k, m, i), m.lists[i]>> : i \in DOMAIN m.lists}
              /\ k = "buyer" => m.from[1].lists = m.lists
=============================================================================
