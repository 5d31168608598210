--------------------------- MODULE PublicationProofs ---------------------------
(***************************************************************************)
(* Theorems about publication: for any Release directories, any number of  *)
(* publishers, and packages and directories replaced at any time.          *)
(***************************************************************************)
EXTENDS Publication, TLAPS

Packaging ==
    [step : {"parts", "lineage"}, kind : {"release"}, man : ReleaseManifests, steady : BOOLEAN]
Publishing ==
    [step : {"check", "digest", "hash", "upload", "again", "ok"}, kind : Kinds, remote : BOOLEAN,
     man : Manifests, sha : Manifests, hashed : Seq(Data \cup Manifests),
     todo : SUBSET FileNumbers, steady : BOOLEAN]
Commits == [sha : Manifests, objects : SUBSET Pairs, remote : BOOLEAN, steady : BOOLEAN]

PublicationTypeOK ==
    /\ release \in ReleaseDirs /\ package \in {NoDir} \cup PackageDirs
    /\ packager \in {Idle} \cup Packaging
    /\ publisher \in [Publishers -> {Idle} \cup Publishing]
    /\ objects \in SUBSET Pairs
    /\ commit \in [Kinds -> {NoCommit} \cup Commits]

\* A package holds what its manifest lists, and one made from a Release that
\* stayed in place names that Release.
PackageTrue ==
    package # NoDir =>
        /\ package.files = package.man.lists
        /\ package.steady => package.man.from[1].lists = package.man.lists

PackagerTrue ==
    packager.step # "idle" /\ packager.steady => packager.man = release.man

\* What a publisher has read of a directory that stayed in place.
Faithful(r, dir) ==
    /\ r.man = dir.man /\ r.sha = dir.man
    /\ r.step # "check" => dir.files = r.man.lists
    /\ \A i \in 1 .. Len(r.hashed) : r.hashed[i] = IF i = 1 THEN r.man ELSE r.man.lists[i - 1]
    /\ r.kind = "buyer" => package.steady

\* How far it is, and what it has seen in the store.
Along(r) ==
    /\ r.kind = "buyer" => package # NoDir
    /\ Len(r.hashed) <= Len(r.man.lists) + 1
    /\ r.step \in {"upload", "again", "ok"} =>
          /\ Len(r.hashed) = Len(r.man.lists) + 1
          /\ r.remote => \A i \in (0 .. Len(r.man.lists)) \ r.todo :
                            <<Key(r.kind, r.sha, i), r.hashed[i + 1]>> \in objects

PublishersTrue ==
    \A p \in Publishers : publisher[p].step # "idle" =>
        /\ Along(publisher[p])
        /\ publisher[p].steady => Faithful(publisher[p], Dir(publisher[p].kind))

PublicationInv ==
    /\ PublicationTypeOK /\ PackageTrue /\ PackagerTrue /\ PublishersTrue
    /\ PublishedIsOneBuild

-----------------------------------------------------------------------------
\* What a manifest lists.
LEMMA ManifestType ==
    \A m \in Manifests : /\ m.lists \in Seq(Data) /\ Len(m.lists) \in Nat
                         /\ 0 .. Len(m.lists) \subseteq FileNumbers
<1>1. ASSUME NEW m \in ReleaseManifests
      PROVE  m.lists \in Seq(Data) /\ 0 .. Len(m.lists) \subseteq FileNumbers
  <2>1. PICK d \in ReleaseDirs : m = d.man
    BY DEF ReleaseManifests
  <2>2. m.lists \in Seq(Data)
    BY <2>1, PublicationAssumption
  <2>3. DOMAIN m.lists = 1 .. Len(m.lists) /\ Len(m.lists) \in Nat
    BY <2>2
  <2>4. DOMAIN m.lists \subseteq FileNumbers /\ 0 \in FileNumbers
    BY DEF FileNumbers
  <2>5. 0 .. Len(m.lists) \subseteq {0} \cup 1 .. Len(m.lists)
    BY <2>3
  <2>6. QED
    BY <2>2, <2>3, <2>4, <2>5
<1>2. ASSUME NEW m \in PackageManifests
      PROVE  m.lists \in Seq(Data) /\ 0 .. Len(m.lists) \subseteq FileNumbers
  <2>1. PICK e \in ReleaseManifests : m.lists = e.lists
    BY DEF PackageManifests
  <2>2. QED
    BY <1>1, <2>1
<1>3. QED
  BY <1>1, <1>2 DEF Manifests

\* A publisher that is doing something, and the one that does nothing.
LEMMA PublisherType ==
    ASSUME PublicationInv, NEW p \in Publishers
    PROVE  /\ publisher[p].step # "idle" => publisher[p] \in Publishing
           /\ publisher[p].step # "idle" /\ publisher[p].kind = "buyer" => package \in PackageDirs
           /\ release \in ReleaseDirs
<1>1. publisher[p] \in {Idle} \cup Publishing /\ Idle.step = "idle"
  BY DEF PublicationInv, PublicationTypeOK, Idle
<1>2. QED
  BY <1>1 DEF PublicationInv, PublicationTypeOK, PublishersTrue, Along

\* What is in the files of a directory that is being published.
LEMMA FileType ==
    ASSUME PublicationInv, NEW p \in Publishers, publisher[p].step # "idle", NEW i,
           NEW c \in FileOf(Dir(publisher[p].kind), i)
    PROVE  /\ c \in Data \cup Manifests
           /\ FileOf(Dir(publisher[p].kind), i) = {c}
           /\ i = 0 => c = Dir(publisher[p].kind).man
           /\ i # 0 => c = Dir(publisher[p].kind).files[i]
           /\ Dir(publisher[p].kind).man \in Manifests
<1> DEFINE dir == Dir(publisher[p].kind)
<1>1. publisher[p].kind \in Kinds
  BY PublisherType DEF Publishing
<1>2. dir.man \in Manifests /\ dir.files \in Seq(Data)
  <2>1. CASE publisher[p].kind = "release"
    BY <2>1, PublisherType, PublicationAssumption DEF Dir, Manifests, ReleaseManifests
  <2>2. CASE publisher[p].kind = "buyer"
    BY <2>2, PublisherType DEF Dir, Manifests, PackageDirs
  <2>3. QED
    BY <1>1, <2>1, <2>2 DEF Kinds
<1> HIDE DEF dir
<1>3. CASE i = 0
  BY <1>2, <1>3 DEF FileOf, dir
<1>4. CASE i # 0
  <2>1. c = dir.files[i] /\ i \in DOMAIN dir.files /\ FileOf(dir, i) = {c}
    BY <1>4 DEF FileOf, dir
  <2>2. c \in Data
    BY <1>2, <2>1
  <2>3. QED
    BY <1>2, <1>4, <2>1, <2>2 DEF dir
<1>5. QED
  BY <1>3, <1>4

\* What a step of one publisher has to show.
LEMMA PublisherKeeps ==
    ASSUME PublicationInv, NEW p \in Publishers, NEW r \in {Idle} \cup Publishing,
           publisher' = [publisher EXCEPT ![p] = r], UNCHANGED <<release, package, packager>>,
           objects \subseteq objects', objects' \in SUBSET Pairs,
           commit' \in [Kinds -> {NoCommit} \cup Commits], PublishedIsOneBuild',
           r.step # "idle" => Along(r)' /\ (r.steady => Faithful(r, Dir(r.kind)))
    PROVE  PublicationInv'
<1>0. PublicationTypeOK /\ PackageTrue /\ PackagerTrue /\ PublishersTrue
  BY DEF PublicationInv
<1>1. PublicationTypeOK'
  BY <1>0 DEF PublicationTypeOK
<1>2. PackageTrue' /\ PackagerTrue'
  BY <1>0 DEF PackageTrue, PackagerTrue
<1>3. /\ publisher'[p] = r
      /\ \A q \in Publishers \ {p} : publisher'[q] = publisher[q]
  BY <1>0 DEF PublicationTypeOK
<1>4. ASSUME NEW q \in Publishers, NEW x, x = publisher'[q], x.step # "idle"
      PROVE  Along(x)' /\ (x.steady => Faithful(x, Dir(x.kind)))
  <2>1. CASE q = p
    BY <1>3, <1>4, <2>1
  <2>2. CASE q # p
    <3>1. x = publisher[q]
      BY <1>3, <1>4, <2>2
    <3>2. Along(x) /\ (x.steady => Faithful(x, Dir(x.kind)))
      BY <1>0, <1>4, <3>1 DEF PublishersTrue
    <3>3. Along(x)'
      BY <3>2 DEF Along
    <3>4. QED
      BY <3>2, <3>3
  <2>3. QED
    BY <2>1, <2>2
<1>5. PublishersTrue'
  <2>1. ASSUME NEW q \in Publishers, publisher'[q].step # "idle"
        PROVE  (/\ Along(publisher[q])
                /\ publisher[q].steady => Faithful(publisher[q], Dir(publisher[q].kind)))'
    <3>1. PICK x : x = publisher'[q]
      OBVIOUS
    <3>2. Along(x)' /\ (x.steady => Faithful(x, Dir(x.kind)))
      BY <1>4, <2>1, <3>1
    <3>3. Along(publisher[q])'
      BY <3>1, <3>2 DEF Along
    <3>4. ASSUME x.steady PROVE Faithful(publisher[q], Dir(publisher[q].kind))'
      <4>1. Faithful(x, Dir(x.kind))
        BY <3>2, <3>4
      <4>2. QED
        BY <3>1, <4>1 DEF Faithful, Dir
    <3>5. QED
      BY <3>1, <3>3, <3>4
  <2>2. QED
    BY <2>1 DEF PublishersTrue
<1>6. QED
  BY <1>1, <1>2, <1>5 DEF PublicationInv

\* ... when it leaves the commits alone, and when it gives up.
LEMMA PublisherMoves ==
    ASSUME PublicationInv, NEW p \in Publishers, NEW r \in Publishing, Set(p, r),
           UNCHANGED <<release, package, packager, commit>>,
           objects \subseteq objects', objects' \in SUBSET Pairs,
           Along(r)', r.steady => Faithful(r, Dir(r.kind))
    PROVE  PublicationInv'
<1>1. commit' \in [Kinds -> {NoCommit} \cup Commits] /\ PublishedIsOneBuild'
  BY DEF PublicationInv, PublicationTypeOK, PublishedIsOneBuild
<1>2. publisher' = [publisher EXCEPT ![p] = r]
  BY DEF Set
<1>3. QED
  BY <1>1, <1>2, PublisherKeeps

LEMMA PublisherStops ==
    ASSUME PublicationInv, NEW p \in Publishers, Set(p, Idle),
           UNCHANGED <<release, package, packager, commit>>,
           objects \subseteq objects', objects' \in SUBSET Pairs
    PROVE  PublicationInv'
<1>1. commit' \in [Kinds -> {NoCommit} \cup Commits] /\ PublishedIsOneBuild'
  BY DEF PublicationInv, PublicationTypeOK, PublishedIsOneBuild
<1>2. PICK r \in {Idle} : r.step = "idle" /\ r = Idle
  BY DEF Idle
<1>3. publisher' = [publisher EXCEPT ![p] = r]
  BY <1>2 DEF Set
<1>4. QED
  BY <1>1, <1>2, <1>3, PublisherKeeps

\* What a publisher that is doing something knows.
LEMMA PublisherKnows ==
    ASSUME PublicationInv, NEW p \in Publishers, publisher[p].step # "idle"
    PROVE  /\ publisher[p] \in Publishing /\ Along(publisher[p])
           /\ publisher[p].steady => Faithful(publisher[p], Dir(publisher[p].kind))
           /\ Dir(publisher[p].kind).man \in Manifests
           /\ objects \in SUBSET Pairs
<1>1. /\ publisher[p] \in Publishing /\ Along(publisher[p])
      /\ publisher[p].steady => Faithful(publisher[p], Dir(publisher[p].kind))
      /\ objects \in SUBSET Pairs
  BY PublisherType DEF PublicationInv, PublishersTrue, PublicationTypeOK
<1>2. Dir(publisher[p].kind).man \in Manifests
  <2>1. publisher[p].kind \in Kinds
    BY <1>1 DEF Publishing
  <2>2. CASE publisher[p].kind = "release"
    BY <2>2, PublisherType DEF Dir, Manifests, ReleaseManifests
  <2>3. CASE publisher[p].kind = "buyer"
    BY <2>3, PublisherType DEF Dir, Manifests, PackageDirs
  <2>4. QED
    BY <2>1, <2>2, <2>3 DEF Kinds
<1>3. QED
  BY <1>1, <1>2

-----------------------------------------------------------------------------
LEMMA StartPublishKeeps ==
    ASSUME PublicationInv, NEW p \in Publishers, NEW kind \in Kinds, NEW remote \in BOOLEAN,
           StartPublish(p, kind, remote)
    PROVE  PublicationInv'
<1>1. /\ Dir(kind) # NoDir /\ UNCHANGED <<release, package, packager, objects, commit>>
      /\ PublicationTypeOK
  BY DEF StartPublish, PublicationInv
<1>2. PICK man \in Manifests, st \in BOOLEAN :
           man = Dir(kind).man /\ st = (kind = "release" \/ package.steady)
  <2>1. CASE kind = "release"
    <3>1. Dir(kind).man \in Manifests
      BY <1>1, <2>1 DEF Dir, PublicationTypeOK, Manifests, ReleaseManifests
    <3>2. QED
      BY <2>1, <3>1
  <2>2. CASE kind = "buyer"
    <3>1. package \in PackageDirs /\ Dir(kind) = package
      BY <1>1, <2>2 DEF Dir, PublicationTypeOK
    <3>2. package.man \in Manifests /\ package.steady \in BOOLEAN
      BY <3>1 DEF PackageDirs, Manifests
    <3>3. QED
      BY <2>2, <3>1, <3>2
  <2>3. QED
    BY <2>1, <2>2 DEF Kinds
<1>9. PICK r : r = [step |-> "check", kind |-> kind, remote |-> remote, man |-> man, sha |-> man,
                    hashed |-> <<>>, todo |-> {}, steady |-> st]
  OBVIOUS
<1>4. /\ r \in Publishing /\ r.step = "check" /\ r.kind = kind /\ r.man = man /\ r.sha = man
      /\ r.hashed = <<>> /\ r.steady = st
  BY <1>9 DEF Publishing
<1>3. Set(p, r)
  BY <1>2, <1>9 DEF StartPublish
<1>5. Along(r)'
  <2>1. Len(r.hashed) = 0 /\ Len(r.man.lists) \in Nat
    BY <1>4, ManifestType
  <2>2. kind = "buyer" => package # NoDir
    BY <1>1 DEF Dir
  <2>3. QED
    BY <1>1, <1>4, <2>1, <2>2 DEF Along
<1>6. r.steady => Faithful(r, Dir(r.kind))
  <2>1. Len(r.hashed) = 0
    BY <1>4
  <2>2. 1 .. Len(r.hashed) = {}
    BY <2>1
  <2>3. r.man = Dir(r.kind).man /\ r.sha = Dir(r.kind).man /\ r.step = "check"
    BY <1>2, <1>4
  <2>4. r.steady /\ r.kind = "buyer" => package.steady
    BY <1>2, <1>4
  <2>5. QED
    BY <2>2, <2>3, <2>4 DEF Faithful
<1>7. objects \subseteq objects' /\ objects' \in SUBSET Pairs
  BY <1>1 DEF PublicationTypeOK
<1>8. QED
  BY <1>1, <1>3, <1>4, <1>5, <1>6, <1>7, PublisherMoves

LEMMA CheckFilesKeeps ==
    ASSUME PublicationInv, NEW p \in Publishers, CheckFiles(p)
    PROVE  PublicationInv'
<1>1. /\ publisher[p].step = "check"
      /\ UNCHANGED <<release, package, packager, objects, commit>>
  BY DEF CheckFiles
<1>2. objects \subseteq objects' /\ objects' \in SUBSET Pairs
  BY <1>1, PublisherKnows
<1>3. CASE HoldsWhat(Dir(publisher[p].kind), publisher[p].man.lists)
  <2>6. PICK r : r = [publisher[p] EXCEPT !.step = "digest"]
    OBVIOUS
  <2>2. /\ r \in Publishing /\ r.step = "digest" /\ r.kind = publisher[p].kind
        /\ r.man = publisher[p].man /\ r.sha = publisher[p].sha
        /\ r.hashed = publisher[p].hashed /\ r.steady = publisher[p].steady
    BY <1>1, <2>6, PublisherKnows DEF Publishing
  <2>1. Set(p, r)
    BY <1>3, <2>6 DEF CheckFiles, Step
  <2>3. Along(r)'
    BY <1>1, <2>2, PublisherKnows DEF Along
  <2>4. ASSUME r.steady PROVE Faithful(r, Dir(r.kind))
    <3>1. Faithful(publisher[p], Dir(publisher[p].kind))
      BY <1>1, <2>2, <2>4, PublisherKnows
    <3>2. Dir(r.kind).files = r.man.lists
      BY <1>3, <2>2 DEF HoldsWhat
    <3>3. QED
      BY <2>2, <3>1, <3>2 DEF Faithful
  <2>5. QED
    BY <1>1, <1>2, <2>1, <2>2, <2>3, <2>4, PublisherMoves
<1>4. CASE ~HoldsWhat(Dir(publisher[p].kind), publisher[p].man.lists)
  BY <1>1, <1>2, <1>4, PublisherStops DEF CheckFiles
<1>5. QED
  BY <1>3, <1>4

LEMMA DigestManifestKeeps ==
    ASSUME PublicationInv, NEW p \in Publishers, DigestManifest(p)
    PROVE  PublicationInv'
<1>1. /\ publisher[p].step = "digest"
      /\ UNCHANGED <<release, package, packager, objects, commit>>
  BY DEF DigestManifest
<1>2. objects \subseteq objects' /\ objects' \in SUBSET Pairs
  BY <1>1, PublisherKnows
<1>3. PICK sha \in Manifests : sha = Dir(publisher[p].kind).man
  BY <1>1, PublisherKnows
<1>9. PICK r : r = [publisher[p] EXCEPT !.step = "hash", !.sha = sha]
  OBVIOUS
<1>5. /\ r \in Publishing /\ r.step = "hash" /\ r.kind = publisher[p].kind
      /\ r.man = publisher[p].man /\ r.sha = sha
      /\ r.hashed = publisher[p].hashed /\ r.steady = publisher[p].steady
  BY <1>1, <1>9, PublisherKnows DEF Publishing
<1>4. Set(p, r)
  BY <1>3, <1>9 DEF DigestManifest
<1>6. Along(r)'
  BY <1>1, <1>5, PublisherKnows DEF Along
<1>7. ASSUME r.steady PROVE Faithful(r, Dir(r.kind))
  <2>1. Faithful(publisher[p], Dir(publisher[p].kind))
    BY <1>1, <1>5, <1>7, PublisherKnows
  <2>2. QED
    BY <1>1, <1>3, <1>5, <2>1 DEF Faithful
<1>8. QED
  BY <1>1, <1>2, <1>4, <1>5, <1>6, <1>7, PublisherMoves

LEMMA HashFileKeeps ==
    ASSUME PublicationInv, NEW p \in Publishers, HashFile(p)
    PROVE  PublicationInv'
<1> DEFINE a == publisher[p]  n == Len(publisher[p].hashed)
<1>1. /\ a.step = "hash" /\ n <= Len(a.man.lists)
      /\ UNCHANGED <<release, package, packager, objects, commit>>
  BY DEF HashFile
<1>2. objects \subseteq objects' /\ objects' \in SUBSET Pairs
  BY <1>1, PublisherKnows
<1>3. CASE Set(p, Idle)
  BY <1>1, <1>2, <1>3, PublisherStops
<1>4. ASSUME NEW c \in FileOf(Dir(a.kind), n), Set(p, [a EXCEPT !.hashed = Append(@, c)])
      PROVE  PublicationInv'
  <2>1. /\ a \in Publishing /\ a.hashed \in Seq(Data \cup Manifests) /\ n \in Nat
        /\ Len(a.man.lists) \in Nat
    BY <1>1, PublisherKnows, ManifestType DEF Publishing
  <2>2. /\ c \in Data \cup Manifests
        /\ n = 0 => c = Dir(a.kind).man
        /\ n # 0 => c = Dir(a.kind).files[n]
    BY <1>1, <1>4, FileType
  <2>3. /\ Append(a.hashed, c) \in Seq(Data \cup Manifests)
        /\ Len(Append(a.hashed, c)) = n + 1
        /\ \A i \in 1 .. n : Append(a.hashed, c)[i] = a.hashed[i]
        /\ Append(a.hashed, c)[n + 1] = c
    BY <2>1, <2>2
  <2>9. PICK r : r = [a EXCEPT !.hashed = Append(@, c)]
    OBVIOUS
  <2>4. /\ r \in Publishing /\ r.step = "hash" /\ r.kind = a.kind
        /\ r.man = a.man /\ r.sha = a.sha
        /\ r.hashed = Append(a.hashed, c) /\ r.steady = a.steady
    BY <1>1, <2>1, <2>3, <2>9 DEF Publishing
  <2>5. Set(p, r)
    BY <1>4, <2>9
  <2>6. Along(r)'
    <3>1. Len(r.hashed) <= Len(r.man.lists) + 1
      BY <1>1, <2>1, <2>3, <2>4
    <3>2. r.kind = "buyer" => package # NoDir
      BY <1>1, <2>4, PublisherKnows DEF Along
    <3>3. QED
      BY <1>1, <2>4, <3>1, <3>2 DEF Along
  <2>7. ASSUME r.steady PROVE Faithful(r, Dir(r.kind))
    <3>1. Faithful(a, Dir(a.kind))
      BY <1>1, <2>4, <2>7, PublisherKnows
    <3>2. /\ a.man = Dir(a.kind).man /\ a.sha = Dir(a.kind).man /\ Dir(a.kind).files = a.man.lists
          /\ \A i \in 1 .. n : a.hashed[i] = IF i = 1 THEN a.man ELSE a.man.lists[i - 1]
          /\ a.kind = "buyer" => package.steady
      BY <1>1, <3>1 DEF Faithful
    <3>3. c = IF n + 1 = 1 THEN a.man ELSE a.man.lists[n + 1 - 1]
      BY <2>1, <2>2, <3>2
    <3>4. ASSUME NEW i \in 1 .. n + 1
          PROVE  r.hashed[i] = IF i = 1 THEN a.man ELSE a.man.lists[i - 1]
      <4>1. CASE i = n + 1
        BY <2>3, <2>4, <3>3, <4>1
      <4>2. CASE i \in 1 .. n
        BY <2>3, <2>4, <3>2, <4>2
      <4>3. QED
        BY <2>1, <4>1, <4>2
    <3>5. QED
      BY <2>3, <2>4, <3>2, <3>4 DEF Faithful
  <2>8. QED
    BY <1>1, <1>2, <2>4, <2>5, <2>6, <2>7, PublisherMoves
<1>5. QED
  BY <1>3, <1>4 DEF HashFile

LEMMA ReadCommitKeeps ==
    ASSUME PublicationInv, NEW p \in Publishers, ReadCommit(p)
    PROVE  PublicationInv'
<1> DEFINE a == publisher[p]  n == Len(publisher[p].man.lists)
<1>1. /\ a.step = "hash" /\ Len(a.hashed) > n
      /\ UNCHANGED <<release, package, packager, objects, commit>>
  BY DEF ReadCommit
<1>2. objects \subseteq objects' /\ objects' \in SUBSET Pairs
  BY <1>1, PublisherKnows
<1>3. CASE Set(p, Idle)
  BY <1>1, <1>2, <1>3, PublisherStops
<1>4. ASSUME NEW s \in {"upload", "again"}, Set(p, [a EXCEPT !.step = s, !.todo = 0 .. n])
      PROVE  PublicationInv'
  <2>1. /\ a \in Publishing /\ a.hashed \in Seq(Data \cup Manifests)
        /\ n \in Nat /\ 0 .. n \subseteq FileNumbers
    BY <1>1, PublisherKnows, ManifestType DEF Publishing
  <2>2. PICK r : r = [a EXCEPT !.step = s, !.todo = 0 .. n]
    OBVIOUS
  <2>3. /\ r \in Publishing /\ r.step = s /\ r.kind = a.kind /\ r.man = a.man /\ r.sha = a.sha
        /\ r.hashed = a.hashed /\ r.steady = a.steady /\ r.todo = 0 .. n
    BY <1>4, <2>1, <2>2 DEF Publishing
  <2>4. Along(a)
    BY <1>1, PublisherKnows
  <2>5. Len(a.hashed) = n + 1
    BY <1>1, <2>1, <2>4 DEF Along
  <2>6. Along(r)'
    <3>1. (0 .. Len(r.man.lists)) \ r.todo = {}
      BY <2>3
    <3>2. Len(r.hashed) = Len(r.man.lists) + 1 /\ Len(r.hashed) <= Len(r.man.lists) + 1
      BY <2>1, <2>3, <2>5
    <3>3. r.kind = "buyer" => package' # NoDir
      BY <1>1, <2>3, <2>4 DEF Along
    <3>4. QED
      BY <3>1, <3>2, <3>3 DEF Along
  <2>7. ASSUME r.steady PROVE Faithful(r, Dir(r.kind))
    <3>1. Faithful(a, Dir(a.kind))
      BY <1>1, <2>3, <2>7, PublisherKnows
    <3>2. QED
      BY <1>1, <2>3, <3>1 DEF Faithful
  <2>8. Set(p, r)
    BY <1>4, <2>2
  <2>9. QED
    BY <1>1, <1>2, <2>3, <2>6, <2>7, <2>8, PublisherMoves
<1>5. \/ Set(p, Idle)
      \/ \E s \in {"upload", "again"} : Set(p, [a EXCEPT !.step = s, !.todo = 0 .. n])
  BY DEF ReadCommit
<1>6. QED
  BY <1>3, <1>4, <1>5

\* What ensure_object finds or puts under the key of a file.
LEMMA SourceType ==
    ASSUME PublicationInv, NEW p \in Publishers, publisher[p].step # "idle", NEW i \in FileNumbers,
           NEW key, key = Key(publisher[p].kind, publisher[p].sha, i),
           NEW c, c \in IF Stored(key) = {} THEN FileOf(Dir(publisher[p].kind), i) ELSE Stored(key)
    PROVE  <<key, c>> \in Pairs
<1>1. publisher[p] \in Publishing
  BY PublisherKnows
<1>2. key \in {Key(k, m, j) : k \in Kinds, m \in Manifests, j \in FileNumbers}
  BY <1>1 DEF Publishing
<1>3. CASE Stored(key) = {}
  <2>1. c \in FileOf(Dir(publisher[p].kind), i)
    BY <1>3
  <2>2. c \in Data \cup Manifests
    BY <2>1, FileType
  <2>3. QED
    BY <1>2, <2>2 DEF Pairs
<1>4. CASE Stored(key) # {}
  <2>1. PICK o \in objects : o[1] = key /\ o[2] = c
    BY <1>4 DEF Stored
  <2>2. o \in Pairs
    BY <2>1, PublisherKnows
  <2>3. c \in Data \cup Manifests
    BY <2>1, <2>2 DEF Pairs
  <2>4. QED
    BY <1>2, <2>3 DEF Pairs
<1>5. QED
  BY <1>3, <1>4

LEMMA EnsureObjectKeeps ==
    ASSUME PublicationInv, NEW p \in Publishers, NEW i \in FileNumbers, EnsureObject(p, i)
    PROVE  PublicationInv'
<1> DEFINE a == publisher[p]
<1>1. PICK key : key = Key(a.kind, a.sha, i)
  OBVIOUS
<1>2. PICK source : source = IF Stored(key) = {} THEN FileOf(Dir(a.kind), i) ELSE Stored(key)
  OBVIOUS
<1>3. /\ a.step \in {"upload", "again"} /\ i \in a.todo
      /\ UNCHANGED <<release, package, packager, commit>>
      /\ objects' = objects \cup {<<key, c>> : c \in source}
  BY <1>1, <1>2 DEF EnsureObject
<1>4. objects \subseteq objects' /\ objects' \in SUBSET Pairs
  <2>1. \A c \in source : <<key, c>> \in Pairs
    BY <1>1, <1>2, <1>3, SourceType
  <2>2. QED
    BY <1>3, <2>1, PublisherKnows
<1>5. CASE Set(p, Idle)
  BY <1>3, <1>4, <1>5, PublisherStops
<1>6. ASSUME NEW c \in source, a.remote => c = a.hashed[i + 1],
             Set(p, [a EXCEPT !.todo = @ \ {i}])
      PROVE  PublicationInv'
  <2>1. a \in Publishing /\ Along(a)
    BY <1>3, PublisherKnows
  <2>2. PICK r : r = [a EXCEPT !.todo = @ \ {i}]
    OBVIOUS
  <2>3. /\ r \in Publishing /\ r.step = a.step /\ r.kind = a.kind /\ r.man = a.man
        /\ r.sha = a.sha /\ r.hashed = a.hashed /\ r.steady = a.steady /\ r.remote = a.remote
        /\ r.todo = a.todo \ {i}
    BY <2>1, <2>2 DEF Publishing
  <2>4. Along(r)'
    <3>1. ASSUME r.remote, NEW j \in (0 .. Len(r.man.lists)) \ r.todo
          PROVE  <<Key(r.kind, r.sha, j), r.hashed[j + 1]>> \in objects'
      <4>1. CASE j = i
        BY <1>1, <1>3, <1>6, <2>3, <3>1, <4>1
      <4>2. CASE j # i
        <5>1. <<Key(a.kind, a.sha, j), a.hashed[j + 1]>> \in objects
          BY <1>3, <2>1, <2>3, <3>1, <4>2 DEF Along
        <5>2. QED
          BY <1>4, <2>3, <5>1
      <4>3. QED
        BY <4>1, <4>2
    <3>2. /\ r.kind = "buyer" => package' # NoDir
          /\ Len(r.hashed) <= Len(r.man.lists) + 1 /\ Len(r.hashed) = Len(r.man.lists) + 1
      BY <1>3, <2>1, <2>3 DEF Along
    <3>3. QED
      BY <3>1, <3>2 DEF Along
  <2>5. ASSUME r.steady PROVE Faithful(r, Dir(r.kind))
    <3>1. Faithful(a, Dir(a.kind))
      BY <1>3, <2>3, <2>5, PublisherKnows
    <3>2. QED
      BY <2>3, <3>1 DEF Faithful
  <2>6. Set(p, r)
    BY <1>6, <2>2
  <2>7. QED
    BY <1>3, <1>4, <2>3, <2>4, <2>5, <2>6, PublisherMoves
<1>7. \/ Set(p, Idle)
      \/ \E c \in source : /\ a.remote => c = a.hashed[i + 1]
                           /\ Set(p, [a EXCEPT !.todo = @ \ {i}])
  BY <1>1, <1>2 DEF EnsureObject
<1>8. QED
  BY <1>5, <1>6, <1>7

\* The pairs of the files a manifest lists, and of the manifest.
Built(k, m) ==
    {<<Key(k, m, 0), m>>} \cup {<<Key(k, m, i), m.lists[i]>> : i \in DOMAIN m.lists}

\* What the digests of a directory that stayed in place are, put together.
LEMMA FaithfulCommit ==
    ASSUME NEW r \in Publishing, NEW k, k = r.kind, NEW m, m = r.sha, m.lists \in Seq(Data),
           Len(r.hashed) = Len(r.man.lists) + 1, NEW dir, Faithful(r, dir)
    PROVE  Expected(r) = Built(k, m)
<1> DEFINE n == Len(m.lists)
           built == {<<Key(k, m, 0), m>>} \cup
                    {<<Key(k, m, i), m.lists[i]>> : i \in DOMAIN m.lists}
<1>1. /\ r.man = m /\ n \in Nat /\ DOMAIN m.lists = 1 .. n
      /\ \A i \in 1 .. Len(r.hashed) : r.hashed[i] = IF i = 1 THEN m ELSE m.lists[i - 1]
  BY DEF Faithful
<1>2. DOMAIN r.hashed = 1 .. n + 1 /\ Len(r.hashed) = n + 1
  BY <1>1 DEF Publishing
<1>3. ASSUME NEW i \in 1 .. n + 1 PROVE <<Key(k, m, i - 1), r.hashed[i]>> \in built
  <2>1. CASE i = 1
    <3>1. i - 1 = 0 /\ r.hashed[i] = m
      BY <1>1, <1>2, <2>1
    <3>2. QED
      BY <3>1
  <2>2. CASE i # 1
    <3>1. r.hashed[i] = m.lists[i - 1] /\ i - 1 \in DOMAIN m.lists
      BY <1>1, <1>2, <2>2
    <3>2. QED
      BY <3>1
  <2>3. QED
    BY <2>1, <2>2
<1>4. Expected(r) \subseteq built
  BY <1>2, <1>3 DEF Expected
<1>5. ASSUME NEW j \in 0 .. n, NEW c, c = IF j = 0 THEN m ELSE m.lists[j]
      PROVE  <<Key(k, m, j), c>> \in Expected(r)
  <2>1. PICK i \in 1 .. n + 1 : i = j + 1
    BY <1>1
  <2>2. i - 1 = j /\ r.hashed[i] = c
    BY <1>1, <1>2, <1>5, <2>1
  <2>3. QED
    BY <1>2, <2>2 DEF Expected
<1>6. built \subseteq Expected(r)
  <2>1. <<Key(k, m, 0), m>> \in Expected(r)
    <3>1. 0 \in 0 .. n
      BY <1>1
    <3>2. QED
      BY <1>5, <3>1
  <2>2. ASSUME NEW j \in 1 .. n PROVE <<Key(k, m, j), m.lists[j]>> \in Expected(r)
    <3>1. j \in 0 .. n /\ j # 0
      BY <1>1
    <3>2. QED
      BY <1>5, <3>1
  <2>3. QED
    BY <1>1, <2>1, <2>2
<1>7. QED
  BY <1>4, <1>6 DEF Built

\* ... and whatever they are, they are pairs of the store.
LEMMA ExpectedType ==
    ASSUME NEW r \in Publishing, Along(r), r.step = "upload"
    PROVE  /\ Expected(r) \subseteq Pairs
           /\ <<Key(r.kind, r.sha, 0), r.hashed[1]>> \in Expected(r)
           /\ r.todo = {} /\ r.remote => Expected(r) \subseteq objects
<1> DEFINE n == Len(r.man.lists)
<1>1. /\ n \in Nat /\ 0 .. n \subseteq FileNumbers
      /\ r.hashed \in Seq(Data \cup Manifests) /\ r.kind \in Kinds /\ r.sha \in Manifests
  BY ManifestType DEF Publishing
<1>2. DOMAIN r.hashed = 1 .. n + 1
  BY <1>1 DEF Along
<1>3. ASSUME NEW i \in 1 .. n + 1
      PROVE  /\ <<Key(r.kind, r.sha, i - 1), r.hashed[i]>> \in Pairs
             /\ r.todo = {} /\ r.remote => <<Key(r.kind, r.sha, i - 1), r.hashed[i]>> \in objects
  <2>1. PICK j \in 0 .. n : j = i - 1
    BY <1>1
  <2>2. j \in FileNumbers /\ r.hashed[i] \in Data \cup Manifests
    BY <1>1, <1>2
  <2>3. <<Key(r.kind, r.sha, j), r.hashed[i]>> \in Pairs
    BY <1>1, <2>2 DEF Pairs
  <2>4. i = j + 1
    BY <1>1, <2>1
  <2>5. ASSUME r.todo = {}, r.remote
        PROVE  <<Key(r.kind, r.sha, j), r.hashed[i]>> \in objects
    BY <2>4, <2>5 DEF Along
  <2>6. QED
    BY <2>1, <2>3, <2>5
<1>4. <<Key(r.kind, r.sha, 0), r.hashed[1]>> \in Expected(r)
  <2>1. PICK i \in 1 .. n + 1 : i = 1
    BY <1>1
  <2>2. i - 1 = 0
    BY <2>1
  <2>3. QED
    BY <1>2, <2>1, <2>2 DEF Expected
<1>5. QED
  BY <1>2, <1>3, <1>4 DEF Expected

LEMMA WriteCommitKeeps ==
    ASSUME PublicationInv, NEW p \in Publishers, WriteCommit(p)
    PROVE  PublicationInv'
<1>1. PICK a : a = publisher[p]
  OBVIOUS
<1>2. /\ a.step = "upload" /\ a.todo = {} /\ a \in Publishing /\ Along(a)
      /\ a.steady => Faithful(a, Dir(a.kind))
      /\ UNCHANGED <<release, package, packager, objects>>
  BY <1>1, PublisherKnows DEF WriteCommit
<1>3. PublicationTypeOK /\ PackageTrue /\ PublishedIsOneBuild
  BY DEF PublicationInv
<1>4. PICK new : new = [sha |-> a.sha, objects |-> Expected(a), remote |-> a.remote,
                        steady |-> a.steady]
  OBVIOUS
<1>5. new \in Commits
  <2>1. Expected(a) \in SUBSET Pairs
    BY <1>2, ExpectedType
  <2>2. QED
    BY <1>2, <1>4, <2>1 DEF Publishing, Commits
<1>6. commit' = [commit EXCEPT ![a.kind] = IF @ # NoCommit THEN @ ELSE new]
  BY <1>1, <1>4 DEF WriteCommit
<1>7. commit' \in [Kinds -> {NoCommit} \cup Commits]
  BY <1>3, <1>5, <1>6 DEF PublicationTypeOK
<1>8. PublishedIsOneBuild'
  <2>1. ASSUME NEW k \in Kinds, NEW c, c = commit'[k], c # NoCommit, c.steady, NEW m, m = c.sha
        PROVE  /\ c.objects = {<<Key(k, m, 0), m>>} \cup
                              {<<Key(k, m, i), m.lists[i]>> : i \in DOMAIN m.lists}
               /\ k = "buyer" => m.from[1].lists = m.lists
    <3>1. CASE c = commit[k]
      BY <1>3, <2>1, <3>1 DEF PublishedIsOneBuild
    <3>2. CASE c # commit[k]
      <4>1. c = new /\ k = a.kind
        BY <1>3, <1>6, <2>1, <3>2 DEF PublicationTypeOK
      <4>2. c.sha = a.sha /\ c.objects = Expected(a) /\ a.steady
        BY <1>4, <2>1, <4>1
      <4>3. Faithful(a, Dir(a.kind)) /\ m = a.sha /\ m.lists \in Seq(Data)
        BY <1>2, <2>1, <4>2, ManifestType DEF Publishing
      <4>4. Len(a.hashed) = Len(a.man.lists) + 1
        BY <1>2 DEF Along
      <4>5. c.objects = {<<Key(k, m, 0), m>>} \cup
                        {<<Key(k, m, i), m.lists[i]>> : i \in DOMAIN m.lists}
        <5>1. PICK dir : dir = Dir(a.kind)
          OBVIOUS
        <5>2. Faithful(a, dir) /\ k = a.kind
          BY <4>1, <4>3, <5>1
        <5>3. Expected(a) = Built(k, m)
          BY <1>2, <4>3, <4>4, <5>2, FaithfulCommit
        <5>4. QED
          BY <4>2, <5>3 DEF Built
      <4>6. ASSUME k = "buyer" PROVE m.from[1].lists = m.lists
        <5>1. package # NoDir
          BY <1>2, <4>1, <4>6 DEF Along
        <5>2. package.steady /\ m = package.man
          BY <4>1, <4>3, <4>6 DEF Faithful, Dir
        <5>3. QED
          BY <1>3, <5>1, <5>2 DEF PackageTrue
      <4>7. QED
        BY <4>5, <4>6
    <3>3. QED
      BY <3>1, <3>2
  <2>2. QED
    BY <2>1 DEF PublishedIsOneBuild
<1>9. objects \subseteq objects' /\ objects' \in SUBSET Pairs
  BY <1>2, <1>3 DEF PublicationTypeOK
<1>10. CASE Set(p, Idle)
  <2>1. PICK r \in {Idle} : r = Idle /\ r.step = "idle"
    BY DEF Idle
  <2>2. publisher' = [publisher EXCEPT ![p] = r]
    BY <1>10, <2>1 DEF Set
  <2>3. QED
    BY <1>2, <1>7, <1>8, <1>9, <2>1, <2>2, PublisherKeeps
<1>11. CASE Step(p, "ok")
  <2>1. PICK r : r = [a EXCEPT !.step = "ok"]
    OBVIOUS
  <2>2. /\ r \in Publishing /\ r.step = "ok" /\ r.kind = a.kind /\ r.man = a.man
        /\ r.sha = a.sha /\ r.hashed = a.hashed /\ r.steady = a.steady /\ r.remote = a.remote
        /\ r.todo = a.todo
    BY <1>2, <2>1 DEF Publishing
  <2>3. publisher' = [publisher EXCEPT ![p] = r]
    BY <1>1, <1>11, <2>1 DEF Step, Set
  <2>4. Along(r)'
    BY <1>2, <2>2 DEF Along
  <2>5. r.steady => Faithful(r, Dir(r.kind))
    BY <1>2, <2>2 DEF Faithful
  <2>6. QED
    BY <1>2, <1>7, <1>8, <1>9, <2>2, <2>3, <2>4, <2>5, PublisherKeeps
<1>12. QED
  BY <1>10, <1>11 DEF WriteCommit

LEMMA PublishedAgainKeeps ==
    ASSUME PublicationInv, NEW p \in Publishers, PublishedAgain(p)
    PROVE  PublicationInv'
<1> DEFINE a == publisher[p]
<1>1. /\ a.step = "again" /\ a \in Publishing /\ Along(a)
      /\ a.steady => Faithful(a, Dir(a.kind))
      /\ UNCHANGED <<release, package, packager, objects, commit>>
  BY PublisherKnows DEF PublishedAgain
<1>2. objects \subseteq objects' /\ objects' \in SUBSET Pairs
  BY <1>1, PublisherKnows
<1>3. PICK r : r = [a EXCEPT !.step = "ok"]
  OBVIOUS
<1>4. /\ r \in Publishing /\ r.step = "ok" /\ r.kind = a.kind /\ r.man = a.man
      /\ r.sha = a.sha /\ r.hashed = a.hashed /\ r.steady = a.steady /\ r.remote = a.remote
      /\ r.todo = a.todo
  BY <1>1, <1>3 DEF Publishing
<1>5. Set(p, r)
  BY <1>3 DEF PublishedAgain, Step
<1>6. Along(r)'
  BY <1>1, <1>4 DEF Along
<1>7. r.steady => Faithful(r, Dir(r.kind))
  BY <1>1, <1>4 DEF Faithful
<1>8. QED
  BY <1>1, <1>2, <1>4, <1>5, <1>6, <1>7, PublisherMoves

LEMMA PublishEndsKeeps ==
    ASSUME PublicationInv, NEW p \in Publishers, PublishEnds(p)
    PROVE  PublicationInv'
<1>1. /\ Set(p, Idle) /\ UNCHANGED <<release, package, packager, commit, objects>>
      /\ objects \in SUBSET Pairs
  BY DEF PublishEnds, PublicationInv, PublicationTypeOK
<1>2. QED
  BY <1>1, PublisherStops

-----------------------------------------------------------------------------
\* A directory of one kind is replaced under whoever reads it.
LEMMA ShakenKeeps ==
    ASSUME PublicationInv, NEW kind \in Kinds,
           publisher' = [q \in Publishers |-> Shaken(publisher[q], kind)],
           kind = "release" => UNCHANGED package,
           kind = "buyer" => UNCHANGED release,
           package # NoDir => package' # NoDir, UNCHANGED objects
    PROVE  PublishersTrue' /\ publisher' \in [Publishers -> {Idle} \cup Publishing]
<1>1. ASSUME NEW q \in Publishers
      PROVE  publisher'[q] \in {Idle} \cup Publishing
  <2>1. publisher[q] \in {Idle} \cup Publishing
    BY DEF PublicationInv, PublicationTypeOK
  <2>2. CASE publisher[q] \in Publishing
    BY <2>2 DEF Shaken, Publishing
  <2>3. CASE publisher[q] = Idle
    BY <2>3 DEF Shaken, Idle
  <2>4. QED
    BY <2>1, <2>2, <2>3
<1>2. ASSUME NEW q \in Publishers, publisher'[q].step # "idle"
      PROVE  (/\ Along(publisher[q])
              /\ publisher[q].steady => Faithful(publisher[q], Dir(publisher[q].kind)))'
  <2>1. PICK a : a = publisher[q]
    OBVIOUS
  <2>2. PICK r : r = Shaken(a, kind)
    OBVIOUS
  <2>3. publisher'[q] = r /\ r.step # "idle"
    BY <1>2, <2>1, <2>2
  <2>4. a.step # "idle"
    BY <2>2, <2>3 DEF Shaken
  <2>5. a \in Publishing /\ Along(a) /\ (a.steady => Faithful(a, Dir(a.kind)))
    BY <2>1, <2>4, PublisherKnows
  <2>6. /\ r.step = a.step /\ r.kind = a.kind /\ r.man = a.man /\ r.sha = a.sha
        /\ r.hashed = a.hashed /\ r.remote = a.remote /\ r.todo = a.todo
        /\ a.kind = kind => r.steady = FALSE
        /\ a.kind # kind => r = a
    BY <2>2, <2>4, <2>5 DEF Shaken, Publishing
  <2>7. Along(r)'
    BY <2>5, <2>6 DEF Along
  <2>8. Along(publisher[q])'
    BY <2>3, <2>7 DEF Along
  <2>9. ASSUME r.steady PROVE Faithful(publisher[q], Dir(publisher[q].kind))'
    <3>1. a.kind # kind /\ r = a
      BY <2>6, <2>9
    <3>2. Faithful(a, Dir(a.kind))
      BY <2>5, <2>9, <3>1
    <3>3. PICK dir : dir = Dir(a.kind)
      OBVIOUS
    <3>4. a.kind \in Kinds
      BY <2>5 DEF Publishing
    <3>5. CASE a.kind = "release"
      <4>1. kind = "buyer"
        BY <3>1, <3>5 DEF Kinds
      <4>2. Dir(a.kind)' = dir
        BY <3>3, <3>5, <4>1 DEF Dir
      <4>3. QED
        BY <2>3, <3>1, <3>2, <3>3, <3>5, <4>2 DEF Faithful, Dir
    <3>6. CASE a.kind = "buyer"
      <4>1. kind = "release"
        BY <3>1, <3>6 DEF Kinds
      <4>2. Dir(a.kind)' = dir
        BY <3>3, <3>6, <4>1 DEF Dir
      <4>3. QED
        BY <2>3, <3>1, <3>2, <3>3, <3>6, <4>1, <4>2 DEF Faithful, Dir
    <3>7. QED
      BY <3>4, <3>5, <3>6 DEF Kinds
  <2>10. QED
    BY <2>3, <2>8, <2>9
<1>3. QED
  BY <1>1, <1>2 DEF PublishersTrue

LEMMA RebuildKeeps ==
    ASSUME PublicationInv, Rebuild
    PROVE  PublicationInv'
<1>0. PublicationTypeOK /\ PackageTrue /\ PublishedIsOneBuild
  BY DEF PublicationInv
<1>1. /\ release' \in ReleaseDirs /\ UNCHANGED <<package, objects, commit>>
      /\ packager' = Shaken(packager, "release")
      /\ publisher' = [p \in Publishers |-> Shaken(publisher[p], "release")]
  BY DEF Rebuild
<1>2. PublishersTrue' /\ publisher' \in [Publishers -> {Idle} \cup Publishing]
  BY <1>1, ShakenKeeps DEF Kinds
<1>3. packager' \in {Idle} \cup Packaging /\ (packager'.step # "idle" => ~packager'.steady)
  <2>1. CASE packager = Idle
    BY <1>1, <2>1 DEF Shaken, Idle
  <2>2. CASE packager \in Packaging
    BY <1>1, <2>2 DEF Shaken, Packaging
  <2>3. QED
    BY <1>0, <2>1, <2>2 DEF PublicationTypeOK
<1>4. PublicationTypeOK'
  BY <1>0, <1>1, <1>2, <1>3 DEF PublicationTypeOK
<1>5. PackagerTrue' /\ PackageTrue' /\ PublishedIsOneBuild'
  BY <1>0, <1>1, <1>3 DEF PackagerTrue, PackageTrue, PublishedIsOneBuild
<1>6. QED
  BY <1>2, <1>4, <1>5 DEF PublicationInv

LEMMA StartPackageKeeps ==
    ASSUME PublicationInv, StartPackage
    PROVE  PublicationInv'
<1>0. PublicationTypeOK /\ PackageTrue /\ PublishedIsOneBuild /\ PublishersTrue
  BY DEF PublicationInv
<1>1. UNCHANGED <<release, package, publisher, objects, commit>>
  BY DEF StartPackage
<1>2. packager' \in Packaging /\ packager'.man = release.man
  BY <1>0 DEF StartPackage, Packaging, PublicationTypeOK, ReleaseManifests
<1>3. PublicationTypeOK' /\ PackageTrue' /\ PackagerTrue' /\ PublishedIsOneBuild'
  BY <1>0, <1>1, <1>2
     DEF PublicationTypeOK, PackageTrue, PackagerTrue, PublishedIsOneBuild
<1>4. PublishersTrue'
  BY <1>0, <1>1 DEF PublishersTrue, Along, Faithful, Dir
<1>5. QED
  BY <1>3, <1>4 DEF PublicationInv

LEMMA PackagePartsKeeps ==
    ASSUME PublicationInv, PackageParts
    PROVE  PublicationInv'
<1>0. PublicationTypeOK /\ PackageTrue /\ PackagerTrue /\ PublishedIsOneBuild /\ PublishersTrue
  BY DEF PublicationInv
<1>1. UNCHANGED <<release, package, publisher, objects, commit>> /\ packager.step = "parts"
  BY DEF PackageParts
<1>2. packager \in Packaging
  BY <1>0, <1>1 DEF PublicationTypeOK, Idle
<1>3. /\ packager' \in {Idle} \cup Packaging
      /\ packager'.step # "idle" => packager'.man = packager.man /\ packager'.steady = packager.steady
  BY <1>2 DEF PackageParts, Packaging, Idle
<1>4. PublicationTypeOK' /\ PackageTrue' /\ PublishedIsOneBuild'
  BY <1>0, <1>1, <1>3 DEF PublicationTypeOK, PackageTrue, PublishedIsOneBuild
<1>5. PackagerTrue'
  BY <1>0, <1>1, <1>3 DEF PackagerTrue
<1>6. PublishersTrue'
  BY <1>0, <1>1 DEF PublishersTrue, Along, Faithful, Dir
<1>7. QED
  BY <1>4, <1>5, <1>6 DEF PublicationInv

LEMMA FinishPackageKeeps ==
    ASSUME PublicationInv, FinishPackage
    PROVE  PublicationInv'
<1>0. PublicationTypeOK /\ PackageTrue /\ PackagerTrue /\ PublishedIsOneBuild
  BY DEF PublicationInv
<1>1. /\ packager.step = "lineage" /\ Packages < MaxPackages
      /\ package' = [man |-> [build |-> Packages + 1, lists |-> packager.man.lists,
                              from |-> <<release.man>>],
                     files |-> packager.man.lists, steady |-> packager.steady]
      /\ publisher' = [p \in Publishers |-> Shaken(publisher[p], "buyer")]
      /\ packager' = Idle /\ UNCHANGED <<release, objects, commit>>
  BY DEF FinishPackage
<1>2. packager \in Packaging
  BY <1>0, <1>1 DEF PublicationTypeOK, Idle
<1>3. packager.man \in ReleaseManifests /\ packager.steady \in BOOLEAN
  BY <1>2 DEF Packaging
<1>4. packager.man.lists \in Seq(Data)
  BY <1>3, ManifestType DEF Manifests
<1>5. Packages \in Nat
  <2>1. CASE package = NoDir
    BY <2>1 DEF Packages
  <2>2. CASE package # NoDir
    <3>1. package.man \in PackageManifests
      BY <1>0, <2>2 DEF PublicationTypeOK, PackageDirs
    <3>2. package.man.build \in 1 .. MaxPackages
      BY <3>1 DEF PackageManifests
    <3>3. QED
      BY <2>2, <3>2, PublicationAssumption DEF Packages
  <2>3. QED
    BY <2>1, <2>2
<1>6. package'.man \in PackageManifests
  <2>1. PICK n \in 1 .. MaxPackages : n = Packages + 1
    BY <1>1, <1>5, PublicationAssumption
  <2>3. /\ packager.man.lists \in {m.lists : m \in ReleaseManifests}
        /\ <<release.man>> \in {<<m>> : m \in ReleaseManifests}
    BY <1>0, <1>3 DEF PublicationTypeOK, ReleaseManifests
  <2>4. QED
    BY <1>1, <2>1, <2>3 DEF PackageManifests
<1>7. package' \in PackageDirs /\ package' # NoDir
  BY <1>1, <1>3, <1>4, <1>6, PublicationAssumption DEF PackageDirs
<1>8. PublishersTrue' /\ publisher' \in [Publishers -> {Idle} \cup Publishing]
  BY <1>1, <1>7, ShakenKeeps DEF Kinds
<1>9. PublicationTypeOK'
  BY <1>0, <1>1, <1>7, <1>8 DEF PublicationTypeOK
<1>10. PackageTrue'
  <2>1. package'.steady => packager.man = release.man
    BY <1>0, <1>1 DEF PackagerTrue
  <2>2. package'.man.from[1] = release.man /\ package'.man.lists = packager.man.lists
    BY <1>1
  <2>3. package'.files = package'.man.lists
    BY <1>1
  <2>4. QED
    BY <2>1, <2>2, <2>3 DEF PackageTrue
<1>11. PackagerTrue' /\ PublishedIsOneBuild'
  BY <1>0, <1>1 DEF PackagerTrue, PublishedIsOneBuild, Idle
<1>12. QED
  BY <1>8, <1>9, <1>10, <1>11 DEF PublicationInv

\* Nobody publishes while an object is removed.
LEMMA RemoveObjectKeeps ==
    ASSUME PublicationInv, RemoveObject
    PROVE  PublicationInv'
<1>0. PublicationTypeOK /\ PackageTrue /\ PackagerTrue /\ PublishedIsOneBuild
  BY DEF PublicationInv
<1>1. /\ UNCHANGED <<release, package, packager, publisher, commit>>
      /\ objects' \subseteq objects /\ \A p \in Publishers : publisher[p].step = "idle"
  BY DEF RemoveObject, Idle
<1>2. PublicationTypeOK'
  BY <1>0, <1>1 DEF PublicationTypeOK
<1>3. PackageTrue' /\ PackagerTrue' /\ PublishedIsOneBuild'
  BY <1>0, <1>1 DEF PackageTrue, PackagerTrue, PublishedIsOneBuild
<1>4. PublishersTrue'
  BY <1>1 DEF PublishersTrue
<1>5. QED
  BY <1>2, <1>3, <1>4 DEF PublicationInv

-----------------------------------------------------------------------------
LEMMA PublicationStarts == PublicationInit => PublicationInv
<1> SUFFICES ASSUME PublicationInit PROVE PublicationInv
  OBVIOUS
<1>1. PublicationTypeOK
  BY DEF PublicationInit, PublicationTypeOK
<1>2. PackageTrue /\ PackagerTrue /\ PublishersTrue /\ PublishedIsOneBuild
  BY DEF PublicationInit, PackageTrue, PackagerTrue, PublishersTrue, PublishedIsOneBuild, Idle
<1>3. QED
  BY <1>1, <1>2 DEF PublicationInv

LEMMA PublicationKeeps == PublicationInv /\ [PublicationNext]_publicationVars => PublicationInv'
<1> SUFFICES ASSUME PublicationInv, [PublicationNext]_publicationVars PROVE PublicationInv'
  OBVIOUS
<1>1. CASE Rebuild
  BY <1>1, RebuildKeeps
<1>2. CASE StartPackage
  BY <1>2, StartPackageKeeps
<1>3. CASE PackageParts
  BY <1>3, PackagePartsKeeps
<1>4. CASE FinishPackage
  BY <1>4, FinishPackageKeeps
<1>5. CASE RemoveObject
  BY <1>5, RemoveObjectKeeps
<1>6. ASSUME NEW p \in Publishers, NEW k \in Kinds, NEW b \in BOOLEAN, StartPublish(p, k, b)
      PROVE  PublicationInv'
  BY <1>6, StartPublishKeeps
<1>7. ASSUME NEW p \in Publishers, CheckFiles(p) PROVE PublicationInv'
  BY <1>7, CheckFilesKeeps
<1>8. ASSUME NEW p \in Publishers, DigestManifest(p) PROVE PublicationInv'
  BY <1>8, DigestManifestKeeps
<1>9. ASSUME NEW p \in Publishers, HashFile(p) PROVE PublicationInv'
  BY <1>9, HashFileKeeps
<1>10. ASSUME NEW p \in Publishers, ReadCommit(p) PROVE PublicationInv'
  BY <1>10, ReadCommitKeeps
<1>11. ASSUME NEW p \in Publishers, NEW i \in FileNumbers, EnsureObject(p, i)
       PROVE  PublicationInv'
  BY <1>11, EnsureObjectKeeps
<1>12. ASSUME NEW p \in Publishers, WriteCommit(p) PROVE PublicationInv'
  BY <1>12, WriteCommitKeeps
<1>13. ASSUME NEW p \in Publishers, PublishedAgain(p) PROVE PublicationInv'
  BY <1>13, PublishedAgainKeeps
<1>14. ASSUME NEW p \in Publishers, PublishEnds(p) PROVE PublicationInv'
  BY <1>14, PublishEndsKeeps
<1>15. CASE UNCHANGED publicationVars
  <2>1. UNCHANGED <<release, package, packager, publisher, objects, commit>>
    BY <1>15 DEF publicationVars
  <2>2. PublicationTypeOK' /\ PackageTrue' /\ PackagerTrue' /\ PublishedIsOneBuild'
    BY <2>1 DEF PublicationInv, PublicationTypeOK, PackageTrue, PackagerTrue, PublishedIsOneBuild
  <2>3. PublishersTrue'
    BY <2>1 DEF PublicationInv, PublishersTrue, Along, Faithful, Dir
  <2>4. QED
    BY <2>2, <2>3 DEF PublicationInv
<1>16. QED
  BY <1>1, <1>2, <1>3, <1>4, <1>5, <1>6, <1>7, <1>8, <1>9, <1>10, <1>11, <1>12, <1>13, <1>14,
     <1>15 DEF PublicationNext

\* The state of publication: what the packager and every publisher know of the
\* directories and of the store, whoever replaces them in between.
THEOREM PublicationIsSound == PublicationSpec => []PublicationInv
<1>1. QED
  BY PublicationStarts, PublicationKeeps, PTL DEF PublicationSpec

\* A COMMIT of a directory that nobody replaced is one verified build, and the
\* package it is of names the Release its files came from
\* (publish.rs:313-462, buyer.rs:95-192).
THEOREM CommitsAreOneBuild == PublicationSpec => []PublishedIsOneBuild
<1>1. PublicationInv => PublishedIsOneBuild
  BY DEF PublicationInv
<1>2. QED
  BY <1>1, PublicationIsSound, PTL

-----------------------------------------------------------------------------
(* Publication implements the commit protocol.                             *)

LEMMA NothingNamed == PublicationInit => Protocol!CommitInit
BY DEF PublicationInit, Protocol!CommitInit, Named

\* ensure_object puts one content, and nothing when one is there.
LEMMA EnsurePuts ==
    ASSUME PublicationInv, NEW p \in Publishers, NEW i \in FileNumbers, EnsureObject(p, i)
    PROVE  \/ objects' = objects
           \/ objects' # objects /\ \E x \in Pairs : objects' = objects \cup {x}
<1> DEFINE a == publisher[p]
<1>1. PICK key : key = Key(a.kind, a.sha, i)
  OBVIOUS
<1>2. PICK source : source = IF Stored(key) = {} THEN FileOf(Dir(a.kind), i) ELSE Stored(key)
  OBVIOUS
<1>3. a.step # "idle" /\ objects' = objects \cup {<<key, c>> : c \in source}
  BY <1>1, <1>2 DEF EnsureObject
<1>4. \A c \in source : <<key, c>> \in Pairs
  BY <1>1, <1>2, <1>3, SourceType
<1>5. CASE Stored(key) # {}
  <2>1. ASSUME NEW c \in source PROVE <<key, c>> \in objects
    <3>1. PICK o \in objects : o[1] = key /\ o[2] = c
      BY <1>2, <1>5, <2>1 DEF Stored
    <3>2. o = <<o[1], o[2]>>
      BY PublisherKnows, <1>3 DEF Pairs
    <3>3. QED
      BY <3>1, <3>2
  <2>2. QED
    BY <1>3, <2>1
<1>6. CASE Stored(key) = {}
  <2>1. CASE source = {}
    BY <1>3, <2>1
  <2>2. ASSUME NEW c \in source
        PROVE  \/ objects' = objects
               \/ objects' # objects /\ \E x \in Pairs : objects' = objects \cup {x}
    <3>1. source = {c}
      BY <1>2, <1>3, <1>6, FileType
    <3>2. objects' = objects \cup {<<key, c>>}
      BY <1>3, <3>1
    <3>3. QED
      BY <1>4, <3>2
  <2>3. QED
    BY <2>1, <2>2
<1>7. QED
  BY <1>5, <1>6

\* write_commit names what is in the store, or nothing new.
LEMMA CommitNames ==
    ASSUME PublicationInv, NEW p \in Publishers, WriteCommit(p)
    PROVE  Protocol!Commit \/ UNCHANGED Protocol!commitVars
<1>1. PICK a : a = publisher[p]
  OBVIOUS
<1>2. /\ a.step = "upload" /\ a.todo = {} /\ a \in Publishing /\ Along(a)
      /\ UNCHANGED objects /\ commit \in [Kinds -> {NoCommit} \cup Commits]
  BY <1>1, PublisherKnows DEF WriteCommit, PublicationInv, PublicationTypeOK
<1>3. PICK new : new = [sha |-> a.sha, objects |-> Expected(a), remote |-> a.remote,
                        steady |-> a.steady]
  OBVIOUS
<1>4. commit' = [commit EXCEPT ![a.kind] = IF @ # NoCommit THEN @ ELSE new]
  BY <1>1, <1>3 DEF WriteCommit
<1>5. a.kind \in Kinds /\ a.remote \in BOOLEAN /\ new.remote = a.remote /\ new.objects = Expected(a)
  BY <1>2, <1>3 DEF Publishing
<1>6. CASE commit[a.kind] # NoCommit \/ new = NoCommit \/ ~a.remote
  <2>1. \A k \in Kinds : Named'[k] = Named[k]
    BY <1>2, <1>4, <1>5, <1>6 DEF Named
  <2>2. Named' = Named
    BY <2>1 DEF Named
  <2>3. QED
    BY <1>2, <2>2 DEF Protocol!commitVars
<1>7. CASE commit[a.kind] = NoCommit /\ new # NoCommit /\ a.remote
  <2>1. Named[a.kind] = {} /\ Named'[a.kind] = Expected(a)
    BY <1>2, <1>4, <1>5, <1>7 DEF Named
  <2>2. \A k \in Kinds \ {a.kind} : Named'[k] = Named[k]
    BY <1>2, <1>4, <1>5 DEF Named
  <2>3. Expected(a) # {} /\ Expected(a) \subseteq objects
    BY <1>2, <1>7, ExpectedType
  <2>4. Named' = [Named EXCEPT ![a.kind] = Named'[a.kind]]
    BY <1>5, <2>2 DEF Named
  <2>5. QED
    BY <1>2, <1>5, <2>1, <2>3, <2>4 DEF Protocol!Commit
<1>8. QED
  BY <1>6, <1>7

LEMMA PublicationSteps ==
    PublicationInv /\ [PublicationNext]_publicationVars
        => [Protocol!CommitNext]_Protocol!commitVars
<1> SUFFICES ASSUME PublicationInv, [PublicationNext]_publicationVars
             PROVE  Protocol!CommitNext \/ UNCHANGED Protocol!commitVars
  BY DEF Protocol!commitVars
<1>1. ASSUME UNCHANGED <<objects, commit>> PROVE UNCHANGED Protocol!commitVars
  BY <1>1 DEF Protocol!commitVars, Named
<1>2. CASE RemoveObject
  <2>1. UNCHANGED Named
    BY <1>2 DEF RemoveObject, Named
  <2>2. QED
    BY <1>2, <2>1 DEF RemoveObject, Protocol!CommitNext, Protocol!Remove
<1>3. ASSUME NEW p \in Publishers, NEW i \in FileNumbers, EnsureObject(p, i)
      PROVE  Protocol!CommitNext \/ UNCHANGED Protocol!commitVars
  <2>1. UNCHANGED Named
    BY <1>3 DEF EnsureObject, Named
  <2>2. \/ objects' = objects
        \/ objects' # objects /\ \E x \in Pairs : objects' = objects \cup {x}
    BY <1>3, EnsurePuts
  <2>3. QED
    BY <2>1, <2>2 DEF Protocol!CommitNext, Protocol!Put, Protocol!commitVars
<1>4. ASSUME NEW p \in Publishers, WriteCommit(p)
      PROVE  Protocol!CommitNext \/ UNCHANGED Protocol!commitVars
  BY <1>4, CommitNames DEF Protocol!CommitNext
<1>5. CASE Rebuild \/ StartPackage \/ PackageParts \/ FinishPackage
  BY <1>1, <1>5 DEF Rebuild, StartPackage, PackageParts, FinishPackage
<1>6. ASSUME NEW p \in Publishers,
             \/ \E k \in Kinds, b \in BOOLEAN : StartPublish(p, k, b)
             \/ CheckFiles(p) \/ DigestManifest(p) \/ HashFile(p) \/ ReadCommit(p)
             \/ PublishedAgain(p) \/ PublishEnds(p)
      PROVE  UNCHANGED Protocol!commitVars
  BY <1>1, <1>6 DEF StartPublish, CheckFiles, DigestManifest, HashFile, ReadCommit,
                    PublishedAgain, PublishEnds
<1>7. CASE UNCHANGED publicationVars
  BY <1>1, <1>7 DEF publicationVars
<1>8. QED
  BY <1>2, <1>3, <1>4, <1>5, <1>6, <1>7 DEF PublicationNext

\* Publication implements the commit protocol: a COMMIT made with verification
\* of the remote digests names only objects that are in the store with the
\* bytes it says, and never changes (publish.rs:148-221,
\* object_store.rs:181-298).
THEOREM PublicationImplementsCommit == PublicationSpec => PublicationCommitsLast
<1>1. PublicationSpec => Protocol!CommitInit /\ [][Protocol!CommitNext]_Protocol!commitVars
  BY PublicationIsSound, NothingNamed, PublicationSteps, PTL DEF PublicationSpec
<1>2. QED
  BY <1>1 DEF PublicationCommitsLast, Protocol!CommitSpec
=============================================================================
