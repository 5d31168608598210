-------------------------------- MODULE Release --------------------------------
(***************************************************************************)
(* The build of a Release (release.rs): Session lines are read into        *)
(* partitions by trajectory, every trajectory is reduced to its most       *)
(* complete snapshot or reported as divergent, the survivors are scored    *)
(* by several workers, and the result replaces the old output only after   *)
(* it has been verified from its files.                                    *)
(*                                                                         *)
(* A session is a record: traj (trajectory id, as a number), prompt (the   *)
(* system prompt and the tools), msgs (fingerprints of its messages),      *)
(* runtime (messages its quality projection adds), final, closed,          *)
(* captures, and good (what the assessment of score.rs says of it).  A     *)
(* file is the sequence of its records; compression, part sizes, token     *)
(* totals and checksums, which are computed from the same records, are     *)
(* left out, and so are the I/O errors: like a crash, they end the build   *)
(* and leave a temporary directory nobody reads.                           *)
(***************************************************************************)
EXTENDS Naturals, FiniteSets, SequencesExt

CONSTANTS
    Inputs,          \* the sequences of lines a build may be given
    Bad,             \* a line that is not JSON or has no session_id
    Partitions,      \* dedup_partitions
    WorkerCounts,    \* the numbers of workers a build may run with
    Sha(_),          \* the digest of a content, as a number
    OldRelease, NoRelease

ASSUME ReleaseAssumption ==
    /\ Partitions \in Nat \ {0} /\ WorkerCounts \subseteq 1 .. Partitions

VARIABLES
    input,       \* the lines, in the order of the sorted input files
    options,     \* [workers, requirePass, replace]
    stage,       \* what the build does next, or how it ended
    lineNo,      \* lines read, input_records
    bucket,      \* [0 .. Partitions - 1 -> Seq(session)]
    candidates,  \* survivors, in the order of the candidate files
    divergent,   \* divergent-sessions report: records [traj, contents]
    removed,     \* [exact, subset]: records dropped by deduplication
    queue,       \* [0 .. workers - 1 -> Seq(session)], the score partitions
    scored,      \* what each worker has written, or NoRelease
    staging,     \* the release in the temporary directory, or NoRelease
    output       \* the release at config.output, OldRelease or NoRelease

releaseVars ==
    <<input, options, stage, lineNo, bucket, candidates, divergent, removed,
      queue, scored, staging, output>>

\* exact_content_fingerprint: prompt, tools and messages, nothing else.
Content(s) == [prompt |-> s.prompt, msgs |-> s.msgs]

\* materialize_profile_session: a runtime message completes the message it is
\* evidence for, or is appended.
Materialised(s) ==
    [prompt |-> s.prompt,
     msgs |-> s.msgs \o SelectSeq(s.runtime, LAMBDA m : m \notin ToSet(s.msgs))]

\* snapshot_order_key, compared lexicographically.
OrderKey(s) ==
    <<IF s.final THEN 1 ELSE 0, IF s.closed THEN 1 ELSE 0, Len(s.msgs),
      s.captures, Sha(Content(s))>>
Below(s, t) ==
    \E i \in 1 .. 5 : /\ OrderKey(s)[i] < OrderKey(t)[i]
                      /\ \A j \in 1 .. i - 1 : OrderKey(s)[j] = OrderKey(t)[j]

\* is_contiguous_subsequence, which a prompt plays no part in.
Within(n, h) == \E i \in 0 .. Len(h) - Len(n) : n = SubSeq(h, i + 1, i + Len(n))

\* The first of every group of records that agree on F.
FirstOfEach(seq, F(_)) ==
    LET keep == {i \in DOMAIN seq : \A j \in 1 .. i - 1 : F(seq[j]) # F(seq[i])}
    IN  [k \in 1 .. Cardinality(keep) |->
            seq[CHOOSE i \in keep : Cardinality({j \in keep : j <= i}) = k]]

Lines(W) == 0 .. W - 1

ReleaseInit ==
    /\ input \in Inputs
    /\ options \in [workers : WorkerCounts, requirePass : BOOLEAN, replace : BOOLEAN]
    /\ stage = "start" /\ lineNo = 0
    /\ bucket = [p \in Lines(Partitions) |-> <<>>]
    /\ candidates = <<>> /\ divergent = {} /\ removed = [exact |-> 0, subset |-> 0]
    /\ queue = [w \in Lines(options.workers) |-> <<>>]
    /\ scored = [w \in Lines(options.workers) |-> NoRelease]
    /\ staging = NoRelease /\ output \in {OldRelease, NoRelease}

-----------------------------------------------------------------------------
\* The early bail: an output that may not be replaced.
Begin ==
    /\ stage = "start"
    /\ stage' = IF output # NoRelease /\ ~options.replace THEN "refused" ELSE "read"
    /\ UNCHANGED <<input, options, lineNo, bucket, candidates, divergent, removed,
                   queue, scored, staging, output>>

\* One line: a parse failure is counted and skipped.
ReadLine ==
    /\ stage = "read" /\ lineNo < Len(input)
    /\ lineNo' = lineNo + 1
    /\ LET s == input[lineNo + 1]
       IN  bucket' = IF s = Bad THEN bucket
                     ELSE [bucket EXCEPT ![s.traj % Partitions] = Append(@, s)]
    /\ UNCHANGED <<input, options, stage, candidates, divergent, removed,
                   queue, scored, staging, output>>

InputRead ==
    /\ stage = "read" /\ lineNo = Len(input)
    /\ stage' = "dedup"
    /\ UNCHANGED <<input, options, lineNo, bucket, candidates, divergent, removed,
                   queue, scored, staging, output>>

\* A trajectory of a partition: its records, exact copies dropped.
Trajectories(p) == {s.traj : s \in ToSet(bucket[p])}
Snapshots(p, t) == FirstOfEach(SelectSeq(bucket[p], LAMBDA s : s.traj = t), Content)
Best(seq) == CHOOSE s \in ToSet(seq) : \A o \in ToSet(seq) \ {s} : Below(o, s)
\* Mutant: only the second snapshot is compared.
AllWithin_Second(seq) == Len(seq) > 1 => Within(seq[2].msgs, Best(seq).msgs)
AllWithin(seq) == \A s \in ToSet(seq) : Within(s.msgs, Best(seq).msgs)

SumOver(S, f(_)) == FoldSet(LAMBDA x, acc : acc + f(x), 0, S)

\* deduplicate_partition, for every partition in turn; keys are sorted.
Deduplicate ==
    /\ stage = "dedup"
    /\ LET whole(p) == {t \in Trajectories(p) : AllWithin(Snapshots(p, t))}
           kept == UNION {whole(p) : p \in Lines(Partitions)}
           before(t, u) == \/ t % Partitions < u % Partitions
                           \/ t % Partitions = u % Partitions /\ t < u
           of(t) == Snapshots(t % Partitions, t)
           all == UNION {Trajectories(p) : p \in Lines(Partitions)}
           order == SetToSortSeq(kept, before)
       IN  /\ candidates' = [i \in DOMAIN order |-> Best(of(order[i]))]
           /\ divergent' = {[traj |-> t, contents |-> {Content(s) : s \in ToSet(of(t))}] :
                              t \in all \ kept}
           /\ removed' =
                [exact |-> SumOver(Lines(Partitions), LAMBDA p : Len(bucket[p]))
                             - SumOver(all, LAMBDA t : Len(of(t))),
                 subset |-> SumOver(kept, LAMBDA t : Len(of(t)) - 1)]
    /\ stage' = "spread"
    /\ UNCHANGED <<input, options, lineNo, bucket, queue, scored, staging, output>>

\* The candidates go to the workers by the digest of their source content.
Spread ==
    /\ stage = "spread"
    /\ queue' = [w \in Lines(options.workers) |->
                    SelectSeq(candidates,
                              LAMBDA s : Sha(Content(s)) % options.workers = w)]
    /\ stage' = "score"
    /\ UNCHANGED <<input, options, lineNo, bucket, candidates, divergent, removed,
                   scored, staging, output>>

\* score_partition: exact copies of the materialised content are dropped, the
\* others are assessed, and the eligible ones delivered.
Score(w) ==
    /\ stage = "score" /\ scored[w] = NoRelease
    /\ LET mine == FirstOfEach(queue[w], Materialised)
       IN  scored' = [scored EXCEPT ![w] =
               [assessed |-> [i \in DOMAIN mine |->
                                 [content |-> Materialised(mine[i]),
                                  traj |-> mine[i].traj, eligible |-> mine[i].good]],
                exact |-> Len(queue[w]) - Len(mine)]]
    /\ UNCHANGED <<input, options, stage, lineNo, bucket, candidates, divergent,
                   removed, queue, staging, output>>

-----------------------------------------------------------------------------
\* The manifest that build_release writes, with the files it names.
Assessed == FlattenSeq([w \in 1 .. options.workers |-> scored[w - 1].assessed])
Failures == Cardinality({i \in 1 .. lineNo : input[i] = Bad})
ConflictRecords == SumOver(divergent, LAMBDA d : Cardinality(d.contents))

Conserved(r) ==
    r.records = r.failures + r.exact + r.subset + r.conflicts + Len(r.assessed)
Status(r) ==
    IF r.failures = 0 /\ r.parts # <<>> /\ Conserved(r) THEN "pass" ELSE "fail"

Manifest ==
    [records |-> lineNo, failures |-> Failures,
     exact |-> removed.exact
                 + SumOver(Lines(options.workers), LAMBDA w : scored[w].exact),
     subset |-> removed.subset, conflicts |-> ConflictRecords,
     assessed |-> Assessed, divergent |-> divergent,
     parts |-> SelectSeq(Assessed, LAMBDA a : a.eligible)]

\* verify_release: the files are read again.
Distinct(seq) == \A i, j \in DOMAIN seq : seq[i].content = seq[j].content => i = j
DivergentAudited(d) == Cardinality(d.contents) >= 2
ReportsAudited(r) ==
    /\ Distinct(r.assessed)
    /\ \A d \in r.divergent : DivergentAudited(d)
Verified(r) ==
    /\ Distinct(r.parts) /\ ReportsAudited(r)
    /\ r.parts = SelectSeq(r.assessed, LAMBDA a : a.eligible)
    /\ Conserved(r)

Finish ==
    /\ stage = "score" /\ \A w \in Lines(options.workers) : scored[w] # NoRelease
    /\ staging' = Manifest
    /\ stage' = CASE ~Verified(Manifest) -> "unverified"
                  [] Verified(Manifest) /\ options.requirePass
                       /\ Status(Manifest) # "pass" -> "failed"
                  [] OTHER -> IF output = NoRelease THEN "rename" ELSE "remove"
    /\ UNCHANGED <<input, options, lineNo, bucket, candidates, divergent, removed,
                   queue, scored, output>>

\* remove_dir_all(output): from here to the rename there is no release.
RemoveOld ==
    /\ stage = "remove"
    /\ output' = NoRelease /\ stage' = "rename"
    /\ UNCHANGED <<input, options, lineNo, bucket, candidates, divergent, removed,
                   queue, scored, staging>>

Rename ==
    /\ stage = "rename"
    /\ output' = staging /\ staging' = NoRelease /\ stage' = "built"
    /\ UNCHANGED <<input, options, lineNo, bucket, candidates, divergent, removed,
                   queue, scored>>

Ended == {"refused", "unverified", "failed", "built", "crashed"}

\* The process dies, or a read or a write fails.
CrashBuild ==
    /\ stage \notin Ended
    /\ stage' = "crashed"
    /\ UNCHANGED <<input, options, lineNo, bucket, candidates, divergent, removed,
                   queue, scored, staging, output>>

ReleaseNext ==
    \/ Begin \/ ReadLine \/ InputRead \/ Deduplicate \/ Spread
    \/ \E w \in DOMAIN scored : Score(w)
    \/ Finish \/ RemoveOld \/ Rename \/ CrashBuild

-----------------------------------------------------------------------------
\* A line lives on inside a snapshot of its trajectory whose content has been
\* assessed, or in the report of its trajectory.
LivesOn(s, r) ==
    \/ \E t \in ToSet(input) \ {Bad} :
          /\ t.traj = s.traj /\ Within(s.msgs, t.msgs)
          /\ \E a \in ToSet(r.assessed) : a.content = Materialised(t)
    \/ \E d \in r.divergent : d.traj = s.traj /\ Content(s) \in d.contents

\* A release that has been put in place accounts for every line it was built
\* from and for nothing else, delivers no content twice, and passes only if no
\* line was unreadable; a build that ends otherwise leaves the old release,
\* except for one that dies between removing it and the rename; and a build
\* that fails its own verification had several workers and two sources that
\* become equal only when they are materialised (release.rs:85-339, 653-854).
ReleaseAccounts ==
    /\ stage = "built" =>
         /\ \A s \in ToSet(input) \ {Bad} : LivesOn(s, output)
         /\ \A a \in ToSet(output.assessed) :
              \E s \in ToSet(input) \ {Bad} :
                 s.traj = a.traj /\ Materialised(s) = a.content /\ s.good = a.eligible
         /\ \A a, b \in ToSet(output.parts) : a # b => a.content # b.content
         /\ Status(output) = "pass" => Bad \notin ToSet(input)
    /\ stage \in {"refused", "unverified", "failed"} => output \in {OldRelease, NoRelease}
    /\ stage = "refused" => output = OldRelease
    /\ stage = "unverified" =>
         /\ options.workers > 1
         /\ \E s, t \in ToSet(candidates) :
              Content(s) # Content(t) /\ Materialised(s) = Materialised(t)
=============================================================================
