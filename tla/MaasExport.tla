------------------------------ MODULE MaasExport ------------------------------
(***************************************************************************)
(* The request-level delivery (maas_export.rs): sealed Wire captures are   *)
(* staged as request directories, packed per date into numbered batches    *)
(* and published below provider/date.  A run may refuse an existing date,  *)
(* replace it or append to it; runs are not kept apart, and one may die    *)
(* between any two calls to the file system.                               *)
(***************************************************************************)
EXTENDS Integers, Sequences, FiniteSets, SequencesExt, FiniteSetsExt, Functions

CONSTANTS
    Exporters,      \* processes
    MaasInputs,     \* sequences of lines of sealed files
    MaasConfigs,    \* records [mode, skip, sessions, offset]
    Trees,          \* what may be published already
    MaxRuns,        \* runs in one behaviour
    MaxBatchBytes,  \* max_batch_bytes
    NoRun

VARIABLES
    tree,       \* date -> batch number -> set of published requests
    exports,    \* per exporter: NoRun or its run
    started,    \* how many runs began
    shown,      \* an observer: every <<date, number, id>> published and not replaced
    overlapped  \* an observer: an appending run has overlapped another one
maasVars == <<tree, exports, started, shown, overlapped>>

-----------------------------------------------------------------------------
(* Reading.  A line: [wire, id, session, at, bad, usages, models, status,  *)
(* bytes, packed]; `bad` is any reason of build_payload to refuse it, a     *)
(* usage is a pair [input, output], 0 standing for an absent number.       *)

\* extract_usage: the last complete observation.
Usages(c) == SelectSeq(c.usages, LAMBDA u : u.input # 0 /\ u.output # 0)
HasCompleteUsage(c) == Usages(c) # <<>>
\* upstream_model_name: the response, what its stream said last, the gateway's
\* evidence, and only then the alias that was asked for.
ModelName(c) ==
    LET said == SelectSeq(<<c.models.response, c.models.stream, c.models.gateway,
                            c.models.request>>, LAMBDA x : x # 0)
    IN IF said = <<>> THEN 0 ELSE Head(said)
\* format_request_time: two units of `at` are a day.
DateOf(c, cfg) == (c.at + cfg.offset) \div 2
Wanted(lines_, cfg) ==
    SelectSeq(lines_, LAMBDA c :
        /\ c.wire
        /\ cfg.sessions = {} \/ c.session \in cfg.sessions
        /\ cfg.skip => HasCompleteUsage(c))
BuildPayloadFails(c) == c.bad \/ ~HasCompleteUsage(c) \/ ModelName(c) = 0
ReadFails(lines_, cfg) ==
    LET want == Wanted(lines_, cfg)
    IN \/ want = <<>>
       \/ \E i \in DOMAIN want : BuildPayloadFails(want[i])
       \/ \E i, j \in DOMAIN want : i # j /\ want[i].id = want[j].id
Request(c) ==
    [id |-> c.id, model |-> ModelName(c), tokens |-> Last(Usages(c)),
     status |-> c.status, packed |-> c.packed]
Staged(lines_, cfg) ==
    LET want == Wanted(lines_, cfg)
        dates == {DateOf(c, cfg) : c \in ToSet(want)}
    IN [d \in dates |-> SetToSortSeq({c \in ToSet(want) : DateOf(c, cfg) = d},
                                     LAMBDA a, b : a.id < b.id)]

-----------------------------------------------------------------------------
(* Packing.                                                                *)
Weight(reqs) == FoldLeft(LAMBDA n, c : n + c.packed, 0, reqs)
Rough(reqs) == FoldLeft(LAMBDA n, c : n + c.bytes, 0, reqs)
\* pack_date: as many as the rough sizes allow, at least one, then fewer until
\* the written batch fits.
PackLength(reqs) ==
    LET rough == Max({1} \cup {n \in 1 .. Len(reqs) :
                        Rough(SubSeq(reqs, 1, n)) <= (MaxBatchBytes * 9) \div 10})
        fits == {n \in 1 .. rough : Weight(SubSeq(reqs, 1, n)) <= MaxBatchBytes}
    IN IF fits = {} THEN 0 ELSE Max(fits)
\* Batches of one date, one request taken away at a time; <<>> when one request
\* alone is too large.
PackDate(reqs) ==
    LET Step(acc, i) ==
            LET rest == SubSeq(reqs, acc.done + 1, Len(reqs))
                n == PackLength(rest)
            IN IF acc.failed \/ rest = <<>> THEN acc
               ELSE IF n = 0 THEN [acc EXCEPT !.failed = TRUE]
               ELSE [acc EXCEPT !.done = @ + n,
                         !.out = Append(@, {Request(c) : c \in ToSet(SubSeq(rest, 1, n))})]
        packed == FoldLeft(Step, [done |-> 0, out |-> <<>>, failed |-> FALSE],
                           [i \in DOMAIN reqs |-> i])
    IN IF packed.failed THEN <<>> ELSE packed.out

AllBatches(t) == UNION {{<<d, n, t[d][n]>> : n \in DOMAIN t[d]} : d \in DOMAIN t}
IdsIn(batches) == {r.id : r \in UNION Range(batches)}
Batches(d) == IF d \in DOMAIN tree THEN tree[d] ELSE <<>>
\* published_request_ids fails on a date that has a request twice.
TwiceIn(batches) ==
    \E m, n \in DOMAIN batches :
       m # n /\ {r.id : r \in batches[m]} \cap {r.id : r \in batches[n]} # {}
\* Mutant: only the newest batch is looked at.
PublishedRequestIds_Newest(batches) ==
    IF DOMAIN batches = {} THEN {} ELSE {r.id : r \in batches[Max(DOMAIN batches)]}
PublishedRequestIds(batches) == IdsIn(batches)
NextBatchNumber(batches) == Max({0} \cup DOMAIN batches) + 1

-----------------------------------------------------------------------------
(* A run: [step, cfg, lines, plan (date -> first number and batches), now,   *)
(* left (dates to plan or publish), from (the tree it began with), alone,   *)
(* nr].                                                                      *)
Running(e) == exports[e] # NoRun /\ exports[e].step \notin {"done", "refused"}
Goes(e, run) == exports' = [exports EXCEPT ![e] = run]
Entries(t) == UNION {{<<b[1], b[2], q.id>> : q \in b[3]} : b \in AllBatches(t)}
Observed == shown' = shown \cup Entries(tree')
At(e, step) == exports[e] # NoRun /\ exports[e].step = step
Quiet == UNCHANGED <<tree, started, shown, overlapped>>
Refused(e) == Goes(e, [exports[e] EXCEPT !.step = "refused"])
Earliest(e) == Min(exports[e].left)

StartExport(e, cfg, in) ==
    /\ ~Running(e) /\ started < MaxRuns
    /\ LET others == {x \in Exporters : x # e /\ Running(x)}
       IN /\ exports' = [x \in Exporters |->
                IF x = e
                THEN [step |-> "read", cfg |-> cfg, lines |-> in, plan |-> <<>>,
                      now |-> 0, left |-> {}, from |-> tree, alone |-> others = {},
                      nr |-> started + 1]
                ELSE IF x \in others THEN [exports[x] EXCEPT !.alone = FALSE]
                ELSE NoRun]
          /\ overlapped' = (overlapped \/ \E x \in others :
                "append" \in {cfg.mode, exports[x].cfg.mode})
    /\ started' = started + 1
    /\ UNCHANGED <<tree, shown>>

\* Everything is read and staged before anything is planned.
ReadInputs(e) ==
    /\ At(e, "read")
    /\ LET r == exports[e]
       IN IF ReadFails(r.lines, r.cfg) THEN Refused(e)
          ELSE Goes(e, [r EXCEPT !.step = "check", !.plan = Staged(r.lines, r.cfg),
                                 !.left = DOMAIN Staged(r.lines, r.cfg)])
    /\ Quiet
CheckDuplicates(e) ==
    /\ At(e, "check")
    /\ LET r == exports[e]
           there == Batches(Earliest(e))
       IN IF r.cfg.mode = "append" /\
             (TwiceIn(there) \/ PublishedRequestIds(there) \cap
                                   {c.id : c \in ToSet(r.plan[Earliest(e)])} # {})
          THEN Refused(e) ELSE Goes(e, [r EXCEPT !.step = "pack"])
    /\ Quiet
\* The requests of a date become the batches [number |-> requests] it will get.
Numbered(batches, first) ==
    [n \in first .. first + Len(batches) - 1 |-> batches[n - first + 1]]
Pack(e) ==
    /\ At(e, "pack")
    /\ LET r == exports[e]
           d == Earliest(e)
           batches == PackDate(r.plan[d])
           first == IF r.cfg.mode = "append" THEN NextBatchNumber(Batches(d)) ELSE 1
           last == r.left = {d}
       IN IF batches = <<>> THEN Refused(e)
          ELSE Goes(e, [r EXCEPT !.step = IF last THEN "publish" ELSE "check",
                          !.plan = [@ EXCEPT ![d] = Numbered(batches, first)],
                          !.left = IF last THEN DOMAIN r.plan ELSE @ \ {d}])
    /\ Quiet

\* Dates are published one after another.
PublishDate(e) ==
    /\ At(e, "publish")
    /\ LET r == exports[e]
           d == Earliest(e)
       IN CASE d \notin DOMAIN tree -> Goes(e, [r EXCEPT !.step = "rename"])
            [] d \in DOMAIN tree /\ r.cfg.mode = "append" ->
                  Goes(e, [r EXCEPT !.step = "append"])
            [] d \in DOMAIN tree /\ r.cfg.mode = "replace" ->
                  Goes(e, [r EXCEPT !.step = "remove"])
            [] OTHER -> Refused(e)
    /\ Quiet
DatePublished(e) ==
    LET r == exports[e]
        left == r.left \ {Earliest(e)}
    IN Goes(e, [r EXCEPT !.left = left, !.step = IF left = {} THEN "done" ELSE "publish"])
\* A rename onto a directory that has appeared fails unless it is empty.
RenameDate(e) ==
    /\ At(e, "rename")
    /\ LET d == Earliest(e)
       IN IF DOMAIN Batches(d) = {}
          THEN /\ tree' = [x \in DOMAIN tree \cup {d} |->
                              IF x = d THEN exports[e].plan[d] ELSE tree[x]]
               /\ DatePublished(e)
          ELSE Refused(e) /\ UNCHANGED tree
    /\ Observed /\ UNCHANGED <<started, overlapped>>
\* remove_dir_all takes one file after another, the directory last.
RemoveBatch(e) ==
    /\ At(e, "remove")
    /\ LET d == Earliest(e)
       IN \/ \E n \in DOMAIN Batches(d) :
               /\ tree' = [tree EXCEPT ![d] = Restrict(@, DOMAIN @ \ {n})]
               /\ shown' = {x \in shown : <<x[1], x[2]>> # <<d, n>>}
               /\ UNCHANGED exports
          \/ /\ DOMAIN Batches(d) = {}
             /\ Goes(e, [exports[e] EXCEPT !.step = "rmdir"])
             /\ UNCHANGED <<tree, shown>>
    /\ UNCHANGED <<started, overlapped>>
RemoveDate(e) ==
    /\ At(e, "rmdir")
    /\ LET d == Earliest(e)
       IN IF d \notin DOMAIN tree \/ DOMAIN Batches(d) # {}
          THEN Refused(e) /\ UNCHANGED tree
          ELSE /\ tree' = Restrict(tree, DOMAIN tree \ {d})
               /\ Goes(e, [exports[e] EXCEPT !.step = "rename"])
    /\ UNCHANGED <<started, shown, overlapped>>
\* One batch: is the name taken, and, later, the rename.  read_dir has no order.
ChooseBatch(e) ==
    /\ At(e, "append")
    /\ LET r == exports[e]
       IN \E n \in DOMAIN r.plan[Earliest(e)] :
            IF n \in DOMAIN Batches(Earliest(e)) THEN Refused(e)
            ELSE Goes(e, [r EXCEPT !.step = "move", !.now = n])
    /\ Quiet
MoveBatch(e) ==
    /\ At(e, "move")
    /\ LET r == exports[e]
           d == Earliest(e)
           rest == Restrict(r.plan[d], DOMAIN r.plan[d] \ {r.now})
       IN IF d \notin DOMAIN tree THEN Refused(e) /\ UNCHANGED tree
          ELSE /\ tree' = [tree EXCEPT ![d] =
                      [n \in DOMAIN @ \cup {r.now} |->
                          IF n = r.now THEN r.plan[d][n] ELSE @[n]]]
               /\ IF DOMAIN rest = {} THEN DatePublished(e)
                  ELSE Goes(e, [r EXCEPT !.step = "append", !.plan = [@ EXCEPT ![d] = rest]])
    /\ Observed /\ UNCHANGED <<started, overlapped>>

ExporterCrashes(e) ==
    /\ Running(e) /\ Goes(e, NoRun)
    /\ Quiet

MaasInit ==
    /\ tree \in Trees /\ exports = [e \in Exporters |-> NoRun] /\ started = 0
    /\ overlapped = FALSE
    /\ shown = Entries(tree)
MaasNext ==
    \E e \in Exporters :
       \/ \E cfg \in MaasConfigs, in \in MaasInputs : StartExport(e, cfg, in)
       \/ ReadInputs(e) \/ CheckDuplicates(e) \/ Pack(e) \/ PublishDate(e)
       \/ RenameDate(e) \/ RemoveBatch(e) \/ RemoveDate(e) \/ ChooseBatch(e) \/ MoveBatch(e)
       \/ ExporterCrashes(e)

-----------------------------------------------------------------------------
(* What a published tree promises.                                         *)

\* verify_maas
SharesIds(b1, b2) == {r.id : r \in b1} \cap {r.id : r \in b2} # {}
VerifyBatch(batch) ==
    /\ batch # {} /\ \A r \in batch : r.model # 0 /\ r.status \in 100 .. 599
    /\ FoldSet(LAMBDA r, k : k + r.packed, 0, batch) <= MaxBatchBytes
VerifyMaas(t) ==
    /\ DOMAIN t # {} /\ \A d \in DOMAIN t : DOMAIN t[d] # {}
    /\ \A b1, b2 \in AllBatches(t) : b1 # b2 => ~SharesIds(b1[3], b2[3])
    /\ \A b \in AllBatches(t) : VerifyBatch(b[3])

\* The tree is what this run, which no other overlapped, has left.
Left(e) == exports[e] # NoRun /\ exports[e].alone /\ exports[e].nr = started
OwnDates(r) == DOMAIN Staged(r.lines, r.cfg)
Elsewhere(r) == {b \in AllBatches(r.from) : b[1] \notin OwnDates(r)}

\* A run that ends well has published every request it was asked for once, on
\* the date of its own offset, and left the other dates alone; an append keeps
\* what the date had; and if `maas verify` accepted the tree before, and no
\* other date had one of the requests, it does afterwards.  A run that is
\* refused has changed nothing, except that one without --replace and --append
\* may have added earlier dates.  What was published and not replaced stays, and
\* a date never has a request twice, whatever runs overlap and die, unless an
\* appending run overlaps another one.
MaasIsTrue ==
    /\ \A e \in Exporters : (Left(e) /\ exports[e].step = "done") =>
         LET r == exports[e]
         IN /\ \A b \in Elsewhere(r) : b \in AllBatches(tree)
            /\ r.cfg.mode = "append" => AllBatches(r.from) \subseteq AllBatches(tree)
            /\ \A c \in ToSet(Wanted(r.lines, r.cfg)) :
                  Cardinality({b \in AllBatches(tree) : b[1] = DateOf(c, r.cfg) /\
                                 Request(c) \in b[3]}) = 1
            /\ ((r.from = <<>> \/ VerifyMaas(r.from))
                 /\ \A c \in ToSet(Wanted(r.lines, r.cfg)) :
                      /\ c.status \in 100 .. 599
                      /\ \A x \in Entries(r.from) : x[3] = c.id => x[1] = DateOf(c, r.cfg))
                  => VerifyMaas(tree)
    /\ \A e \in Exporters : (Left(e) /\ exports[e].step = "refused") =>
         LET r == exports[e]
         IN IF r.cfg.mode = "plain"
            THEN AllBatches(r.from) \subseteq AllBatches(tree)
            ELSE tree = r.from
    /\ ~overlapped =>
         /\ shown \subseteq Entries(tree)
         /\ \A d \in DOMAIN tree : ~TwiceIn(tree[d])
=============================================================================
