------------------------------- MODULE Assembly -------------------------------
(***************************************************************************)
(* The offline assembler (assemble.rs, session_lineage.rs): captures are   *)
(* linked to tasks, selected, spread over partitions by their task and     *)
(* grouped into Sessions; every partition then joins its Sessions into     *)
(* task graphs, and the new assembly replaces the old one.                 *)
(*                                                                         *)
(* A capture keeps its identities, the request keys that link it to a task,*)
(* the child Session its subagent event announces and its time.  What a    *)
(* Session says (messages, tools, usage) is for SessionMessages.       *)
(***************************************************************************)
EXTENDS Integers, Sequences, FiniteSets, SequencesExt, FiniteSetsExt, Functions

CONSTANTS
    CaptureFiles,    \* the inputs: sequences of captures and telemetry batches
    AssembleConfigs, \* what the command line may say
    PartitionOf(_, _), \* partition_index: the partition of a key, among n
    NoAssembly, OldAssembly \* no directory; the one an earlier run left

VARIABLES
    lines,       \* the input, in the order it is read
    asked,       \* [task, session: the selector or 0; partitions; replace]
    toRead,      \* what is left of it
    seen,        \* capture id -> the bytes it was first seen with
    written,     \* partition -> the captures written to it
    sessionsOf,  \* partition -> its Sessions, once processed
    assembly,    \* the output directory
    assembling   \* where the run is
assemblyVars ==
    <<lines, asked, toRead, seen, written, sessionsOf, assembly, assembling>>

\* Absent identity.
None == 0
Captures(file) == SelectSeq(file, LAMBDA l : l.kind = "capture")

-----------------------------------------------------------------------------
(* Identities.                                                             *)

\* session_identity: the first identity a capture has, and which one it is.
Identity(c) ==
    CASE c.task # None -> <<"task_session_id", c.task>>
      [] c.task = None /\ c.sess # None -> <<"session_id", c.sess>>
      [] c.task = None /\ c.sess = None /\ c.thread # None -> <<"thread_id", c.thread>>
      [] OTHER -> <<"capture_id_fallback", c.id>>
IsGlobal(identity) == identity[1] \in {"task_session_id", "session_id"}

SessionGroupKey(c) ==
    LET i == Identity(c)
    IN IF IsGlobal(i) THEN <<"session", i[2]>> ELSE <<c.ns, i[1], i[2]>>

\* The Session at the top of the task, as far as this capture says.
RootOf(c) == IF c.root # None THEN c.root ELSE c.parent
\* A root Session and its subagents are spread over partitions.
TaskPartitionKey_OwnSession(c) == SessionGroupKey(c)
TaskPartitionKey(c) ==
    LET i == Identity(c)
        top == IF RootOf(c) # None THEN RootOf(c) ELSE i[2]
    IN IF IsGlobal(i) \/ RootOf(c) # None THEN <<"task", top>> ELSE <<c.ns, i[1], top>>

-----------------------------------------------------------------------------
(* Links from requests to tasks, within one source namespace.              *)
Tasks(file, ns, key) ==
    {c.task : c \in {d \in ToSet(Captures(file)) :
                        d.ns = ns /\ key \in d.keys /\ d.task # None}}
\* build_task_link_index, register_task_links
LinksConflict(file) ==
    \E c \in ToSet(Captures(file)) : \E key \in c.keys :
        Cardinality(Tasks(file, c.ns, key)) > 1
LinkedTasks(file, c) == UNION {Tasks(file, c.ns, key) : key \in c.keys}
\* apply_exact_task_link: the capture read, or a failure
LinkFails(file, c) == c.task = None /\ Cardinality(LinkedTasks(file, c)) > 1
Linked(file, c) ==
    IF c.task # None \/ LinkedTasks(file, c) = {} THEN c
    ELSE [c EXCEPT !.task = CHOOSE t \in LinkedTasks(file, c) : TRUE]

-----------------------------------------------------------------------------
(* Subagent lineage, read from subagent_spawn and subagent_join events.    *)
Spawns(file) == {c \in ToSet(Captures(file)) : c.child # None}
\* StockSessionLineage.observe
LineageFails(file) ==
    \/ \E c \in Spawns(file) : c.sess \in {None, c.child}
    \/ \E c, d \in Spawns(file) : c.child = d.child /\ c.sess # d.sess
Children(file) == {c.child : c \in Spawns(file)}
ParentOf(file, child) == (CHOOSE c \in Spawns(file) : c.child = child).sess
\* selection: the Sessions below the selected one
Family(file, top) ==
    FoldSet(LAMBDA n, F : F \cup {x \in Children(file) : ParentOf(file, x) \in F},
            {top}, Children(file))
HasCycle(file, top) ==
    top \in Children(file) /\ ParentOf(file, top) \in Family(file, top)

\* canonicalize: a child's capture joins the selected Session
IsMember(file, top, c) == c.sess \in Family(file, top) \ {top}
CanonicalizeFails(file, top, c) ==
    /\ IsMember(file, top, c)
    /\ \/ c.root \notin {None, top}
       \/ c.parent \notin {None, ParentOf(file, c.sess)}
Canonical(file, top, c) ==
    IF ~IsMember(file, top, c) THEN c
    ELSE [c EXCEPT !.root = top, !.parent = ParentOf(file, c.sess), !.sess = top]

-----------------------------------------------------------------------------
(* Selection.                                                              *)
Selecting == asked.task # None \/ asked.session # None

\* telemetry_batch_scope
Scope(b) ==
    LET ids == IF asked.task # None THEN b.tasks ELSE b.sessions
        mine == IF asked.task # None THEN {asked.task} ELSE Family(lines, asked.session)
    IN CASE ~Selecting -> "selected"
         [] Selecting /\ ids = {} -> "unscoped"
         [] Selecting /\ ids # {} /\ asked.task # None /\ Cardinality(ids) > 1 -> "mixed"
         [] Selecting /\ ids # {} /\ ids \subseteq mine -> "selected"
         [] Selecting /\ ids # {} /\ ids \cap mine = {} -> "other"
         [] OTHER -> "mixed"

\* capture_matches_selection, StockSessionSelection.contains
Selected(c) ==
    CASE asked.task # None -> c.task = asked.task
      [] asked.task = None /\ asked.session # None ->
            c.sess \in Family(lines, asked.session)
      [] OTHER -> TRUE

-----------------------------------------------------------------------------
(* One Session from the captures of one group.                             *)

\* sort_captures: by time when all have one, else as they came
InOrder(group) ==
    IF \A i \in DOMAIN group : group[i].time # None
    THEN SortSeq([i \in DOMAIN group |-> <<group[i].time, i>>],
                 LAMBDA a, b : a[1] < b[1] \/ (a[1] = b[1] /\ a[2] < b[2]))
    ELSE [i \in DOMAIN group |-> <<0, i>>]
Ordered(group) ==
    LET places == InOrder(group) IN [i \in DOMAIN group |-> group[places[i][2]]]

\* The first value of a field, and whether another one differs.
FirstOf(values) == IF values = <<>> THEN None ELSE values[1]
Present(group, f) ==
    SelectSeq([i \in DOMAIN group |-> group[i][f]], LAMBDA v : v # None)

\* assemble_group fails when one identity comes from two fields
GroupFails(group) == Cardinality({Identity(c) : c \in ToSet(group)}) > 1
AssembleGroup(group) ==
    LET sorted == Ordered(group)
        names == {c.ns : c \in ToSet(group)}
        ids == {c.sess : c \in ToSet(group)} \ {None}
    IN [id |-> Identity(sorted[1])[2], source |-> Identity(sorted[1])[1],
        ns |-> IF Cardinality(names) = 1 THEN sorted[1].ns ELSE "multi-source",
        captures |-> [i \in DOMAIN sorted |-> sorted[i].id],
        root |-> FirstOf(Present(sorted, "root")),
        parent |-> FirstOf(Present(sorted, "parent")),
        sessions |-> ids,
        conflicts |-> {f \in {"root", "parent"} :
                          Cardinality(ToSet(Present(sorted, f))) > 1}]

\* attach_task_dags: the Sessions of one partition, by namespace and root
Top(s) ==
    CASE s.root # None -> s.root
      [] s.root = None /\ s.parent # None -> s.parent
      [] OTHER -> s.id
TaskDag(sessions, s) ==
    LET nodes == {t \in sessions : t.ns = s.ns /\ Top(t) = Top(s)}
        ids == {t.id : t \in nodes}
        orphans == {t.parent : t \in nodes} \ (ids \cup {None})
    IN [top |-> Top(s), nodes |-> ids, unresolved |-> orphans,
        complete |-> Top(s) \in ids /\ orphans = {}]

-----------------------------------------------------------------------------
AssemblyInit ==
    /\ lines \in CaptureFiles
    /\ asked \in AssembleConfigs
    /\ assembly \in {NoAssembly, OldAssembly}
    /\ toRead = lines
    /\ seen = <<>>
    /\ written = [p \in 1 .. asked.partitions |-> <<>>]
    /\ sessionsOf = <<>>
    /\ assembling = "starting"

Fail ==
    /\ assembling' = "failed"
    /\ UNCHANGED <<lines, asked, toRead, seen, written, sessionsOf, assembly>>

\* The task links, the lineage and the output are looked at before any line is
\* projected.
StartAssembly ==
    /\ assembling = "starting"
    /\ \/ /\ \/ LinksConflict(lines)
             \/ asked.session # None /\ (LineageFails(lines) \/ HasCycle(lines, asked.session))
             \/ assembly # NoAssembly /\ ~asked.replace
          /\ Fail
       \/ /\ ~LinksConflict(lines)
          /\ asked.session = None \/ ~(LineageFails(lines) \/ HasCycle(lines, asked.session))
          /\ assembly = NoAssembly \/ asked.replace
          /\ assembling' = "reading"
          /\ UNCHANGED <<lines, asked, toRead, seen, written, sessionsOf, assembly>>

ReadBatch ==
    /\ assembling = "reading" /\ toRead # <<>> /\ Head(toRead).kind = "batch"
    /\ LET b == Head(toRead)
           poor == Scope(b) = "selected" /\ b.poor
       IN \/ (Scope(b) = "mixed" \/ poor) /\ Fail
          \/ /\ Scope(b) # "mixed" /\ ~poor
             /\ toRead' = Tail(toRead)
             /\ UNCHANGED <<lines, asked, seen, written, sessionsOf, assembly, assembling>>

\* The capture as it is written to its partition.
Projected(c) ==
    LET l == Linked(lines, c)
    IN IF asked.session # None THEN Canonical(lines, asked.session, l) ELSE l

ReadCapture ==
    /\ assembling = "reading" /\ toRead # <<>> /\ Head(toRead).kind = "capture"
    /\ LET c == Head(toRead)
           l == Linked(lines, c)
           known == c.id \in DOMAIN seen
           fails == IF known THEN seen[c.id] # c.bytes
                    ELSE \/ LinkFails(lines, c)
                         \/ /\ Selected(l) /\ asked.session # None
                            /\ CanonicalizeFails(lines, asked.session, l)
           p == PartitionOf(TaskPartitionKey(Projected(c)), asked.partitions)
       IN \/ fails /\ Fail
          \/ /\ ~fails
             /\ toRead' = Tail(toRead)
             /\ seen' = IF known THEN seen
                        ELSE [i \in DOMAIN seen \cup {c.id} |->
                                 IF i = c.id THEN c.bytes ELSE seen[i]]
             /\ written' = IF known \/ ~Selected(l) THEN written
                           ELSE [written EXCEPT ![p] = Append(@, Projected(c))]
             /\ UNCHANGED <<lines, asked, sessionsOf, assembly, assembling>>

EndRead ==
    /\ assembling = "reading" /\ toRead = <<>>
    /\ LET empty == \A p \in DOMAIN written : written[p] = <<>>
       IN \/ empty /\ Selecting /\ Fail
          \/ /\ ~(empty /\ Selecting)
             /\ assembling' = "assembling"
             /\ UNCHANGED <<lines, asked, toRead, seen, written, sessionsOf, assembly>>

Groups(captures) ==
    {SelectSeq(captures, LAMBDA d : SessionGroupKey(d) = SessionGroupKey(c)) :
        c \in ToSet(captures)}

\* process_partition, on any thread, in any order
ProcessPartition(p) ==
    /\ assembling = "assembling"
    /\ p \in DOMAIN written \ DOMAIN sessionsOf
    /\ LET groups == Groups(written[p])
           sessions == {AssembleGroup(g) : g \in groups}
           whole == {[session |-> s, dag |-> TaskDag(sessions, s)] : s \in sessions}
       IN \/ (\E g \in groups : GroupFails(g)) /\ Fail
          \/ /\ \A g \in groups : ~GroupFails(g)
             /\ sessionsOf' = [q \in DOMAIN sessionsOf \cup {p} |->
                                  IF q = p THEN whole ELSE sessionsOf[q]]
             /\ UNCHANGED <<lines, asked, toRead, seen, written, assembly, assembling>>

Output == UNION {sessionsOf[p] : p \in DOMAIN sessionsOf}

RemoveOldAssembly ==
    /\ assembling = "assembling" /\ DOMAIN sessionsOf = DOMAIN written
    /\ assembly' = NoAssembly
    /\ assembling' = "removed"
    /\ UNCHANGED <<lines, asked, toRead, seen, written, sessionsOf>>

RenameAssembly ==
    /\ assembling = "removed"
    /\ assembly' = Output
    /\ assembling' = "renamed"
    /\ UNCHANGED <<lines, asked, toRead, seen, written, sessionsOf>>

\* verify_assembly reads the directory that is already in place.  The selector
\* is compared with the Session's own id: `/trace` is not at the top of a
\* Session, `meta.trace` is.
OutsideSelection(s) ==
    \/ asked.task # None /\ s.session.id # asked.task
    \/ asked.session # None /\ s.session.id # asked.session
VerifyAssembly ==
    /\ assembling = "renamed"
    /\ assembling' = IF \E s \in assembly : OutsideSelection(s) THEN "failed" ELSE "done"
    /\ UNCHANGED <<lines, asked, toRead, seen, written, sessionsOf, assembly>>

AssemblerCrashes ==
    /\ assembling \in {"reading", "assembling", "removed"}
    /\ assembling' = "crashed"
    /\ UNCHANGED <<lines, asked, toRead, seen, written, sessionsOf, assembly>>

AssemblyNext ==
    \/ StartAssembly \/ ReadBatch \/ ReadCapture \/ EndRead
    \/ \E p \in DOMAIN written : ProcessPartition(p)
    \/ RemoveOldAssembly \/ RenameAssembly \/ VerifyAssembly
    \/ AssemblerCrashes

-----------------------------------------------------------------------------
(* What an assembly is for.                                                *)

\* The captures a run is asked for, said without the run: those of the task,
\* by their own word or by a request they share with a capture of the task in
\* the same namespace; those of the Session and of every Session below it.
Belongs(c) ==
    \/ ~Selecting
    \/ asked.task # None
       /\ asked.task \in IF c.task # None THEN {c.task} ELSE LinkedTasks(lines, c)
    \/ asked.session # None /\ c.sess \in Family(lines, asked.session)
WantedIds == {c.id : c \in {d \in ToSet(Captures(lines)) : Belongs(d)}}

\* All captures of the Session name the same root and parent.
OneTask(s) ==
    Cardinality({<<RootOf(Projected(c)), Identity(Projected(c))>> :
                    c \in {d \in ToSet(Captures(lines)) : d.id \in ToSet(s.captures)}}) = 1

\* What an assembly in place says: each wanted capture is in one Session, once;
\* a Session is in two pieces only when its captures disagree about their task,
\* and then only with several partitions; and a subagent whose root Session is
\* there, from the same source and known by an identity all sources share, is
\* in one graph with it.  A failure other than of the last check has not touched
\* the old assembly; the last check fails only after a selection by Session of
\* captures that also have a task.
AssemblyIsWhole ==
    /\ assembling \in {"renamed", "done"} =>
        /\ \A i \in WantedIds :
              /\ Cardinality({s \in assembly : i \in ToSet(s.session.captures)}) = 1
              /\ \A s \in assembly : Len(SelectSeq(s.session.captures, LAMBDA j : j = i)) <= 1
        /\ UNION {ToSet(s.session.captures) : s \in assembly} = WantedIds
        /\ \A s, t \in assembly :
              (s # t /\ s.session.id = t.session.id /\ s.session.source = t.session.source
                 /\ IsGlobal(<<s.session.source>>)) =>
                  asked.partitions > 1
                  /\ {RootOf(Projected(c)) : c \in {d \in ToSet(Captures(lines)) :
                        d.id \in ToSet(s.session.captures \o t.session.captures)}} \ {None} # {}
        /\ \A s, t \in {u \in assembly : OneTask(u.session)} :
              (/\ s.session.ns = t.session.ns
               /\ IsGlobal(<<s.session.source>>)
               /\ Top(s.session) = s.session.id
               /\ Top(t.session) = s.session.id) => s.session.id \in t.dag.nodes
    /\ assembling = "failed" =>
        \/ assembly \in {NoAssembly, OldAssembly}
        \/ /\ asked.session # None
           /\ \E s \in assembly : s.session.source = "task_session_id"
=============================================================================
