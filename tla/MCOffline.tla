------------------------------- MODULE MCOffline -------------------------------
(***************************************************************************)
(* What happens to sealed captures: components that share no state.        *)
(* One run checks them side by side: `part` chooses the one that moves,    *)
(* and the variables of the others keep one initial value.                 *)
(***************************************************************************)
EXTENDS Release, Assessment, Publication, WireStream, MaasExport, MCSessions

VARIABLE part

-----------------------------------------------------------------------------
(* Release.  Messages are the digits 1 .. 3; different contents have       *)
(* different numbers.                                                      *)
ShaOfContent(c) == c.prompt * 64 + FoldLeft(LAMBDA n, m : 4 * n + m, 0, c.msgs)

Session(traj, prompt, msgs, runtime, final, good) ==
    [traj |-> traj, prompt |-> prompt, msgs |-> msgs, runtime |-> runtime,
     final |-> final, closed |-> final, captures |-> Len(msgs), good |-> good]

\* A prefix, two ways it goes on, its end, the same content elsewhere, a source
\* that becomes equal to it, and another prompt.
SomeSessions ==
    {Session(0, 0, <<1>>, <<>>, FALSE, FALSE),
     Session(0, 0, <<1, 2>>, <<>>, FALSE, TRUE),
     Session(0, 0, <<1, 3>>, <<>>, FALSE, TRUE),
     Session(0, 0, <<2>>, <<>>, TRUE, TRUE),
     Session(1, 0, <<1, 2>>, <<>>, TRUE, TRUE),
     Session(2, 0, <<1>>, <<2>>, TRUE, TRUE),
     Session(0, 1, <<1, 2>>, <<>>, TRUE, FALSE), Bad}
SomeInputs == UNION {[1 .. n -> SomeSessions] : n \in 1 .. 3}

-----------------------------------------------------------------------------
(* Assessment.                                                             *)
Message(role, calls, id, text, status_, conflict) ==
    [role |-> role, calls |-> calls, id |-> id, text |-> text,
     status |-> status_, conflict |-> conflict]
User(text) == Message("user", <<>>, NoId, text, NoStatus, "unset")
Says(text, calls) == Message("assistant", calls, NoId, text, NoStatus, "unset")
Answer(id, status_, conflict) ==
    Message("tool", <<>>, id, "text", status_, conflict)

SomeMessages ==
    {User("ask"), User("more"), Says("text", <<>>), Says(NoText, <<1>>),
     Says("text", <<1, 2>>), Says(NoText, <<2>>),
     Answer(1, "success", "unset"), Answer(1, "failed", "yes"),
     Answer(2, "success", "unset")}
SomeProjections ==
    {NoProjection, [excluded |-> {1}, runtime |-> <<>>],
     [excluded |-> {},
      runtime |-> <<Says(NoText, <<1>>), Answer(1, "success", "no")>>],
     [excluded |-> {1},
      runtime |-> <<Says(NoText, <<2>>), Answer(2, "success", "unset")>>]}
SomeFacts == {Facts} \cup {Facts \ {f} : f \in {"epoch", "ended", "supported"}}
SomeReadiness == {Unprojected.ready, Unprojected.ready \ {"root"}}

-----------------------------------------------------------------------------
(* Publication: a release of one file, one of two, and the first one with  *)
(* a damaged file.                                                         *)
File(d, b) == [data |-> d, bytes |-> b]
SomeData == {File(1, 1), File(2, 1), File(3, 2)}
ReleaseDir(n, lists, files) ==
    [man |-> [build |-> n, lists |-> lists, from |-> <<>>], files |-> files]
SomeDirs ==
    {ReleaseDir(10, <<File(1, 1)>>, <<File(1, 1)>>),
     ReleaseDir(12, <<File(2, 1), File(3, 2)>>, <<File(2, 1), File(3, 2)>>),
     ReleaseDir(10, <<File(1, 1)>>, <<File(2, 1)>>)}
OfflineSymmetry == Permutations(Publishers) \cup Permutations(Exporters)

-----------------------------------------------------------------------------
(* Request-level delivery: requests of two dates, one that comes back on   *)
(* the other date, one without usage, one too large, one with a status no  *)
(* verifier takes.                                                         *)
CompleteUsage == [input |-> 1, output |-> 1]
ApiSnapshot(id, halfDay) ==
    [wire |-> TRUE, id |-> id, session |-> 1, at |-> halfDay, bad |-> FALSE,
     usages |-> <<CompleteUsage>>, status |-> 200, bytes |-> 3, packed |-> 4,
     models |-> [response |-> 0, stream |-> 1, gateway |-> 0, request |-> 2]]
FirstDay == ApiSnapshot(1, 0)
SecondDay == ApiSnapshot(2, 1)
Bulky == [ApiSnapshot(3, 0) EXCEPT !.session = 2, !.bytes = 12]
NoUsage == [ApiSnapshot(4, 2) EXCEPT !.usages = <<[input |-> 1, output |-> 0]>>]
ComesBack == [ApiSnapshot(1, 2) EXCEPT
                 !.usages = <<CompleteUsage, [input |-> 2, output |-> 2]>>]
Huge == [ApiSnapshot(5, 0) EXCEPT !.packed = 12]
OddStatus == [ApiSnapshot(6, 2) EXCEPT !.status = 600]
NotWire == [ApiSnapshot(7, 0) EXCEPT !.wire = FALSE]
SomeMaasInputs ==
    {<<FirstDay, SecondDay, Bulky>>, <<SecondDay, NoUsage>>,
     <<Bulky, ComesBack, NotWire>>, <<FirstDay, ComesBack>>, <<SecondDay, Huge>>,
     <<OddStatus>>}
MaasAsks(mode, skip, sessions, offset) ==
    [mode |-> mode, skip |-> skip, sessions |-> sessions, offset |-> offset]
SomeMaasConfigs ==
    {MaasAsks("plain", FALSE, {}, 0), MaasAsks("append", TRUE, {}, 0),
     MaasAsks("replace", TRUE, {}, 0), MaasAsks("append", FALSE, {1}, 1)}
SomeTrees ==
    {<<>>, 0 :> <<>>, 1 :> (1 :> {Request(OddStatus)}),
     0 :> (1 :> {Request(FirstDay)} @@ 3 :> {Request(SecondDay)})}

-----------------------------------------------------------------------------
(* A streamed call: two tool calls announced, one of them with two         *)
(* different ends, and terminals that agree with them or do not.           *)
WireItem(id, args) == [id |-> id, args |-> args]
Announced(i, item) == [kind |-> "added", index |-> i, item |-> item]
Completed(i, item) == [kind |-> "done", index |-> i, item |-> item]
Ending(outcome, items) ==
    [kind |-> "end", outcome |-> outcome, output |-> items]
SomeFrames(f) ==
    CASE f = "responses" ->
           {Announced(1, WireItem(1, "open")), Announced(2, WireItem(2, "open")),
            Completed(1, WireItem(1, "a")), Completed(1, WireItem(1, "b")),
            Ending("completed", NoOutput), Ending("completed", <<>>),
            Ending("completed", <<WireItem(1, "a")>>),
            Ending("incomplete", <<WireItem(1, "a")>>),
            [kind |-> "error", outcome |-> "failed", output |-> NoOutput],
            [kind |-> "junk"]}
      [] f = "anthropic" ->
           {[kind |-> k] : k \in {"start", "stop_reason", "message_stop",
                                  "error", "junk"}}
      [] OTHER ->
           {[kind |-> "delta", choice |-> x, finish |-> b] :
               x \in {1, 2}, b \in BOOLEAN}

-----------------------------------------------------------------------------
Parts == {"release", "assessment", "publication", "wire", "assembly", "messages",
          "evidence", "dag", "maas", "spans", "sources"}
OfflineInit ==
    /\ part \in Parts
    /\ part # "release" =>
         /\ input = CHOOSE i \in Inputs : TRUE
         /\ options = [workers |-> 1, requirePass |-> FALSE, replace |-> FALSE]
         /\ output = NoRelease
    /\ part # "wire" => family = "chat"
    /\ part # "maas" => tree = <<>>
    /\ part # "assembly" => AssemblyIdle
    /\ part # "messages" => MessagesIdle
    /\ part # "evidence" => EvidenceIdle
    /\ part # "spans" => SpansIdle
    \* (In this order the large sets of inputs are enumerated, never searched.)
    /\ EvidenceInit
    /\ IF part = "sources" THEN ViewInit ELSE SourcesIdle
    /\ AssemblyInit /\ ReleaseInit /\ AssessmentInit /\ PublicationInit /\ WireInit
    /\ MaasInit /\ MessagesInit /\ DagInit /\ RuntimeInit
    /\ Len(release.files) = 2

Sealed == <<releaseVars, assessmentVars, publicationVars, wireVars, maasVars>>
Sessions == <<assemblyVars, messagesVars, evidenceVars, dagVars, runtimeVars,
              viewVars>>
OfflineNext ==
    /\ part' = part
    /\ \/ /\ part = "release" /\ ReleaseNext
          /\ UNCHANGED <<assessmentVars, publicationVars, wireVars, maasVars,
                         Sessions>>
       \/ /\ part = "assessment" /\ AssessmentNext
          /\ UNCHANGED <<releaseVars, publicationVars, wireVars, maasVars,
                         Sessions>>
       \/ /\ part = "publication" /\ PublicationNext
          /\ UNCHANGED <<releaseVars, assessmentVars, wireVars, maasVars,
                         Sessions>>
       \/ /\ part = "wire" /\ WireNext
          /\ UNCHANGED <<releaseVars, assessmentVars, publicationVars, maasVars,
                         Sessions>>
       \/ /\ part = "maas" /\ MaasNext
          /\ UNCHANGED <<releaseVars, assessmentVars, publicationVars, wireVars,
                         Sessions>>
       \/ /\ part = "assembly" /\ AssemblyNext
          /\ UNCHANGED <<Sealed, messagesVars, evidenceVars, dagVars, runtimeVars, viewVars>>
       \/ /\ part = "messages" /\ MessagesNext
          /\ UNCHANGED <<Sealed, assemblyVars, evidenceVars, dagVars, runtimeVars, viewVars>>
       \/ /\ part = "evidence" /\ EvidenceNext
          /\ UNCHANGED <<Sealed, assemblyVars, messagesVars, dagVars, runtimeVars, viewVars>>
       \/ /\ part = "dag" /\ DagNext
          /\ UNCHANGED <<Sealed, assemblyVars, messagesVars, evidenceVars, runtimeVars, viewVars>>
       \/ /\ part = "spans" /\ RuntimeNext
          /\ UNCHANGED <<Sealed, assemblyVars, messagesVars, evidenceVars, dagVars, viewVars>>
       \/ /\ part = "sources" /\ ViewNext
          /\ UNCHANGED <<Sealed, assemblyVars, messagesVars, evidenceVars, dagVars, runtimeVars>>

OfflineSpec == OfflineInit /\ [][OfflineNext]_<<part, Sealed, Sessions>>
=============================================================================
