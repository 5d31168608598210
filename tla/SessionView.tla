------------------------------ MODULE SessionView ------------------------------
(***************************************************************************)
(* What a Session is made of (model_interaction.rs: read_session_snapshot, *)
(* turn_interaction_coverage; source_context.rs, session_view.rs).         *)
(*                                                                         *)
(* Two scans of the capture files pick the captures of one Session: the    *)
(* first one builds the index of identities over everything, the second    *)
(* one selects by it and audits the telemetry.  The view then counts per   *)
(* turn what was observed of it.  Other processes may change the files at  *)
(* any time; a change during a scan is one before or after it here.        *)
(*                                                                         *)
(* The Session has no sub-agents (Assembly models families), its turns     *)
(* neither compactions (RuntimeSpans) nor root turns of another name.      *)
(***************************************************************************)
EXTENDS TurnIdentity

CONSTANTS
    Corpora,    \* the capture files: sequences of captures
    Edits,      \* captures another process may add while the files are read
    Inquired,     \* the Session asked for
    NoInspection      \* no inspection has ended

VARIABLES
    corpus,     \* the files now
    auditing,   \* whether the sources are audited (inspect_session)
    scanned,    \* the files as the first scan read them
    scan,      \* "first", "second", "view", "done", or "bailed"
    picked,     \* the captures the second scan kept
    inspected   \* the view, or NoInspection

viewVars == <<corpus, auditing, scanned, scan, picked, inspected>>

-----------------------------------------------------------------------------
(* What is observed of a capture: its own context, and every record of a   *)
(* batch of telemetry.                                                     *)
Context(c) == Told(c.sess, c.turn, c.trace, c.span, {}, {})
RecordsOf(c) == IF c.kind = "otlp" THEN ToSet(c.records) ELSE {}
Said(r) == Told(r.sess, r.turn, r.trace, r.span, r.parent, r.scope)
SaidBy(C) == {Context(c) : c \in C} \cup {Said(r) : r \in UNION {RecordsOf(c) : c \in C}}

\* The index of the first scan, and that of the view: the former and whatever
\* the selected captures say.
GlobalIndex == Indexed(SaidBy(ToSet(scanned)), auditing)
ViewIndex_OwnOnly == Indexed(SaidBy(picked), TRUE)
ViewIndex == GlobalIndex \cup Indexed(SaidBy(picked), TRUE)

\* A capture with all that an index says of it and of its records.
Located(I, C) ==
    {[cap |-> c, context |-> Placed(I, Context(c)),
      records |-> {Placed(I, r) : r \in RecordsOf(c)}] : c \in C}
RecordsIn(L) == UNION {l.records : l \in L}
CapturesIn(L) == {l.cap : l \in L}

IsClaude(c) == c.claude /\ c.sess = {Inquired}

-----------------------------------------------------------------------------
(* Selection: the captures that name the Session, and those with a record  *)
(* that may have to do with it or that belongs to the process as a whole.  *)
IsProcess(p) == p.scope.kind = "process"
CaptureSessions(l) == l.cap.sess \cup UNION {p.sessions : p \in l.records}
HasProcessScope(l) ==
    \E p \in l.records : IsProcess(p) \/ \E o \in p.onTrace : o.scope = {"process"}
HasUnknownSession(l) == \E p \in l.records : p.sessions = {} /\ ~IsProcess(p)
Matches(l) == Inquired \in l.cap.sess \cup UNION {p.rec.sess : p \in l.records}
IsSelected(l) == Matches(l) \/ Inquired \in CaptureSessions(l) \/ HasProcessScope(l)
SelectionFails(L) == \E l \in L : ~Matches(l) /\ \E p \in l.records : p.scopeFails

-----------------------------------------------------------------------------
(* A record as a source: whose it is and whether it needs a turn.          *)
RecordSession(p) ==
    CASE p.turns # {} -> {n[1] : n \in p.turns}
      [] p.turns = {} /\ p.rec.sess # {} -> p.rec.sess
      [] p.turns = {} /\ p.rec.sess = {} /\ p.scope.sess # {} -> p.scope.sess
      [] OTHER -> OnlyOne(p.sessions)
TurnOf(p) == IF p.turns # {} THEN {n[2] : n \in p.turns} ELSE p.rec.turn
RequiresTurn(p) ==
    p.rec.name = "business" \/ CASE p.scope.kind = "session" -> p.scope.sess = {}
                                 [] p.scope.kind = "turn" -> TRUE
                                 [] p.scope.kind = "process" -> FALSE
                                 [] OTHER -> p.rec.name # "exempt"
ObservationFails(p) == p.fails \/ (IsProcess(p) /\ p.rec.name = "business")

InSession(p) == RecordSession(p) = {Inquired}
Ambiguous(p) == RecordSession(p) = {} /\ Inquired \in p.sessions
Unplaced(p) == RequiresTurn(p) /\ (Ambiguous(p) \/ (InSession(p) /\ TurnOf(p) = {}))

-----------------------------------------------------------------------------
(* The audit files every record under one disposition.  Gaps are charged   *)
(* to the Session if their producer is unknown or has mentioned it, and    *)
(* are ambient otherwise.                                                  *)
Audited(L) ==
    {l \in L : \/ IsSelected(l)
               \/ ~(\E m \in L : IsClaude(m.cap)) /\ HasUnknownSession(l)}
Disposition(p) ==
    CASE IsProcess(p) -> "process"
      [] ~IsProcess(p) /\ Unplaced(p) -> "unscoped"
      [] ~IsProcess(p) /\ ~Unplaced(p) /\ InSession(p) ->
           IF TurnOf(p) # {} THEN "turn" ELSE "session"
      [] OTHER -> IF RecordSession(p) # {} THEN "other" ELSE "unknown"
Mentions(P, producer) ==
    \E p \in P : p.rec.producer = producer /\ (InSession(p) \/ Ambiguous(p))
Charged(P) ==
    {p \in P : /\ Disposition(p) \in {"unscoped", "unknown"}
              /\ (p.rec.producer = {} \/ Mentions(P, p.rec.producer))}
AuditFails(L) == \E p \in RecordsIn(Audited(L)) : ObservationFails(p)
RecordsPass(P, claude) ==
    /\ claude \/ {"logs", "traces"} \subseteq {p.rec.source : p \in P}
    /\ Charged(P) = {}
AuditPasses(L, claude) == RecordsPass(RecordsIn(Audited(L)), claude)

-----------------------------------------------------------------------------
(* The view.  What counts for a turn are requests, tools and boundaries    *)
(* with the turn their context resolves to, and every hook and record that *)
(* belongs to the Session.                                                 *)
EndsTurn == {"turn_end", "turn_interrupt"}
CountsForTurn(c) == c.kind \in {"wire", "tool"} \/ c.event \in {"turn_start"} \cup EndsTurn
OfTurn(L, n) == {l.cap : l \in {m \in L : CountsForTurn(m.cap) /\ n \in m.context.turns}}
HooksOf(L) == {c \in CapturesIn(L) : c.kind = "hook" /\ c.sess = {Inquired}}
SourcesOf(L, n) ==
    {"wire" : c \in {d \in OfTurn(L, n) : d.kind = "wire"}}
    \cup {"hooks" : c \in {d \in HooksOf(L) : n \in d.sess \X d.turn}}
    \cup {p.rec.source : p \in {q \in RecordsIn(L) : n \in RecordSession(q) \X TurnOf(q)}}
TurnsSeen(L) ==
    UNION {l.context.turns : l \in {m \in L : CountsForTurn(m.cap)}}
    \cup UNION {c.sess \X c.turn : c \in HooksOf(L)}
    \cup UNION {{Inquired} \X TurnOf(p) : p \in {q \in RecordsIn(L) : InSession(q)}}
HasUnscoped(L) ==
    \/ \E l \in L : CountsForTurn(l.cap) /\ l.context.turns = {}
    \/ \E c \in HooksOf(L) : c.turn = {} /\ c.event \notin {"session_start", "session_end"}
    \/ \E p \in RecordsIn(L) : Unplaced(p)

Before(c, d) == c.at < d.at \/ (c.at = d.at /\ c.id < d.id)
Contradicted(C) ==
    \E c, d \in C : c.event \in EndsTurn /\ ((d.event = "turn_start" /\ Before(c, d))
                                            \/ (d.event \in EndsTurn /\ d.event # c.event))
EndedOnce(L, n) ==
    ~Contradicted(OfTurn(L, n)) /\ \E c \in OfTurn(L, n) : c.event \in EndsTurn

\* Starts and ends of the Session; the same again at once is the same boundary.
SameBoundary == 2
EpochBoundary(e, c) ==
    CASE c.event = e.last /\ c.at - e.at <= SameBoundary -> e
      [] c.event = "session_start" /\ ~(c.event = e.last /\ c.at - e.at <= SameBoundary) ->
           [last |-> c.event, at |-> c.at, open |-> e.open + 1,
            valid |-> e.valid /\ e.open <= 0, closed |-> FALSE]
      [] OTHER ->
           [last |-> c.event, at |-> c.at, open |-> e.open - 1,
            valid |-> e.valid /\ e.open > 0, closed |-> e.open > 0]
LastEpochClosed(C) ==
    LET ours == {c \in C : /\ c.kind = "life" /\ c.sess = {Inquired}
                           /\ c.event \in {"session_start", "session_end"}}
        epoch == FoldLeft(EpochBoundary,
                          [last |-> "none", at |-> 0, open |-> 0, valid |-> TRUE,
                           closed |-> FALSE],
                          SetToSortSeq(ours, Before))
    IN epoch.closed /\ epoch.valid

\* Claude Code exports no telemetry of its turns.
RequiredSources(claude) ==
    IF claude THEN {"wire", "hooks"} ELSE {"wire", "logs", "traces", "hooks"}
HasClaude(C) == \E c \in C : c.claude
ViewReady(L, seen) ==
    /\ seen # {} /\ LastEpochClosed(CapturesIn(L)) /\ ~HasUnscoped(L)
    /\ \A n \in seen :
         EndedOnce(L, n) /\ RequiredSources(HasClaude(CapturesIn(L))) \subseteq SourcesOf(L, n)
\* A request or tool that does not name its turn itself fails the projection.
ViewFails(L) ==
    \/ \E l \in L : CountsForTurn(l.cap) /\ l.context.fails
    \/ \E p \in RecordsIn(L) : ObservationFails(p)
    \/ \E c \in CapturesIn(L) : c.kind \in {"wire", "tool"} /\ (c.sess = {} \/ c.turn = {})

-----------------------------------------------------------------------------
ViewInit ==
    /\ corpus \in Corpora /\ auditing \in BOOLEAN
    /\ scanned = <<>> /\ scan = "first" /\ picked = {} /\ inspected = NoInspection

\* One id with two contents is refused, the same line again is counted.
FirstScan ==
    /\ scan = "first" /\ scanned' = corpus
    /\ scan' = IF /\ \A c, d \in ToSet(corpus) : c.id = d.id => c = d
                  /\ \E c \in ToSet(corpus) : c.sess = {Inquired}
               THEN "second" ELSE "bailed"
    /\ UNCHANGED <<corpus, auditing, picked, inspected>>

\* A line is lost, replaced or added between the scans.
Edit ==
    /\ scan = "second" /\ corpus = scanned
    /\ \/ \E i \in DOMAIN corpus : corpus' = RemoveAt(corpus, i)
       \/ \E i \in DOMAIN corpus, c \in Edits : corpus' = [corpus EXCEPT ![i] = c]
       \/ \E c \in Edits : corpus' = Append(corpus, c)
    /\ UNCHANGED <<auditing, scanned, scan, picked, inspected>>

SameLines == ToSet(corpus) = ToSet(scanned) /\ Len(corpus) = Len(scanned)
Picked(L) ==
    IF SelectionFails(L) \/ (auditing /\ AuditFails(L))
    THEN scan' = "bailed" /\ UNCHANGED picked
    ELSE scan' = "view" /\ picked' = {l.cap : l \in {m \in L : IsSelected(m)}}
SecondScan ==
    /\ scan = "second"
    /\ IF SameLines THEN \E L \in {Located(GlobalIndex, ToSet(corpus))} : Picked(L)
                    ELSE scan' = "bailed" /\ UNCHANGED picked
    /\ UNCHANGED <<corpus, auditing, scanned, inspected>>

\* The captures are selected once more, among themselves, before they are viewed.
Viewed(L) ==
    IF ViewFails(L) THEN scan' = "bailed" /\ UNCHANGED inspected
    ELSE /\ scan' = "done"
         /\ inspected' =
              [turns |-> TurnsSeen(L),
               ready |-> /\ ViewReady(L, TurnsSeen(L))
                         /\ auditing => AuditPasses(Located(GlobalIndex, ToSet(scanned)),
                                                    HasClaude(picked))]
View ==
    /\ scan = "view"
    /\ \E own \in {Located(Indexed(SaidBy(picked), FALSE), picked)} :
         /\ picked' = {l.cap : l \in {m \in own : IsSelected(m)}}
         /\ IF SelectionFails(own) THEN scan' = "bailed" /\ UNCHANGED inspected
            ELSE \E L \in {Located(ViewIndex, picked')} : Viewed(L)
    /\ UNCHANGED <<corpus, auditing, scanned>>

ViewNext == FirstScan \/ Edit \/ SecondScan \/ View

-----------------------------------------------------------------------------
(* What an inspection may be trusted with.  A record's `of` is the turn it *)
(* really comes from: <<Session, turn>>, or nothing.                       *)
Everything == Indexed(SaidBy(ToSet(corpus)), TRUE)
OwnerKnown(r) == r.of \cap NamedTurns(Everything, r) # {}
OfSession(r) == \E n \in r.of : n[1] = Inquired

\* The captures kept (ours) decide every record of theirs as all captures
\* together (all) would, and none is left out that those would give to the Session.
SelectionLosesNothing(all, ours) ==
    /\ \A l \in all : (\E p \in l.records : InSession(p)) => l.cap \in picked
    /\ \A p \in RecordsIn(ours), q \in RecordsIn(all) : p.rec = q.rec => p.turns = q.turns
\* A record goes to the turn it comes from, unless nothing above it says
\* whose it is and nobody has named that turn, on its trace, with its Session.
AttributionIsTrue(all, ours) ==
    \A p \in RecordsIn(ours) :
        \/ p.turns \in {{}, p.rec.of}
        \/ /\ ~OwnerKnown(p.rec)
           /\ \A q \in RecordsIn(all) :
                q.rec = p.rec => p.rec.turn # {} \/ q.scope.kind = "none"
\* A Session is ready only if every turn anyone named of it ended, and nothing
\* of its turns was left aside, except by producers that never spoke of it.
\* (Only the audit looks at records without a Session, and only at those it
\* selects if the Session is one of Claude Code.)
ReadyIsWhole(all, ours) ==
    inspected.ready =>
      /\ \A n \in Native(Everything) :
           n[1] = Inquired => n \in inspected.turns /\ EndedOnce(all, n)
      /\ auditing =>
           \A q \in RecordsIn(IF HasClaude(CapturesIn(all))
                              THEN {l \in all : l.cap \in picked} ELSE all) :
             /\ OfSession(q.rec) /\ q.rec.name = "business"
                  /\ Mentions(RecordsIn(all), q.rec.producer)
                => Placed(ViewIndex, q.rec).turns # {}
             /\ q.rec.producer = {} /\ ~IsProcess(q) => RecordSession(q) # {}
\* The sources of a Session are what the capture files say of it
\* (read_session_snapshot, summarize_session_with_scopes, inspect_session).
SourcesAreTrue ==
    scan = "done" =>
      /\ SameLines
      /\ \A all \in {Located(Everything, ToSet(corpus))} :
           \A ours \in {Located(ViewIndex, picked)} :
             /\ SelectionLosesNothing(all, ours)
             /\ AttributionIsTrue(all, ours)
             /\ ReadyIsWhole(all, ours)
=============================================================================
