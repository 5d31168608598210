------------------------------- MODULE MCSources -------------------------------
(***************************************************************************)
(* Capture files of one Session and what may stray into them.  Trace 1 has *)
(* the Session's own span 1, a span of each turn (2 and 4) below it, one   *)
(* below the first turn (3), and what other owners put on it.              *)
(***************************************************************************)
EXTENDS SessionView

Noticed(id, kind_, at, event) ==
    [kind |-> kind_, id |-> id, at |-> at, sess |-> {"s"}, turn |-> {}, trace |-> {},
     span |-> {}, event |-> event, records |-> <<>>, claude |-> FALSE]
During(c, n) == [c EXCEPT !.turn = {n}]

FirstTurn == {<<"s", 1>>}
SecondTurn == {<<"s", 2>>}
OtherTurn == {<<"o", 1>>}
Telemetry(source, trace, span, parent, of) ==
    [sess |-> {}, turn |-> {}, trace |-> trace, span |-> span, parent |-> parent,
     scope |-> {}, name |-> "other", producer |-> {"codex"}, source |-> source, of |-> of]
Spanned(n, parent, of) == Telemetry("traces", {1}, {n}, parent, of)
Log(trace, span, of) == Telemetry("logs", trace, span, {}, of)
Business(r) == [r EXCEPT !.name = "business"]
Exempt(r) == [r EXCEPT !.name = "exempt"]
Exported(id, rs) ==
    [Noticed(id, "otlp", 0, "") EXCEPT !.sess = {}, !.records = rs]

SessionSpan == [Exempt(Spanned(1, {}, {})) EXCEPT !.sess = {"s"}, !.scope = {"session"}]
BelowTurn == Spanned(3, {2}, FirstTurn)
CodexFiles ==
    <<Noticed(1, "life", 0, "session_start"), During(Noticed(2, "wire", 2, ""), 1),
      Exported(3, <<SessionSpan,
                    [Business(Spanned(2, {1}, FirstTurn)) EXCEPT !.turn = {1}, !.sess = {"s"}]>>),
      Exported(4, <<Business(Log({1}, {3}, FirstTurn))>>), Exported(5, <<BelowTurn>>),
      During(Noticed(6, "hook", 3, "Stop"), 1),
      During(Noticed(7, "life", 3, "turn_end"), 1), Noticed(8, "life", 9, "session_end")>>
ClaudeFiles ==
    <<Noticed(1, "life", 0, "session_start"),
      [During(Noticed(2, "wire", 2, ""), 1) EXCEPT !.claude = TRUE],
      During(Noticed(6, "hook", 3, "Stop"), 1),
      During(Noticed(7, "life", 3, "turn_end"), 1), Noticed(8, "life", 9, "session_end")>>

StrayTelemetry ==
    {Exported(21, <<[Business(Spanned(4, {1}, SecondTurn)) EXCEPT !.turn = {2}]>>),
     Exported(22, <<Log({1}, {}, FirstTurn)>>),
     Exported(23, <<Business(Log({1}, {}, SecondTurn))>>),
     Exported(24, <<[Business(Log({}, {}, FirstTurn)) EXCEPT !.turn = {1}]>>),
     Exported(25, <<[Spanned(5, {}, {}) EXCEPT !.scope = {"process"}]>>),
     Exported(26, <<Log({1}, {5}, {})>>),
     Exported(27, <<[Telemetry("traces", {2}, {1}, {}, OtherTurn) EXCEPT
                        !.sess = {"o"}, !.turn = {1}]>>),
     Exported(28, <<[Log({2}, {}, {}) EXCEPT !.producer = {"else"}]>>),
     Exported(29, <<[Log({}, {}, {}) EXCEPT !.producer = {"else"}]>>),
     Exported(30, <<[Log({}, {}, {}) EXCEPT !.producer = {}]>>),
     Exported(31, <<[Exempt(Log({}, {}, {})) EXCEPT !.sess = {"s"}]>>),
     Exported(32, <<BelowTurn, [BelowTurn EXCEPT !.parent = {4}]>>),
     Exported(33, <<[Business(Spanned(6, {4}, SecondTurn)) EXCEPT !.sess = {"s"}]>>),
     Exported(43, <<[Log({}, {}, OtherTurn) EXCEPT !.turn = {1}]>>),
     Exported(44, <<[Exempt(Spanned(7, {1}, {})) EXCEPT !.scope = {"session"}]>>),
     Exported(45, <<Log({1}, {7}, {})>>),
     Exported(46, <<[Exempt(Log({1}, {}, {})) EXCEPT !.sess = {"s"}]>>)}
\* A request without its turn, the same line again, and a second turn with or
\* without its end, on a span, ended twice, in an epoch of its own, elsewhere.
Strays ==
    StrayTelemetry \cup
    {Noticed(2, "wire", 2, ""), During(Noticed(2, "wire", 2, ""), 1),
     During(Noticed(34, "wire", 5, ""), 2),
     [During(Noticed(35, "wire", 5, ""), 2) EXCEPT !.trace = {1}, !.span = {4}],
     During(Noticed(36, "life", 5, "turn_start"), 1),
     During(Noticed(37, "life", 6, "turn_interrupt"), 2),
     During(Noticed(38, "hook", 6, "Stop"), 2),
     Noticed(39, "life", 1, "session_start"), Noticed(40, "life", 12, "session_end"),
     [During(Noticed(41, "wire", 5, ""), 1) EXCEPT !.sess = {"o"}],
     [During(Noticed(42, "tool", 5, ""), 1) EXCEPT !.trace = {1}]}
OneStray == {<<>>} \cup {<<x>> : x \in Strays}
TwoStrays == {e \in {<<x, y>> : x, y \in Strays} : e[1].id < e[2].id}
ThreeStrays ==
    {e \in {<<x, y, z>> : x, y, z \in StrayTelemetry} :
        e[1].id < e[2].id /\ e[2].id < e[3].id}
SomeCorpora ==
    {b \o e : b \in {CodexFiles, ClaudeFiles}, e \in OneStray \cup TwoStrays}
    \cup {CodexFiles \o e : e \in ThreeStrays}
    \cup {RemoveAt(CodexFiles, i) \o e : i \in DOMAIN CodexFiles, e \in OneStray}
SomeEdits == {During(Noticed(7, "life", 3, "turn_interrupt"), 1)}
SourcesIdle ==
    /\ corpus = <<>> /\ auditing = TRUE
    /\ scanned = <<>> /\ scan = "first" /\ picked = {} /\ inspected = NoInspection
=============================================================================
