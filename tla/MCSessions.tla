------------------------------ MODULE MCSessions ------------------------------
(***************************************************************************)
(* Small inputs for the modules of the offline assembler.                  *)
(***************************************************************************)
EXTENDS Assembly, SessionMessages, SessionEvidence, RuntimeDag, RuntimeSpans,
        MCSources, TLC

-----------------------------------------------------------------------------
(* Assembly.  Identities are numbers: Session 1 spawns 2, 2 spawns 3, tasks *)
(* are 5 and 6.  The last element of a partition key is its identity.      *)
ByNumber(key, n) == 1 + ((key[Len(key)] + Len(key)) % n)
Line(id, ns, task, sess, thread) ==
    [kind |-> "capture", id |-> id, bytes |-> 1, ns |-> ns, task |-> task,
     sess |-> sess, thread |-> thread, root |-> None, parent |-> None, keys |-> {},
     child |-> None, time |-> id]
Batch(tasks, sessions) ==
    [kind |-> "batch", poor |-> TRUE, tasks |-> tasks, sessions |-> sessions]
SomeLines ==
    <<Line(1, "a", None, 1, None),
     [Line(1, "a", None, 1, None) EXCEPT !.bytes = 2],
     [Line(2, "a", None, 1, None) EXCEPT !.child = 2],
     [Line(3, "a", None, 2, None) EXCEPT !.root = 1, !.parent = 1],
     [Line(4, "a", None, 2, None) EXCEPT !.root = 3, !.time = 0],
     Line(12, "a", None, 5, None),
     [Line(5, "a", 5, None, None) EXCEPT !.keys = {1}],
     [Line(6, "a", None, 1, None) EXCEPT !.keys = {1, 2}, !.time = 1],
     [Line(7, "a", 6, 1, None) EXCEPT !.keys = {2}],
     Line(8, "b", None, None, 2),
     [Line(9, "a", None, 2, None) EXCEPT !.child = 3],
     [Line(10, "a", None, 2, None) EXCEPT !.child = 1],
     [Line(11, "b", None, 1, None) EXCEPT !.keys = {1}],
     Batch({5}, {}), Batch({}, {1, 3}), Batch({6}, {2})>>
\* (Three lines are read in the order above or in the opposite one.)
SomeFiles ==
    {[i \in DOMAIN f |-> SomeLines[f[i]]] :
        f \in {g \in UNION {[1 .. n -> DOMAIN SomeLines] : n \in 1 .. 3} :
                 Len(g) = 3 => (g[1] <= g[2]) = (g[2] <= g[3])}}
Asks(task, session, partitions, replace) ==
    [task |-> task, session |-> session, partitions |-> partitions, replace |-> replace]
SomeConfigs ==
    {Asks(None, None, 1, FALSE), Asks(None, None, 2, TRUE), Asks(5, None, 2, TRUE),
     Asks(None, 1, 2, TRUE)}
AssemblyIdle ==
    /\ lines = <<Line(1, "a", None, 1, None)>>
    /\ asked = Asks(None, None, 1, FALSE)
    /\ assembly = NoAssembly

-----------------------------------------------------------------------------
(* Messages: a client that sends everything and keeps identities, one that *)
(* drops them and has hooks, one that sends only what is new.              *)
Style(whole, ids, timed, hooks) ==
    [whole |-> whole, ids |-> ids, timed |-> timed, hooks |-> hooks]
SomeStyles ==
    {Style(TRUE, TRUE, FALSE, FALSE), Style(TRUE, FALSE, TRUE, TRUE),
     Style(FALSE, TRUE, TRUE, FALSE)}
MessagesIdle == style = Style(TRUE, TRUE, FALSE, FALSE)

-----------------------------------------------------------------------------
(* Evidence.  Calls that share identifiers pairwise, one with another's    *)
(* billing row, one that failed with an attested provider.                 *)
Call(kind, up, client, resp, tokens) ==
    [kind |-> kind, up |-> up, client |-> client, resp |-> resp, gateway |-> NoKey,
     tokens |-> tokens, asks |-> 1, answers |-> NoKey, ok |-> TRUE, provider |-> 1,
     source |-> "derived"]
Row(kind, n, tokens) ==
    [known |-> TRUE, ref |-> <<kind, n>>, tokens |-> tokens, asks |-> 1, model |-> NoKey,
     answers |-> NoKey, provider |-> 1]
\* What a row may say otherwise: nothing of it is believed then.
OddRow(n) ==
    CASE n = 1 -> [Row("upstream", 5, 7) EXCEPT !.known = FALSE]
      [] n = 2 -> [Row("upstream", 5, 7) EXCEPT !.asks = 2, !.model = 1]
      [] n = 3 -> [Row("upstream", 5, 7) EXCEPT !.answers = 2]
SomeCalls ==
    {Call("api", 1, NoKey, NoKey, 7),
     [Call("api", 1, 2, 1, NoCount) EXCEPT !.gateway = Row("client", 2, 7), !.answers = 1],
     [Call("api", 2, NoKey, 3, NoCount) EXCEPT !.gateway = Row("upstream", 2, 9)],
     [Call("api", 3, 4, NoKey, 8) EXCEPT !.gateway = Row("upstream", 1, 7)],
     [Call("api", NoKey, 5, 2, 8) EXCEPT !.source = "reported", !.answers = 1],
     [Call("api", 4, NoKey, NoKey, NoCount) EXCEPT !.source = "actual", !.ok = FALSE],
     Call("inference", 1, NoKey, 3, NoCount), Call("inference", NoKey, NoKey, 1, 8),
     Call("inference", NoKey, NoKey, NoKey, NoCount),
     Call("other", NoKey, 2, 2, 7)}
OddCalls == {[Call("api", 5, NoKey, NoKey, NoCount) EXCEPT !.gateway = OddRow(n)] : n \in 1 .. 3}
SomeEvidence ==
    UNION {[1 .. n -> SomeCalls] : n \in 1 .. 3}
    \cup UNION {[1 .. n -> SomeCalls \cup OddCalls] : n \in 1 .. 2}
EvidenceIdle == facts = <<Call("api", 1, NoKey, NoKey, 7)>>

-----------------------------------------------------------------------------
(* The graphs: one tool and the code cell that may ask for it.             *)
SomeWork == {<<"tool", 1>>, <<"code_cell", 1>>}

-----------------------------------------------------------------------------
(* Spans: what a run does, the calls it makes, the captures it leaves.     *)
Plan(does, may, most) == [does |-> does, calls |-> may, most |-> most]
SomePlans ==
    {Plan({"report", "cut"}, {1}, 5), Plan({"report", "item"}, {1}, 5),
     Plan({"item"}, {1, 2}, 6), Plan({"report", "turns"}, {1}, 5),
     Plan({"dispatch"}, {1, 2}, 7), Plan({"dispatch", "report"}, {1}, 5),
     Plan({"dispatch", "agent"}, {1}, 7), Plan({"agent", "turns"}, {}, 6),
     Plan({"compact"}, {}, 7), Plan({"compact", "turns"}, {}, 5),
     Plan({"infer", "lose"}, {}, 6), Plan({"task", "report"}, {1}, 6),
     Plan({"task", "dispatch", "agent"}, {1}, 7)}
SpansIdle == plan = Plan({"dispatch"}, {1, 2}, 7)
=============================================================================
