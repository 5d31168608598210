----------------------------- MODULE TurnIdentity -----------------------------
(***************************************************************************)
(* Whose telemetry a record is (turn_identity.rs).                         *)
(*                                                                         *)
(* Telemetry records seldom carry both the Session and the turn they       *)
(* belong to.  An index of everything observed (pairs of identities, what  *)
(* was said on a trace, what was said of a span and its parents) completes *)
(* them, by identities only, never by time or position.                    *)
(*                                                                         *)
(* An identity that may be missing is a set of at most one element.  A     *)
(* record says each thing once: several aliases of one attribute, of which *)
(* the code refuses those that disagree, are one value here.               *)
(***************************************************************************)
EXTENDS Naturals, FiniteSets, SequencesExt

CONSTANT Broken     \* stands for a span whose ancestry cannot be followed

Told(sess, turn, trace, span, parent, scope) ==
    [sess |-> sess, turn |-> turn, trace |-> trace, span |-> span,
     parent |-> parent, scope |-> scope]

OnlyOne(S) == IF Cardinality(S) = 1 THEN S ELSE {}

-----------------------------------------------------------------------------
(* The index: the observations.  Without tracked parents a span counts     *)
(* only if something is said of its turn or scope.                         *)
Indexed(O, tracked) ==
    {IF tracked \/ o.turn # {} \/ o.scope # {} THEN o ELSE [o EXCEPT !.span = {}] :
        o \in O}

Native(I) == UNION {o.sess \X o.turn : o \in I}
OnTrace(I, trace) == {o \in I : trace # {} /\ o.trace = trace}
AtSpan(I, at) == {o \in I : o.trace \X o.span = {at}}
SessionsIn(O) == UNION {o.sess : o \in O}
TurnsIn(O) == UNION {o.turn : o \in O}
KindsIn(O) == UNION {o.scope : o \in O}
ParentsIn(O) == UNION {o.trace \X o.parent : o \in O}

Candidates(I, sessions, turns) ==
    {n \in Native(I) : n[2] \in turns /\ (sessions = {} \/ n[1] \in sessions)}

\* (validate_span_scope.)
Contradicts(O) ==
    \/ \E n \in {Cardinality(ParentsIn(O)), Cardinality(SessionsIn(O)),
                 Cardinality(TurnsIn(O)), Cardinality(KindsIn(O))} : n > 1
    \/ "process" \in KindsIn(O) /\ (SessionsIn(O) # {} \/ TurnsIn(O) # {})
    \/ "session" \in KindsIn(O) /\ TurnsIn(O) # {}

\* What was observed of a span and of its ancestors, up to the last known one;
\* Broken last if two things said of one of them contradict each other or it is
\* its own ancestor.
RECURSIVE AncestryFrom(_, _, _)
AncestryFrom(I, O, below) ==
    CASE O = {} -> below
      [] O # {} /\ (O \in ToSet(below) \/ Contradicts(O)) -> Append(below, Broken)
      [] OTHER ->
           IF ParentsIn(O) = {} THEN Append(below, O)
           ELSE AncestryFrom(I, AtSpan(I, CHOOSE p \in ParentsIn(O) : TRUE), Append(below, O))
Ancestry(I, r) ==
    IF r.trace = {} \/ r.span = {} THEN <<>>
    ELSE AncestryFrom(I, AtSpan(I, CHOOSE at \in r.trace \X r.span : TRUE), <<>>)

\* Those that say where they belong.
Marked(chain) ==
    SelectSeq(chain, LAMBDA O : O # Broken /\ (KindsIn(O) # {} \/ TurnsIn(O) # {}))

-----------------------------------------------------------------------------
(* The scope of a record: its own, or the nearest one above it.            *)
Declared(kind, sess) == [kind |-> kind, sess |-> sess]
Unscoped == Declared("none", {})

\* (A Session boundary without an identity takes that of the next one above.)
InheritedScope(marked) ==
    LET first == KindsIn(Head(marked))
        named == SelectSeq(marked, LAMBDA O : /\ KindsIn(O) = {"session"}
                                              /\ SessionsIn(O) # {})
    IN IF marked = <<>> THEN Unscoped
       ELSE IF first = {} THEN Declared("turn", {})
       ELSE IF first = {"session"}
            THEN Declared("session", IF named = <<>> THEN {} ELSE SessionsIn(Head(named)))
       ELSE Declared(CHOOSE k \in first : TRUE, {})

\* What a record says of itself against what is above it.
ScopeFails(r, chain, above) ==
    LET otherSession == /\ above.kind = "session" /\ above.sess # {}
                        /\ r.sess # {} /\ r.sess # above.sess
    IN \/ Broken \in ToSet(chain)
       \/ /\ r.scope = {"process"}
          /\ r.sess # {} \/ r.turn # {} \/ above.kind \in {"session", "turn"}
       \/ /\ r.scope = {"session"}
          /\ r.turn # {} \/ above.kind \in {"process", "turn"} \/ otherSession
       \/ r.scope = {"turn"} /\ above.kind \in {"process", "session"}
       \/ /\ r.scope = {} /\ above.kind = "process"
          /\ r.turn # {} \/ r.sess # {}
       \/ r.scope = {} /\ r.turn = {} /\ otherSession

SourceScope(r, above) ==
    CASE r.scope = {"session"} -> Declared("session", r.sess)
      [] r.scope = {"process"} -> Declared("process", {})
      [] r.scope = {"turn"} \/ (r.scope = {} /\ r.turn # {}) -> Declared("turn", {})
      [] OTHER -> above

-----------------------------------------------------------------------------
(* The turn of a record.                                                   *)
\* What its span says, or the nearest one above that says anything.
SpanMatches(I, chain, marked) ==
    LET at == Head(marked)
        below == {chain[i] : i \in {j \in DOMAIN chain : \A k \in 1 .. j : chain[k] # at}}
    IN IF marked = <<>> THEN {}
       ELSE {n \in Candidates(I, SessionsIn(at), TurnsIn(at)) :
               \A O \in below : SessionsIn(O) = {} \/ n[1] \in SessionsIn(O)}

Fits(n, r) == (r.sess = {} \/ n[1] \in r.sess) /\ (r.turn = {} \/ n[2] \in r.turn)
ResolveFails(r, matches) == Cardinality(matches) = 1 /\ \E n \in matches : ~Fits(n, r)

\* The span decides, then the record itself, then what is unique on its trace,
\* unless it stands below a boundary of its own.
Resolve(I, r, matches, scope) ==
    LET onTrace == OnTrace(I, r.trace)
        among == CASE matches # {} -> matches
                   [] matches = {} /\ onTrace # {} ->
                        Candidates(I, SessionsIn(onTrace), TurnsIn(onTrace))
                   [] OTHER -> Candidates(I, {}, r.turn)
    IN CASE Cardinality(matches) = 1 -> matches
         [] Cardinality(matches) # 1 /\ r.sess # {} /\ r.turn # {} -> r.sess \X r.turn
         [] OTHER ->
              IF scope.kind # "none" /\ matches = {} /\ r.turn = {} THEN {}
              ELSE OnlyOne({n \in among : Fits(n, r)})

\* The turns of the Sessions a record may have to do with.
NamedTurns(I, r) == Candidates(I, {}, r.turn \cup TurnsIn(OnTrace(I, r.trace)))
RecordSessions(I, r, scope) ==
    CASE scope.kind = "process" -> {}
      [] scope.kind = "session" -> r.sess \cup scope.sess
      [] OTHER -> r.sess \cup SessionsIn(OnTrace(I, r.trace)) \cup {n[1] : n \in NamedTurns(I, r)}

-----------------------------------------------------------------------------
(* All the index says of a record: its scope, the turn it resolves to, the *)
(* Sessions it may have to do with, who else is on its trace, and whether  *)
(* its scope, or its turn too, is refused.                                 *)
PlacedAt(I, r, chain, marked, above, matches) ==
    [rec |-> r, scope |-> SourceScope(r, above),
     turns |-> Resolve(I, r, matches, SourceScope(r, above)),
     sessions |-> RecordSessions(I, r, SourceScope(r, above)),
     onTrace |-> OnTrace(I, r.trace),
     scopeFails |-> ScopeFails(r, chain, above),
     fails |-> ScopeFails(r, chain, above) \/ ResolveFails(r, matches)]
Placed(I, r) ==
    LET chain == Ancestry(I, r)
        marked == Marked(chain)
    IN PlacedAt(I, r, chain, marked, InheritedScope(marked), SpanMatches(I, chain, marked))
=============================================================================
