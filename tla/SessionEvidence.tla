---------------------------- MODULE SessionEvidence ----------------------------
(***************************************************************************)
(* What the captures of one Session say of its model calls (assemble.rs):  *)
(* one request is seen by the gateway, the runtime and the billing log, and*)
(* each capture knows some of its identifiers.  Usage is settled once for  *)
(* every set of captures their identifiers join; a provider is attested    *)
(* only by evidence of every call; and runtime inferences are matched with *)
(* API captures by exact identifiers.                                      *)
(*                                                                         *)
(* One token count stands for those of a usage record, which are settled   *)
(* one by one in the same way.  That the total is then raised to the sum   *)
(* of input and output (assemble.rs:4755 and 4980) is left out.            *)
(***************************************************************************)
EXTENDS Integers, Sequences, FiniteSets, SequencesExt, FiniteSetsExt, Functions

CONSTANTS
    CallEvidence, \* the captures of a Session: sequences of records
    NoKey,        \* an absent identifier, model, provider or evidence
    NoCount       \* an absent token count

VARIABLES
    facts,      \* the captures, in the order of the Session
    parents,    \* the union-find forest over them
    keyOwner,   \* key -> the last capture that had it
    joinedUpTo, \* captures whose keys are entered
    settled     \* the settlements, NoKey before
evidenceVars == <<facts, parents, keyOwner, joinedUpTo, settled>>

\* A capture: kind "api", "inference" or "other"; up, client, resp: identifiers;
\* gateway: NoKey or the billing row, of a known format or not, with the request
\* it refers to, its usage, the models asked for, routed to and answering, and
\* the provider: [known, ref, tokens, asks, model, answers, provider]; tokens:
\* the usage of the response; asks, answers: models; ok: a status below 400;
\* provider, source: who answered, and how that is known.

-----------------------------------------------------------------------------
(* One capture.                                                            *)

\* gateway_request_id_linked: the row names this request.
GatewayLinked(c) ==
    c.gateway # NoKey /\ c.gateway.ref \in {<<"upstream", c.up>>, <<"client", c.client>>}

\* select_usage_field: the response's own count, else the linked row's.
GatewayTokens(c) == IF GatewayLinked(c) THEN c.gateway.tokens ELSE NoCount
UsageOf(c) == IF c.tokens # NoCount THEN c.tokens ELSE GatewayTokens(c)
UsageConflict(c) ==
    NoCount \notin {c.tokens, GatewayTokens(c)} /\ c.tokens # GatewayTokens(c)

\* usage_correlation_keys
UsageKeys(c) ==
    {k \in {<<"upstream", c.up>>, <<"client", c.client>>, <<"response", c.resp>>} :
        k[2] # NoKey}
    \cup (IF c.gateway = NoKey THEN {} ELSE {c.gateway.ref})

-----------------------------------------------------------------------------
(* The forest.                                                             *)

\* usage_component_root: the way up the forest, at most as long as it is large
ComponentRoot(forest, i) ==
    FoldLeft(LAMBDA r, n : forest[r], i, [n \in DOMAIN forest |-> n])
\* join_usage_components: the earlier root stays one.
JoinComponents_NotRoots(forest, i, j) ==
    IF i = j THEN forest
    ELSE IF i < j THEN [forest EXCEPT ![j] = i] ELSE [forest EXCEPT ![i] = j]
JoinComponents(forest, i, j) ==
    LET a == ComponentRoot(forest, i)
        b == ComponentRoot(forest, j)
    IN CASE a = b -> forest
         [] a < b -> [forest EXCEPT ![b] = a]
         [] OTHER -> [forest EXCEPT ![a] = b]

Component(forest, i) ==
    SelectSeq([j \in DOMAIN forest |-> j],
              LAMBDA j : ComponentRoot(forest, j) = ComponentRoot(forest, i))

\* settle_field: the first count of the component, and whether another differs
Settlement(captures, members) ==
    LET counts == SelectSeq([i \in DOMAIN members |-> UsageOf(captures[members[i]])],
                            LAMBDA n : n # NoCount)
        ids(f) == {captures[i][f] : i \in ToSet(members)} \ {NoKey}
    IN [members |-> ToSet(members),
        tokens |-> IF counts = <<>> THEN NoCount ELSE counts[1],
        conflict |-> \/ Cardinality(ToSet(counts)) > 1
                     \/ \E i \in ToSet(members) : UsageConflict(captures[i])
                     \/ Cardinality(ids("up")) > 1
                     \/ Cardinality(ids("resp")) > 1]

-----------------------------------------------------------------------------
EvidenceInit ==
    /\ facts \in CallEvidence
    /\ parents = [i \in DOMAIN facts |-> i]
    /\ keyOwner = <<>>
    /\ joinedUpTo = 0
    /\ settled = NoKey

\* reconcile_session_usage, its first loop: the keys of one capture, in order
EnterKeys(i) ==
    FoldSet(LAMBDA k, forest :
                IF k \in DOMAIN keyOwner THEN JoinComponents(forest, keyOwner[k], i) ELSE forest,
            parents, UsageKeys(facts[i]))
JoinCapture ==
    /\ joinedUpTo < Len(facts)
    /\ joinedUpTo' = joinedUpTo + 1
    /\ parents' = EnterKeys(joinedUpTo')
    /\ keyOwner' = [k \in DOMAIN keyOwner \cup UsageKeys(facts[joinedUpTo']) |->
                       IF k \in UsageKeys(facts[joinedUpTo']) THEN joinedUpTo' ELSE keyOwner[k]]
    /\ UNCHANGED <<facts, settled>>

\* its second loop: every component counts once
Settle ==
    /\ joinedUpTo = Len(facts) /\ settled = NoKey
    /\ settled' = {Settlement(facts, Component(parents, i)) : i \in DOMAIN facts}
    /\ UNCHANGED <<facts, parents, keyOwner, joinedUpTo>>

EvidenceNext == JoinCapture \/ Settle

-----------------------------------------------------------------------------
(* The model and the provider of the Session.                              *)
Api == SelectSeq(facts, LAMBDA c : c.kind = "api")
ApiCaptures == ToSet(Api)
\* model_attestation_applicable
Applicable(c) == c.kind = "api" /\ (c.gateway # NoKey \/ c.answers # NoKey \/ c.ok)
Known(set, f) == {c[f] : c \in set} \ {NoKey}
GatewayRows == {c.gateway : c \in {d \in ToSet(facts) : d.gateway # NoKey}}
RowModel(c) == IF c.gateway.model # NoKey THEN c.gateway.model ELSE c.gateway.asks
\* collect_gateway_model_evidence: what speaks against the row of a capture
RowConflict(c) ==
    \/ ~c.gateway.known \/ ~GatewayLinked(c)
    \/ c.asks \notin {NoKey, c.gateway.asks}
    \/ {c.answers, c.gateway.answers} \ {NoKey, RowModel(c)} # {}
    \/ c.source \notin {"runtime", "derived"} /\ c.provider # c.gateway.provider
RowVerified(c) == c.kind = "api" /\ c.gateway # NoKey /\ ~RowConflict(c)
Attested(c) == c.kind = "api" /\ c.source \in {"actual", "reported"}

RowModels ==
    {RowModel(c) : c \in {d \in ToSet(facts) : d.gateway # NoKey}} \ {NoKey}
EffectiveModels == IF RowModels # {} THEN RowModels ELSE Known(ToSet(facts), "answers")
ModelEvidenceConsistent ==
    /\ \A c \in ToSet(facts) : c.gateway # NoKey => ~RowConflict(c)
    /\ Cardinality(EffectiveModels) <= 1
    /\ Cardinality({r.provider : r \in GatewayRows}) <= 1
    /\ Cardinality({c.provider : c \in ApiCaptures}) <= 1
    /\ \/ GatewayRows # {}
       \/ /\ Cardinality(Known(ToSet(facts), "asks")) <= 1
          /\ EffectiveModels = {} \/ Known(ToSet(facts), "asks") \subseteq EffectiveModels
    /\ EffectiveModels = {} \/ Known(ToSet(facts), "answers") \subseteq EffectiveModels

Count(P(_)) == Len(SelectSeq(facts, P))
ProxyRouteVerified ==
    /\ Count(Applicable) > 0 /\ Count(RowVerified) = Count(Applicable)
    /\ ModelEvidenceConsistent
ProviderIdentityAttested ==
    /\ Count(Applicable) > 0 /\ ModelEvidenceConsistent
    /\ Count(Attested) = Count(Applicable) \/ Count(RowVerified) = Count(Applicable)

-----------------------------------------------------------------------------
(* build_inference_api_conservation                                        *)
ExactKeys(c) ==
    {k \in {<<"upstream", c.up>>, <<"response", c.resp>>} : k[2] # NoKey}
PreferredKey(c) == IF c.up # NoKey THEN <<"upstream", c.up>> ELSE <<"response", c.resp>>
Inferences == {i \in DOMAIN facts : facts[i].kind = "inference"}
ApiKeys == UNION {ExactKeys(c) : c \in ApiCaptures}
InferencesConserved ==
    /\ \A i \in Inferences : ExactKeys(facts[i]) \cap ApiKeys # {}
    /\ \A i, j \in Inferences : i # j => PreferredKey(facts[i]) # PreferredKey(facts[j])

-----------------------------------------------------------------------------
(* What the totals and the attestations mean.                              *)

\* Captures that share an identifier, directly or through others: the request.
Shares(i, j) == UsageKeys(facts[i]) \cap UsageKeys(facts[j]) # {}
RequestOf(i) ==
    FoldLeft(LAMBDA S, n : S \cup {j \in DOMAIN facts : \E s \in S : Shares(s, j)},
             {i}, facts)

\* Every request counts once, with the first count any of its captures has, and
\* a count that differs, or two requests or responses joined by a shared
\* identifier, is a conflict.  A Session whose route is verified has a billing
\* row of its own, of a known format, for every call that was answered, and one
\* model has answered all of them.  One whose provider is attested has that, or
\* an attested provider on every such call, unless a call that failed without an
\* answer is attested in the place of another.  Conserved inferences each have
\* an API capture with an identifier of theirs.
EvidenceIsCounted ==
    settled # NoKey =>
        /\ settled = {Settlement(facts, SetToSortSeq(RequestOf(i), <)) : i \in DOMAIN facts}
        /\ \A i, j \in DOMAIN facts :
              (j \in RequestOf(i) /\ NoCount \notin {UsageOf(facts[i]), UsageOf(facts[j])}
                 /\ UsageOf(facts[i]) # UsageOf(facts[j])) =>
                    \E s \in settled : i \in s.members /\ s.conflict
        /\ ProxyRouteVerified => \E m \in EffectiveModels \cup {NoKey} :
              \A c \in {x \in ApiCaptures : Applicable(x)} :
                 /\ c.gateway # NoKey /\ GatewayLinked(c) /\ c.gateway.known
                 /\ {c.answers, c.gateway.answers} \subseteq {m, NoKey}
        /\ ProviderIdentityAttested =>
              \/ \A c \in ApiCaptures : Applicable(c) => Attested(c)
              \/ \A c \in ApiCaptures : Applicable(c) => RowVerified(c)
              \/ \E c \in ApiCaptures : Attested(c) /\ ~Applicable(c)
        /\ InferencesConserved => \A i \in Inferences : \E c \in ApiCaptures :
              \/ c.up # NoKey /\ c.up = facts[i].up
              \/ c.resp # NoKey /\ c.resp = facts[i].resp
=============================================================================
