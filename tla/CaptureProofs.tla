----------------------------- MODULE CaptureProofs -----------------------------
(***************************************************************************)
(* Normalising, and what becomes of it on the way from the Relay to the    *)
(* Collector, for any envelopes, words, losses and restarts.               *)
(***************************************************************************)
EXTENDS CaptureFlow, FiniteSetTheorems, TLAPS

Names ==
    {"type", "version", "namespace", "native", "status", "stage", "odd", "parts", "times",
     "delivery", "says", "evidence", "conflicts", "ids", "request", "response", "secret",
     "redacted"}
Sides == {"capture", "request", "response"}

\* e is parsed to p, and becomes n.
Pass(e, p, n) == IsEnvelope(e) /\ p = Parsed(e) /\ n = Normal(e)

-----------------------------------------------------------------------------
(***************************************************************************)
(* A body is normal after one pass.                                        *)
(***************************************************************************)
\* A body without text that names its raw bytes is left as it is.
LEMMA BodyStays ==
    ASSUME NEW y, IsRecord(y, {"text", "body", "bytes", "sha"}), y.text = Absent,
           HasRaw(y) => y.bytes # Absent /\ y.sha # Absent
    PROVE  BodyNormal(y) = y
<1>1. Texted(y) = y
  BY DEF Texted
<1>2. [y EXCEPT !.bytes = y.bytes, !.sha = y.sha] = y
  BY DEF IsRecord
<1>3. CASE ~HasRaw(y)
  BY <1>1, <1>3 DEF BodyNormal
<1>4. CASE HasRaw(y)
  BY <1>1, <1>2, <1>4 DEF BodyNormal
<1> QED BY <1>3, <1>4

\* What is left of a body has no text to parse, and names its raw bytes.
LEMMA BodySettles ==
    ASSUME NEW x, IsRecord(x, {"text", "body", "bytes", "sha"}), NEW y, y = BodyNormal(x)
    PROVE  /\ IsRecord(y, {"text", "body", "bytes", "sha"})
           /\ y.text = Absent /\ BodyNormal(y) = y
           /\ y.body = Texted(x).body /\ HasRaw(y) = HasRaw(Texted(x))
<1> DEFINE t == Texted(x)
<1>1. IsRecord(t, {"text", "body", "bytes", "sha"}) /\ t.text = Absent
  BY DEF Texted, IsRecord
<1>2. IsRecord(y, {"text", "body", "bytes", "sha"}) /\ y.text = Absent /\ y.body = t.body
  BY <1>1 DEF BodyNormal, IsRecord
<1>3. HasRaw(y) = HasRaw(t)
  BY <1>2 DEF HasRaw
<1>4. Texted(y) = y
  BY <1>2 DEF Texted
<1>5. HasRaw(y) => y.bytes # Absent /\ y.sha # Absent
  BY <1>1, <1>2, <1>3 DEF BodyNormal, HasRaw, IsRecord
<1>6. BodyNormal(y) = y
  BY <1>2, <1>5, BodyStays
<1> QED BY <1>2, <1>3, <1>6

\* A body that is in order stays so.
LEMMA BodyStaysSound ==
    ASSUME NEW x, IsRecord(x, {"text", "body", "bytes", "sha"}), BodySound(x)
    PROVE  BodySound(BodyNormal(x))
<1> DEFINE t == Texted(x)
           y == BodyNormal(x)
<1>1. /\ IsRecord(y, {"text", "body", "bytes", "sha"})
      /\ y.text = Absent /\ y.body = t.body /\ HasRaw(y) = HasRaw(t)
  BY BodySettles
<1>2. Texted(y) = y
  BY <1>1 DEF Texted
<1>3. IsRecord(t, {"text", "body", "bytes", "sha"})
  BY DEF Texted, IsRecord
<1>4. HasRaw(t) => {y.bytes, y.sha} \subseteq {Absent, Null, t.body.raw}
  BY <1>3 DEF BodyNormal, BodySound, IsRecord
<1> QED BY <1>1, <1>2, <1>4, EnvelopeAssumption DEF BodySound

-----------------------------------------------------------------------------
(***************************************************************************)
(* What a pass makes of each part of an envelope.                          *)
(***************************************************************************)
WasParsed(e, p) ==
    /\ IsRecord(p, Names)
    /\ p.request = BodyNormal(e.request) /\ p.response = BodyNormal(e.response)
    /\ \A k \in Names \ {"request", "response"} : p[k] = e[k]

Became(e, p, n) ==
    /\ IsRecord(n, Names)
    /\ n.type = (IF e.type = Absent THEN "api_snapshot" ELSE e.type)
    /\ n.version = "v2" /\ n.stage = StageOf(p) /\ n.times = Timed(e.times)
    /\ n.says = Promoted(p) /\ n.ids = [i \in IdFields |-> IdPromoted(e.ids[i])]
    /\ n.evidence = e.evidence \cup TraceEvidence(p) \cup IdEvidence(p)
    /\ n.conflicts = e.conflicts \cup TraceConflicts(p)
    /\ n.redacted = e.redacted \cup e.secret /\ n.secret = {}
    /\ n.request = BodyNormal(e.request) /\ n.response = BodyNormal(e.response)
    /\ n.namespace = e.namespace /\ n.native = e.native /\ n.status = e.status
    /\ n.odd = e.odd /\ n.parts = e.parts /\ n.delivery = e.delivery
    /\ p.request = n.request /\ p.response = n.response
    /\ p.says = e.says /\ p.ids = e.ids /\ p.evidence = e.evidence

LEMMA ParsedParts == ASSUME NEW e, NEW p, NEW n, Pass(e, p, n) PROVE WasParsed(e, p)
BY DEF WasParsed, Pass, Parsed, IsEnvelope, IsRecord, Names

LEMMA NormalParts == ASSUME NEW e, NEW p, NEW n, Pass(e, p, n) PROVE Became(e, p, n)
<1>1. /\ IsRecord(p, Names)
      /\ p.request = BodyNormal(e.request) /\ p.response = BodyNormal(e.response)
      /\ \A k \in Names \ {"request", "response"} : p[k] = e[k]
  <2>1. WasParsed(e, p)
    BY ParsedParts
  <2> QED BY <2>1 DEF WasParsed
<1>2. n = Filled(p)
  BY DEF Pass, Normal
<1>3. DOMAIN p = Names
  BY <1>1 DEF IsRecord
<1>4. IsRecord(n, Names)
  <2>1. DOMAIN n = Names
    BY <1>2, <1>3 DEF Filled
  <2>2. n = [k \in DOMAIN n |-> n[k]]
    BY <1>2 DEF Filled
  <2> QED BY <2>1, <2>2 DEF IsRecord
<1>5. /\ n.type = (IF p.type = Absent THEN "api_snapshot" ELSE p.type)
      /\ n.version = "v2" /\ n.stage = StageOf(p) /\ n.times = Timed(p.times)
  BY <1>2, <1>3 DEF Filled, Names
<1>6. /\ n.says = Promoted(p) /\ n.ids = [i \in IdFields |-> IdPromoted(p.ids[i])]
      /\ n.evidence = p.evidence \cup TraceEvidence(p) \cup IdEvidence(p)
  BY <1>2, <1>3 DEF Filled, Names
<1>7. /\ n.conflicts = p.conflicts \cup TraceConflicts(p)
      /\ n.redacted = p.redacted \cup p.secret /\ n.secret = {}
  BY <1>2, <1>3 DEF Filled, Names
<1>8. /\ n.request = p.request /\ n.response = p.response
      /\ n.namespace = p.namespace /\ n.native = p.native /\ n.status = p.status
      /\ n.odd = p.odd /\ n.parts = p.parts /\ n.delivery = p.delivery
  BY <1>2, <1>3 DEF Filled, Names
<1>9. /\ p.type = e.type /\ p.times = e.times /\ p.ids = e.ids /\ p.evidence = e.evidence
      /\ p.conflicts = e.conflicts /\ p.redacted = e.redacted /\ p.secret = e.secret
      /\ p.namespace = e.namespace /\ p.native = e.native /\ p.status = e.status
      /\ p.odd = e.odd /\ p.parts = e.parts /\ p.delivery = e.delivery
      /\ p.says = e.says
  BY <1>1 DEF Names
<1> QED BY <1>1, <1>4, <1>5, <1>6, <1>7, <1>8, <1>9 DEF Became

\* What is said of a field: the trace context is filled, the rest is kept.
SaysOn(e, p, n) ==
    /\ Fields(p) = Fields(e) /\ Fields(n) = Fields(e)
    /\ n.says = [f \in Fields(n) |-> [q \in Places |-> n.says[f][q]]]
    /\ \A f \in Fields(e) :
          /\ \A q \in Places : Said(p, f, q) = Said(e, f, q)
          /\ \A q \in Places \ {"traceContext"} : Said(n, f, q) = Said(e, f, q)
          /\ Trace(p, f) = Trace(e, f)
          /\ Trace(e, f) = Said(e, f, "traceContext")
          /\ Trace(n, f) = Said(n, f, "traceContext")
          /\ Trace(n, f) = IF Trace(e, f) = Absent THEN Selected(p, f) ELSE Trace(e, f)

LEMMA SaysParts == ASSUME NEW e, NEW p, NEW n, Pass(e, p, n) PROVE SaysOn(e, p, n)
<1>0. Became(e, p, n)
  BY NormalParts
<1>1. p.says = e.says
  BY <1>0 DEF Became
<1>2. n.says = Promoted(p)
  BY <1>0 DEF Became
<1>3. \A f \in Fields(e) : e.says[f] = [q \in Places |-> e.says[f][q]]
  BY DEF Pass, IsEnvelope
<1>4. Fields(p) = Fields(e) /\ Fields(n) = Fields(e)
  BY <1>1, <1>2 DEF Fields, Promoted
<1>5. ASSUME NEW f \in Fields(e)
      PROVE  n.says[f] = [q \in Places |->
                 IF q = "traceContext" /\ e.says[f][q] = Absent THEN Selected(p, f)
                 ELSE e.says[f][q]]
  <2>1. n.says[f] = [e.says[f] EXCEPT !["traceContext"] =
                         IF @ = Absent THEN Selected(p, f) ELSE @]
    BY <1>1, <1>2, <1>4 DEF Promoted
  <2> QED BY <2>1, <1>3
<1>6. n.says = [f \in Fields(n) |-> [q \in Places |-> n.says[f][q]]]
  <2>1. n.says = [f \in Fields(n) |-> n.says[f]]
    BY <1>2, <1>4 DEF Promoted
  <2>2. \A f \in Fields(n) : n.says[f] = [q \in Places |-> n.says[f][q]]
    BY <1>4, <1>5
  <2> QED BY <2>1, <2>2
<1>7. "traceContext" \in Places
  BY DEF Places, Own
<1> QED BY <1>1, <1>4, <1>5, <1>6, <1>7 DEF SaysOn, Said, Trace

\* What is normal is an envelope, with bodies that are parsed.
LEMMA NormalIsEnvelope ==
    ASSUME NEW e, NEW p, NEW n, Pass(e, p, n)
    PROVE  IsEnvelope(n) /\ Parsed(n) = n
<1>0. Became(e, p, n) /\ SaysOn(e, p, n)
  BY NormalParts, SaysParts
<1>1. IsRecord(n, Names) /\ n.times = Timed(e.times)
      /\ n.ids = [i \in IdFields |-> IdPromoted(e.ids[i])]
      /\ n.request = BodyNormal(e.request) /\ n.response = BodyNormal(e.response)
  BY <1>0 DEF Became
<1>2. /\ IsRecord(n.request, {"text", "body", "bytes", "sha"})
      /\ IsRecord(n.response, {"text", "body", "bytes", "sha"})
      /\ BodyNormal(n.request) = n.request /\ BodyNormal(n.response) = n.response
  BY <1>1, BodySettles DEF Pass, IsEnvelope
<1>3. IsRecord(n.times, {"receivedAt", "finishedAt", "startedAt"})
  BY <1>1 DEF Pass, IsEnvelope, IsRecord, Timed
<1>4. n.ids = [i \in IdFields |-> [q \in Sides |-> n.ids[i][q]]]
  <2>1. \A i \in IdFields : e.ids[i] = [q \in Sides |-> e.ids[i][q]]
    BY DEF Pass, IsEnvelope, Sides
  <2>2. \A i \in IdFields : n.ids[i] = [q \in Sides |-> n.ids[i][q]]
    BY <2>1, <1>1 DEF IdPromoted
  <2> QED BY <2>2, <1>1
<1>5. /\ Fields(n) = Fields(e)
      /\ n.says = [f \in Fields(n) |-> [q \in Places |-> n.says[f][q]]]
  BY <1>0 DEF SaysOn
<1>. Fields(n) \cap (IdFields \cup {Odd}) = {}
  BY <1>5 DEF Pass, IsEnvelope
<1>6. IsEnvelope(n)
  BY <1>1, <1>2, <1>3, <1>4, <1>5 DEF IsEnvelope, Names, Sides
<1>7. [n EXCEPT !.request = n.request, !.response = n.response] = n
  BY <1>1 DEF IsRecord
<1>8. Parsed(n) = n
  BY <1>2, <1>7 DEF Parsed
<1> QED BY <1>6, <1>8

-----------------------------------------------------------------------------
(***************************************************************************)
(* The second pass hears the other sources only, and they say the same.    *)
(***************************************************************************)
\* There is a first among the places that are heard.
LEMMA FirstIsFirst ==
    ASSUME NEW H, H \subseteq Places, H # {}
    PROVE  FirstOf(H) \in H /\ \A q \in H : Before[FirstOf(H)] <= Before[q]
<1>1. \E p \in H : \A q \in H : Before[p] <= Before[q]
  <2>1. \A q \in H : q \in {"traceContext", "alias", "header", "capture", "client_metadata",
                          "turn_metadata", "requestBody", "w3c"}
    BY DEF Places, Own, InBody
  <2>2. CASE "traceContext" \in H
    BY <2>1, <2>2 DEF Before
  <2>3. CASE "traceContext" \notin H /\ "alias" \in H
    BY <2>1, <2>3 DEF Before
  <2>4. CASE H \cap {"traceContext", "alias"} = {} /\ "header" \in H
    BY <2>1, <2>4 DEF Before
  <2>5. CASE H \cap {"traceContext", "alias", "header"} = {} /\ "capture" \in H
    BY <2>1, <2>5 DEF Before
  <2>6. CASE /\ H \cap {"traceContext", "alias", "header", "capture"} = {}
             /\ "client_metadata" \in H
    BY <2>1, <2>6 DEF Before
  <2>7. CASE /\ H \cap {"traceContext", "alias", "header", "capture", "client_metadata"} = {}
             /\ "turn_metadata" \in H
    BY <2>1, <2>7 DEF Before
  <2>8. CASE H \subseteq {"requestBody", "w3c"} /\ "requestBody" \in H
    BY <2>8 DEF Before
  <2>9. CASE H = {"w3c"}
    BY <2>9 DEF Before
  <2>10. H \subseteq {"w3c"} => H = {"w3c"}
    OBVIOUS
  <2> QED BY <2>1, <2>2, <2>3, <2>4, <2>5, <2>6, <2>7, <2>8, <2>9, <2>10
<1> QED BY <1>1 DEF FirstOf

\* What is heard is something.
LEMMA HeardIsSaid ==
    ASSUME NEW e, NEW f
    PROVE  /\ Heard(e, f) \subseteq Places
           /\ \A q \in Heard(e, f) : Said(e, f, q) # Absent
BY EnvelopeAssumption DEF Heard, Present

LEMMA SelectedIsSaid ==
    ASSUME NEW e, NEW f, Selected(e, f) = Absent
    PROVE  Heard(e, f) = {}
BY HeardIsSaid, FirstIsFirst, EnvelopeAssumption DEF Selected, Present

\* The evidence that a pass makes, and the request ids', one by one.
LEMMA EvidenceMade ==
    ASSUME NEW e, NEW x
    PROVE  x \in TraceEvidence(e) <=>
               \E f \in Fields(e) : \E q \in Heard(e, f) : x = Testimony(e, f, q)
BY DEF TraceEvidence

LEMMA IdEvidenceMade ==
    ASSUME NEW e, NEW x
    PROVE  x \in IdEvidence(e) <=>
               \E i \in IdFields : \E q \in IdPlaces(e, i) : x = IdTestimony(e, i, q)
BY DEF IdEvidence

\* What is heard of a field is evidence of it.
LEMMA HeardIsEvidence ==
    ASSUME NEW e, NEW p, NEW n, Pass(e, p, n),
           NEW f \in Fields(e)
    PROVE  f \in EvidenceFields(n) <=> f \in EvidenceFields(e) \/ Heard(p, f) # {}
<1>0. Became(e, p, n) /\ SaysOn(e, p, n)
  BY NormalParts, SaysParts
<1>1. n.evidence = e.evidence \cup TraceEvidence(p) \cup IdEvidence(p) /\ Fields(p) = Fields(e)
  BY <1>0 DEF Became, SaysOn
<1>2. \A x \in IdEvidence(p) : x.field \in IdFields
  BY IdEvidenceMade DEF IdTestimony, Evidence
<1>3. (\E x \in TraceEvidence(p) : x.field = f) <=> Heard(p, f) # {}
  <2>1. \A g, q : Testimony(p, g, q).field = g
    BY DEF Testimony, Evidence
  <2>2. ASSUME NEW x \in TraceEvidence(p), x.field = f PROVE Heard(p, f) # {}
    BY <2>1, <2>2, EvidenceMade
  <2>3. ASSUME NEW q \in Heard(p, f) PROVE Testimony(p, f, q) \in TraceEvidence(p)
    BY <1>1, <2>3, EvidenceMade
  <2> QED BY <2>1, <2>2, <2>3
<1>4. f \notin IdFields
  BY DEF Pass, IsEnvelope
<1> QED BY <1>1, <1>2, <1>3, <1>4 DEF EvidenceFields

LEMMA HeardAgain ==
    ASSUME NEW e, NEW p, NEW n, Pass(e, p, n),
           NEW f \in Fields(e)
    PROVE  Heard(n, f) = Others(p, f)
<1>0. Became(e, p, n) /\ SaysOn(e, p, n)
  BY NormalParts, SaysParts
<1>1. /\ \A q \in Places : Said(p, f, q) = Said(e, f, q)
      /\ \A q \in Places \ {"traceContext"} : Said(n, f, q) = Said(e, f, q)
      /\ Trace(n, f) = Said(n, f, "traceContext") /\ Trace(e, f) = Said(e, f, "traceContext")
      /\ Trace(p, f) = Trace(e, f)
      /\ Trace(n, f) = IF Trace(e, f) = Absent THEN Selected(p, f) ELSE Trace(e, f)
  BY <1>0 DEF SaysOn
<1>2. HasFieldsInBody(n) = HasFieldsInBody(p)
  BY <1>0 DEF Became, HasFieldsInBody
<1>3. EvidenceFields(p) = EvidenceFields(e)
  BY <1>0 DEF Became, EvidenceFields
<1>4. \A q \in Places \ Own : q \in Heard(n, f) <=> q \in Heard(p, f)
  BY <1>1, <1>2 DEF Heard, Own
<1>5. ASSUME NEW q \in Own, q \in Heard(n, f) PROVE FALSE
  <2>1. f \notin EvidenceFields(n) /\ Present(Said(n, f, q))
    BY <1>5 DEF Heard, Own
  <2>2. f \notin EvidenceFields(p) /\ Heard(p, f) = {}
    BY <2>1, <1>3, HeardIsEvidence
  <2>3. ~Present(Said(e, f, "traceContext")) /\ ~Present(Said(e, f, "alias"))
    BY <2>2, <1>1 DEF Heard, Own, Places, InBody
  <2>4. Selected(p, f) = Absent
    BY <2>2, <2>3, <1>1 DEF Selected
  <2>5. q \in {"traceContext", "alias"} /\ ~Present(Absent)
    BY EnvelopeAssumption DEF Own, Present
  <2> QED BY <2>1, <2>3, <2>4, <2>5, <1>1 DEF Places, Own
<1>6. Heard(n, f) \subseteq Places /\ Heard(p, f) \subseteq Places
  BY HeardIsSaid
<1> QED BY <1>4, <1>5, <1>6 DEF Others

-----------------------------------------------------------------------------
(***************************************************************************)
(* The second pass adds evidence and conflicts, or nothing.                *)
(***************************************************************************)
\* The request ids are selected once, with their evidence.
LEMMA IdsSettle ==
    ASSUME NEW e, NEW p, NEW n, Pass(e, p, n)
    PROVE  /\ \A i \in IdFields : IdPromoted(n.ids[i]) = n.ids[i]
           /\ IdEvidence(n) \subseteq n.evidence
<1>0. Became(e, p, n) /\ SaysOn(e, p, n)
  BY NormalParts, SaysParts
<1>1. ASSUME NEW i \in IdFields
      PROVE  LET x == e.ids[i]
                 y == n.ids[i] IN
             /\ IsRecord(x, Sides) /\ IsRecord(y, Sides) /\ p.ids[i] = x
             /\ y.request = x.request /\ y.response = x.response /\ Observed(y) = Observed(x)
             /\ y.capture = IF x.capture \notin Words /\ Observed(x) # Absent THEN Observed(x)
                            ELSE x.capture
  <2>1. e.ids[i] = [q \in Sides |-> e.ids[i][q]]
    BY DEF Pass, IsEnvelope, Sides
  <2>2. n.ids[i] = IdPromoted(e.ids[i]) /\ p.ids[i] = e.ids[i]
    BY <1>0 DEF Became
  <2> QED BY <2>1, <2>2 DEF IdPromoted, Observed, IsRecord, Sides
<1>2. ASSUME NEW i \in IdFields PROVE IdPromoted(n.ids[i]) = n.ids[i]
  <2>1. [n.ids[i] EXCEPT !.capture = n.ids[i].capture] = n.ids[i]
    BY <1>1 DEF IsRecord
  <2> QED BY <1>1, <2>1 DEF IdPromoted
<1>3. ASSUME NEW i \in IdFields, NEW q \in IdPlaces(n, i)
      PROVE  IdTestimony(n, i, q) \in n.evidence
  <2>1. SelectedId(n.ids[i]) = SelectedId(p.ids[i])
    BY <1>1 DEF SelectedId
  <2>2. CASE q = "capture"
    <3>1. i \notin EvidenceFields(n) /\ n.ids[i].capture \in Words
      BY <2>2 DEF IdPlaces
    <3>2. \A r \in IdPlaces(p, i) : IdTestimony(p, i, r) \in n.evidence
      BY <1>0, IdEvidenceMade DEF Became
    <3>. \A r : IdTestimony(p, i, r).field = i
      BY DEF IdTestimony, Evidence
    <3>3. IdPlaces(p, i) = {}
      BY <3>1, <3>2 DEF EvidenceFields
    <3>4. i \notin EvidenceFields(p)
      BY <3>1, <1>0 DEF EvidenceFields, Became
    <3> QED BY <3>1, <3>3, <3>4, <1>1 DEF IdPlaces, Observed
  <2>3. CASE q # "capture"
    <3>1. q \in IdPlaces(p, i) /\ n.ids[i][q] = p.ids[i][q]
      BY <2>3, <1>1 DEF IdPlaces
    <3>2. IdTestimony(n, i, q) = IdTestimony(p, i, q)
      BY <3>1, <2>1 DEF IdTestimony
    <3>3. IdTestimony(p, i, q) \in IdEvidence(p)
      BY <3>1, IdEvidenceMade
    <3> QED BY <3>2, <3>3, <1>0 DEF Became
  <2> QED BY <2>2, <2>3
<1> QED BY <1>2, <1>3, IdEvidenceMade

\* What is filled in stays, but for evidence and conflicts.
SettlesTo(n, m) ==
    /\ IsRecord(m, Names)
    /\ m.evidence = n.evidence \cup TraceEvidence(n) /\ m.conflicts = n.conflicts \cup TraceConflicts(n)
    /\ \A k \in Names \ {"evidence", "conflicts"} : m[k] = n[k]

LEMMA SecondPass ==
    ASSUME NEW e, NEW p, NEW n, Pass(e, p, n), NEW m, m = Normal(n)
    PROVE  Pass(n, n, m) /\ SettlesTo(n, m)
<1>0. Became(e, p, n) /\ SaysOn(e, p, n)
  BY NormalParts, SaysParts
<1>1. Pass(n, n, m)
  BY NormalIsEnvelope DEF Pass
<1>2. Became(n, n, m) /\ SaysOn(n, n, m)
  BY <1>1, NormalParts, SaysParts
<1>3. m.type = n.type /\ m.stage = n.stage /\ m.version = n.version
  BY <1>0, <1>2, EnvelopeAssumption DEF Became, StageOf
<1>4. m.times = n.times
  <2>1. n.times = Timed(e.times) /\ m.times = Timed(n.times)
    BY <1>0, <1>2 DEF Became
  <2>2. IsRecord(e.times, {"receivedAt", "finishedAt", "startedAt"})
    BY DEF Pass, IsEnvelope
  <2>3. [n.times EXCEPT !.receivedAt = n.times.receivedAt] = n.times
    BY <2>1, <2>2 DEF Timed, IsRecord
  <2> QED BY <2>1, <2>2, <2>3 DEF Timed, IsRecord
<1>5. m.ids = n.ids
  <2>1. m.ids = [i \in IdFields |-> IdPromoted(n.ids[i])] /\ n.ids = [i \in IdFields |-> n.ids[i]]
    BY <1>0, <1>2 DEF Became
  <2> QED BY <2>1, IdsSettle
<1>6. m.says = n.says
  <2>1. ASSUME NEW f \in Fields(n) PROVE m.says[f] = n.says[f]
    <3>1. Trace(m, f) = Trace(n, f)
      <4>1. CASE Trace(n, f) # Absent
        BY <4>1, <1>2 DEF SaysOn
      <4>2. CASE Trace(n, f) = Absent
        <5>1. f \in Fields(e) /\ Selected(p, f) = Absent
          BY <4>2, <1>0 DEF SaysOn
        <5>2. Heard(n, f) = {}
          BY <5>1, SelectedIsSaid, HeardAgain DEF Others
        <5>3. Selected(n, f) = Absent
          BY <4>2, <5>2 DEF Selected
        <5> QED BY <4>2, <5>3, <1>2 DEF SaysOn
      <4> QED BY <4>1, <4>2
    <3>2. \A q \in Places : m.says[f][q] = n.says[f][q]
      BY <3>1, <1>2 DEF SaysOn, Said
    <3> QED BY <3>2, <1>0, <1>2 DEF SaysOn
  <2> QED BY <2>1, <1>0, <1>2 DEF SaysOn
<1>7. m.evidence = n.evidence \cup TraceEvidence(n)
  BY <1>2, IdsSettle DEF Became
<1>8. m.secret = n.secret /\ m.redacted = n.redacted
  BY <1>0, <1>2 DEF Became
<1>9. SettlesTo(n, m)
  BY <1>2, <1>3, <1>4, <1>5, <1>6, <1>7, <1>8 DEF SettlesTo, Became, Names
<1> QED BY <1>1, <1>9

Agree(p, n, f) == Selected(n, f) = Selected(p, f)

\* What is selected changes only from the alias to another source.
LEMMA SelectedAgain ==
    ASSUME NEW e, NEW p, NEW n, Pass(e, p, n), NEW f \in Fields(e), Others(p, f) # {}
    PROVE  /\ Agree(p, n, f) <=>
                  (NamesItself(p, f) => \/ Present(Trace(e, f)) \/ Trace(e, f) = Absent
                                  \/ Said(e, f, FirstOf(Others(p, f))) = Said(e, f, "alias"))
           /\ ~Agree(p, n, f) => /\ NamesItself(p, f)
                                 /\ Selected(n, f) = Said(n, f, FirstOf(Heard(n, f)))
<1> DEFINE O == Others(p, f)
           H == Heard(p, f)
<1>0. SaysOn(e, p, n)
  BY SaysParts
<1>1. Heard(n, f) = O
  BY HeardAgain
<1>2. /\ \A q \in Places : Said(p, f, q) = Said(e, f, q)
      /\ \A q \in Places \ {"traceContext"} : Said(n, f, q) = Said(e, f, q)
      /\ Trace(p, f) = Trace(e, f) /\ Trace(e, f) = Said(e, f, "traceContext")
      /\ Trace(n, f) = IF Trace(e, f) = Absent THEN Selected(p, f) ELSE Trace(e, f)
  BY <1>0 DEF SaysOn
<1>3. H \subseteq Places /\ O \subseteq H /\ O \cap Own = {} /\ (NamesItself(p, f) \/ H = O)
  BY HeardIsSaid DEF Others, NamesItself
<1>4. FirstOf(O) \in O /\ FirstOf(H) \in H /\ FirstOf(O) # "traceContext"
  BY <1>3, FirstIsFirst DEF Own
<1>5. CASE Present(Trace(e, f))
  <2>1. Trace(n, f) = Trace(e, f)
    BY <1>2, <1>5, EnvelopeAssumption DEF Present
  <2>2. Agree(p, n, f)
    BY <1>2, <1>5, <2>1 DEF Agree, Selected
  <2> QED BY <1>5, <2>2
<1>6. ASSUME ~Present(Trace(e, f)) PROVE Selected(p, f) = Said(e, f, FirstOf(H)) /\ H # {}
  BY <1>2, <1>3, <1>4, <1>6 DEF Selected
<1>7. ASSUME NamesItself(p, f), ~Present(Trace(e, f))
      PROVE  FirstOf(H) = "alias" /\ Present(Said(e, f, "alias"))
  <2>1. "traceContext" \notin H /\ "alias" \in H
    BY <1>2, <1>7 DEF NamesItself, Own, Heard, Places
  <2>2. Before[FirstOf(H)] <= Before["alias"]
    BY <2>1, <1>3, FirstIsFirst
  <2>3. FirstOf(H) \in {"traceContext", "alias", "header", "capture", "client_metadata",
                       "turn_metadata", "requestBody", "w3c"}
    BY <1>3, <1>4 DEF Places, Own, InBody
  <2>4. FirstOf(H) = "alias"
    BY <2>1, <2>2, <2>3, <1>4 DEF Before
  <2>5. Present(Said(p, f, "alias"))
    BY <2>1 DEF Heard
  <2> QED BY <2>4, <2>5, <1>2 DEF Places, Own
<1>8. CASE Trace(e, f) = Absent
  <2>1. ~Present(Trace(e, f)) /\ Trace(n, f) = Selected(p, f)
    BY <1>2, <1>8, EnvelopeAssumption DEF Present
  <2>2. CASE NamesItself(p, f)
    BY <2>1, <2>2, <1>6, <1>7, <1>8 DEF Agree, Selected
  <2>3. CASE ~NamesItself(p, f)
    BY <2>1, <2>3, <1>1, <1>2, <1>3, <1>4, <1>6, <1>8 DEF Agree, Selected
  <2> QED BY <2>2, <2>3
<1>9. CASE ~Present(Trace(e, f)) /\ Trace(e, f) # Absent
  <2>1. Selected(n, f) = Said(n, f, FirstOf(O)) /\ Said(n, f, FirstOf(O)) = Said(e, f, FirstOf(O))
    BY <1>1, <1>2, <1>3, <1>4, <1>9 DEF Selected
  <2>2. CASE NamesItself(p, f)
    BY <2>1, <2>2, <1>1, <1>6, <1>7, <1>9 DEF Agree
  <2>3. CASE ~NamesItself(p, f)
    BY <2>1, <2>3, <1>3, <1>6, <1>9 DEF Agree
  <2> QED BY <2>2, <2>3
<1> QED BY <1>5, <1>8, <1>9

\* No more evidence comes of a field, exactly when the selection stays.
LEMMA EvidenceSettles ==
    ASSUME NEW e, NEW p, NEW n, Pass(e, p, n), NEW f \in Fields(e)
    PROVE  (\A q \in Heard(n, f) : Testimony(n, f, q) \in n.evidence)
               <=> Others(p, f) = {} \/ Agree(p, n, f)
<1>0. Became(e, p, n) /\ SaysOn(e, p, n)
  BY NormalParts, SaysParts
<1>1. Heard(n, f) = Others(p, f) /\ Others(p, f) \subseteq Heard(p, f) /\ f \in Fields(p)
  BY <1>0, HeardAgain DEF Others, SaysOn
<1>2. ASSUME NEW q \in Others(p, f) PROVE Said(n, f, q) = Said(p, f, q)
  BY <1>0, HeardIsSaid DEF SaysOn, Others, Own
<1>3. ASSUME Agree(p, n, f), NEW q \in Heard(n, f) PROVE Testimony(n, f, q) \in n.evidence
  <2>1. Testimony(n, f, q) = Testimony(p, f, q)
    BY <1>1, <1>2, <1>3 DEF Testimony, Agree
  <2>2. Testimony(p, f, q) \in TraceEvidence(p)
    BY <1>1, EvidenceMade
  <2> QED BY <2>1, <2>2, <1>0 DEF Became
<1>4. ASSUME ~Agree(p, n, f), Others(p, f) # {},
             \A q \in Heard(n, f) : Testimony(n, f, q) \in n.evidence
      PROVE  FALSE
  <2> DEFINE q == FirstOf(Heard(n, f))
             t == Testimony(n, f, q)
  <2>1. q \in Heard(n, f)
    BY <1>1, <1>4, FirstIsFirst, HeardIsSaid
  <2>2. NamesItself(p, f) /\ Selected(n, f) = Said(n, f, q)
    BY <1>4, SelectedAgain
  <2>3. t \in e.evidence \cup TraceEvidence(p) \cup IdEvidence(p)
    BY <1>0, <1>4, <2>1 DEF Became
  <2>4. t.field = f /\ t.place = q /\ t.selected = TRUE
    BY <2>2 DEF Testimony, Evidence
  <2>5. t \notin e.evidence
    <3>1. f \notin EvidenceFields(p)
      BY <2>2 DEF NamesItself, Heard
    <3> QED BY <3>1, <2>4, <1>0 DEF EvidenceFields, Became
  <2>6. t \notin IdEvidence(p)
    <3>1. f \notin IdFields
      BY DEF Pass, IsEnvelope
    <3>2. \A i, r : IdTestimony(p, i, r).field = i
      BY DEF IdTestimony, Evidence
    <3> QED BY <3>1, <3>2, <2>4, IdEvidenceMade
  <2>7. PICK g \in Fields(p) : \E r \in Heard(p, g) : t = Testimony(p, g, r)
    BY <2>3, <2>5, <2>6, EvidenceMade
  <2>. PICK r \in Heard(p, g) : t = Testimony(p, g, r)
    BY <2>7
  <2>8. /\ Testimony(p, g, r).field = g /\ Testimony(p, g, r).place = r
        /\ Testimony(p, g, r).selected = (Said(p, g, r) = Selected(p, g))
    BY DEF Testimony, Evidence
  <2>9. g = f /\ r = q /\ Said(p, f, q) = Selected(p, f)
    BY <2>4, <2>7, <2>8
  <2> QED BY <2>1, <2>2, <2>9, <1>1, <1>2, <1>4 DEF Agree
<1> QED BY <1>1, <1>3, <1>4

\* No more conflicts are found in a field, exactly when the dispute of its
\* other sources is on record.
Dispute(e, f, places) == [field |-> f, evidence |-> Statements(e, f, places)]

LEMMA ConflictsSettle ==
    ASSUME NEW e, NEW p, NEW n, Pass(e, p, n), NEW f \in Fields(e)
    PROVE  (Differ(n, f, Heard(n, f)) => Dispute(n, f, Heard(n, f)) \in n.conflicts)
               <=> (NamesItself(p, f) => (Differ(e, f, Others(p, f)) =>
                                        Dispute(e, f, Others(p, f)) \in e.conflicts))
<1> DEFINE O == Others(p, f)
<1>0. Became(e, p, n) /\ SaysOn(e, p, n)
  BY NormalParts, SaysParts
<1>1. Heard(n, f) = O /\ O \subseteq Heard(p, f) /\ f \in Fields(p)
  BY <1>0, HeardAgain DEF Others, SaysOn
<1>2. \A q \in O : Said(n, f, q) = Said(e, f, q) /\ Said(p, f, q) = Said(e, f, q)
  BY <1>0, HeardIsSaid DEF SaysOn, Others, Own
<1>3. /\ Differ(n, f, O) <=> Differ(e, f, O)
      /\ Differ(p, f, O) <=> Differ(e, f, O)
  BY <1>2 DEF Differ
<1>4. Statements(n, f, O) = Statements(e, f, O) /\ Statements(p, f, O) = Statements(e, f, O)
  BY <1>2 DEF Statements
<1>5. \A x : x \in TraceConflicts(p) <=>
                 \E g \in Fields(p) : Differ(p, g, Heard(p, g)) /\ x = Dispute(p, g, Heard(p, g))
  BY DEF TraceConflicts, Dispute
<1>6. ASSUME ~NamesItself(p, f), Differ(e, f, O) PROVE Dispute(n, f, O) \in n.conflicts
  <2>1. Heard(p, f) = O
    BY <1>6 DEF NamesItself, Others
  <2>2. Dispute(p, f, O) \in TraceConflicts(p)
    BY <2>1, <1>1, <1>3, <1>5, <1>6
  <2> QED BY <2>2, <1>0, <1>4 DEF Became, Dispute
<1>7. ASSUME NamesItself(p, f), Dispute(e, f, O) \in TraceConflicts(p) PROVE FALSE
  <2>1. PICK g \in Fields(p) : Dispute(e, f, O) = Dispute(p, g, Heard(p, g))
    BY <1>5, <1>7
  <2>2. g = f /\ Statements(e, f, O) = Statements(p, f, Heard(p, f))
    <3>1. \A k, h, s : Dispute(k, h, s).field = h /\ Dispute(k, h, s).evidence = Statements(k, h, s)
      BY DEF Dispute
    <3> QED BY <2>1, <3>1
  <2>3. PICK q \in Heard(p, f) : q \in Own
    BY <1>7 DEF NamesItself
  <2>4. [place |-> q, value |-> Said(p, f, q)] \in Statements(e, f, O)
    BY <2>2, <2>3 DEF Statements
  <2>5. PICK r \in O : [place |-> q, value |-> Said(p, f, q)] = [place |-> r, value |-> Said(e, f, r)]
    BY <2>4 DEF Statements
  <2> QED BY <2>3, <2>5 DEF Others
<1>8. Dispute(n, f, O) = Dispute(e, f, O)
  BY <1>4 DEF Dispute
<1>9. n.conflicts = e.conflicts \cup TraceConflicts(p)
  BY <1>0 DEF Became
<1> QED BY <1>1, <1>3, <1>6, <1>7, <1>8, <1>9

\* Normalising again changes nothing exactly when nothing is left to record.
LEMMA StableIsSteady ==
    ASSUME NEW e, NEW p, NEW n, Pass(e, p, n)
    PROVE  Steady(e) <=> Normal(n) = n
<1> DEFINE m == Normal(n)
<1>0. Became(e, p, n) /\ SaysOn(e, p, n) /\ SettlesTo(n, m)
  BY NormalParts, SaysParts, SecondPass
<1>1. m = n <=> TraceEvidence(n) \subseteq n.evidence /\ TraceConflicts(n) \subseteq n.conflicts
  <2>1. /\ m.evidence = n.evidence \cup TraceEvidence(n)
        /\ m.conflicts = n.conflicts \cup TraceConflicts(n)
    BY <1>0 DEF SettlesTo
  <2>2. m.evidence = n.evidence /\ m.conflicts = n.conflicts => m = n
    <3>1. m = [k \in Names |-> m[k]] /\ n = [k \in Names |-> n[k]]
      BY <1>0 DEF SettlesTo, Became, IsRecord
    <3>2. ASSUME m.evidence = n.evidence, m.conflicts = n.conflicts, NEW k \in Names
          PROVE  m[k] = n[k]
      BY <3>2, <1>0 DEF SettlesTo
    <3> QED BY <3>1, <3>2
  <2> QED BY <2>1, <2>2
<1>2. TraceEvidence(n) \subseteq n.evidence
        <=> \A f \in Fields(e) : \A q \in Heard(n, f) : Testimony(n, f, q) \in n.evidence
  BY <1>0, EvidenceMade DEF SaysOn
<1>3. TraceConflicts(n) \subseteq n.conflicts
        <=> \A f \in Fields(e) :
               Differ(n, f, Heard(n, f)) => Dispute(n, f, Heard(n, f)) \in n.conflicts
  BY <1>0 DEF SaysOn, TraceConflicts, Dispute
<1>4. ASSUME NEW f \in Fields(e)
      PROVE  (\A q \in Heard(n, f) : Testimony(n, f, q) \in n.evidence)
                <=> (NamesItself(p, f) => \/ Present(Trace(e, f)) \/ Trace(e, f) = Absent
                                    \/ Others(p, f) = {}
                                    \/ Said(e, f, FirstOf(Others(p, f))) = Said(e, f, "alias"))
  BY EvidenceSettles, SelectedAgain
<1>5. p = Parsed(e)
  BY DEF Pass
<1>6. Steady(e) <=>
        \A f \in Fields(e) :
            /\ NamesItself(p, f) => \/ Present(Trace(e, f)) \/ Trace(e, f) = Absent
                              \/ Others(p, f) = {}
                              \/ Said(e, f, FirstOf(Others(p, f))) = Said(e, f, "alias")
            /\ NamesItself(p, f) => (Differ(e, f, Others(p, f)) =>
                                   Dispute(e, f, Others(p, f)) \in e.conflicts)
  BY <1>5 DEF Steady, Dispute
<1> QED BY <1>1, <1>2, <1>3, <1>4, <1>6, ConflictsSettle

\* However steady an envelope is, a third pass changes nothing.
LEMMA ThirdPassIsSilent ==
    ASSUME NEW e, NEW p, NEW n, Pass(e, p, n)
    PROVE  Normal(Normal(n)) = Normal(n)
<1> DEFINE m == Normal(n)
<1>1. Pass(n, n, m) /\ Parsed(n) = n
  BY SecondPass, NormalIsEnvelope
<1>2. \A f \in Fields(n) : ~NamesItself(n, f)
  <2>1. Fields(n) = Fields(e)
    BY SaysParts DEF SaysOn
  <2> QED BY <2>1, HeardAgain DEF NamesItself, Others
<1>3. Steady(n)
  BY <1>1, <1>2 DEF Steady
<1> QED BY <1>1, <1>3, StableIsSteady

-----------------------------------------------------------------------------
(***************************************************************************)
(* What is accepted stays acceptable.                                      *)
(***************************************************************************)
\* A dispute has two sides at least.
LEMMA DisputesAreTwo ==
    ASSUME NEW e, NEW f, NEW H, H \subseteq Places, Differ(e, f, H)
    PROVE  Cardinality(Statements(e, f, H)) >= 2
<1> DEFINE S == Statements(e, f, H)
<1>1. IsFiniteSet(Places)
  <2>1. IsFiniteSet({"traceContext"} \cup {"alias"})
    BY FS_Singleton, FS_Union
  <2>2. IsFiniteSet({"client_metadata"} \cup {"turn_metadata"})
    BY FS_Singleton, FS_Union
  <2>3. IsFiniteSet({"header"} \cup {"capture"})
    BY FS_Singleton, FS_Union
  <2>4. IsFiniteSet({"requestBody"} \cup {"w3c"})
    BY FS_Singleton, FS_Union
  <2>5. /\ IsFiniteSet(({"traceContext"} \cup {"alias"}) \cup ({"header"} \cup {"capture"}))
        /\ IsFiniteSet(({"client_metadata"} \cup {"turn_metadata"})
                           \cup ({"requestBody"} \cup {"w3c"}))
    BY <2>1, <2>2, <2>3, <2>4, FS_Union
  <2>6. Places = (({"traceContext"} \cup {"alias"}) \cup ({"header"} \cup {"capture"}))
                    \cup (({"client_metadata"} \cup {"turn_metadata"})
                             \cup ({"requestBody"} \cup {"w3c"}))
    BY DEF Places, Own, InBody
  <2> QED BY <2>5, <2>6, FS_Union
<1>2. IsFiniteSet(H)
  BY <1>1, FS_Subset
<1>3. IsFiniteSet(S)
  <2> DEFINE g == [q \in H |-> [place |-> q, value |-> Said(e, f, q)]]
  <2>1. S = {g[q] : q \in H}
    BY DEF Statements
  <2>2. g \in Surjection(H, S)
    BY <2>1 DEF Surjection
  <2> QED BY <1>2, <2>2, FS_Surjection
<1>4. PICK q \in H : \E r \in H : Said(e, f, q) # Said(e, f, r)
  BY DEF Differ
<1>5. PICK r \in H : Said(e, f, q) # Said(e, f, r)
  BY <1>4
<1>6. /\ [place |-> q, value |-> Said(e, f, q)] \in S
      /\ [place |-> r, value |-> Said(e, f, r)] \in S
      /\ [place |-> q, value |-> Said(e, f, q)] # [place |-> r, value |-> Said(e, f, r)]
  BY <1>5 DEF Statements
<1>7. Cardinality(S) \in Nat /\ Cardinality(S) # 0 /\ Cardinality(S) # 1
  BY <1>3, <1>6, FS_CardinalityType, FS_EmptySet, FS_Singleton
<1> QED BY <1>7

LEMMA EvidenceStaysSound ==
    ASSUME NEW n, IsEnvelope(n), EvidenceSound(n), NEW m, SettlesTo(n, m)
    PROVE  EvidenceSound(m)
<1>1. ASSUME NEW x \in TraceEvidence(n) PROVE Odd \notin {x.field, x.place, x.selected}
  <2>1. PICK f \in Fields(n) : \E q \in Heard(n, f) : x = Testimony(n, f, q)
    BY <1>1, EvidenceMade
  <2>2. PICK q \in Heard(n, f) : x = Testimony(n, f, q)
    BY <2>1
  <2>3. q # Odd /\ f # Odd
    BY HeardIsSaid, EnvelopeAssumption DEF IsEnvelope
  <2>4. x.field = f /\ x.place = q /\ x.selected \in BOOLEAN
    BY <2>2 DEF Testimony, Evidence
  <2> QED BY <2>3, <2>4, EnvelopeAssumption
<1>2. ASSUME NEW x \in TraceConflicts(n) PROVE x.field # Odd /\ Cardinality(x.evidence) >= 2
  <2>1. PICK f \in Fields(n) :
            Differ(n, f, Heard(n, f))
            /\ x = [field |-> f, evidence |-> Statements(n, f, Heard(n, f))]
    BY <1>2 DEF TraceConflicts
  <2>2. f # Odd
    BY EnvelopeAssumption DEF IsEnvelope
  <2>3. Cardinality(Statements(n, f, Heard(n, f))) >= 2
    BY <2>1, DisputesAreTwo, HeardIsSaid
  <2> QED BY <2>1, <2>2, <2>3
<1> QED BY <1>1, <1>2 DEF EvidenceSound, SettlesTo

LEMMA AcceptedStays ==
    ASSUME NEW e, NEW p, NEW n, Pass(e, p, n), Accepts(e, TRUE)
    PROVE  Accepts(n, TRUE)
<1> DEFINE m == Normal(n)
<1>0. Became(e, p, n) /\ SettlesTo(n, m) /\ IsEnvelope(n)
  BY NormalParts, SecondPass, NormalIsEnvelope
<1>1. /\ e.odd = {} /\ ~Historical(e) /\ StatusSound(e.status) /\ DeliverySound(e.delivery)
      /\ BodySound(e.request) /\ BodySound(e.response)
      /\ \A name \in DOMAIN e.parts : PartSound(name, e.parts[name])
      /\ TypeSound(n) /\ TraceSound(n) /\ EvidenceSound(n) /\ GatewaySound(n)
  BY DEF Accepts, Pass
<1>2. /\ n.odd = {} /\ StatusSound(n.status) /\ DeliverySound(n.delivery)
      /\ \A name \in DOMAIN n.parts : PartSound(name, n.parts[name])
  BY <1>0, <1>1 DEF Became
<1>3. ~Historical(n)
  BY <1>0, <1>1 DEF Became, Historical, Has
<1>4. BodySound(n.request) /\ BodySound(n.response)
  BY <1>0, <1>1, BodyStaysSound DEF Became, Pass, IsEnvelope
<1>5. /\ m.type = n.type /\ m.namespace = n.namespace /\ m.says = n.says /\ m.parts = n.parts
      /\ m.ids = n.ids /\ m.stage = n.stage
  BY <1>0 DEF SettlesTo, Names
<1>6. \A f : Trace(m, f) = Trace(n, f)
  BY <1>5 DEF Trace, Said, Fields
<1>7. TypeSound(m)
  BY <1>1, <1>5, <1>6 DEF TypeSound, Has
<1>8. TraceSound(m)
  BY <1>1, <1>5, <1>6 DEF TraceSound, Fields
<1>9. GatewaySound(m)
  <2>1. Captured(m) = Captured(n)
    BY <1>5 DEF Captured, Whole
  <2> QED BY <1>1, <1>5, <2>1 DEF GatewaySound, Has
<1>10. EvidenceSound(m)
  BY <1>0, <1>1, EvidenceStaysSound
<1> QED BY <1>2, <1>3, <1>4, <1>7, <1>8, <1>9, <1>10 DEF Accepts

-----------------------------------------------------------------------------
(***************************************************************************)
(* The way of an envelope.                                                 *)
(***************************************************************************)
\* What the Relay has is what it made of the first envelope it accepted.
FlowInv ==
    /\ sent \in Corpora /\ running
    /\ relay = Absent => first = Absent /\ turnedAway = {} /\ rowState = "none"
    /\ relay # Absent => /\ first \in sent /\ Accepts(first, TRUE) /\ relay = Normal(first)
                         /\ rowState \in {"pending", "delivered", "conflict"}
    /\ first \notin turnedAway
    /\ rowState = "delivered" => collector = relay

LEMMA SentIsEnvelope ==
    ASSUME FlowInv, NEW e \in sent
    PROVE  Pass(e, Parsed(e), Normal(e)) /\ e # Absent /\ Normal(e) # Absent
BY FlowAssumption DEF FlowInv, Pass

\* The Relay's bytes can be read, by its next process and by the Collector.
LEMMA StoredIsAccepted ==
    ASSUME FlowInv, relay # Absent
    PROVE  Accepts(relay, TRUE) /\ Accepts(relay, FALSE)
<1>1. Accepts(relay, TRUE)
  BY SentIsEnvelope, AcceptedStays DEF FlowInv
<1> QED BY <1>1 DEF Accepts

LEMMA FlowInitHolds == FlowInit => FlowInv
BY DEF FlowInit, FlowInv

LEMMA ReceiveKeeps ==
    ASSUME FlowInv, NEW e \in sent, NEW wire \in BOOLEAN, Receive(e, wire)
    PROVE  FlowInv'
<1>1. e \in sent /\ Accepts(e, TRUE) /\ e # Absent /\ Normal(e) # Absent
  BY SentIsEnvelope DEF Receive, Acceptable
<1>2. CASE relay = Absent
  BY <1>1, <1>2 DEF Receive, FlowInv
<1>3. CASE relay # Absent
  <2>1. first' \notin turnedAway'
    BY <1>3 DEF Receive, FlowInv, SameCapture
  <2> QED BY <1>3, <2>1 DEF Receive, FlowInv
<1> QED BY <1>2, <1>3

LEMMA OtherRelayKeeps ==
    ASSUME FlowInv, NEW e \in sent, OtherRelay(e)
    PROVE  FlowInv'
BY DEF OtherRelay, FlowInv

LEMMA DeliverKeeps ==
    ASSUME FlowInv, NEW lost \in BOOLEAN, DeliverRow(lost)
    PROVE  FlowInv'
<1>1. relay # Absent /\ Accepts(relay, TRUE)
  BY StoredIsAccepted DEF DeliverRow, FlowInv
<1>2. rowState' \in {"pending", "delivered", "conflict"}
  BY <1>1 DEF DeliverRow, FlowInv
<1>3. ASSUME rowState' = "delivered" PROVE collector' = relay
  BY <1>1, <1>3 DEF DeliverRow, FlowInv, ReceiptSound
<1>4. UNCHANGED <<sent, relay, running, first, turnedAway>>
  BY DEF DeliverRow
<1> QED BY <1>1, <1>2, <1>3, <1>4 DEF FlowInv

LEMMA FlowStep == FlowInv /\ [FlowNext]_flowVars => FlowInv'
<1> SUFFICES ASSUME FlowInv, [FlowNext]_flowVars PROVE FlowInv'
  OBVIOUS
<1>1. CASE \E e \in sent, wire \in BOOLEAN : Receive(e, wire)
  BY <1>1, ReceiveKeeps
<1>2. CASE \E e \in sent : OtherRelay(e)
  BY <1>2, OtherRelayKeeps
<1>3. CASE \E lost \in BOOLEAN : DeliverRow(lost)
  BY <1>3, DeliverKeeps
<1>4. CASE RequeueRow
  BY <1>4 DEF RequeueRow, FlowInv
<1>5. CASE RestartRelay
  <2>1. running'
    BY <1>5, StoredIsAccepted DEF RestartRelay
  <2> QED BY <1>5, <2>1 DEF RestartRelay, FlowInv
<1>6. CASE UNCHANGED flowVars
  BY <1>6 DEF flowVars, FlowInv
<1> QED BY <1>1, <1>2, <1>3, <1>4, <1>5, <1>6 DEF FlowNext

LEMMA FlowAlways == FlowSpec => []FlowInv
<1>1. FlowInv /\ [FlowNext]_flowVars => FlowInv'
  BY FlowStep
<1> QED BY <1>1, FlowInitHolds, PTL DEF FlowSpec

\* What the Relay has accepted, its next process can read and the Collector
\* does not refuse.
THEOREM AcceptedAlwaysReadable == FlowSpec => []AcceptedIsReadable
<1>1. FlowInv => AcceptedIsReadable
  BY StoredIsAccepted DEF FlowInv, AcceptedIsReadable
<1> QED BY <1>1, FlowAlways, PTL

\* A delivered capture is what the Collector has.
THEOREM DeliveredAlwaysTheSame == FlowSpec => []DeliveredIsTheSame
<1>1. FlowInv => DeliveredIsTheSame
  BY DEF FlowInv, DeliveredIsTheSame
<1> QED BY <1>1, FlowAlways, PTL

\* An envelope that is sent again is never in conflict with itself.
THEOREM ConflictAlwaysAnother == FlowSpec => []ConflictIsAnother
<1>1. FlowInv => ConflictIsAnother
  BY DEF FlowInv, ConflictIsAnother
<1> QED BY <1>1, FlowAlways, PTL

\* A capture that is evidence of a turn came with sources that agree on it:
\* a dispute about any field of it is a conflict that is no request id's.
THEOREM TurnScopedAlwaysAgreed == FlowSpec => []TurnScopedIsAgreed
<1>1. ASSUME FlowInv, relay # Absent, TurnScoped(relay), NEW f \in Fields(first),
             Differ(first, f, Heard(Parsed(first), f))
      PROVE  FALSE
  <2> DEFINE p == Parsed(first)
  <2>1. Pass(first, p, relay)
    BY <1>1, SentIsEnvelope DEF FlowInv
  <2>2. Became(first, p, relay) /\ SaysOn(first, p, relay)
    BY <2>1, NormalParts, SaysParts
  <2>3. Differ(p, f, Heard(p, f)) /\ f \in Fields(p)
    BY <1>1, <2>2, HeardIsSaid DEF Differ, SaysOn
  <2>4. Dispute(p, f, Heard(p, f)) \in relay.conflicts
    BY <2>2, <2>3 DEF Became, TraceConflicts, Dispute
  <2>5. f \in IdFields
    BY <1>1, <2>4 DEF TurnScoped, Dispute
  <2> QED BY <2>1, <2>5, <1>1 DEF Pass, IsEnvelope
<1>2. FlowInv => TurnScopedIsAgreed
  BY <1>1 DEF TurnScopedIsAgreed
<1> QED BY <1>2, FlowAlways, PTL

\* Normalising again changes nothing exactly when nothing is left to record.
THEOREM SteadyAlwaysStable == FlowSpec => []SteadyIsStable
<1>1. FlowInv => SteadyIsStable
  BY SentIsEnvelope, StableIsSteady DEF FlowInv, SteadyIsStable
<1> QED BY <1>1, FlowAlways, PTL

\* Together: what one hop has accepted the next takes as it is, and nothing is
\* made of it that was not said.
THEOREM CaptureAlwaysTrue == FlowSpec => []CaptureStaysTrue
<1>1. AcceptedIsReadable /\ DeliveredIsTheSame /\ TurnScopedIsAgreed
      /\ ConflictIsAnother /\ SteadyIsStable => CaptureStaysTrue
  BY DEF CaptureStaysTrue
<1> QED BY <1>1, AcceptedAlwaysReadable, DeliveredAlwaysTheSame, ConflictAlwaysAnother,
           TurnScopedAlwaysAgreed, SteadyAlwaysStable, PTL

\* Whatever the envelope, a third pass changes nothing.
THEOREM NormalisingSettles ==
    ASSUME NEW e, IsEnvelope(e)
    PROVE  Normal(Normal(Normal(e))) = Normal(Normal(e))
BY ThirdPassIsSilent DEF Pass
=============================================================================
