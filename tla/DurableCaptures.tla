--------------------------- MODULE DurableCaptures ---------------------------
(***************************************************************************)
(* What a capture store promises its callers: a captureId is bound to the  *)
(* first payload stored under it, for ever, and an acknowledgement is      *)
(* given only for a payload that is stored.  No file, segment, ledger or   *)
(* crash appears here; CaptureWal is shown to implement this module.       *)
(***************************************************************************)
CONSTANTS Ids,        \* captureIds
          Payloads,   \* payload bytes, told apart by their SHA-256
          NoPayload   \* the value of an id under which nothing is stored

VARIABLES stored,     \* [Ids -> Payloads \cup {NoPayload}]
          acked       \* the records acknowledged to some caller

promiseVars == <<stored, acked>>

Record == [id : Ids, payload : Payloads]

PromiseInit ==
    /\ stored = [i \in Ids |-> NoPayload]
    /\ acked = {}

(***************************************************************************)
(* A batch becomes durable: ids that had no payload get one, the others    *)
(* keep theirs.                                                            *)
(***************************************************************************)
Store ==
    /\ stored' \in [Ids -> Payloads \cup {NoPayload}]
    /\ \A i \in Ids : stored[i] # NoPayload => stored'[i] = stored[i]
    /\ UNCHANGED acked

(***************************************************************************)
(* The callers of a batch are answered: every record acknowledged is the   *)
(* one stored under its id.                                                *)
(***************************************************************************)
Acknowledge ==
    /\ acked' \subseteq Record
    /\ acked \subseteq acked'
    /\ \A r \in acked' \ acked : stored[r.id] = r.payload
    /\ UNCHANGED stored

PromiseNext == Store \/ Acknowledge

PromiseSpec == PromiseInit /\ [][PromiseNext]_promiseVars
=============================================================================
