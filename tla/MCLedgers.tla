------------------------------- MODULE MCLedgers -------------------------------
(***************************************************************************)
(* Two records of what is stored elsewhere: the Relay's delivery ledger,   *)
(* with batches of two, and the archive of sealed segments.  They share no *)
(* state; a behaviour moves one of them.                                   *)
(***************************************************************************)
EXTENDS RelayDelivery, MCRawArchive

VARIABLE part

\* The delivery ledger that does not move has no rows.
LedgersInit ==
    /\ part \in {"delivery", "archive"} /\ Init /\ SmallInit
    /\ part # "delivery" => row = [i \in Ids |-> NoRow]
    /\ part # "archive" => alone

LedgersNext ==
    /\ part' = part
    /\ \/ part = "delivery" /\ Next /\ UNCHANGED <<archiveVars, alone>>
       \/ part = "archive" /\ SmallNext /\ UNCHANGED vars

\* The fairness of SmallSpec, in the behaviours that move the archive.
LedgersSpec ==
    /\ LedgersInit /\ [][LedgersNext]_<<part, vars, archiveVars, alone>>
    /\ \A p \in Archivers :
          WF_<<archiveVars, alone>>(part = "archive" /\ Archiving(p) /\ Within)
    /\ \A p \in Archivers, i \in Archives :
          SF_<<archiveVars, alone>>(part = "archive" /\ Repeat(p, i) /\ Within)
=============================================================================
