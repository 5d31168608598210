------------------------------- MODULE MCSettles -------------------------------
(***************************************************************************)
(* What the Relay sends again and again until it is settled, twice: the    *)
(* rows of the delivery ledger, with their queue and worker, and an        *)
(* envelope that both ends normalise.  They share no state here; a         *)
(* behaviour moves one of them.                                            *)
(***************************************************************************)
EXTENDS RelayDelivery, MCCapture

VARIABLE part

\* The ledger that does not move has no rows, the envelope is the plain one.
\* The store's counter does not lag: what a start does with one that does is a
\* question of ledgers.cfg, and concerns no row that is there.
SettlesInit ==
    /\ part \in {"delivery", "capture"} /\ Init /\ FlowInit
    /\ part # "delivery" => row = [i \in Ids |-> NoRow]
    /\ part # "capture" => sent = {Plain}

SettlesNext ==
    /\ part' = part
    /\ \/ part = "delivery" /\ Next /\ tallied' = stored' /\ UNCHANGED flowVars
       \/ part = "capture" /\ FlowNext /\ UNCHANGED vars

\* The fairness of FairSpec and of FlowFairSpec, in the behaviours that move
\* these parts.
SettlesSpec ==
    /\ SettlesInit /\ [][SettlesNext]_<<part, vars, flowVars>>
    /\ WF_vars(part = "delivery" /\ (OpenLedger \/ CompareTotals \/ Reconcile))
    /\ \A i \in Ids : /\ WF_vars(part = "delivery" /\ (EnsureRow(i) \/ Acknowledge(i)))
                      /\ WF_vars(part = "delivery" /\ TimePasses(i))
    /\ \A w \in Workers : WF_vars(part = "delivery" /\ WorkerStep(w))
    /\ WF_vars(part = "delivery" /\ TickerStep)
    /\ WF_flowVars(part = "capture" /\ DeliverRow(FALSE))
=============================================================================
