------------------------------ MODULE MCServices ------------------------------
(***************************************************************************)
(* Three parts of the services that share no state, in one run: the        *)
(* delivery byte budget and the quality ledger of the Relay, and the       *)
(* sharded Collector.  Interleaving them would add nothing, so a behaviour *)
(* moves one of them, chosen at the start.                                 *)
(***************************************************************************)
EXTENDS DeliveryBudget, IngestQuality, ShardedCollector, FiniteSetsExt

CONSTANTS p1, p2
VARIABLE part

\* Two ids, one in each of two shards.
HashOfIds == [i \in 0 .. 1 |-> i]

\* A batch for both shards, another payload of an id, a batch that is too
\* large and contradicts itself.
SomeBatches ==
    {{<<0, p1>>, <<1, p1>>}, {<<0, p2>>}, {<<0, p1>>, <<0, p2>>, <<1, p1>>}}

\* Neither service loses a permit of its byte budget or gives one twice,
\* whatever fails, and the bodies in memory stay within it.
PermitsKept == PermitsConserved /\ BodiesBounded

ServicesInit ==
    /\ part \in {"budget", "quality", "shards"}
    /\ BudgetInit /\ QualityInit /\ ShardInit
    /\ part # "budget" => /\ budget = Max(Budgets)
                          /\ size = [i \in Captures |-> Max(Sizes)]

ServicesNext ==
    /\ part' = part
    /\ \/ part = "budget" /\ BudgetNext /\ UNCHANGED <<qualityVars, shardVars>>
       \/ part = "quality" /\ QualityNext /\ UNCHANGED <<budgetVars, shardVars>>
       \/ part = "shards" /\ ShardNext /\ UNCHANGED <<budgetVars, qualityVars>>

ServicesSpec ==
    /\ ServicesInit
    /\ [][ServicesNext]_<<part, budgetVars, qualityVars, shardVars>>
    /\ BudgetFair
=============================================================================
