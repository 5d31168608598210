--------------------------- MODULE MCRelayDelivery ---------------------------
(***************************************************************************)
(* RelayDelivery for TLC.  Workers are interchangeable.                    *)
(***************************************************************************)
EXTENDS RelayDelivery, TLC

Symmetry == Permutations(Workers)
=============================================================================
