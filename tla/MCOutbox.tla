------------------------------ MODULE MCOutbox ------------------------------
(***************************************************************************)
(* Outbox for TLC.  captureIds are interchangeable.                        *)
(***************************************************************************)
EXTENDS Outbox, TLC

Symmetry == Permutations(Ids)
=============================================================================
