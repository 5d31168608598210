---------------------------- MODULE MCCaptureWal ----------------------------
(***************************************************************************)
(* CaptureWal for TLC.  captureIds and payloads are interchangeable, so    *)
(* runs that check no liveness use them as symmetry sets.                  *)
(***************************************************************************)
EXTENDS CaptureWal, TLC

Symmetry == Permutations(Ids) \cup Permutations(Payloads)
=============================================================================
