------------------------- MODULE DeprovisioningMC -------------------------
(***************************************************************************)
(* The instances of Deprovisioning that TLC checks.  All steps are alike,  *)
(* and so are all workers, in the specification and in the safety          *)
(* properties checked with this symmetry.                                  *)
(***************************************************************************)
EXTENDS Deprovisioning, TLC

Symmetry == Permutations(Steps) \cup Permutations(Workers)
=============================================================================
