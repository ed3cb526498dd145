----------------------------- MODULE ApprovalMC -----------------------------
(* Approval on a small instance: flows, users and items are interchangeable,  *)
(* and no property of this module is a liveness property.                     *)
EXTENDS Approval, TLC

Symmetry == Permutations(Flows) \cup Permutations(Users) \cup Permutations(Items)
=============================================================================
