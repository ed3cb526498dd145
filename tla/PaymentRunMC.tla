---------------------------- MODULE PaymentRunMC ----------------------------
(* Payment runs on a small instance: runs, invoices and requests are         *)
(* interchangeable, and no property of this module is a liveness property.   *)
EXTENDS PaymentRun, TLC

Symmetry == Permutations(Runs) \cup Permutations(Invoices) \cup Permutations(Users)
=============================================================================
