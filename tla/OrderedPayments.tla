--------------------------- MODULE OrderedPayments ---------------------------
(***************************************************************************)
(* What the payment runs promise to whoever reconciles them with the bank  *)
(* (packages/api/src/routers/finance/payment-export-router.ts and          *)
(* payment-import.ts), with no request, status or item in sight: a run     *)
(* orders payments once, by one file, which never changes; and a payment   *)
(* is recorded in a run only after that run has ordered it, and stays      *)
(* recorded.                                                               *)
(***************************************************************************)
EXTENDS Integers

CONSTANTS Runs, Invoices

VARIABLES
  orders,    \* how many files were handed out for a run
  ordered,   \* the invoices a run has ordered to be paid
  recorded   \* the invoices a run has a payment of

avars == <<orders, ordered, recorded>>

Init ==
  /\ orders = [r \in Runs |-> 0]
  /\ ordered = [r \in Runs |-> {}]
  /\ recorded = [r \in Runs |-> {}]

Order(r, S) ==
  /\ orders[r] = 0
  /\ orders' = [orders EXCEPT ![r] = 1]
  /\ ordered' = [ordered EXCEPT ![r] = S]
  /\ UNCHANGED recorded

Record(r, S) ==
  /\ orders[r] = 1 /\ S \subseteq ordered[r]
  /\ recorded' = [recorded EXCEPT ![r] = @ \cup S]
  /\ UNCHANGED <<orders, ordered>>

Next == \E r \in Runs, S \in SUBSET Invoices : Order(r, S) \/ Record(r, S)

Spec == Init /\ [][Next]_avars
=============================================================================
