--------------------------- MODULE SignedInOrder ---------------------------
(***************************************************************************)
(* What the approval engine promises to whoever pays an invoice            *)
(* (packages/api/src/services/approval-engine.ts, the comments of          *)
(* createApprovalFlow and advanceFlow), with no status, lock or request in *)
(* sight: an approval flow is a chain of steps that are signed in their    *)
(* order, and the signature that makes the chain complete is what makes    *)
(* the invoice payable.  An invoice may cease to be payable at any time; a *)
(* signature is never taken back.                                          *)
(***************************************************************************)
EXTENDS Integers

CONSTANTS Flows, Invoices, Steps, NoInvoice

VARIABLES
  owner,    \* the invoice a flow is about
  signed,   \* the steps of a flow that have been signed
  payable   \* the invoices that may be paid

avars == <<owner, signed, payable>>

Init ==
  /\ owner = [f \in Flows |-> NoInvoice]
  /\ signed = [f \in Flows |-> {}]
  /\ payable = {}

\* A new flow; the invoice is not payable while it is judged.
Open(f, i) ==
  /\ owner[f] = NoInvoice
  /\ owner' = [owner EXCEPT ![f] = i]
  /\ payable' = payable \ {i}
  /\ UNCHANGED signed

\* A step is signed when all before it are, and may be signed again.
Sign(f, s) ==
  /\ owner[f] # NoInvoice
  /\ \A t \in Steps : t < s => t \in signed[f]
  /\ signed' = [signed EXCEPT ![f] = @ \cup {s}]
  /\ \/ payable' = payable
     \/ Steps \subseteq signed'[f] /\ payable' = payable \cup {owner[f]}
  /\ UNCHANGED owner

Withdraw ==
  /\ payable' \subseteq payable
  /\ UNCHANGED <<owner, signed>>

Next ==
  \/ \E f \in Flows, i \in Invoices : Open(f, i)
  \/ \E f \in Flows, s \in Steps : Sign(f, s)
  \/ Withdraw

Spec == Init /\ [][Next]_avars
=============================================================================
