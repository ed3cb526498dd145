-------------------------- MODULE NumberedRegister --------------------------
(***************************************************************************)
(* What the Saudi e-invoicing chain promises to the tax authority          *)
(* (packages/api/src/services/zatca-hash-chain.ts and zatca-submission.ts),*)
(* with no worker, job or lock in sight: the invoices of an organization   *)
(* enter one register, each behind the last, and keep their place; what is *)
(* reported of an invoice is that place, and it is reported once; an       *)
(* invoice is called settled only after that.  Nothing is said about       *)
(* which version of an invoice a link or a report is of: invoices are      *)
(* corrected at any time.                                                  *)
(***************************************************************************)
EXTENDS Integers

CONSTANTS Invoices, Versions, NoInvoice

VARIABLES
  number,    \* the place of an invoice, 0 for none
  link,      \* the entry before it, and the version that entry had
  reported,  \* what the authority knows of it
  settled    \* the invoices that are called settled

avars == <<number, link, reported, settled>>

Start == [invoice |-> NoInvoice, version |-> 0]
Unknown == [icv |-> 0, prev |-> Start, version |-> 0]

Entered == {i \in Invoices : number[i] > 0}

Init ==
  /\ number = [i \in Invoices |-> 0]
  /\ link = [i \in Invoices |-> Start]
  /\ reported = [i \in Invoices |-> Unknown]
  /\ settled = {}

First(i) ==
  /\ Entered = {}
  /\ number' = [number EXCEPT ![i] = 1]
  /\ link' = [link EXCEPT ![i] = Start]
  /\ UNCHANGED <<reported, settled>>

\* Invoice i enters behind the last one, j, which has version v.
Append(i, j, v) ==
  /\ number[i] = 0
  /\ j \in Entered /\ \A k \in Entered : number[k] <= number[j]
  /\ number' = [number EXCEPT ![i] = number[j] + 1]
  /\ link' = [link EXCEPT ![i] = [invoice |-> j, version |-> v]]
  /\ UNCHANGED <<reported, settled>>

Report(i, v) ==
  /\ i \in Entered /\ reported[i] = Unknown
  /\ reported' = [reported EXCEPT ![i] =
                    [icv |-> number[i], prev |-> link[i], version |-> v]]
  /\ UNCHANGED <<number, link, settled>>

Settle(i) ==
  /\ reported[i] # Unknown
  /\ settled' = settled \cup {i}
  /\ UNCHANGED <<number, link, reported>>

\* An answer that is overtaken by another takes it back.
Reopen(i) == settled' = settled \ {i} /\ UNCHANGED <<number, link, reported>>

Next ==
  \/ \E i \in Invoices : First(i) \/ Settle(i) \/ Reopen(i)
  \/ \E i, j \in Invoices, v \in Versions : Append(i, j, v)
  \/ \E i \in Invoices, v \in Versions : Report(i, v)

Spec == Init /\ [][Next]_avars
=============================================================================
