------------------------------ MODULE Approval ------------------------------
(***************************************************************************)
(* Approval of invoices: packages/api/src/services/approval-engine.ts and  *)
(* compliance-recovery.ts, routers/core/approval-queue.ts, -submit.ts and  *)
(* -shared.ts, services/approval-integration-action.ts, and what voids an  *)
(* invoice under approval (routers/finance/invoice-actions.ts,             *)
(* routers/public-api/invoice.ts, routers/core/contractor-core.ts).        *)
(*                                                                         *)
(* A request is one READ COMMITTED transaction.  What it reads and         *)
(* validates first is one step here and what it then writes another, since *)
(* others may commit in between.  An approval has three: the read, the     *)
(* compare-and-set of the step with all that is read after it (from there  *)
(* it holds the rows of the step and of the flow), and the commit.  A      *)
(* release has three: what it validates, the read that picks the steps to  *)
(* open, and the commit, which writes those steps by id.  Web, bulk and    *)
(* chat decisions run the same statements.  A void re-checks what it read  *)
(* in its first UPDATE, so it is one step.                                 *)
(*                                                                         *)
(* All invoices are of one contractor, whose BLOCKING compliance items     *)
(* expire and are satisfied.  Every chain has the same length.  Left out:  *)
(* leave requests, clarification requests (they change no status), chain   *)
(* routing, deadlines, notifications, and the INVOICE statuses that only   *)
(* matching and e-invoicing tell apart.                                    *)
(***************************************************************************)
EXTENDS Integers

CONSTANTS
  Invoices,   \* matched invoices of one contractor
  Flows,      \* ids of approval flows
  Users,      \* approvers and administrators, one request at a time each
  Items,      \* the contractor's BLOCKING compliance items
  NSteps,     \* length of the approval chain
  NoInvoice,  \* the owner of a flow that does not exist yet
  MaxExpiries \* bound: how often an item expires

ASSUME ApprovalAssumption ==
  /\ NSteps \in Nat \ {0}
  /\ NoInvoice \notin Invoices
  /\ MaxExpiries \in Nat

Steps == 1..NSteps

\* Mutant: steps are counted from 0.
FirstStep_Zero == 0

\* The step createApprovalFlow opens.
FirstStep == 1

VARIABLES
  status,     \* Invoice.status
  pay,        \* Invoice.paymentStatus
  owner,      \* ApprovalFlow.resourceId, NoInvoice for no row
  flow,       \* ApprovalFlow.status
  current,    \* ApprovalFlow.currentStepOrder
  held,       \* ApprovalFlow.complianceHoldsJson.itemIds
  step,       \* ApprovalStep.status
  approver,   \* ApprovalStep.approverUserId
  signed,     \* steps with an ApprovalDecision row APPROVE
  unanswered, \* history: times a step was opened less decisions and voids
  expired,    \* the items with status EXPIRED
  expiries,   \* how often an item expired
  archived,   \* Contractor.status is ARCHIVED
  req,        \* the open request of each user
  stale       \* history: invoices written on a premise that did not hold

flowVars == <<owner, flow, current, held, step, signed, unanswered>>
itemVars == <<expired, expiries, archived>>
vars == <<status, pay, flowVars, approver, itemVars, req, stale>>

InvoiceStatus == {"RECEIVED", "APPROVAL_PENDING", "REJECTED", "READY_FOR_PAYMENT", "VOID"}
PayStatus == {"NOT_READY", "READY", "IN_RUN", "PAID"}
FlowStatus == {"NONE", "PENDING", "PENDING_COMPLIANCE", "APPROVED", "REJECTED", "CANCELLED"}
StepStatus == {"NOT_STARTED", "PENDING", "APPROVED", "REJECTED", "CANCELLED"}
Ops == {"none", "submit", "approve", "claimed", "reject", "resume", "satisfy", "release",
        "archive"}

\* What a request has in hand: its procedure, the rows it read, for an approval
\* its step and the items it found expired, and for a release the steps it
\* picked to open.
Request == [op : Ops, invoices : SUBSET Invoices, flows : SUBSET Flows,
            step : 0..NSteps, items : SUBSET Items, opens : [Flows -> SUBSET Steps]]

Req(o, I, F, s, X) == [op |-> o, invoices |-> I, flows |-> F, step |-> s, items |-> X,
                       opens |-> [f \in Flows |-> {}]]
Idle == Req("none", {}, {}, 0, {})

TypeOK ==
  /\ status \in [Invoices -> InvoiceStatus]
  /\ pay \in [Invoices -> PayStatus]
  /\ owner \in [Flows -> Invoices \cup {NoInvoice}]
  /\ flow \in [Flows -> FlowStatus]
  /\ current \in [Flows -> Steps]
  /\ held \in [Flows -> SUBSET Items]
  /\ step \in [Flows -> [Steps -> StepStatus]]
  /\ approver \in [Flows -> [Steps -> Users]]
  /\ signed \in [Flows -> SUBSET Steps]
  /\ unanswered \in [Flows -> [Steps -> Int]]
  /\ expired \subseteq Items
  /\ expiries \in Nat
  /\ archived \in BOOLEAN
  /\ req \in [Users -> Request]
  /\ stale \subseteq Invoices

Init ==
  /\ status = [i \in Invoices |-> "RECEIVED"]
  /\ pay = [i \in Invoices |-> "NOT_READY"]
  /\ owner = [f \in Flows |-> NoInvoice]
  /\ flow = [f \in Flows |-> "NONE"]
  /\ current = [f \in Flows |-> FirstStep]
  /\ held = [f \in Flows |-> {}]
  /\ step = [f \in Flows |-> [s \in Steps |-> "NOT_STARTED"]]
  /\ \E chain \in [Steps -> Users] : approver = [f \in Flows |-> chain]
  /\ signed = [f \in Flows |-> {}]
  /\ unanswered = [f \in Flows |-> [s \in Steps |-> 0]]
  /\ expired = {}
  /\ expiries = 0
  /\ archived = FALSE
  /\ req = [u \in Users |-> Idle]
  /\ stale = {}
-----------------------------------------------------------------------------
(* What the requests look at. *)

\* Mutant: an invoice that is already pending may be submitted.
Submittable_AnyStatus(i) ==
  /\ status[i] # "VOID"
  /\ pay[i] = "NOT_READY"

Submittable(i) ==
  /\ status[i] \in {"RECEIVED", "REJECTED"}
  /\ pay[i] = "NOT_READY"

\* An approval that has written holds the rows of its step and its flow.
Locked(f) == \E u \in Users : req[u].op = "claimed" /\ f \in req[u].flows

\* Mutant: the compare-and-set does not ask for the status.
Mine_AnyStatus(u, f, s) == approver[f][s] = u

\* What validateStepForAction reads and the compare-and-set asks for again.
Mine(u, f, s) == step[f][s] = "PENDING" /\ approver[f][s] = u

\* Mutant: later steps are looked for from the second after the current one.
Later_SkipsOne(f) == {s \in Steps : s > current[f] + 1 /\ step[f][s] = "NOT_STARTED"}

\* The steps of which advanceFlow takes the first.
Later(f) == {s \in Steps : s > current[f] /\ step[f][s] = "NOT_STARTED"}

\* assertContractorPaymentEligibility without throwing: it asks for items of
\* ACTIVE contractors only.
BlockedWithout(X) == expired \ X # {} /\ ~archived

\* The step resumeApprovalFlowFromCompliance picks to open again: the current one
\* if it is APPROVED, else the last APPROVED one.
Reopened(f) ==
  {s \in Steps : /\ step[f][s] = "APPROVED"
                 /\ \/ s = current[f]
                    \/ /\ step[f][current[f]] # "APPROVED"
                       /\ \A t \in Steps : step[f][t] = "APPROVED" => t <= s}
-----------------------------------------------------------------------------
(* Submission: createApprovalFlow and the update of the invoice by id. *)

SubmitRead(u, i) ==
  /\ req[u] = Idle
  /\ Submittable(i)
  /\ req' = [req EXCEPT ![u] = Req("submit", {i}, {}, 0, {})]
  /\ UNCHANGED <<status, pay, flowVars, approver, itemVars, stale>>

SubmitCommit(u, f) ==
  /\ req[u].op = "submit"
  /\ owner[f] = NoInvoice
  /\ \E i \in req[u].invoices :
       /\ owner' = [owner EXCEPT ![f] = i]
       /\ status' = [status EXCEPT ![i] = "APPROVAL_PENDING"]
       /\ pay' = [pay EXCEPT ![i] = "NOT_READY"]
       /\ stale' = IF Submittable(i) THEN stale ELSE stale \cup {i}
  /\ flow' = [flow EXCEPT ![f] = "PENDING"]
  /\ step' = [step EXCEPT ![f][FirstStep] = "PENDING"]
  /\ unanswered' = [unanswered EXCEPT ![f][FirstStep] = 1]
  /\ req' = [req EXCEPT ![u] = Idle]
  /\ UNCHANGED <<current, held, signed, approver, itemVars>>
-----------------------------------------------------------------------------
(* Decisions. *)

DecideRead(u, f, s, o) ==
  /\ req[u] = Idle
  /\ step[f][s] = "PENDING" /\ approver[f][s] = u
  /\ req' = [req EXCEPT ![u] = Req(o, {owner[f]}, {f}, s, {})]
  /\ UNCHANGED <<status, pay, flowVars, approver, itemVars, stale>>

\* The compare-and-set of another request came first: CONFLICT.
DecideLost(u) ==
  /\ req[u].op \in {"approve", "reject"}
  /\ \E f \in req[u].flows : ~Locked(f) /\ ~Mine(u, f, req[u].step)
  /\ req' = [req EXCEPT ![u] = Idle]
  /\ UNCHANGED <<status, pay, flowVars, approver, itemVars, stale>>

\* The last approval of an invoice that is in a run or paid is rolled back.
ApproveRefused(u) ==
  /\ req[u].op = "approve"
  /\ \E f \in req[u].flows :
       /\ ~Locked(f)
       /\ Mine(u, f, req[u].step)
       /\ Later(f) = {} /\ expired = {}
       /\ pay[owner[f]] \in {"PAID", "IN_RUN"}
  /\ req' = [req EXCEPT ![u] = Idle]
  /\ UNCHANGED <<status, pay, flowVars, approver, itemVars, stale>>

\* The compare-and-set wins; the items and the payment status are read.
ApproveClaim(u) ==
  /\ req[u].op = "approve"
  /\ \E f \in req[u].flows :
       /\ ~Locked(f)
       /\ Mine(u, f, req[u].step)
       /\ \/ Later(f) # {}
          \/ expired # {}
          \/ pay[owner[f]] \notin {"PAID", "IN_RUN"}
       /\ req' = [req EXCEPT ![u] = Req("claimed", @.invoices, {f}, @.step, expired)]
  /\ UNCHANGED <<status, pay, flowVars, approver, itemVars, stale>>

\* An approval commits with the step after it opened, if n is one.
Advance(u, n) ==
  /\ req[u].op = "claimed"
  /\ \E f \in req[u].flows : LET s == req[u].step IN
       /\ n \in Later(f) /\ \A t \in Later(f) : n <= t
       /\ step' = [step EXCEPT ![f][s] = "APPROVED", ![f][n] = "PENDING"]
       /\ unanswered' = [unanswered EXCEPT ![f][s] = @ - 1, ![f][n] = @ + 1]
       /\ signed' = [signed EXCEPT ![f] = @ \cup {s}]
       /\ current' = [current EXCEPT ![f] = n]
  /\ req' = [req EXCEPT ![u] = Idle]
  /\ UNCHANGED <<status, pay, owner, flow, held, approver, itemVars, stale>>

\* The last approval commits: held for the items it found expired, or complete
\* with the invoice ready for payment.
Conclude(u) ==
  /\ req[u].op = "claimed"
  /\ \E f \in req[u].flows : LET s == req[u].step IN
       /\ Later(f) = {}
       /\ step' = [step EXCEPT ![f][s] = "APPROVED"]
       /\ unanswered' = [unanswered EXCEPT ![f][s] = @ - 1]
       /\ signed' = [signed EXCEPT ![f] = @ \cup {s}]
       /\ IF req[u].items # {}
          THEN /\ flow' = [flow EXCEPT ![f] = "PENDING_COMPLIANCE"]
               /\ held' = [held EXCEPT ![f] = req[u].items]
               /\ UNCHANGED <<status, pay>>
          ELSE /\ flow' = [flow EXCEPT ![f] = "APPROVED"]
               /\ status' = [status EXCEPT ![owner[f]] = "READY_FOR_PAYMENT"]
               /\ pay' = [pay EXCEPT ![owner[f]] = "READY"]
               /\ UNCHANGED held
  /\ req' = [req EXCEPT ![u] = Idle]
  /\ UNCHANGED <<owner, current, approver, itemVars, stale>>

Reject(u) ==
  /\ req[u].op = "reject"
  /\ \E f \in req[u].flows : LET s == req[u].step IN
       /\ ~Locked(f)
       /\ Mine(u, f, s)
       /\ step' = [step EXCEPT ![f][s] = "REJECTED"]
       /\ unanswered' = [unanswered EXCEPT ![f][s] = @ - 1]
       /\ flow' = [flow EXCEPT ![f] = "REJECTED"]
       /\ status' = [status EXCEPT ![owner[f]] = "REJECTED"]
       /\ pay' = [pay EXCEPT ![owner[f]] = "NOT_READY"]
  /\ req' = [req EXCEPT ![u] = Idle]
  /\ UNCHANGED <<owner, current, held, signed, approver, itemVars, stale>>

\* The approver of a pending step hands it to another user; the compare-and-set
\* makes it one step.
Delegate(f, s, v) ==
  /\ step[f][s] = "PENDING" /\ approver[f][s] # v
  /\ ~Locked(f)
  /\ approver' = [approver EXCEPT ![f][s] = v]
  /\ UNCHANGED <<status, pay, flowVars, itemVars, req, stale>>

\* The approver was deactivated: what waits for him is given away by id.  That
\* the plan is made earlier, so that a step decided since may change hands, is
\* left out.
Reassign(f, s, v) ==
  /\ step[f][s] \in {"NOT_STARTED", "PENDING"} /\ approver[f][s] # v
  /\ owner[f] # NoInvoice
  /\ ~Locked(f)
  /\ approver' = [approver EXCEPT ![f][s] = v]
  /\ UNCHANGED <<status, pay, flowVars, itemVars, req, stale>>
-----------------------------------------------------------------------------
(* Compliance: an item expires, is satisfied, and held flows go on. *)

Expire(x) ==
  /\ x \notin expired
  /\ expiries < MaxExpiries
  /\ expired' = expired \cup {x}
  /\ expiries' = expiries + 1
  /\ UNCHANGED <<status, pay, flowVars, approver, archived, req, stale>>

\* An administrator resumes a flow by hand.
ResumeRead(u, f) ==
  /\ req[u] = Idle
  /\ flow[f] = "PENDING_COMPLIANCE"
  /\ ~BlockedWithout({})
  /\ req' = [req EXCEPT ![u] = Req("resume", {owner[f]}, {f}, 0, {})]
  /\ UNCHANGED <<status, pay, flowVars, approver, itemVars, stale>>

\* Somebody satisfies item x already: the transaction has written its row.
Satisfying(x) ==
  \E v \in Users : req[v].op \in {"satisfy", "release"} /\ x \in req[v].items

\* A new document for item x is approved: the flows held for it are looked up.
SatisfyRead(u, x) ==
  /\ req[u] = Idle
  /\ x \in expired /\ ~Satisfying(x)
  /\ LET F == IF BlockedWithout({x}) THEN {}
              ELSE {f \in Flows : flow[f] = "PENDING_COMPLIANCE" /\ x \in held[f]}
     IN req' = [req EXCEPT ![u] = Req("satisfy", {owner[f] : f \in F}, F, 0, {x})]
  /\ UNCHANGED <<status, pay, flowVars, approver, itemVars, stale>>

\* Either reads the flows once more, with their steps, whatever they have become,
\* and picks the steps to open.
ReopenRead(u) ==
  /\ req[u].op \in {"resume", "satisfy"}
  /\ req' = [req EXCEPT ![u] =
               [@ EXCEPT !.op = "release",
                         !.opens = [f \in Flows |-> IF f \in req[u].flows THEN Reopened(f)
                                                    ELSE {}]]]
  /\ UNCHANGED <<status, pay, flowVars, approver, itemVars, stale>>

\* It commits.  The flows with a step to open and those steps are written by id,
\* whatever their status is by now; a step that is PENDING is not opened again.
Release(u) ==
  /\ req[u].op = "release"
  /\ LET opens == req[u].opens
         F == {f \in Flows : opens[f] # {}}
     IN /\ \A f \in F : ~Locked(f)
        /\ flow' = [f \in Flows |-> IF f \in F THEN "PENDING" ELSE flow[f]]
        /\ held' = [f \in Flows |-> IF f \in F THEN {} ELSE held[f]]
        /\ step' = [f \in Flows |-> [s \in Steps |->
                      IF s \in opens[f] THEN "PENDING" ELSE step[f][s]]]
        /\ unanswered' = [f \in Flows |-> [s \in Steps |->
                      IF s \in opens[f] /\ step[f][s] # "PENDING"
                      THEN unanswered[f][s] + 1 ELSE unanswered[f][s]]]
        /\ stale' = stale \cup {owner[f] : f \in {g \in F : flow[g] # "PENDING_COMPLIANCE"}}
  /\ expired' = expired \ req[u].items
  /\ req' = [req EXCEPT ![u] = Idle]
  /\ UNCHANGED <<status, pay, owner, current, signed, approver, expiries, archived>>
-----------------------------------------------------------------------------
(* Voiding, and the payment of an invoice, which PaymentRun details. *)

\* The flows of invoice i with a status of S.
FlowsOf(i, S) == {f \in Flows : owner[f] = i /\ flow[f] \in S}

\* voidInvoice and the void of the public API, which differ in the statuses S
\* of the flows they cancel.
VoidCancelling(i, S) ==
  /\ status[i] # "VOID"
  /\ pay[i] \notin {"PAID", "IN_RUN"}
  /\ \A f \in Flows : owner[f] = i => ~Locked(f)
  /\ status' = [status EXCEPT ![i] = "VOID"]
  /\ pay' = [pay EXCEPT ![i] = "NOT_READY"]
  /\ step' = [f \in Flows |-> [s \in Steps |->
                IF owner[f] = i /\ step[f][s] \in {"NOT_STARTED", "PENDING"}
                THEN "CANCELLED" ELSE step[f][s]]]
  /\ unanswered' = [f \in Flows |-> [s \in Steps |->
                IF owner[f] = i /\ step[f][s] = "PENDING"
                THEN unanswered[f][s] - 1 ELSE unanswered[f][s]]]
  /\ flow' = [f \in Flows |-> IF f \in FlowsOf(i, S) THEN "CANCELLED" ELSE flow[f]]
  /\ UNCHANGED <<owner, current, held, signed, approver, itemVars, req, stale>>

VoidInvoice(i) == VoidCancelling(i, {"PENDING", "PENDING_COMPLIANCE"})
VoidByApi(i) == VoidCancelling(i, {"PENDING"})

\* The archive of the contractor counts the invoices in runs before its
\* transaction, and voids the open ones by id in it.
ArchiveRead(u) ==
  /\ req[u] = Idle
  /\ ~archived
  /\ \A i \in Invoices : pay[i] # "IN_RUN"
  /\ req' = [req EXCEPT ![u] = Req("archive", {}, {}, 0, {})]
  /\ UNCHANGED <<status, pay, flowVars, approver, itemVars, stale>>

ArchiveCommit(u) ==
  /\ req[u].op = "archive"
  /\ LET I == {i \in Invoices : status[i] # "VOID" /\ pay[i] # "PAID"}
         F == UNION {FlowsOf(i, {"PENDING"}) : i \in I}
     IN /\ \A f \in F : ~Locked(f)
        /\ status' = [i \in Invoices |-> IF i \in I THEN "VOID" ELSE status[i]]
        /\ pay' = [i \in Invoices |-> IF i \in I THEN "NOT_READY" ELSE pay[i]]
        /\ flow' = [f \in Flows |-> IF f \in F THEN "CANCELLED" ELSE flow[f]]
  /\ archived' = TRUE
  /\ req' = [req EXCEPT ![u] = Idle]
  /\ UNCHANGED <<owner, current, held, step, signed, unanswered, approver,
                 expired, expiries, stale>>

\* A payment run takes the invoice, if the contractor may be paid.
AddToRun(i) ==
  /\ pay[i] = "READY"
  /\ expired = {} /\ ~archived
  /\ pay' = [pay EXCEPT ![i] = "IN_RUN"]
  /\ UNCHANGED <<status, flowVars, approver, itemVars, req, stale>>

LeaveRun(i, p) ==
  /\ pay[i] = "IN_RUN"
  /\ pay' = [pay EXCEPT ![i] = p]
  /\ UNCHANGED <<status, flowVars, approver, itemVars, req, stale>>
-----------------------------------------------------------------------------
Handle(u) ==
  \/ \E i \in Invoices : SubmitRead(u, i)
  \/ \E f \in Flows : SubmitCommit(u, f)
  \/ \E f \in Flows, s \in Steps, o \in {"approve", "reject"} : DecideRead(u, f, s, o)
  \/ DecideLost(u)
  \/ ApproveRefused(u)
  \/ ApproveClaim(u)
  \/ \E n \in Steps : Advance(u, n)
  \/ Conclude(u)
  \/ Reject(u)
  \/ \E f \in Flows : ResumeRead(u, f)
  \/ \E x \in Items : SatisfyRead(u, x)
  \/ ReopenRead(u)
  \/ Release(u)
  \/ ArchiveRead(u)
  \/ ArchiveCommit(u)

Next ==
  \/ \E u \in Users : Handle(u)
  \/ \E f \in Flows, s \in Steps, v \in Users : Delegate(f, s, v) \/ Reassign(f, s, v)
  \/ \E x \in Items : Expire(x)
  \/ \E i \in Invoices : VoidInvoice(i) \/ VoidByApi(i) \/ AddToRun(i)
  \/ \E i \in Invoices, p \in {"READY", "PAID"} : LeaveRun(i, p)

Spec == Init /\ [][Next]_vars
-----------------------------------------------------------------------------
(* Properties. *)

\* Each time a step is opened it is decided at most once, whoever races on it:
\* approvers and delegates, a web page and a chat button.  A decision without an
\* opening would be a second advance.  Two releases that both read a hold may
\* write the same step one after the other: the second opens it again only if
\* it was decided or cancelled in between.
OneDecisionPerOpening ==
  \A f \in Flows, s \in Steps :
     unanswered[f][s] = IF step[f][s] = "PENDING" THEN 1 ELSE 0

\* What can still be decided or released.
Live(f) == flow[f] = "PENDING_COMPLIANCE" \/ \E s \in Steps : step[f][s] = "PENDING"
LiveOf(i) == {f \in Flows : owner[f] = i /\ Live(f)}

\* The status of an invoice says whether somebody is deciding about it: exactly
\* one flow while it is APPROVAL_PENDING, and none once it is rejected or on its
\* way to payment, so no decision takes an ordered payment back.  A void may
\* leave one flow behind.  Exempt are invoices submitted twice at the same time
\* and invoices whose hold was released on an old read.
StatusTellsFlow ==
  \A i \in Invoices \ stale :
     /\ \A f, g \in LiveOf(i) : f = g
     /\ status[i] = "APPROVAL_PENDING" => LiveOf(i) # {}
     /\ status[i] \in {"RECEIVED", "REJECTED", "READY_FOR_PAYMENT"} => LiveOf(i) = {}

\* An invoice that may be paid, is in a payment run or is paid was signed by
\* every step of a chain.  Its chain is closed, and nobody can decide about it or
\* release it any more, unless it was written on an old read.
PayableIsDecided ==
  \A i \in Invoices : pay[i] # "NOT_READY" =>
     /\ status[i] = "READY_FOR_PAYMENT"
     /\ \E f \in Flows : owner[f] = i /\ Steps \subseteq signed[f]
     /\ i \notin stale => /\ LiveOf(i) = {}
                         /\ \E f \in Flows : owner[f] = i /\ flow[f] = "APPROVED"

\* Whatever races, signatures are given in the order of the chain, and an
\* invoice becomes payable only by the signature that completes a chain.
Promise == INSTANCE SignedInOrder WITH payable <- {i \in Invoices : pay[i] # "NOT_READY"}
KeepsOrder == Promise!Spec

\* A voided invoice stays void (apps/web-vite/src/components/invoices/__tests__/
\* actions.test.ts calls VOID terminal).  Left out are an archived contractor,
\* who is not paid, and invoices submitted on an old read.
VoidIsFinal ==
  [][\A i \in Invoices : status[i] = "VOID" /\ ~archived /\ i \notin stale'
                            => status'[i] = "VOID"]_vars
=============================================================================
