--------------------------- MODULE ApprovalProofs ---------------------------
(***************************************************************************)
(* Proofs about the approval engine, for any number of invoices, flows,    *)
(* users and compliance items, and chains of any length.                   *)
(*                                                                         *)
(* The inductive invariant has three parts.  ClaimInv: a decision that has *)
(* won its compare-and-set still decides a pending step, and no two decide *)
(* one flow.  ChainInv: until the chain is complete the signed steps are   *)
(* those before the current one, which alone may be pending; this is what  *)
(* Later(f) = {} relies on when it is read as "the chain is complete".     *)
(* HoldInv: only flows whose chain is complete are held or released, and a *)
(* release has picked at most one step of each.  The refinement of         *)
(* SignedInOrder follows from these.  That statuses and flows agree needs  *)
(* one part more, StatusInv: a held flow has no pending step, and no flow  *)
(* has two.                                                                *)
(***************************************************************************)
EXTENDS Approval, TLAPS

Complete(f) == Steps \subseteq signed[f]

Unused(f) ==
  /\ owner[f] = NoInvoice
  /\ flow[f] = "NONE"
  /\ current[f] = 1
  /\ signed[f] = {}
  /\ \A s \in Steps : step[f][s] = "NOT_STARTED"

Growing(f) ==
  /\ owner[f] # NoInvoice
  /\ signed[f] = {t \in Steps : t < current[f]}
  /\ step[f][current[f]] # "APPROVED"
  /\ \A t \in Steps : t < current[f] => step[f][t] = "APPROVED"
  /\ \A t \in Steps : t > current[f] => step[f][t] \in {"NOT_STARTED", "CANCELLED"}
  /\ step[f][current[f]] = "PENDING" =>
       \A t \in Steps : t > current[f] => step[f][t] = "NOT_STARTED"

Chain(f) == Unused(f) \/ Growing(f) \/ (owner[f] # NoInvoice /\ Complete(f))
ChainInv == \A f \in Flows : Chain(f)

ClaimInv ==
  /\ \A u \in Users : req[u].op = "claimed" =>
        \A f \in req[u].flows : step[f][req[u].step] = "PENDING"
  /\ \A u \in Users : req[u].op \in {"approve", "claimed", "reject"} => req[u].step \in Steps
  /\ \A u, v \in Users :
        req[u].op = "claimed" /\ req[v].op = "claimed" /\ u # v =>
           req[u].flows \cap req[v].flows = {}

HoldInv ==
  /\ \A f \in Flows : flow[f] = "PENDING_COMPLIANCE" => Complete(f)
  /\ \A u \in Users : req[u].op \in {"resume", "satisfy"} =>
        \A f \in req[u].flows : Complete(f)
  /\ \A u \in Users : req[u].op = "release" =>
        \A f \in Flows : /\ req[u].opens[f] # {} => Complete(f)
                         /\ \A s, t \in req[u].opens[f] : s = t

IInv == OneDecisionPerOpening /\ ClaimInv /\ ChainInv /\ HoldInv
-----------------------------------------------------------------------------
(* Type correctness. *)

LEMMA ReqTyped ==
  ASSUME NEW o \in Ops, NEW I \in SUBSET Invoices, NEW F \in SUBSET Flows,
         NEW s \in 0..NSteps, NEW X \in SUBSET Items
  PROVE  Req(o, I, F, s, X) \in Request
BY DEF Req, Request

LEMMA FlowsOfStep ==
  ASSUME TypeOK, ChainInv, NEW f \in Flows, NEW s \in Steps, step[f][s] = "PENDING"
  PROVE  owner[f] \in Invoices
BY DEF TypeOK, ChainInv, Chain, Unused, Growing

LEMMA HeldOwner ==
  ASSUME TypeOK, ChainInv, NEW f \in Flows, flow[f] = "PENDING_COMPLIANCE"
  PROVE  owner[f] \in Invoices
BY DEF TypeOK, ChainInv, Chain, Unused, Growing

LEMMA TypeInit == Init => TypeOK
<1> SUFFICES ASSUME Init PROVE TypeOK
  OBVIOUS
<1> USE ApprovalAssumption
<1>1. Idle \in Request
  BY DEF Idle, Req, Request, Ops
<1>2. FirstStep \in Steps
  BY DEF FirstStep, Steps
<1>3. approver \in [Flows -> [Steps -> Users]]
  <2>1. PICK chain \in [Steps -> Users] : approver = [f \in Flows |-> chain]
    BY DEF Init
  <2> QED
    BY <2>1
<1>4. /\ step \in [Flows -> [Steps -> StepStatus]]
      /\ unanswered \in [Flows -> [Steps -> Int]]
  BY DEF Init, StepStatus
<1> QED
  BY <1>1, <1>2, <1>3, <1>4 DEF Init, TypeOK, InvoiceStatus, PayStatus, FlowStatus, StepStatus

LEMMA TypeNext == TypeOK /\ IInv /\ [Next]_vars => TypeOK'
<1> SUFFICES ASSUME TypeOK, IInv, [Next]_vars PROVE TypeOK'
  OBVIOUS
<1> USE ApprovalAssumption DEF InvoiceStatus, PayStatus, FlowStatus, StepStatus
<1>a. Steps \subseteq 0..NSteps /\ Steps \subseteq Int
  BY DEF Steps
<1>b. /\ {"none", "submit", "approve", "claimed"} \subseteq Ops
      /\ {"reject", "resume", "satisfy", "release", "archive"} \subseteq Ops
  BY DEF Ops
<1>c. Idle \in Request
  BY <1>b, ReqTyped DEF Idle
<1>1. ASSUME NEW u \in Users, NEW i \in Invoices, SubmitRead(u, i) PROVE TypeOK'
  <2>1. Req("submit", {i}, {}, 0, {}) \in Request
    BY <1>b, ReqTyped
  <2> QED
    BY <1>1, <2>1 DEF SubmitRead, TypeOK, flowVars, itemVars
<1>2. ASSUME NEW u \in Users, NEW f \in Flows, SubmitCommit(u, f) PROVE TypeOK'
  <2>1. req[u].invoices \subseteq Invoices
    BY DEF TypeOK, Request
  <2>2. FirstStep \in Steps
    BY DEF FirstStep, Steps
  <2> QED
    BY <1>2, <1>c, <2>1, <2>2 DEF SubmitCommit, TypeOK, itemVars
<1>3. ASSUME NEW u \in Users, NEW f \in Flows, NEW s \in Steps,
             NEW o \in {"approve", "reject"}, DecideRead(u, f, s, o)
      PROVE  TypeOK'
  <2>1. owner[f] \in Invoices
    BY <1>3, FlowsOfStep DEF DecideRead, IInv
  <2>2. Req(o, {owner[f]}, {f}, s, {}) \in Request
    BY <1>a, <1>b, <2>1, ReqTyped
  <2> QED
    BY <1>3, <2>2 DEF DecideRead, TypeOK, flowVars, itemVars
<1>4. ASSUME NEW u \in Users, DecideLost(u) \/ ApproveRefused(u) PROVE TypeOK'
  BY <1>4, <1>c DEF DecideLost, ApproveRefused, TypeOK, flowVars, itemVars
<1>5. ASSUME NEW u \in Users, ApproveClaim(u) PROVE TypeOK'
  <2>1. PICK f \in req[u].flows :
          req' = [req EXCEPT ![u] = Req("claimed", @.invoices, {f}, @.step, expired)]
    BY <1>5 DEF ApproveClaim
  <2>2. req[u] \in Request
    BY DEF TypeOK
  <2>3. /\ req[u].invoices \subseteq Invoices /\ req[u].flows \subseteq Flows
        /\ req[u].step \in 0..NSteps
    BY <2>2 DEF Request
  <2>4. Req("claimed", req[u].invoices, {f}, req[u].step, expired) \in Request
    BY <1>b, <2>3, ReqTyped DEF TypeOK
  <2> QED
    BY <1>5, <2>1, <2>4 DEF ApproveClaim, TypeOK, flowVars, itemVars
<1>6. ASSUME NEW u \in Users, NEW n \in Steps, Advance(u, n) PROVE TypeOK'
  <2>1. PICK f \in req[u].flows :
          /\ step' = [step EXCEPT ![f][req[u].step] = "APPROVED", ![f][n] = "PENDING"]
          /\ unanswered' = [unanswered EXCEPT ![f][req[u].step] = @ - 1, ![f][n] = @ + 1]
          /\ signed' = [signed EXCEPT ![f] = @ \cup {req[u].step}]
          /\ current' = [current EXCEPT ![f] = n]
    BY <1>6 DEF Advance
  <2>2. f \in Flows
    BY DEF TypeOK, Request
  <2>3. req[u].step \in Steps
    BY <1>6 DEF Advance, IInv, ClaimInv
  <2>4. step' \in [Flows -> [Steps -> StepStatus]] /\ signed' \in [Flows -> SUBSET Steps]
    BY <2>1, <2>2, <2>3 DEF TypeOK
  <2>5. unanswered' \in [Flows -> [Steps -> Int]]
    BY <2>1, <2>2, <2>3 DEF TypeOK
  <2> QED
    BY <1>6, <1>c, <2>1, <2>2, <2>4, <2>5 DEF Advance, TypeOK, itemVars
<1>7. ASSUME NEW u \in Users, Conclude(u) PROVE TypeOK'
  <2>1. PICK f \in req[u].flows :
          /\ step' = [step EXCEPT ![f][req[u].step] = "APPROVED"]
          /\ unanswered' = [unanswered EXCEPT ![f][req[u].step] = @ - 1]
          /\ signed' = [signed EXCEPT ![f] = @ \cup {req[u].step}]
          /\ IF req[u].items # {}
             THEN /\ flow' = [flow EXCEPT ![f] = "PENDING_COMPLIANCE"]
                  /\ held' = [held EXCEPT ![f] = req[u].items]
                  /\ UNCHANGED <<status, pay>>
             ELSE /\ flow' = [flow EXCEPT ![f] = "APPROVED"]
                  /\ status' = [status EXCEPT ![owner[f]] = "READY_FOR_PAYMENT"]
                  /\ pay' = [pay EXCEPT ![owner[f]] = "READY"]
                  /\ UNCHANGED held
    BY <1>7 DEF Conclude
  <2>2. f \in Flows /\ req[u].items \subseteq Items
    BY DEF TypeOK, Request
  <2>3. req[u].step \in Steps
    BY <1>7 DEF Conclude, IInv, ClaimInv
  <2>4. step' \in [Flows -> [Steps -> StepStatus]] /\ signed' \in [Flows -> SUBSET Steps]
    BY <2>1, <2>2, <2>3 DEF TypeOK
  <2>5. unanswered' \in [Flows -> [Steps -> Int]]
    BY <2>1, <2>2, <2>3 DEF TypeOK
  <2>6. /\ flow' \in [Flows -> FlowStatus] /\ held' \in [Flows -> SUBSET Items]
        /\ status' \in [Invoices -> InvoiceStatus] /\ pay' \in [Invoices -> PayStatus]
    BY <2>1, <2>2 DEF TypeOK
  <2> QED
    BY <1>7, <1>c, <2>4, <2>5, <2>6 DEF Conclude, TypeOK, itemVars
<1>8. ASSUME NEW u \in Users, Reject(u) PROVE TypeOK'
  <2>1. PICK f \in req[u].flows :
          /\ step' = [step EXCEPT ![f][req[u].step] = "REJECTED"]
          /\ unanswered' = [unanswered EXCEPT ![f][req[u].step] = @ - 1]
          /\ flow' = [flow EXCEPT ![f] = "REJECTED"]
          /\ status' = [status EXCEPT ![owner[f]] = "REJECTED"]
          /\ pay' = [pay EXCEPT ![owner[f]] = "NOT_READY"]
    BY <1>8 DEF Reject
  <2>2. f \in Flows
    BY DEF TypeOK, Request
  <2>3. step' \in [Flows -> [Steps -> StepStatus]]
    BY <2>1, <2>2 DEF TypeOK
  <2>4. unanswered' \in [Flows -> [Steps -> Int]]
    <3>1. unanswered[f] \in [Steps -> Int]
      BY <2>2 DEF TypeOK
    <3>2. req[u].step \in Steps
      BY <1>8 DEF Reject, IInv, ClaimInv
    <3> QED
      BY <2>1, <2>2, <3>1, <3>2 DEF TypeOK
  <2> QED
    BY <1>8, <1>c, <2>1, <2>2, <2>3, <2>4 DEF Reject, TypeOK, itemVars
<1>9. ASSUME NEW f \in Flows, NEW s \in Steps, NEW v \in Users,
             Delegate(f, s, v) \/ Reassign(f, s, v)
      PROVE  TypeOK'
  <2>1. /\ approver' = [approver EXCEPT ![f][s] = v]
        /\ UNCHANGED <<status, pay, flowVars, itemVars, req, stale>>
    BY <1>9 DEF Delegate, Reassign
  <2> QED
    BY <2>1 DEF TypeOK, flowVars, itemVars
<1>10. ASSUME NEW x \in Items, Expire(x) PROVE TypeOK'
  BY <1>10 DEF Expire, TypeOK, flowVars
<1>11. ASSUME NEW u \in Users, NEW f \in Flows, ResumeRead(u, f) PROVE TypeOK'
  <2>1. owner[f] \in Invoices
    BY <1>11, HeldOwner DEF ResumeRead, IInv
  <2>2. Req("resume", {owner[f]}, {f}, 0, {}) \in Request
    BY <1>b, <2>1, ReqTyped
  <2> QED
    BY <1>11, <2>2 DEF ResumeRead, TypeOK, flowVars, itemVars
<1>12. ASSUME NEW u \in Users, NEW x \in Items, SatisfyRead(u, x) PROVE TypeOK'
  <2> DEFINE F == IF BlockedWithout({x}) THEN {}
                  ELSE {f \in Flows : flow[f] = "PENDING_COMPLIANCE" /\ x \in held[f]}
  <2>1. F \subseteq Flows /\ \A f \in F : flow[f] = "PENDING_COMPLIANCE"
    OBVIOUS
  <2>2. {owner[f] : f \in F} \subseteq Invoices
    BY <2>1, HeldOwner DEF IInv
  <2>3. Req("satisfy", {owner[f] : f \in F}, F, 0, {x}) \in Request
    <3> HIDE DEF F
    <3>1. /\ {owner[f] : f \in F} \in SUBSET Invoices /\ F \in SUBSET Flows
          /\ {x} \in SUBSET Items /\ 0 \in 0..NSteps
      BY <2>1, <2>2
    <3> DEFINE I == {owner[f] : f \in F}
    <3> HIDE DEF I
    <3> SUFFICES Req("satisfy", I, F, 0, {x}) \in Request
      BY DEF I
    <3> QED
      BY <1>b, <3>1, ReqTyped DEF I
  <2>4. req' = [req EXCEPT ![u] = Req("satisfy", {owner[f] : f \in F}, F, 0, {x})]
    BY <1>12 DEF SatisfyRead
  <2> QED
    BY <1>12, <2>3, <2>4 DEF SatisfyRead, TypeOK, flowVars, itemVars
<1>13. ASSUME NEW u \in Users, Release(u) PROVE TypeOK'
  <2> DEFINE F == {f \in Flows : req[u].opens[f] # {}}
  <2>1. \A f \in F : f \in Flows /\ owner[f] \in Invoices
    <3>1. \A f \in F : Complete(f)
      BY <1>13 DEF Release, IInv, HoldInv
    <3> QED
      BY <3>1 DEF TypeOK, IInv, ChainInv, Chain, Unused, Growing, Complete, Steps
  <2>2. /\ flow' \in [Flows -> FlowStatus] /\ held' \in [Flows -> SUBSET Items]
    BY <1>13 DEF Release, TypeOK
  <2>3. step' \in [Flows -> [Steps -> StepStatus]]
    BY <1>13 DEF Release, TypeOK
  <2>4. unanswered' \in [Flows -> [Steps -> Int]]
    BY <1>13 DEF Release, TypeOK
  <2>5. stale' \subseteq Invoices
    BY <1>13, <2>1 DEF Release, TypeOK
  <2> QED
    BY <1>13, <1>c, <2>2, <2>3, <2>4, <2>5 DEF Release, TypeOK
<1>14. ASSUME NEW i \in Invoices, NEW S, VoidCancelling(i, S) PROVE TypeOK'
  <2>1. step' \in [Flows -> [Steps -> StepStatus]]
    BY <1>14 DEF VoidCancelling, TypeOK
  <2>2. unanswered' \in [Flows -> [Steps -> Int]]
    BY <1>14 DEF VoidCancelling, TypeOK
  <2>3. flow' \in [Flows -> FlowStatus]
    BY <1>14 DEF VoidCancelling, TypeOK
  <2> QED
    BY <1>14, <2>1, <2>2, <2>3 DEF VoidCancelling, TypeOK, itemVars
<1>15. ASSUME NEW u \in Users, ArchiveRead(u) PROVE TypeOK'
  <2>1. Req("archive", {}, {}, 0, {}) \in Request
    BY <1>b, ReqTyped
  <2> QED
    BY <1>15, <2>1 DEF ArchiveRead, TypeOK, flowVars, itemVars
<1>16. ASSUME NEW u \in Users, ArchiveCommit(u) PROVE TypeOK'
  BY <1>16, <1>c DEF ArchiveCommit, TypeOK
<1>17. ASSUME NEW i \in Invoices, AddToRun(i) PROVE TypeOK'
  BY <1>17 DEF AddToRun, TypeOK, flowVars, itemVars
<1>18. ASSUME NEW i \in Invoices, NEW p \in {"READY", "PAID"}, LeaveRun(i, p)
       PROVE  TypeOK'
  BY <1>18 DEF LeaveRun, TypeOK, flowVars, itemVars
<1>19. ASSUME NEW u \in Users, ReopenRead(u) PROVE TypeOK'
  <2> DEFINE opens == [f \in Flows |-> IF f \in req[u].flows THEN Reopened(f) ELSE {}]
  <2>1. opens \in [Flows -> SUBSET Steps]
    BY DEF Reopened
  <2>2. [req[u] EXCEPT !.op = "release", !.opens = opens] \in Request
    <3>1. req[u] \in Request
      BY DEF TypeOK
    <3>2. "release" \in Ops
      BY <1>b
    <3> HIDE DEF opens
    <3> QED
      BY <2>1, <3>1, <3>2 DEF Request
  <2> QED
    BY <1>19, <2>2 DEF ReopenRead, TypeOK, flowVars, itemVars
<1>20. CASE UNCHANGED vars
  BY <1>20 DEF vars, flowVars, itemVars, TypeOK
<1> QED
  BY <1>1, <1>2, <1>3, <1>4, <1>5, <1>6, <1>7, <1>8, <1>9, <1>10, <1>11, <1>12,
     <1>13, <1>14, <1>15, <1>16, <1>17, <1>18, <1>19, <1>20
  DEF Next, Handle, VoidInvoice, VoidByApi
-----------------------------------------------------------------------------
(* The inductive invariant. *)

LEMMA IInit == Init => IInv
<1> SUFFICES ASSUME Init PROVE IInv
  OBVIOUS
<1> USE ApprovalAssumption
<1>1. OneDecisionPerOpening
  BY DEF Init, OneDecisionPerOpening
<1>2. ClaimInv /\ HoldInv
  BY DEF Init, ClaimInv, HoldInv, Idle, Req
<1>3. ChainInv
  BY DEF Init, ChainInv, Chain, Unused, FirstStep
<1> QED
  BY <1>1, <1>2, <1>3 DEF IInv

\* A request that reads, and claims or releases nothing, disturbs nothing.
LEMMA ReadFrame ==
  ASSUME TypeOK, IInv, UNCHANGED flowVars, NEW u \in Users, NEW r,
         req' = [req EXCEPT ![u] = r], r.op \notin {"claimed", "resume", "satisfy", "release"},
         r.op \in {"approve", "reject"} => r.step \in Steps
  PROVE  IInv'
<1> USE DEF flowVars
<1>1. OneDecisionPerOpening' /\ ChainInv'
  BY DEF IInv, OneDecisionPerOpening, ChainInv, Chain, Unused, Growing, Complete
<1>2. ClaimInv'
  BY DEF IInv, ClaimInv, TypeOK
<1>3. HoldInv'
  <2>1. \A v \in Users : req'[v].op \in {"resume", "satisfy", "release"} => req'[v] = req[v]
    BY DEF TypeOK
  <2>2. \A f \in Flows : Complete(f)' = Complete(f)
    BY DEF Complete
  <2>3. \A v \in Users : req[v].flows \subseteq Flows
    BY DEF TypeOK, Request
  <2> QED
    BY <2>1, <2>2, <2>3 DEF IInv, HoldInv
<1> QED
  BY <1>1, <1>2, <1>3 DEF IInv

\* A step that touches nothing the invariant speaks of.
LEMMA OtherFrame == IInv /\ UNCHANGED <<flowVars, req>> => IInv'
BY DEF IInv, OneDecisionPerOpening, ClaimInv, ChainInv, HoldInv, Chain, Unused,
       Growing, Complete, flowVars

\* A commit leaves the steps of the flows that others have claimed.
LEMMA ClaimFrame ==
  ASSUME TypeOK, ClaimInv, \A v \in Users : req'[v] \in {req[v], Idle},
         \A v \in Users : req'[v].op = "claimed" =>
            \A f \in req[v].flows : step'[f] = step[f]
  PROVE  ClaimInv'
<1>1. Idle.op = "none"
  BY DEF Idle, Req
<1> QED
  BY <1>1 DEF ClaimInv

\* A commit that takes no signature back, and holds only complete flows.
LEMMA HoldFrame ==
  ASSUME TypeOK, HoldInv, \A v \in Users : req'[v] \in {req[v], Idle},
         \A f \in Flows : signed[f] \subseteq signed'[f],
         \A f \in Flows : flow'[f] = "PENDING_COMPLIANCE" =>
            flow[f] = "PENDING_COMPLIANCE" \/ Steps \subseteq signed'[f]
  PROVE  HoldInv'
<1>1. Idle.op = "none"
  BY DEF Idle, Req
<1>2. \A f \in Flows : Complete(f) => Complete(f)'
  BY DEF Complete
<1>3. \A v \in Users : req[v].flows \subseteq Flows
  BY DEF TypeOK, Request
<1> QED
  BY <1>1, <1>2, <1>3 DEF HoldInv, Complete

\* In a flow that is not complete only the current step can be pending.
LEMMA PendingIsCurrent ==
  ASSUME TypeOK, ChainInv, NEW f \in Flows, NEW s \in Steps, step[f][s] = "PENDING"
  PROVE  owner[f] # NoInvoice /\ (Complete(f) \/ (Growing(f) /\ s = current[f]))
<1>1. s \in Int /\ current[f] \in Steps /\ current[f] \in Int
  BY ApprovalAssumption DEF TypeOK, Steps
<1>2. ~Unused(f)
  BY DEF Unused
<1>3. ASSUME Growing(f) PROVE s = current[f]
  <2>1. s < current[f] \/ s > current[f] \/ s = current[f]
    BY <1>1
  <2> QED
    BY <1>3, <2>1 DEF Growing
<1> QED
  BY <1>2, <1>3 DEF ChainInv, Chain, Growing

LEMMA ChainFrame ==
  ASSUME NEW f \in Flows, Chain(f), owner'[f] = owner[f], flow'[f] = flow[f],
         current'[f] = current[f], signed'[f] = signed[f], step'[f] = step[f]
  PROVE  Chain(f)'
BY DEF Chain, Unused, Growing, Complete

LEMMA IAdvance ==
  ASSUME TypeOK, IInv, NEW u \in Users, NEW n \in Steps, Advance(u, n)
  PROVE  IInv'
<1> DEFINE s == req[u].step
<1>1. PICK f \in req[u].flows :
        /\ n \in Later(f) /\ \A t \in Later(f) : n <= t
        /\ step' = [step EXCEPT ![f][s] = "APPROVED", ![f][n] = "PENDING"]
        /\ unanswered' = [unanswered EXCEPT ![f][s] = @ - 1, ![f][n] = @ + 1]
        /\ signed' = [signed EXCEPT ![f] = @ \cup {s}]
        /\ current' = [current EXCEPT ![f] = n]
  BY DEF Advance
<1>2. f \in Flows /\ s \in Steps /\ step[f][s] = "PENDING"
  BY DEF Advance, IInv, ClaimInv, TypeOK, Request
<1>3. n > current[f] /\ step[f][n] = "NOT_STARTED" /\ n # s
  BY <1>1, <1>2 DEF Later
<1>4. /\ \A g \in Flows \ {f} : /\ step'[g] = step[g] /\ unanswered'[g] = unanswered[g]
                                /\ signed'[g] = signed[g] /\ current'[g] = current[g]
      /\ step'[f] = [step[f] EXCEPT ![s] = "APPROVED", ![n] = "PENDING"]
      /\ signed'[f] = signed[f] \cup {s} /\ current'[f] = n
  BY <1>1, <1>2 DEF TypeOK
<1>5. /\ step'[f][s] = "APPROVED" /\ step'[f][n] = "PENDING"
      /\ \A t \in Steps \ {s, n} : step'[f][t] = step[f][t]
  BY <1>2, <1>3, <1>4 DEF TypeOK
<1>6. OneDecisionPerOpening'
  <2>1. /\ unanswered'[f][s] = unanswered[f][s] - 1
        /\ unanswered'[f][n] = unanswered[f][n] + 1
        /\ \A t \in Steps \ {s, n} : unanswered'[f][t] = unanswered[f][t]
    BY <1>1, <1>2, <1>3 DEF TypeOK
  <2>2. unanswered[f][s] = 1 /\ unanswered[f][n] = 0
    BY <1>2, <1>3 DEF IInv, OneDecisionPerOpening
  <2>3. \A t \in Steps : unanswered'[f][t] = IF step'[f][t] = "PENDING" THEN 1 ELSE 0
    BY <1>2, <1>5, <2>1, <2>2 DEF IInv, OneDecisionPerOpening
  <2>4. \A g \in Flows \ {f} : \A t \in Steps :
           unanswered'[g][t] = IF step'[g][t] = "PENDING" THEN 1 ELSE 0
    BY <1>4 DEF IInv, OneDecisionPerOpening
  <2> QED
    BY <2>3, <2>4 DEF OneDecisionPerOpening
<1>7. ClaimInv'
  <2>1. \A v \in Users : req'[v] \in {req[v], Idle} /\ req'[u].op # "claimed"
    BY DEF Advance, TypeOK, Idle, Req
  <2>2. \A v \in Users \ {u} : req[v].op = "claimed" => f \notin req[v].flows
    BY <1>1 DEF Advance, IInv, ClaimInv
  <2>3. \A v \in Users : req'[v].op = "claimed" =>
           \A g \in req[v].flows : step'[g] = step[g]
    <3> SUFFICES ASSUME NEW v \in Users, req'[v].op = "claimed", NEW g \in req[v].flows
                 PROVE  step'[g] = step[g]
      OBVIOUS
    <3>1. v # u
      BY <2>1
    <3>2. req[v].op = "claimed" /\ req[v].flows \subseteq Flows
      <4>1. req[v] \in Request
        BY DEF TypeOK
      <4>2. req'[v] = req[v]
        BY <3>1 DEF Advance, TypeOK
      <4> QED
        BY <4>1, <4>2 DEF Request
    <3>3. g # f /\ g \in Flows
      BY <3>1, <3>2, <2>2
    <3> QED
      BY <3>3, <1>4
  <2> QED
    BY <2>1, <2>3, ClaimFrame DEF IInv
<1>8. ChainInv'
  <2>1. \A g \in Flows \ {f} : Chain(g)'
    BY <1>4, ChainFrame DEF Advance, IInv, ChainInv
  <2>2. owner[f] # NoInvoice /\ (Complete(f) \/ (Growing(f) /\ s = current[f]))
    BY <1>2, PendingIsCurrent DEF IInv
  <2>a. current[f] \in Int /\ s \in Int /\ n \in Int
    BY <1>2, ApprovalAssumption DEF TypeOK, Steps
  <2>3. ASSUME Complete(f) PROVE Chain(f)'
    BY <1>4, <2>2, <2>3 DEF Advance, Chain, Complete
  <2>4. ASSUME Growing(f), s = current[f] PROVE Chain(f)'
    <3>1. \A t \in Steps : t > s => t \in Later(f)
      BY <1>2, <2>4 DEF Growing, Later
    <3>2. n = s + 1
      <4>1. s + 1 \in Steps
        BY <1>2, <1>3, <2>a, <2>4, ApprovalAssumption DEF Steps
      <4>2. n <= s + 1
        BY <1>1, <2>a, <3>1, <4>1
      <4> QED
        BY <1>3, <2>a, <2>4, <4>2
    <3>3. signed'[f] = {t \in Steps : t < n}
      BY <1>2, <1>4, <2>4, <3>2, ApprovalAssumption DEF Growing, Steps
    <3>4. \A t \in Steps : t < n => step'[f][t] = "APPROVED"
      BY <1>2, <1>5, <2>4, <3>2 DEF Growing, Steps
    <3>5. \A t \in Steps : t > n => step'[f][t] = "NOT_STARTED"
      BY <1>2, <1>5, <2>4, <3>2 DEF Growing, Steps
    <3>6. Growing(f)'
      BY <1>4, <1>5, <2>2, <3>3, <3>4, <3>5 DEF Advance, Growing
    <3> QED
      BY <3>6 DEF Chain
  <2> QED
    BY <2>1, <2>2, <2>3, <2>4 DEF ChainInv
<1>9. HoldInv'
  <2>1. \A v \in Users : req'[v] \in {req[v], Idle}
    BY DEF Advance, TypeOK
  <2>2. \A g \in Flows : signed[g] \subseteq signed'[g]
    BY <1>2, <1>4
  <2> QED
    BY <2>1, <2>2, HoldFrame DEF Advance, IInv
<1> QED
  BY <1>6, <1>7, <1>8, <1>9 DEF IInv

LEMMA IConclude ==
  ASSUME TypeOK, IInv, NEW u \in Users, Conclude(u)
  PROVE  IInv'
<1> DEFINE s == req[u].step
<1>1. PICK f \in req[u].flows :
        /\ Later(f) = {}
        /\ step' = [step EXCEPT ![f][s] = "APPROVED"]
        /\ unanswered' = [unanswered EXCEPT ![f][s] = @ - 1]
        /\ signed' = [signed EXCEPT ![f] = @ \cup {s}]
        /\ \/ flow' = [flow EXCEPT ![f] = "PENDING_COMPLIANCE"]
           \/ flow' = [flow EXCEPT ![f] = "APPROVED"]
  BY DEF Conclude
<1>2. f \in Flows /\ s \in Steps /\ step[f][s] = "PENDING"
  BY DEF Conclude, IInv, ClaimInv, TypeOK, Request
<1>3. /\ \A g \in Flows \ {f} : /\ step'[g] = step[g] /\ unanswered'[g] = unanswered[g]
                                /\ signed'[g] = signed[g] /\ flow'[g] = flow[g]
      /\ signed'[f] = signed[f] \cup {s}
      /\ unanswered'[f][s] = unanswered[f][s] - 1
      /\ step'[f][s] = "APPROVED"
      /\ \A t \in Steps \ {s} : step'[f][t] = step[f][t] /\ unanswered'[f][t] = unanswered[f][t]
  BY <1>1, <1>2 DEF TypeOK
<1>4. OneDecisionPerOpening'
  <2>1. unanswered[f][s] = 1
    BY <1>2 DEF IInv, OneDecisionPerOpening
  <2> QED
    BY <1>2, <1>3, <2>1 DEF IInv, OneDecisionPerOpening
<1>5. ClaimInv'
  <2>1. \A v \in Users : req'[v] \in {req[v], Idle} /\ req'[u].op # "claimed"
    BY DEF Conclude, TypeOK, Idle, Req
  <2>2. \A v \in Users \ {u} : req[v].op = "claimed" => f \notin req[v].flows
    BY <1>1 DEF Conclude, IInv, ClaimInv
  <2>3. \A v \in Users : req'[v].op = "claimed" =>
           \A g \in req[v].flows : step'[g] = step[g]
    BY <1>3, <2>1, <2>2 DEF Conclude, TypeOK, Request
  <2> QED
    BY <2>1, <2>3, ClaimFrame DEF IInv
<1>6. owner[f] # NoInvoice /\ Complete(f)'
  <2>1. owner[f] # NoInvoice /\ (Complete(f) \/ (Growing(f) /\ s = current[f]))
    BY <1>2, PendingIsCurrent DEF IInv
  <2>2. CASE Complete(f)
    BY <1>3, <2>1, <2>2 DEF Complete
  <2>3. CASE Growing(f) /\ s = current[f]
    <3>1. \A t \in Steps : ~(t > s)
      BY <1>1, <1>2, <2>3 DEF Growing, Later
    <3>2. \A t \in Steps : t < s \/ t = s
      BY <1>2, <3>1, ApprovalAssumption DEF Steps
    <3> QED
      BY <1>3, <2>1, <2>3, <3>2 DEF Growing, Complete
  <2> QED
    BY <2>1, <2>2, <2>3
<1>7. ChainInv'
  <2>1. \A g \in Flows \ {f} : Chain(g)'
    BY <1>3, ChainFrame DEF Conclude, IInv, ChainInv
  <2>2. Chain(f)'
    BY <1>6 DEF Conclude, Chain
  <2> QED
    BY <2>1, <2>2 DEF ChainInv
<1>8. HoldInv'
  <2>1. \A v \in Users : req'[v] \in {req[v], Idle}
    BY DEF Conclude, TypeOK
  <2>2. \A g \in Flows : signed[g] \subseteq signed'[g]
    BY <1>2, <1>3
  <2> QED
    BY <1>3, <1>6, <2>1, <2>2, HoldFrame DEF IInv, Complete
<1> QED
  BY <1>4, <1>5, <1>7, <1>8 DEF IInv

LEMMA ISubmitCommit ==
  ASSUME TypeOK, IInv, NEW u \in Users, NEW f \in Flows, SubmitCommit(u, f)
  PROVE  IInv'
<1>0. 1 \in Steps
  BY ApprovalAssumption DEF Steps
<1>1. Unused(f)
  BY DEF SubmitCommit, IInv, ChainInv, Chain, Growing
<1>2. PICK i \in Invoices : owner' = [owner EXCEPT ![f] = i]
  BY DEF SubmitCommit, TypeOK, Request
<1>3. /\ \A g \in Flows \ {f} : /\ step'[g] = step[g] /\ unanswered'[g] = unanswered[g]
                                /\ owner'[g] = owner[g] /\ flow'[g] = flow[g]
      /\ owner'[f] # NoInvoice /\ flow'[f] = "PENDING"
      /\ unanswered'[f][1] = 1 /\ step'[f][1] = "PENDING"
      /\ \A t \in Steps \ {1} : step'[f][t] = step[f][t] /\ unanswered'[f][t] = unanswered[f][t]
  BY <1>0, <1>2, ApprovalAssumption DEF SubmitCommit, FirstStep, TypeOK
<1>4. OneDecisionPerOpening'
  BY <1>3 DEF IInv, OneDecisionPerOpening
<1>5. ClaimInv'
  <2>1. \A v \in Users : req'[v] \in {req[v], Idle} /\ req'[u].op # "claimed"
    BY DEF SubmitCommit, TypeOK, Idle, Req
  <2>2. \A v \in Users \ {u} : req[v].op = "claimed" => f \notin req[v].flows
    BY <1>1 DEF IInv, ClaimInv, Unused
  <2>3. \A v \in Users : req'[v].op = "claimed" =>
           \A g \in req[v].flows : step'[g] = step[g]
    BY <1>3, <2>1, <2>2 DEF SubmitCommit, TypeOK, Request
  <2> QED
    BY <2>1, <2>3, ClaimFrame DEF IInv
<1>6. ChainInv'
  <2>1. \A g \in Flows \ {f} : Chain(g)'
    BY <1>3, ChainFrame DEF SubmitCommit, IInv, ChainInv
  <2>2. current'[f] = 1 /\ signed'[f] = {}
    BY <1>1 DEF SubmitCommit, Unused
  <2>3. {t \in Steps : t < 1} = {} /\ \A t \in Steps : t > 1 => t \in Steps \ {1}
    BY DEF Steps
  <2>4. \A t \in Steps \ {1} : step'[f][t] = "NOT_STARTED"
    BY <1>1, <1>3 DEF Unused
  <2>5. Growing(f)'
    BY <1>3, <2>2, <2>3, <2>4 DEF Growing
  <2> QED
    BY <2>1, <2>5 DEF ChainInv, Chain
<1>7. HoldInv'
  <2>1. \A v \in Users : req'[v] \in {req[v], Idle}
    BY DEF SubmitCommit, TypeOK
  <2> QED
    BY <1>3, <2>1, HoldFrame DEF SubmitCommit, IInv
<1> QED
  BY <1>4, <1>5, <1>6, <1>7 DEF IInv

LEMMA IReject ==
  ASSUME TypeOK, IInv, NEW u \in Users, Reject(u)
  PROVE  IInv'
<1> DEFINE s == req[u].step
<1>1. PICK f \in req[u].flows :
        /\ ~Locked(f) /\ Mine(u, f, s)
        /\ step' = [step EXCEPT ![f][s] = "REJECTED"]
        /\ unanswered' = [unanswered EXCEPT ![f][s] = @ - 1]
        /\ flow' = [flow EXCEPT ![f] = "REJECTED"]
  BY DEF Reject
<1>2. f \in Flows /\ s \in Steps /\ step[f][s] = "PENDING"
  BY <1>1 DEF Reject, Mine, IInv, ClaimInv, TypeOK, Request
<1>3. /\ \A g \in Flows \ {f} : /\ step'[g] = step[g] /\ unanswered'[g] = unanswered[g]
                                /\ flow'[g] = flow[g]
      /\ flow'[f] = "REJECTED"
      /\ unanswered'[f][s] = unanswered[f][s] - 1
      /\ step'[f][s] = "REJECTED"
      /\ \A t \in Steps \ {s} : step'[f][t] = step[f][t] /\ unanswered'[f][t] = unanswered[f][t]
  BY <1>1, <1>2 DEF TypeOK
<1>4. OneDecisionPerOpening'
  <2>1. unanswered[f][s] = 1
    BY <1>2 DEF IInv, OneDecisionPerOpening
  <2> QED
    BY <1>2, <1>3, <2>1 DEF IInv, OneDecisionPerOpening
<1>5. \A v \in Users : req'[v] \in {req[v], Idle}
  BY DEF Reject, TypeOK
<1>6. ClaimInv'
  <2>1. \A v \in Users : req[v].op = "claimed" =>
           \A g \in req[v].flows : step'[g] = step[g]
    BY <1>1, <1>3 DEF Locked, TypeOK, Request
  <2>2. \A v \in Users : req'[v].op = "claimed" => req[v].op = "claimed"
    BY <1>5 DEF Idle, Req
  <2> QED
    BY <1>5, <2>1, <2>2, ClaimFrame DEF IInv
<1>7. ChainInv'
  <2>1. \A g \in Flows \ {f} : Chain(g)'
    BY <1>3, ChainFrame DEF Reject, IInv, ChainInv
  <2>2. owner[f] # NoInvoice /\ (Complete(f) \/ (Growing(f) /\ s = current[f]))
    BY <1>2, PendingIsCurrent DEF IInv
  <2>3. ASSUME Complete(f) PROVE Chain(f)'
    BY <2>2, <2>3 DEF Reject, Chain, Complete
  <2>4. ASSUME Growing(f), s = current[f] PROVE Chain(f)'
    <3>1. s \in Int /\ \A t \in Steps : t < s \/ t > s => t \in Steps \ {s}
      BY <1>2, ApprovalAssumption DEF Steps
    <3>2. Growing(f)'
      BY <1>3, <2>4, <3>1 DEF Reject, Growing
    <3> QED
      BY <3>2 DEF Chain
  <2> QED
    BY <2>1, <2>2, <2>3, <2>4 DEF ChainInv
<1>8. HoldInv'
  BY <1>3, <1>5, HoldFrame DEF Reject, IInv
<1> QED
  BY <1>4, <1>6, <1>7, <1>8 DEF IInv

LEMMA IRelease ==
  ASSUME TypeOK, IInv, NEW u \in Users, Release(u)
  PROVE  IInv'
<1> DEFINE F == {f \in Flows : req[u].opens[f] # {}}
<1>1. \A f \in Flows, s \in Steps :
        \/ step'[f][s] = step[f][s] /\ unanswered'[f][s] = unanswered[f][s]
        \/ /\ step[f][s] # "PENDING" /\ step'[f][s] = "PENDING"
           /\ unanswered'[f][s] = unanswered[f][s] + 1
  BY DEF Release
<1>2. \A f \in Flows \ F : step'[f] = step[f] /\ flow'[f] = flow[f]
  BY DEF Release, TypeOK
<1>3. \A f \in F : f \in Flows /\ Complete(f) /\ owner[f] # NoInvoice
  <2>1. \A f \in F : Complete(f)
    BY DEF Release, IInv, HoldInv
  <2> QED
    BY <2>1, ApprovalAssumption DEF IInv, ChainInv, Chain, Unused, Growing, Complete, Steps
<1>4. OneDecisionPerOpening'
  <2>1. \A f \in Flows, s \in Steps :
           step[f][s] # "PENDING" => unanswered[f][s] = 0
    BY DEF IInv, OneDecisionPerOpening
  <2> QED
    BY <1>1, <2>1 DEF IInv, OneDecisionPerOpening
<1>5. \A v \in Users : req'[v] \in {req[v], Idle}
  BY DEF Release, TypeOK
<1>6. ClaimInv'
  <2>1. \A v \in Users : req[v].op = "claimed" =>
           \A f \in req[v].flows : f \in Flows \ F
    BY DEF Release, Locked, TypeOK, Request
  <2>2. \A v \in Users : req'[v].op = "claimed" => req[v].op = "claimed"
    BY <1>5 DEF Idle, Req
  <2> QED
    BY <1>2, <1>5, <2>1, <2>2, ClaimFrame DEF IInv
<1>7. ChainInv'
  <2>1. \A f \in Flows \ F : Chain(f)'
    BY <1>2, ChainFrame DEF Release, IInv, ChainInv
  <2>2. \A f \in F : Chain(f)'
    BY <1>3 DEF Release, Chain, Complete
  <2> QED
    BY <2>1, <2>2 DEF ChainInv
<1>8. HoldInv'
  <2>1. \A f \in Flows : flow'[f] \in {flow[f], "PENDING"}
    BY DEF Release
  <2> QED
    BY <1>5, <2>1, HoldFrame DEF Release, IInv
<1> QED
  BY <1>4, <1>6, <1>7, <1>8 DEF IInv

LEMMA IVoid ==
  ASSUME TypeOK, IInv, NEW i \in Invoices, NEW S, VoidCancelling(i, S)
  PROVE  IInv'
<1>1. \A f \in Flows, s \in Steps :
         IF owner[f] = i /\ step[f][s] \in {"NOT_STARTED", "PENDING"}
         THEN /\ step'[f][s] = "CANCELLED"
              /\ unanswered'[f][s] = IF step[f][s] = "PENDING" THEN unanswered[f][s] - 1
                                     ELSE unanswered[f][s]
         ELSE step'[f][s] = step[f][s] /\ unanswered'[f][s] = unanswered[f][s]
  BY DEF VoidCancelling
<1>2. \A f \in Flows : owner[f] # i => step'[f] = step[f] /\ flow'[f] = flow[f]
  BY DEF VoidCancelling, FlowsOf, TypeOK
<1>3. OneDecisionPerOpening'
  BY <1>1 DEF IInv, OneDecisionPerOpening
<1>4. \A v \in Users : req'[v] \in {req[v], Idle}
  BY DEF VoidCancelling
<1>5. ClaimInv'
  <2>1. \A v \in Users : req[v].op = "claimed" =>
           \A f \in req[v].flows : f \in Flows /\ owner[f] # i
    BY DEF VoidCancelling, Locked, TypeOK, Request
  <2> QED
    BY <1>2, <1>4, <2>1, ClaimFrame DEF VoidCancelling, IInv
<1>6. ChainInv'
  <2>1. \A f \in Flows : owner[f] # i => Chain(f)'
    BY <1>2, ChainFrame DEF VoidCancelling, IInv, ChainInv
  <2>2. ASSUME NEW f \in Flows, owner[f] = i PROVE Chain(f)'
    <3>1. i # NoInvoice /\ (Growing(f) \/ Complete(f))
      BY <2>2, ApprovalAssumption DEF IInv, ChainInv, Chain, Unused
    <3>2. ASSUME Complete(f) PROVE Chain(f)'
      BY <2>2, <3>1, <3>2 DEF VoidCancelling, Chain, Complete
    <3>3. ASSUME Growing(f) PROVE Growing(f)'
      <4>1. current[f] \in Steps
        BY DEF TypeOK
      <4> QED
        BY <1>1, <2>2, <3>1, <3>3, <4>1 DEF VoidCancelling, Growing
    <3> QED
      BY <3>1, <3>2, <3>3 DEF Chain
  <2> QED
    BY <2>1, <2>2 DEF ChainInv
<1>7. HoldInv'
  <2>1. \A f \in Flows : flow'[f] \in {flow[f], "CANCELLED"}
    BY DEF VoidCancelling
  <2> QED
    BY <1>4, <2>1, HoldFrame DEF VoidCancelling, IInv
<1> QED
  BY <1>3, <1>5, <1>6, <1>7 DEF IInv

LEMMA IArchiveCommit ==
  ASSUME TypeOK, IInv, NEW u \in Users, ArchiveCommit(u)
  PROVE  IInv'
<1>1. \A f \in Flows : flow'[f] \in {flow[f], "CANCELLED"} /\ (Unused(f) => flow'[f] = flow[f])
  BY DEF ArchiveCommit, FlowsOf, Unused
<1>2. \A v \in Users : req'[v] \in {req[v], Idle}
  BY DEF ArchiveCommit, TypeOK
<1>3. OneDecisionPerOpening'
  BY DEF ArchiveCommit, IInv, OneDecisionPerOpening
<1>4. ClaimInv'
  BY <1>2, ClaimFrame DEF ArchiveCommit, IInv
<1>5. ChainInv'
  BY <1>1 DEF ArchiveCommit, IInv, ChainInv, Chain, Unused, Growing, Complete
<1>6. HoldInv'
  BY <1>1, <1>2, HoldFrame DEF ArchiveCommit, IInv
<1> QED
  BY <1>3, <1>4, <1>5, <1>6 DEF IInv

LEMMA IClaim ==
  ASSUME TypeOK, IInv, NEW u \in Users, ApproveClaim(u)
  PROVE  IInv'
<1>1. PICK f \in req[u].flows :
        /\ ~Locked(f) /\ Mine(u, f, req[u].step)
        /\ req' = [req EXCEPT ![u] = Req("claimed", @.invoices, {f}, @.step, expired)]
  BY DEF ApproveClaim
<1>2. /\ \A v \in Users \ {u} : req'[v] = req[v]
      /\ req'[u].op = "claimed" /\ req'[u].flows = {f} /\ req'[u].step = req[u].step
  BY <1>1 DEF Req, TypeOK
<1>3. OneDecisionPerOpening' /\ ChainInv'
  BY DEF ApproveClaim, flowVars, IInv, OneDecisionPerOpening, ChainInv, Chain, Unused,
         Growing, Complete
<1>4. ClaimInv'
  <2>1. /\ step[f][req[u].step] = "PENDING" /\ req[u].step \in Steps
        /\ \A v \in Users : req[v].op = "claimed" => f \notin req[v].flows
    BY <1>1 DEF ApproveClaim, Locked, Mine, IInv, ClaimInv
  <2>2. step' = step
    BY DEF ApproveClaim, flowVars
  <2>3. \A v \in Users : req'[v].op = "claimed" =>
           \A g \in req'[v].flows : step'[g][req'[v].step] = "PENDING"
    BY <1>2, <2>1, <2>2 DEF IInv, ClaimInv
  <2>4. \A v \in Users : req'[v].op \in {"approve", "claimed", "reject"} =>
           req'[v].step \in Steps
    BY <1>2, <2>1 DEF IInv, ClaimInv
  <2>5. \A v, w \in Users :
           req'[v].op = "claimed" /\ req'[w].op = "claimed" /\ v # w =>
              req'[v].flows \cap req'[w].flows = {}
    BY <1>2, <2>1 DEF IInv, ClaimInv
  <2> QED
    BY <2>3, <2>4, <2>5 DEF ClaimInv
<1>5. HoldInv'
  <2>1. \A v \in Users : req'[v].op \in {"resume", "satisfy", "release"} => req'[v] = req[v]
    BY <1>2
  <2>2. UNCHANGED flow /\ \A g \in Flows : Complete(g)' = Complete(g)
    BY DEF ApproveClaim, flowVars, Complete
  <2>3. \A v \in Users : req[v].flows \subseteq Flows
    BY DEF TypeOK, Request
  <2> QED
    BY <2>1, <2>2, <2>3 DEF IInv, HoldInv
<1> QED
  BY <1>3, <1>4, <1>5 DEF IInv

LEMMA IHold ==
  ASSUME TypeOK, IInv, NEW u \in Users,
         \/ \E f \in Flows : ResumeRead(u, f)
         \/ \E x \in Items : SatisfyRead(u, x)
  PROVE  IInv'
<1>1. /\ UNCHANGED flowVars
      /\ \A v \in Users \ {u} : req'[v] = req[v]
      /\ req'[u].op \in {"resume", "satisfy"}
      /\ \A f \in req'[u].flows : f \in Flows /\ flow[f] = "PENDING_COMPLIANCE"
  <2>1. ASSUME NEW f \in Flows, ResumeRead(u, f)
        PROVE  /\ UNCHANGED flowVars
               /\ req' = [req EXCEPT ![u] = Req("resume", {owner[f]}, {f}, 0, {})]
               /\ flow[f] = "PENDING_COMPLIANCE"
    BY <2>1 DEF ResumeRead
  <2>2. ASSUME NEW x \in Items, SatisfyRead(u, x)
        PROVE  /\ UNCHANGED flowVars
               /\ \E F \in SUBSET {f \in Flows : flow[f] = "PENDING_COMPLIANCE"} :
                    req' = [req EXCEPT ![u] = Req("satisfy", {owner[f] : f \in F}, F, 0, {x})]
    BY <2>2 DEF SatisfyRead
  <2> QED
    BY <2>1, <2>2 DEF Req, TypeOK
<1>2. OneDecisionPerOpening' /\ ChainInv'
  BY <1>1 DEF flowVars, IInv, OneDecisionPerOpening, ChainInv, Chain, Unused,
         Growing, Complete
<1>3. ClaimInv'
  BY <1>1 DEF flowVars, IInv, ClaimInv
<1>4. HoldInv'
  BY <1>1 DEF flowVars, IInv, HoldInv, Complete
<1> QED
  BY <1>2, <1>3, <1>4 DEF IInv

\* The rule by which a release picks a step picks no two.
LEMMA OneReopened ==
  ASSUME NEW f \in Flows
  PROVE  Reopened(f) \subseteq Steps /\ \A s, t \in Reopened(f) : s = t
<1>1. \A s, t \in Steps : s <= t /\ t <= s => s = t
  BY ApprovalAssumption DEF Steps
<1> QED
  BY <1>1 DEF Reopened

LEMMA IReopen ==
  ASSUME TypeOK, IInv, NEW u \in Users, ReopenRead(u)
  PROVE  IInv'
<1>1. /\ UNCHANGED flowVars
      /\ \A v \in Users \ {u} : req'[v] = req[v]
      /\ req'[u].op = "release"
      /\ \A f \in Flows : req'[u].opens[f] = IF f \in req[u].flows THEN Reopened(f) ELSE {}
  BY DEF ReopenRead, TypeOK, Request
<1>2. OneDecisionPerOpening' /\ ChainInv'
  BY <1>1 DEF flowVars, IInv, OneDecisionPerOpening, ChainInv, Chain, Unused,
         Growing, Complete
<1>3. ClaimInv'
  BY <1>1 DEF flowVars, IInv, ClaimInv
<1>4. \A f \in Flows : /\ req'[u].opens[f] # {} => Complete(f)
                       /\ \A s, t \in req'[u].opens[f] : s = t
  BY <1>1, OneReopened DEF ReopenRead, IInv, HoldInv
<1>5. HoldInv'
  BY <1>1, <1>4 DEF flowVars, IInv, HoldInv, Complete
<1> QED
  BY <1>2, <1>3, <1>5 DEF IInv

LEMMA INext == TypeOK /\ IInv /\ [Next]_vars => IInv'
<1> SUFFICES ASSUME TypeOK, IInv, [Next]_vars PROVE IInv'
  OBVIOUS
<1>1. ASSUME NEW u \in Users, NEW i \in Invoices, SubmitRead(u, i) PROVE IInv'
  BY <1>1, ReadFrame DEF SubmitRead, Req
<1>2. ASSUME NEW u \in Users, NEW f \in Flows, NEW s \in Steps,
             NEW o \in {"approve", "reject"}, DecideRead(u, f, s, o)
      PROVE  IInv'
  BY <1>2, ReadFrame DEF DecideRead, Req
<1>3. ASSUME NEW u \in Users, DecideLost(u) \/ ApproveRefused(u) PROVE IInv'
  BY <1>3, ReadFrame DEF DecideLost, ApproveRefused, Idle, Req
<1>4. ASSUME NEW u \in Users, ArchiveRead(u) PROVE IInv'
  BY <1>4, ReadFrame DEF ArchiveRead, Req
<1>5. ASSUME NEW f \in Flows, NEW s \in Steps, NEW v \in Users,
             Delegate(f, s, v) \/ Reassign(f, s, v)
      PROVE  IInv'
  BY <1>5, OtherFrame DEF Delegate, Reassign
<1>6. ASSUME NEW x \in Items, Expire(x) PROVE IInv'
  BY <1>6, OtherFrame DEF Expire
<1>7. ASSUME NEW i \in Invoices, AddToRun(i) PROVE IInv'
  BY <1>7, OtherFrame DEF AddToRun
<1>8. ASSUME NEW i \in Invoices, NEW p, LeaveRun(i, p) PROVE IInv'
  BY <1>8, OtherFrame DEF LeaveRun
<1>9. CASE UNCHANGED vars
  BY <1>9, OtherFrame DEF vars
<1> QED
  BY <1>1, <1>2, <1>3, <1>4, <1>5, <1>6, <1>7, <1>8, <1>9, ISubmitCommit, IAdvance,
     IConclude, IReject, IRelease, IVoid, IArchiveCommit, IClaim, IHold, IReopen
  DEF Next, Handle, VoidInvoice, VoidByApi

LEMMA Inductive == Spec => [](TypeOK /\ IInv)
<1>1. Init => TypeOK /\ IInv
  BY TypeInit, IInit
<1>2. TypeOK /\ IInv /\ [Next]_vars => (TypeOK /\ IInv)'
  BY TypeNext, INext
<1> QED
  BY <1>1, <1>2, PTL DEF Spec

\* Every variable of the approval engine stays in its type.
THEOREM ApprovalTypeCorrect == Spec => []TypeOK
BY Inductive, PTL

\* Every opening of a step gets at most one decision, for any number of
\* approvers, delegates and administrators that race.
THEOREM StepsAreDecidedOnce == Spec => []OneDecisionPerOpening
<1>1. IInv => OneDecisionPerOpening
  BY DEF IInv
<1> QED
  BY <1>1, Inductive, PTL
-----------------------------------------------------------------------------
(* The engine implements SignedInOrder. *)

AbstractPayable == {i \in Invoices : pay[i] # "NOT_READY"}

LEMMA RefinesInit == Init => Promise!Init
BY DEF Init, Promise!Init

\* The signature after which no later step waits completes the chain.
LEMMA LastSignature ==
  ASSUME TypeOK, IInv, NEW u \in Users, NEW f \in req[u].flows,
         req[u].op = "claimed", Later(f) = {},
         signed' = [signed EXCEPT ![f] = @ \cup {req[u].step}]
  PROVE  Complete(f)'
<1> DEFINE s == req[u].step
<1>1. f \in Flows /\ s \in Steps /\ step[f][s] = "PENDING"
  BY DEF IInv, ClaimInv, TypeOK, Request
<1>2. Complete(f) \/ (Growing(f) /\ s = current[f])
  BY <1>1, PendingIsCurrent DEF IInv
<1>3. signed'[f] = signed[f] \cup {s}
  BY <1>1 DEF TypeOK
<1>4. ASSUME Growing(f), s = current[f] PROVE Steps \subseteq signed'[f]
  <2>1. \A t \in Steps : ~(t > s)
    BY <1>1, <1>4 DEF Growing, Later
  <2>2. \A t \in Steps : t < s \/ t = s
    BY <1>1, <2>1, ApprovalAssumption DEF Steps
  <2> QED
    BY <1>3, <1>4, <2>2 DEF Growing
<1> QED
  BY <1>2, <1>3, <1>4 DEF Complete

LEMMA RefinesSign ==
  ASSUME TypeOK, IInv, NEW u \in Users, NEW f \in req[u].flows,
         req[u].op = "claimed", UNCHANGED owner,
         signed' = [signed EXCEPT ![f] = @ \cup {req[u].step}],
         \/ UNCHANGED pay
         \/ /\ Later(f) = {}
            /\ pay' = [pay EXCEPT ![owner[f]] = "READY"]
  PROVE  Promise!Next
<1> DEFINE s == req[u].step
<1>1. f \in Flows /\ s \in Steps /\ step[f][s] = "PENDING"
  BY DEF IInv, ClaimInv, TypeOK, Request
<1>2. owner[f] # NoInvoice /\ (Complete(f) \/ (Growing(f) /\ s = current[f]))
  BY <1>1, PendingIsCurrent DEF IInv
<1>3. \A t \in Steps : t < s => t \in signed[f]
  BY <1>2 DEF Complete, Growing
<1>4. owner[f] \in Invoices /\ signed'[f] = signed[f] \cup {s}
  BY <1>1, <1>2 DEF TypeOK
<1>5. \/ AbstractPayable' = AbstractPayable
      \/ Steps \subseteq signed'[f] /\ AbstractPayable' = AbstractPayable \cup {owner[f]}
  <2>1. CASE UNCHANGED pay
    BY <2>1 DEF AbstractPayable
  <2>2. CASE Later(f) = {} /\ pay' = [pay EXCEPT ![owner[f]] = "READY"]
    <3>1. AbstractPayable' = AbstractPayable \cup {owner[f]}
      BY <1>4, <2>2 DEF AbstractPayable, TypeOK
    <3>2. Complete(f)'
      BY <1>1, <2>2, LastSignature
    <3> QED
      BY <3>1, <3>2 DEF Complete
  <2> QED
    BY <2>1, <2>2
<1> QED
  BY <1>1, <1>2, <1>3, <1>5 DEF Promise!Next, Promise!Sign, AbstractPayable

LEMMA RefinesNext ==
  TypeOK /\ IInv /\ [Next]_vars => [Promise!Next]_(Promise!avars)
<1> SUFFICES ASSUME TypeOK, IInv, [Next]_vars
             PROVE  Promise!Next \/ UNCHANGED Promise!avars
  OBVIOUS
<1>a. ASSUME UNCHANGED <<owner, signed, pay>> PROVE UNCHANGED Promise!avars
  BY <1>a DEF Promise!avars
<1>b. ASSUME UNCHANGED <<owner, signed>>, AbstractPayable' \subseteq AbstractPayable
      PROVE  Promise!Next
  BY <1>b DEF Promise!Next, Promise!Withdraw, AbstractPayable
<1>1. ASSUME NEW u \in Users, NEW f \in Flows, SubmitCommit(u, f) PROVE Promise!Next
  <2>1. PICK i \in req[u].invoices :
          /\ owner' = [owner EXCEPT ![f] = i]
          /\ pay' = [pay EXCEPT ![i] = "NOT_READY"]
    BY <1>1 DEF SubmitCommit
  <2>2. i \in Invoices
    BY DEF TypeOK, Request
  <2>3. AbstractPayable' = AbstractPayable \ {i}
    BY <2>1, <2>2 DEF AbstractPayable, TypeOK
  <2>4. Promise!Open(f, i)
    BY <1>1, <2>1, <2>3 DEF SubmitCommit, Promise!Open, AbstractPayable
  <2> QED
    BY <2>2, <2>4 DEF Promise!Next
<1>2. ASSUME NEW u \in Users, NEW n \in Steps, Advance(u, n) PROVE Promise!Next
  BY <1>2, RefinesSign DEF Advance
<1>3. ASSUME NEW u \in Users, Conclude(u) PROVE Promise!Next
  BY <1>3, RefinesSign DEF Conclude
<1>4. ASSUME NEW u \in Users, Reject(u) PROVE Promise!Next
  BY <1>4, <1>b DEF Reject, AbstractPayable, TypeOK
<1>5. ASSUME NEW i \in Invoices, NEW S, VoidCancelling(i, S) PROVE Promise!Next
  BY <1>5, <1>b DEF VoidCancelling, AbstractPayable, TypeOK
<1>6. ASSUME NEW u \in Users, ArchiveCommit(u) PROVE Promise!Next
  BY <1>6, <1>b DEF ArchiveCommit, AbstractPayable, TypeOK
<1>7. ASSUME NEW i \in Invoices,
             AddToRun(i) \/ LeaveRun(i, "READY") \/ LeaveRun(i, "PAID")
      PROVE  Promise!Next
  BY <1>7, <1>b DEF AddToRun, LeaveRun, flowVars, AbstractPayable, TypeOK
<1>8. ASSUME NEW u \in Users, Release(u) PROVE UNCHANGED Promise!avars
  BY <1>8, <1>a DEF Release
<1>9. ASSUME NEW f \in Flows, NEW s \in Steps, NEW v \in Users,
             Delegate(f, s, v) \/ Reassign(f, s, v)
      PROVE  UNCHANGED Promise!avars
  BY <1>9, <1>a DEF Delegate, Reassign, flowVars
<1>10. ASSUME NEW x \in Items, Expire(x) PROVE UNCHANGED Promise!avars
  BY <1>10, <1>a DEF Expire, flowVars
<1>11. ASSUME NEW u \in Users,
              \/ \E i \in Invoices : SubmitRead(u, i)
              \/ \E f \in Flows, s \in Steps, o \in {"approve", "reject"} : DecideRead(u, f, s, o)
              \/ DecideLost(u) \/ ApproveRefused(u) \/ ApproveClaim(u)
              \/ \E f \in Flows : ResumeRead(u, f)
              \/ \E x \in Items : SatisfyRead(u, x)
              \/ ReopenRead(u) \/ ArchiveRead(u)
       PROVE  UNCHANGED Promise!avars
  <2>1. UNCHANGED <<pay, flowVars>>
    BY <1>11 DEF SubmitRead, DecideRead, DecideLost, ApproveRefused, ApproveClaim,
                 ResumeRead, SatisfyRead, ReopenRead, ArchiveRead
  <2> QED
    BY <2>1, <1>a DEF flowVars
<1>12. CASE UNCHANGED vars
  BY <1>12, <1>a DEF vars, flowVars
<1> QED
  BY <1>1, <1>2, <1>3, <1>4, <1>5, <1>6, <1>7, <1>8, <1>9, <1>10, <1>11, <1>12
  DEF Next, Handle, VoidInvoice, VoidByApi

\* However submissions, decisions, holds, voids and archives interleave, steps
\* are signed in order and only a complete chain makes an invoice payable.
THEOREM ApprovalKeepsOrder == Spec => KeepsOrder
BY RefinesInit, RefinesNext, Inductive, PTL DEF Spec, KeepsOrder, Promise!Spec
-----------------------------------------------------------------------------
(* The status of an invoice and its flows. *)

\* A held flow has no pending step, and no flow has two.
Calm(f) ==
  /\ \A s, t \in Steps : step[f][s] = "PENDING" /\ step[f][t] = "PENDING" => s = t
  /\ flow[f] = "PENDING_COMPLIANCE" => \A s \in Steps : step[f][s] # "PENDING"

StatusInv ==
  /\ StatusTellsFlow
  /\ \A f \in Flows : owner[f] \notin stale => Calm(f)

LEMMA StatusInit == Init => StatusInv
<1> SUFFICES ASSUME Init PROVE StatusInv
  OBVIOUS
<1>1. \A f \in Flows : ~Live(f) /\ Calm(f)
  BY DEF Init, Live, Calm
<1>2. \A i \in Invoices : status[i] = "RECEIVED"
  BY DEF Init
<1> QED
  BY <1>1, <1>2 DEF StatusInv, StatusTellsFlow, LiveOf

\* A step that leaves alone what is live and the statuses.
LEMMA StatusFrame ==
  ASSUME StatusInv, stale \subseteq stale', status' = status, owner' = owner,
         \A f \in Flows : owner[f] \notin stale' => Live(f)' = Live(f) /\ Calm(f)'
  PROVE  StatusInv'
BY DEF StatusInv, StatusTellsFlow, LiveOf

LEMMA SameRowsFrame == StatusInv /\ UNCHANGED <<status, owner, flow, step, stale>> => StatusInv'
BY DEF StatusInv, StatusTellsFlow, LiveOf, Live, Calm

\* A decision that ends flow f and writes the status of its invoice.
LEMMA EndFrame ==
  ASSUME TypeOK, StatusInv, NEW f \in Flows, NEW s \in Steps, step[f][s] = "PENDING",
         owner[f] \in Invoices, owner' = owner, stale' = stale,
         step'[f][s] # "PENDING", flow'[f] # "PENDING_COMPLIANCE",
         \A t \in Steps \ {s} : step'[f][t] = step[f][t],
         \A g \in Flows \ {f} : step'[g] = step[g] /\ flow'[g] = flow[g],
         \A i \in Invoices \ {owner[f]} : status'[i] = status[i],
         status'[owner[f]] # "APPROVAL_PENDING"
  PROVE  StatusInv'
<1>1. \A g \in Flows \ {f} : Live(g)' = Live(g) /\ Calm(g)' = Calm(g)
  BY DEF Live, Calm
<1>2. Live(f)
  BY DEF Live
<1>3. Calm(f) => Calm(f)' /\ ~Live(f)'
  BY DEF Calm, Live
<1>4. \A g \in Flows : owner[g] \notin stale => Calm(g)'
  BY <1>1, <1>3 DEF StatusInv
<1>5. ASSUME NEW i \in Invoices \ stale, i # owner[f]
      PROVE  LiveOf(i)' = LiveOf(i) /\ status'[i] = status[i]
  BY <1>1, <1>5 DEF LiveOf
<1>6. ASSUME NEW i \in Invoices \ stale, i = owner[f]
      PROVE  LiveOf(i)' = {} /\ status'[i] # "APPROVAL_PENDING"
  <2>1. Calm(f)
    BY <1>6 DEF StatusInv
  <2>2. \A g \in Flows : owner[g] = i /\ Live(g) => g = f
    BY <1>2, <1>6 DEF StatusInv, StatusTellsFlow, LiveOf
  <2>3. \A g \in Flows : owner[g] = i => ~Live(g)'
    BY <1>1, <1>3, <2>1, <2>2
  <2> QED
    BY <1>6, <2>3 DEF LiveOf
<1> QED
  BY <1>4, <1>5, <1>6 DEF StatusInv, StatusTellsFlow

LEMMA StatusSubmit ==
  ASSUME TypeOK, IInv, StatusInv, NEW u \in Users, NEW f \in Flows, SubmitCommit(u, f)
  PROVE  StatusInv'
<1>0. 1 \in Steps
  BY ApprovalAssumption DEF Steps
<1>1. Unused(f)
  BY DEF SubmitCommit, IInv, ChainInv, Chain, Growing
<1>2. PICK i \in Invoices :
        /\ owner' = [owner EXCEPT ![f] = i]
        /\ status' = [status EXCEPT ![i] = "APPROVAL_PENDING"]
        /\ stale' = IF Submittable(i) THEN stale ELSE stale \cup {i}
  BY DEF SubmitCommit, TypeOK, Request
<1>3. /\ \A g \in Flows \ {f} : /\ step'[g] = step[g] /\ flow'[g] = flow[g]
                                /\ owner'[g] = owner[g]
      /\ owner'[f] = i /\ flow'[f] = "PENDING" /\ step'[f][1] = "PENDING"
      /\ \A t \in Steps \ {1} : step'[f][t] = "NOT_STARTED"
  BY <1>0, <1>1, <1>2 DEF SubmitCommit, FirstStep, TypeOK, Unused
<1>4. Calm(f)' /\ Live(f)'
  BY <1>0, <1>3 DEF Calm, Live
<1>5. \A g \in Flows \ {f} : Live(g)' = Live(g) /\ Calm(g)' = Calm(g)
  BY <1>3 DEF Live, Calm
<1>6. owner[f] \notin Invoices
  BY <1>1, ApprovalAssumption DEF Unused
<1>7. ASSUME NEW j \in Invoices \ stale', j # i
      PROVE  j \notin stale /\ LiveOf(j)' = LiveOf(j) /\ status'[j] = status[j]
  BY <1>2, <1>3, <1>5, <1>6, <1>7 DEF LiveOf, TypeOK
<1>8. ASSUME i \notin stale' PROVE LiveOf(i)' = {f} /\ status'[i] = "APPROVAL_PENDING"
  <2>1. i \notin stale /\ status[i] \in {"RECEIVED", "REJECTED"}
    BY <1>2, <1>8 DEF Submittable
  <2>2. LiveOf(i) = {}
    BY <2>1 DEF StatusInv, StatusTellsFlow
  <2> QED
    BY <1>2, <1>3, <1>4, <1>5, <2>2 DEF LiveOf, TypeOK
<1>9. StatusTellsFlow'
  BY <1>7, <1>8 DEF StatusInv, StatusTellsFlow
<1>10. \A g \in Flows : owner'[g] \notin stale' => Calm(g)'
  BY <1>2, <1>3, <1>4, <1>5 DEF StatusInv
<1> QED
  BY <1>9, <1>10 DEF StatusInv

LEMMA StatusAdvance ==
  ASSUME TypeOK, IInv, StatusInv, NEW u \in Users, NEW n \in Steps, Advance(u, n)
  PROVE  StatusInv'
<1> DEFINE s == req[u].step
<1>1. PICK f \in req[u].flows :
        /\ n \in Later(f)
        /\ step' = [step EXCEPT ![f][s] = "APPROVED", ![f][n] = "PENDING"]
  BY DEF Advance
<1>2. f \in Flows /\ s \in Steps /\ step[f][s] = "PENDING" /\ n # s
  BY <1>1 DEF Advance, IInv, ClaimInv, TypeOK, Request, Later
<1>3. /\ \A g \in Flows \ {f} : step'[g] = step[g]
      /\ step'[f][s] = "APPROVED" /\ step'[f][n] = "PENDING"
      /\ \A t \in Steps \ {s, n} : step'[f][t] = step[f][t]
  BY <1>1, <1>2 DEF TypeOK
<1>4. UNCHANGED <<status, owner, flow, stale>>
  BY DEF Advance
<1>5. Live(f) /\ Live(f)'
  BY <1>2, <1>3 DEF Live
<1>6. owner[f] \notin stale => Calm(f)'
  BY <1>2, <1>3, <1>4 DEF StatusInv, Calm
<1>7. \A g \in Flows \ {f} : Live(g)' = Live(g) /\ Calm(g)' = Calm(g)
  BY <1>3, <1>4 DEF Live, Calm
<1>8. \A g \in Flows : owner[g] \notin stale' => Live(g)' = Live(g) /\ Calm(g)'
  BY <1>4, <1>5, <1>6, <1>7 DEF StatusInv, Live
<1> QED
  BY <1>4, <1>8, StatusFrame

LEMMA StatusConclude ==
  ASSUME TypeOK, IInv, StatusInv, NEW u \in Users, Conclude(u)
  PROVE  StatusInv'
<1> DEFINE s == req[u].step
<1>1. PICK f \in req[u].flows :
        /\ step' = [step EXCEPT ![f][s] = "APPROVED"]
        /\ \/ /\ flow' = [flow EXCEPT ![f] = "PENDING_COMPLIANCE"]
              /\ status' = status
           \/ /\ flow' = [flow EXCEPT ![f] = "APPROVED"]
              /\ status' = [status EXCEPT ![owner[f]] = "READY_FOR_PAYMENT"]
  BY DEF Conclude
<1>2. f \in Flows /\ s \in Steps /\ step[f][s] = "PENDING"
  BY DEF Conclude, IInv, ClaimInv, TypeOK, Request
<1>3. /\ \A g \in Flows \ {f} : step'[g] = step[g] /\ flow'[g] = flow[g]
      /\ step'[f][s] = "APPROVED"
      /\ \A t \in Steps \ {s} : step'[f][t] = step[f][t]
  BY <1>1, <1>2 DEF TypeOK
<1>4. owner[f] \in Invoices /\ UNCHANGED <<owner, stale>>
  BY <1>2, FlowsOfStep DEF Conclude, IInv
<1>5. CASE /\ flow' = [flow EXCEPT ![f] = "PENDING_COMPLIANCE"]
           /\ status' = status
  <2>1. flow'[f] = "PENDING_COMPLIANCE"
    BY <1>2, <1>5 DEF TypeOK
  <2>2. Live(f) /\ Live(f)'
    BY <1>2, <2>1 DEF Live
  <2>3. owner[f] \notin stale => Calm(f)'
    BY <1>2, <1>3 DEF StatusInv, Calm
  <2>4. \A g \in Flows \ {f} : Live(g)' = Live(g) /\ Calm(g)' = Calm(g)
    BY <1>3 DEF Live, Calm
  <2>5. \A g \in Flows : owner[g] \notin stale' => Live(g)' = Live(g) /\ Calm(g)'
    BY <1>4, <2>2, <2>3, <2>4 DEF StatusInv, Live
  <2> QED
    BY <1>4, <1>5, <2>5, StatusFrame
<1>6. CASE /\ flow' = [flow EXCEPT ![f] = "APPROVED"]
           /\ status' = [status EXCEPT ![owner[f]] = "READY_FOR_PAYMENT"]
  <2>1. /\ flow'[f] = "APPROVED" /\ status'[owner[f]] = "READY_FOR_PAYMENT"
        /\ \A i \in Invoices \ {owner[f]} : status'[i] = status[i]
    BY <1>2, <1>4, <1>6 DEF TypeOK
  <2> QED
    BY <1>2, <1>3, <1>4, <2>1, EndFrame
<1> QED
  BY <1>1, <1>5, <1>6

LEMMA StatusReject ==
  ASSUME TypeOK, IInv, StatusInv, NEW u \in Users, Reject(u)
  PROVE  StatusInv'
<1> DEFINE s == req[u].step
<1>1. PICK f \in req[u].flows :
        /\ Mine(u, f, s)
        /\ step' = [step EXCEPT ![f][s] = "REJECTED"]
        /\ flow' = [flow EXCEPT ![f] = "REJECTED"]
        /\ status' = [status EXCEPT ![owner[f]] = "REJECTED"]
  BY DEF Reject
<1>2. f \in Flows /\ s \in Steps /\ step[f][s] = "PENDING"
  BY <1>1 DEF Reject, Mine, IInv, ClaimInv, TypeOK, Request
<1>3. owner[f] \in Invoices /\ UNCHANGED <<owner, stale>>
  BY <1>2, FlowsOfStep DEF Reject, IInv
<1>4. /\ \A g \in Flows \ {f} : step'[g] = step[g] /\ flow'[g] = flow[g]
      /\ step'[f][s] = "REJECTED" /\ flow'[f] = "REJECTED"
      /\ \A t \in Steps \ {s} : step'[f][t] = step[f][t]
      /\ status'[owner[f]] = "REJECTED"
      /\ \A i \in Invoices \ {owner[f]} : status'[i] = status[i]
  BY <1>1, <1>2, <1>3 DEF TypeOK
<1> QED
  BY <1>2, <1>3, <1>4, EndFrame

LEMMA StatusRelease ==
  ASSUME TypeOK, IInv, StatusInv, NEW u \in Users, Release(u)
  PROVE  StatusInv'
<1> DEFINE opens == req[u].opens
           F == {f \in Flows : opens[f] # {}}
<1>1. /\ \A f \in Flows \ F : flow'[f] = flow[f] /\ \A s \in Steps : step'[f][s] = step[f][s]
      /\ \A f \in F : /\ flow'[f] = "PENDING"
                      /\ \A s \in Steps :
                           step'[f][s] = IF s \in opens[f] THEN "PENDING" ELSE step[f][s]
  BY DEF Release, TypeOK
<1>2. UNCHANGED <<status, owner>> /\ stale \subseteq stale'
  BY DEF Release
<1>3. \A f \in F : owner[f] \notin stale' => flow[f] = "PENDING_COMPLIANCE"
  BY DEF Release
<1>4. ASSUME NEW f \in Flows \ F, owner[f] \notin stale'
      PROVE  Live(f)' = Live(f) /\ Calm(f)'
  BY <1>1, <1>2, <1>4 DEF Live, Calm, StatusInv
<1>5. ASSUME NEW f \in F, owner[f] \notin stale'
      PROVE  Live(f)' = Live(f) /\ Calm(f)'
  <2>1. flow[f] = "PENDING_COMPLIANCE" /\ f \in Flows
    BY <1>3, <1>5
  <2>2. \A s \in Steps : step[f][s] # "PENDING"
    BY <1>2, <1>5, <2>1 DEF StatusInv, Calm
  <2>3. opens[f] \subseteq Steps /\ \A s, t \in opens[f] : s = t
    <3>1. opens[f] \subseteq Steps
      BY <2>1 DEF TypeOK, Request
    <3>2. \A s, t \in opens[f] : s = t
      BY <2>1 DEF Release, IInv, HoldInv
    <3> QED
      BY <3>1, <3>2
  <2>4. PICK s \in opens[f] : TRUE
    OBVIOUS
  <2>5. step'[f][s] = "PENDING" /\ \A t \in Steps \ {s} : step'[f][t] # "PENDING"
    BY <1>1, <2>2, <2>3, <2>4
  <2> QED
    BY <1>1, <2>1, <2>3, <2>4, <2>5 DEF Live, Calm
<1> QED
  BY <1>2, <1>4, <1>5, StatusFrame

LEMMA StatusVoid ==
  ASSUME TypeOK, StatusInv, NEW i \in Invoices, NEW S, VoidCancelling(i, S)
  PROVE  StatusInv'
<1>1. /\ \A f \in Flows, s \in Steps : step'[f][s] = "PENDING" => step[f][s] = "PENDING"
      /\ \A f \in Flows : flow'[f] = "PENDING_COMPLIANCE" => flow[f] = "PENDING_COMPLIANCE"
      /\ \A f \in Flows : owner[f] # i => step'[f] = step[f] /\ flow'[f] = flow[f]
      /\ UNCHANGED <<owner, stale>> /\ status'[i] = "VOID"
      /\ \A j \in Invoices \ {i} : status'[j] = status[j]
  BY DEF VoidCancelling, FlowsOf, TypeOK
<1>2. \A f \in Flows : (Calm(f) => Calm(f)') /\ (Live(f)' => Live(f))
  BY <1>1 DEF Calm, Live
<1>3. \A f \in Flows : owner[f] # i => Live(f)' = Live(f)
  BY <1>1 DEF Live
<1>4. LiveOf(i)' \subseteq LiveOf(i) /\ \A j \in Invoices \ {i} : LiveOf(j)' = LiveOf(j)
  BY <1>1, <1>2, <1>3 DEF LiveOf
<1> QED
  BY <1>1, <1>2, <1>4 DEF StatusInv, StatusTellsFlow

LEMMA StatusArchive ==
  ASSUME TypeOK, StatusInv, NEW u \in Users, ArchiveCommit(u)
  PROVE  StatusInv'
<1>1. /\ UNCHANGED <<owner, stale, step>>
      /\ \A f \in Flows : \/ flow'[f] = flow[f]
                          \/ flow[f] = "PENDING" /\ flow'[f] = "CANCELLED"
      /\ \A i \in Invoices : status'[i] \in {status[i], "VOID"}
  BY DEF ArchiveCommit, FlowsOf
<1>2. \A f \in Flows : Live(f)' = Live(f) /\ Calm(f)' = Calm(f)
  BY <1>1 DEF Live, Calm
<1>3. \A i \in Invoices : LiveOf(i)' = LiveOf(i)
  BY <1>1, <1>2 DEF LiveOf
<1> QED
  BY <1>1, <1>2, <1>3 DEF StatusInv, StatusTellsFlow

LEMMA StatusNext == TypeOK /\ IInv /\ StatusInv /\ [Next]_vars => StatusInv'
<1> SUFFICES ASSUME TypeOK, IInv, StatusInv, [Next]_vars PROVE StatusInv'
  OBVIOUS
<1>1. ASSUME NEW u \in Users,
             \/ \E i \in Invoices : SubmitRead(u, i)
             \/ \E f \in Flows, s \in Steps, o \in {"approve", "reject"} : DecideRead(u, f, s, o)
             \/ DecideLost(u) \/ ApproveRefused(u) \/ ApproveClaim(u)
             \/ \E f \in Flows : ResumeRead(u, f)
             \/ \E x \in Items : SatisfyRead(u, x)
             \/ ReopenRead(u) \/ ArchiveRead(u)
      PROVE  StatusInv'
  <2>1. UNCHANGED <<status, flowVars, stale>>
    BY <1>1 DEF SubmitRead, DecideRead, DecideLost, ApproveRefused, ApproveClaim,
                ResumeRead, SatisfyRead, ReopenRead, ArchiveRead
  <2> QED
    BY <2>1, SameRowsFrame DEF flowVars
<1>2. ASSUME NEW f \in Flows, NEW s \in Steps, NEW v \in Users,
             Delegate(f, s, v) \/ Reassign(f, s, v)
      PROVE  StatusInv'
  BY <1>2, SameRowsFrame DEF Delegate, Reassign, flowVars
<1>3. ASSUME NEW x \in Items, Expire(x) PROVE StatusInv'
  BY <1>3, SameRowsFrame DEF Expire, flowVars
<1>4. ASSUME NEW i \in Invoices, AddToRun(i) PROVE StatusInv'
  BY <1>4, SameRowsFrame DEF AddToRun, flowVars
<1>5. ASSUME NEW i \in Invoices, NEW p, LeaveRun(i, p) PROVE StatusInv'
  BY <1>5, SameRowsFrame DEF LeaveRun, flowVars
<1>6. CASE UNCHANGED vars
  BY <1>6, SameRowsFrame DEF vars, flowVars
<1> QED
  BY <1>1, <1>2, <1>3, <1>4, <1>5, <1>6, StatusSubmit, StatusAdvance, StatusConclude,
     StatusReject, StatusRelease, StatusVoid, StatusArchive
  DEF Next, Handle, VoidInvoice, VoidByApi

\* A decision never meets an invoice that another flow has already settled: the
\* status of an invoice and what is being decided about it agree.
THEOREM StatusAgreesWithFlows == Spec => []StatusTellsFlow
<1>1. TypeOK /\ IInv /\ StatusInv /\ [Next]_vars => StatusInv'
  BY StatusNext
<1>2. StatusInv => StatusTellsFlow
  BY DEF StatusInv
<1> QED
  BY <1>1, <1>2, StatusInit, Inductive, PTL DEF Spec
-----------------------------------------------------------------------------
(* What is paid was decided. *)

Settled(i) ==
  /\ status[i] = "READY_FOR_PAYMENT"
  /\ \E f \in Flows : owner[f] = i /\ Complete(f)
  /\ i \notin stale => \E f \in Flows : owner[f] = i /\ flow[f] = "APPROVED"

PayInv == \A i \in Invoices : pay[i] # "NOT_READY" => Settled(i)

LEMMA PayInit == Init => PayInv
BY DEF Init, PayInv

\* What settles an invoice stays: its flows, their signatures, and, unless it is
\* written on an old read, the approval.
LEMMA SettledFrame ==
  ASSUME NEW i \in Invoices, Settled(i), status'[i] = status[i], stale \subseteq stale',
         \A f \in Flows : owner[f] = i => owner'[f] = i /\ signed[f] \subseteq signed'[f],
         i \notin stale' =>
            \A f \in Flows : owner[f] = i /\ flow[f] = "APPROVED" => flow'[f] = "APPROVED"
  PROVE  Settled(i)'
<1>1. PICK f \in Flows : owner[f] = i /\ Complete(f)
  BY DEF Settled
<1>2. owner'[f] = i /\ Complete(f)'
  BY <1>1 DEF Complete
<1>3. i \notin stale' => \E g \in Flows : owner'[g] = i /\ flow'[g] = "APPROVED"
  BY DEF Settled
<1> QED
  BY <1>2, <1>3 DEF Settled

\* No flow with a pending step is about an invoice that is settled on no old read.
LEMMA NothingPending ==
  ASSUME StatusInv, NEW i \in Invoices \ stale, Settled(i),
         NEW f \in Flows, NEW s \in Steps, step[f][s] = "PENDING"
  PROVE  owner[f] # i
BY DEF StatusInv, StatusTellsFlow, LiveOf, Live, Settled

LEMMA PayConclude ==
  ASSUME TypeOK, IInv, StatusInv, PayInv, NEW u \in Users, Conclude(u),
         NEW i \in Invoices, pay'[i] # "NOT_READY"
  PROVE  Settled(i)'
<1> DEFINE s == req[u].step
<1>1. PICK f \in req[u].flows :
        /\ Later(f) = {}
        /\ signed' = [signed EXCEPT ![f] = @ \cup {s}]
        /\ \/ /\ flow' = [flow EXCEPT ![f] = "PENDING_COMPLIANCE"]
              /\ UNCHANGED <<status, pay>>
           \/ /\ flow' = [flow EXCEPT ![f] = "APPROVED"]
              /\ status' = [status EXCEPT ![owner[f]] = "READY_FOR_PAYMENT"]
              /\ pay' = [pay EXCEPT ![owner[f]] = "READY"]
  BY DEF Conclude
<1>2. f \in Flows /\ s \in Steps /\ step[f][s] = "PENDING" /\ req[u].op = "claimed"
  BY DEF Conclude, IInv, ClaimInv, TypeOK, Request
<1>3. owner[f] \in Invoices /\ UNCHANGED <<owner, stale>>
  BY <1>2, FlowsOfStep DEF Conclude, IInv
<1>4. /\ \A g \in Flows : signed[g] \subseteq signed'[g]
      /\ \A g \in Flows \ {f} : flow'[g] = flow[g]
      /\ \A j \in Invoices \ {owner[f]} : status'[j] = status[j] /\ pay'[j] = pay[j]
  BY <1>1, <1>2, <1>3 DEF TypeOK
<1>5. CASE owner[f] # i
  BY <1>3, <1>4, <1>5, SettledFrame DEF PayInv
<1>6. CASE owner[f] = i /\ UNCHANGED <<status, pay>>
  <2>1. Settled(i)
    BY <1>6 DEF PayInv
  <2>2. i \in stale
    BY <1>2, <1>6, <2>1, NothingPending
  <2> QED
    BY <1>3, <1>4, <1>6, <2>1, <2>2, SettledFrame
<1>7. CASE owner[f] = i /\ flow' = [flow EXCEPT ![f] = "APPROVED"]
           /\ status' = [status EXCEPT ![owner[f]] = "READY_FOR_PAYMENT"]
  <2>1. flow'[f] = "APPROVED" /\ status'[i] = "READY_FOR_PAYMENT" /\ owner'[f] = i
    BY <1>2, <1>3, <1>7 DEF TypeOK
  <2>2. Complete(f)'
    BY <1>1, <1>2, LastSignature
  <2> QED
    BY <1>2, <2>1, <2>2 DEF Settled
<1> QED
  BY <1>1, <1>5, <1>6, <1>7

LEMMA PayReject ==
  ASSUME TypeOK, IInv, PayInv, NEW u \in Users, Reject(u),
         NEW i \in Invoices, pay'[i] # "NOT_READY"
  PROVE  Settled(i)'
<1> DEFINE s == req[u].step
<1>1. PICK f \in req[u].flows :
        /\ Mine(u, f, s)
        /\ flow' = [flow EXCEPT ![f] = "REJECTED"]
        /\ status' = [status EXCEPT ![owner[f]] = "REJECTED"]
        /\ pay' = [pay EXCEPT ![owner[f]] = "NOT_READY"]
  BY DEF Reject
<1>2. f \in Flows /\ s \in Steps /\ step[f][s] = "PENDING"
  BY <1>1 DEF Reject, Mine, IInv, ClaimInv, TypeOK, Request
<1>3. owner[f] \in Invoices /\ UNCHANGED <<owner, stale, signed>>
  BY <1>2, FlowsOfStep DEF Reject, IInv
<1>4. owner[f] # i
  BY <1>1, <1>3 DEF TypeOK
<1>5. pay'[i] = pay[i] /\ status'[i] = status[i] /\ \A g \in Flows \ {f} : flow'[g] = flow[g]
  BY <1>1, <1>2, <1>4 DEF TypeOK
<1> QED
  BY <1>3, <1>4, <1>5, SettledFrame DEF PayInv

LEMMA PaySubmit ==
  ASSUME TypeOK, PayInv, NEW u \in Users, NEW f \in Flows, SubmitCommit(u, f),
         NEW i \in Invoices, pay'[i] # "NOT_READY"
  PROVE  Settled(i)'
<1>1. PICK j \in Invoices :
        /\ owner' = [owner EXCEPT ![f] = j]
        /\ status' = [status EXCEPT ![j] = "APPROVAL_PENDING"]
        /\ pay' = [pay EXCEPT ![j] = "NOT_READY"]
        /\ stale' = IF Submittable(j) THEN stale ELSE stale \cup {j}
  BY DEF SubmitCommit, TypeOK, Request
<1>2. i # j /\ owner[f] # i /\ stale \subseteq stale' /\ signed' = signed
  BY <1>1, ApprovalAssumption DEF SubmitCommit, TypeOK
<1>3. /\ pay'[i] = pay[i] /\ status'[i] = status[i]
      /\ \A g \in Flows \ {f} : owner'[g] = owner[g] /\ flow'[g] = flow[g]
  BY <1>1, <1>2 DEF SubmitCommit, TypeOK
<1> QED
  BY <1>2, <1>3, SettledFrame DEF PayInv

LEMMA PayRelease ==
  ASSUME TypeOK, PayInv, NEW u \in Users, Release(u), NEW i \in Invoices, pay'[i] # "NOT_READY"
  PROVE  Settled(i)'
<1>1. /\ UNCHANGED <<status, pay, owner, signed>> /\ stale \subseteq stale'
      /\ \A f \in Flows : flow'[f] = flow[f] \/ flow'[f] = "PENDING"
  BY DEF Release
<1>2. ASSUME NEW f \in Flows, flow[f] = "APPROVED", owner[f] \notin stale'
      PROVE  flow'[f] = "APPROVED"
  BY <1>2 DEF Release, TypeOK
<1> QED
  BY <1>1, <1>2, SettledFrame DEF PayInv

LEMMA PayVoid ==
  ASSUME TypeOK, PayInv, NEW j \in Invoices, NEW S, VoidCancelling(j, S),
         NEW i \in Invoices, pay'[i] # "NOT_READY"
  PROVE  Settled(i)'
<1>1. i # j /\ pay'[i] = pay[i] /\ status'[i] = status[i] /\ UNCHANGED <<owner, signed, stale>>
  BY DEF VoidCancelling, TypeOK
<1>2. \A f \in Flows : owner[f] = i => flow'[f] = flow[f]
  BY <1>1 DEF VoidCancelling, FlowsOf
<1> QED
  BY <1>1, <1>2, SettledFrame DEF PayInv

LEMMA PayArchive ==
  ASSUME TypeOK, PayInv, NEW u \in Users, ArchiveCommit(u),
         NEW i \in Invoices, pay'[i] # "NOT_READY"
  PROVE  Settled(i)'
<1>1. pay'[i] = pay[i] /\ status'[i] = status[i] /\ UNCHANGED <<owner, signed, stale>>
  BY DEF ArchiveCommit
<1>2. \A f \in Flows : flow[f] = "APPROVED" => flow'[f] = "APPROVED"
  BY DEF ArchiveCommit, FlowsOf
<1> QED
  BY <1>1, <1>2, SettledFrame DEF PayInv

\* A step that writes no status, no flow and no signature, and makes nothing payable.
LEMMA PayFrame ==
  ASSUME PayInv, UNCHANGED <<status, flowVars, stale>>,
         NEW i \in Invoices, pay'[i] # "NOT_READY", pay[i] # "NOT_READY"
  PROVE  Settled(i)'
BY SettledFrame DEF PayInv, flowVars

LEMMA PayNext == TypeOK /\ IInv /\ StatusInv /\ PayInv /\ [Next]_vars => PayInv'
<1> SUFFICES ASSUME TypeOK, IInv, StatusInv, PayInv, [Next]_vars,
                    NEW i \in Invoices, pay'[i] # "NOT_READY"
             PROVE  Settled(i)'
  BY DEF PayInv
<1>1. ASSUME NEW u \in Users,
             \/ \E j \in Invoices : SubmitRead(u, j)
             \/ \E f \in Flows, s \in Steps, o \in {"approve", "reject"} : DecideRead(u, f, s, o)
             \/ DecideLost(u) \/ ApproveRefused(u) \/ ApproveClaim(u)
             \/ \E f \in Flows : ResumeRead(u, f)
             \/ \E x \in Items : SatisfyRead(u, x)
             \/ ReopenRead(u) \/ ArchiveRead(u)
      PROVE  Settled(i)'
  <2>1. UNCHANGED <<status, pay, flowVars, stale>>
    BY <1>1 DEF SubmitRead, DecideRead, DecideLost, ApproveRefused, ApproveClaim,
                ResumeRead, SatisfyRead, ReopenRead, ArchiveRead
  <2> QED
    BY <2>1, PayFrame
<1>2. ASSUME NEW f \in Flows, NEW s \in Steps, NEW v \in Users,
             Delegate(f, s, v) \/ Reassign(f, s, v)
      PROVE  Settled(i)'
  BY <1>2, PayFrame DEF Delegate, Reassign
<1>3. ASSUME NEW x \in Items, Expire(x) PROVE Settled(i)'
  BY <1>3, PayFrame DEF Expire
<1>4. ASSUME NEW j \in Invoices, AddToRun(j) \/ \E p \in {"READY", "PAID"} : LeaveRun(j, p)
      PROVE  Settled(i)'
  <2>1. pay[i] # "NOT_READY" /\ UNCHANGED <<status, flowVars, stale>>
    BY <1>4 DEF AddToRun, LeaveRun, TypeOK
  <2> QED
    BY <2>1, PayFrame
<1>5. CASE UNCHANGED vars
  BY <1>5, PayFrame DEF vars
<1>6. ASSUME NEW u \in Users, NEW n \in Steps, Advance(u, n) PROVE Settled(i)'
  <2>1. UNCHANGED <<status, pay, owner, flow, stale>> /\ \A f \in Flows : signed[f] \subseteq signed'[f]
    BY <1>6 DEF Advance, TypeOK
  <2> QED
    BY <2>1, SettledFrame DEF PayInv
<1> QED
  BY <1>1, <1>2, <1>3, <1>4, <1>5, <1>6, PaySubmit, PayConclude, PayReject, PayRelease,
     PayVoid, PayArchive
  DEF Next, Handle, VoidInvoice, VoidByApi

\* Who pays an invoice can rely on it: a whole chain has signed it, its flow is
\* approved, and no request will take the approval back.
THEOREM PayableIsSettled == Spec => []PayableIsDecided
<1>1. TypeOK /\ IInv /\ StatusInv /\ [Next]_vars => StatusInv'
  BY StatusNext
<1>2. TypeOK /\ IInv /\ StatusInv /\ PayInv /\ [Next]_vars => PayInv'
  BY PayNext
<1>3. StatusInv /\ PayInv => PayableIsDecided
  <2> SUFFICES ASSUME StatusInv, PayInv, NEW i \in Invoices, pay[i] # "NOT_READY"
               PROVE  /\ status[i] = "READY_FOR_PAYMENT"
                      /\ \E f \in Flows : owner[f] = i /\ Steps \subseteq signed[f]
                      /\ i \notin stale => /\ LiveOf(i) = {}
                                          /\ \E f \in Flows : owner[f] = i /\ flow[f] = "APPROVED"
    BY DEF PayableIsDecided
  <2>1. Settled(i)
    BY DEF PayInv
  <2>2. i \notin stale => LiveOf(i) = {}
    BY <2>1 DEF Settled, StatusInv, StatusTellsFlow
  <2> QED
    BY <2>1, <2>2 DEF Settled, Complete
<1> QED
  BY <1>1, <1>2, <1>3, StatusInit, PayInit, Inductive, PTL DEF Spec
=============================================================================
