----------------------------- MODULE PaymentRun -----------------------------
(***************************************************************************)
(* Payment runs: packages/api/src/routers/finance (payment-core.ts,        *)
(* payment-run-ops.ts, payment-export-router.ts, payment-import.ts and     *)
(* payment-shared.ts).                                                     *)
(*                                                                         *)
(* A request is one READ COMMITTED transaction in three steps: it reads    *)
(* and validates without a lock (Read), it writes and takes the row locks  *)
(* of what it writes (Write), it commits.  What it writes is seen by the   *)
(* others only after the commit, and a write waits for the open request    *)
(* that holds a row it needs.  Most handlers write by id what they         *)
(* validated before, which another request may have changed since.         *)
(*                                                                         *)
(* One currency per run; every item pays its invoice in full, so a single  *)
(* InvoicePayment makes the invoice PAID.  Nothing in these routers gives  *)
(* an item the status EXPORTED or SKIPPED or a run the status LOCKED.      *)
(***************************************************************************)
EXTENDS Integers, FiniteSets

CONSTANTS
  Runs,       \* ids of payment runs
  Invoices,   \* approved invoices of one organisation
  Users,      \* concurrent requests
  NoRun,      \* no run
  MaxOpen     \* bound: requests between read and commit at the same time

ASSUME PaymentAssumption ==
  IsFiniteSet(Runs) /\ IsFiniteSet(Users) /\ NoRun \notin Runs /\ MaxOpen \in Nat

VARIABLES
  run,      \* PaymentRun.status, "NONE" for no row
  item,     \* PaymentRunItem.status of a run and an invoice, "NONE" for no row
  pay,      \* Invoice.paymentStatus
  paid,     \* number of InvoicePayment rows of an item
  phase,    \* where each request is
  op,       \* its procedure
  target,   \* its run
  rows,     \* the invoices whose rows it read and goes on to write
  verdict,  \* the run status it writes, "same" for none
  files,    \* bank files handed out for a run: how many
  sent,     \* the invoices in the bank file of a run
  stale     \* history: the invoices written on a premise that did not hold

dataVars == <<run, item, pay, paid, files, sent, stale>>
reqVars == <<phase, op, target, rows, verdict>>
vars == <<dataVars, reqVars>>

RunStatus == {"DRAFT", "EXPORTED", "COMPLETED", "FAILED", "CANCELLED"}
Active == {"DRAFT", "EXPORTED"}
PayOps == {"markPaid", "markAllPaid", "confirmStatementMatches"}
Ops == PayOps \cup {"none", "create", "lockAndExport", "markFailed", "cancel", "removeFromRun"}

TypeOK ==
  /\ run \in [Runs -> RunStatus \cup {"NONE"}]
  /\ item \in [Runs -> [Invoices -> {"NONE", "PENDING", "PAID", "FAILED"}]]
  /\ pay \in [Invoices -> {"READY", "IN_RUN", "PAID"}]
  /\ paid \in [Runs -> [Invoices -> Nat]]
  /\ phase \in [Users -> {"idle", "read", "written"}]
  /\ op \in [Users -> Ops]
  /\ target \in [Users -> Runs \cup {NoRun}]
  /\ rows \in [Users -> SUBSET Invoices]
  /\ verdict \in [Users -> RunStatus \cup {"same"}]
  /\ files \in [Runs -> Nat]
  /\ sent \in [Runs -> SUBSET Invoices]
  /\ stale \subseteq Invoices

Init ==
  /\ run = [r \in Runs |-> "NONE"]
  /\ item = [r \in Runs |-> [i \in Invoices |-> "NONE"]]
  /\ pay = [i \in Invoices |-> "READY"]
  /\ paid = [r \in Runs |-> [i \in Invoices |-> 0]]
  /\ phase = [u \in Users |-> "idle"]
  /\ op = [u \in Users |-> "none"]
  /\ target = [u \in Users |-> NoRun]
  /\ rows = [u \in Users |-> {}]
  /\ verdict = [u \in Users |-> "same"]
  /\ files = [r \in Runs |-> 0]
  /\ sent = [r \in Runs |-> {}]
  /\ stale = {}
-----------------------------------------------------------------------------
(* The rows of a run, and what the procedures make of them. *)

Items(r) == {i \in Invoices : item[r][i] # "NONE"}
Pending(r) == {i \in Invoices : item[r][i] = "PENDING"}

\* The status a procedure writes to each item of its rows.
ItemAfter(o, old) ==
  IF o \in PayOps THEN "PAID"
  ELSE IF o = "create" THEN "PENDING"
  ELSE IF o = "markFailed" THEN "FAILED"
  ELSE IF o = "removeFromRun" THEN "NONE"
  ELSE old

\* Mutant: cancelling a run forgets the invoices.
PayAfter_KeepsInRun(o, old) ==
  IF o \in PayOps THEN "PAID"
  ELSE IF o = "create" THEN "IN_RUN"
  ELSE IF o \in {"markFailed", "removeFromRun"} THEN "READY"
  ELSE old

\* The payment status a procedure writes to the invoice of each of its rows.
PayAfter(o, old) ==
  IF o \in PayOps THEN "PAID"
  ELSE IF o = "create" THEN "IN_RUN"
  ELSE IF o \in {"markFailed", "cancel", "removeFromRun"} THEN "READY"
  ELSE old

\* Mutant: only items in status EXPORTED count as remaining.
AutoComplete_NotPending(r, S, s) ==
  LET after == [i \in Items(r) |-> IF i \in S THEN s ELSE item[r][i]] IN
  IF \E i \in Items(r) : after[i] = "FAILED" THEN "FAILED" ELSE "COMPLETED"

\* autoCompleteRunIfTerminal after this request made its rows s.  It counts
\* what is committed and its own writes, not the writes of open requests.
AutoComplete(r, S, s) ==
  LET after == [i \in Items(r) |-> IF i \in S THEN s ELSE item[r][i]] IN
  IF \E i \in Items(r) : after[i] = "PENDING" THEN "same"
  ELSE IF \E i \in Items(r) : after[i] = "FAILED" THEN "FAILED" ELSE "COMPLETED"

\* The rows an open request has locked: the run if it writes its status, and
\* the items and invoices it writes.
Waits(u, writesRun) ==
  \E v \in Users \ {u} :
     /\ phase[v] = "written"
     /\ \/ writesRun /\ verdict[v] # "same" /\ target[u] = target[v]
        \/ op[u] # "lockAndExport" /\ op[v] # "lockAndExport" /\ rows[u] \cap rows[v] # {}
-----------------------------------------------------------------------------
(* Read: load and validate. *)

Read(u, o, r, S) ==
  /\ phase[u] = "idle"
  /\ Cardinality({v \in Users : phase[v] # "idle"}) < MaxOpen
  /\ phase' = [phase EXCEPT ![u] = "read"]
  /\ op' = [op EXCEPT ![u] = o]
  /\ target' = [target EXCEPT ![u] = r]
  /\ rows' = [rows EXCEPT ![u] = S]
  /\ UNCHANGED <<dataVars, verdict>>

\* loadEligibleInvoices and validateInvoicesForRun, before the advisory lock.
ReadCreate(u) ==
  \E r \in Runs, S \in SUBSET Invoices \ {{}} :
     /\ run[r] = "NONE"
     /\ \A i \in S : pay[i] = "READY"
     /\ Read(u, "create", r, S)

\* The transaction that prepares the file: all items of the run go into it,
\* whatever their status.  An exported run is answered without a file.
ReadExport(u) ==
  \E r \in Runs : run[r] = "DRAFT" /\ Read(u, "lockAndExport", r, Items(r))

\* Mutant: PAID does not ask for the status of the run either.
ReadItem_AnyRun(u) ==
  \E r \in Runs : \E i \in Pending(r), o \in {"markPaid", "markFailed"} : Read(u, o, r, {i})

\* updateItemStatus.  Only PAID asks for the status of the run.
ReadItem(u) ==
  \E r \in Runs : \E i \in Pending(r) :
     \/ run[r] \in {"EXPORTED", "COMPLETED"} /\ Read(u, "markPaid", r, {i})
     \/ Read(u, "markFailed", r, {i})

ReadMarkAll(u) ==
  \E r \in Runs : run[r] = "EXPORTED" /\ Read(u, "markAllPaid", r, Pending(r))

\* The matches of a bank statement with the items still to be paid.
ReadConfirm(u) ==
  \E r \in Runs : \E S \in SUBSET Pending(r) :
     run[r] = "EXPORTED" /\ Read(u, "confirmStatementMatches", r, S)

\* An administrator may cancel an exported run.
ReadCancel(u) ==
  \E r \in Runs :
     /\ run[r] \in Active
     /\ Read(u, "cancel", r, {i \in Items(r) : item[r][i] # "PAID"})
-----------------------------------------------------------------------------
(* Write: the statements of the transaction after the validation. *)

Write(u, o, status) ==
  /\ phase[u] = "read"
  /\ op[u] = o
  /\ ~Waits(u, status # "same")
  /\ phase' = [phase EXCEPT ![u] = "written"]
  /\ verdict' = [verdict EXCEPT ![u] = status]
  /\ UNCHANGED <<dataVars, op, target, rows>>

\* acquireXactLock keeps other creations out until the commit; then the run,
\* its items, and the invoices set to IN_RUN by id.
WriteCreate(u) ==
  /\ op[u] = "create"
  /\ run[target[u]] = "NONE"
  /\ ~\E v \in Users : op[v] = "create" /\ phase[v] = "written"
  /\ Write(u, "create", "DRAFT")

\* Mutant: the transition is an update by id.
WriteExport_NoCas(u) == Write(u, "lockAndExport", "EXPORTED")

\* Mutant: the run is LOCKED first, as the table of transitions has it.
WriteExport_Locks(u) ==
  Write(u, "lockAndExport", IF run[target[u]] = "DRAFT" THEN "LOCKED" ELSE "same")

\* updateMany where status is DRAFT or LOCKED: the loser writes nothing and
\* gets no file.
WriteExport(u) ==
  Write(u, "lockAndExport", IF run[target[u]] = "DRAFT" THEN "EXPORTED" ELSE "same")

\* The item by id, the invoice, and the completion of the run.
WriteItem(u) ==
  \E o \in {"markPaid", "markFailed"} :
     /\ op[u] = o
     /\ rows[u] \subseteq Items(target[u])
     /\ Write(u, o, AutoComplete(target[u], rows[u], ItemAfter(o, "PENDING")))

\* The items that were to be paid, by id.
WriteMarkAll(u) == Write(u, "markAllPaid", "COMPLETED")

\* Mutant: the update of the items does not ask for their status.
WriteConfirm_NoCas(u) ==
  /\ op[u] = "confirmStatementMatches"
  /\ Write(u, "confirmStatementMatches", AutoComplete(target[u], rows[u], "PAID"))

\* updateMany where the items are still to be paid, and a conflict otherwise.
WriteConfirm(u) ==
  /\ op[u] = "confirmStatementMatches"
  /\ rows[u] \subseteq Pending(target[u])
  /\ Write(u, "confirmStatementMatches", AutoComplete(target[u], rows[u], "PAID"))

WriteCancel(u) == Write(u, "cancel", "CANCELLED")

\* Serializable: a run, item or invoice row that changed since it was read
\* aborts the transaction, so reading and writing are one step.
WriteRemove(u) ==
  /\ phase[u] = "idle"
  /\ Cardinality({v \in Users : phase[v] # "idle"}) < MaxOpen
  /\ \E r \in Runs : \E i \in Items(r) :
       /\ run[r] = "DRAFT"
       /\ \A v \in Users : phase[v] = "written" =>
            /\ target[v] # r \/ verdict[v] = "same"
            /\ op[v] = "lockAndExport" \/ i \notin rows[v]
       /\ target' = [target EXCEPT ![u] = r]
       /\ rows' = [rows EXCEPT ![u] = {i}]
       /\ verdict' = [verdict EXCEPT ![u] = IF Items(r) = {i} THEN "CANCELLED" ELSE "DRAFT"]
  /\ phase' = [phase EXCEPT ![u] = "written"]
  /\ op' = [op EXCEPT ![u] = "removeFromRun"]
  /\ UNCHANGED dataVars
-----------------------------------------------------------------------------
(* Commit or roll back. *)

Done(u) ==
  /\ phase' = [phase EXCEPT ![u] = "idle"]
  /\ op' = [op EXCEPT ![u] = "none"]
  /\ target' = [target EXCEPT ![u] = NoRun]
  /\ rows' = [rows EXCEPT ![u] = {}]
  /\ verdict' = [verdict EXCEPT ![u] = "same"]

\* The invoices a request writes although the premise it needs does not hold:
\* the invoice is READY for a creation, the item still to be paid and its run
\* active for the others.  A statement and an export need no more than they ask.
Stale(u) ==
  LET r == target[u] IN
  {i \in rows[u] :
     CASE op[u] = "create" -> pay[i] # "READY"
       [] op[u] = "lockAndExport" -> FALSE
       [] op[u] = "confirmStatementMatches" -> run[r] \notin Active
       [] OTHER -> item[r][i] # "PENDING" \/ run[r] \notin Active}

Commit(u) ==
  LET r == target[u]
      won == op[u] = "lockAndExport" /\ verdict[u] = "EXPORTED"
  IN
  /\ phase[u] = "written"
  /\ item' = [item EXCEPT ![r] =
                [i \in Invoices |-> IF i \in rows[u] THEN ItemAfter(op[u], @[i]) ELSE @[i]]]
  /\ pay' = [i \in Invoices |-> IF i \in rows[u] THEN PayAfter(op[u], pay[i]) ELSE pay[i]]
  /\ paid' = [paid EXCEPT ![r] =
                [i \in Invoices |-> IF i \in rows[u] /\ op[u] \in PayOps THEN @[i] + 1 ELSE @[i]]]
  /\ run' = IF verdict[u] = "same" THEN run ELSE [run EXCEPT ![r] = verdict[u]]
  /\ files' = IF won THEN [files EXCEPT ![r] = @ + 1] ELSE files
  /\ sent' = IF won THEN [sent EXCEPT ![r] = @ \cup rows[u]] ELSE sent
  /\ stale' = stale \cup Stale(u)
  /\ Done(u)

\* A validation fails, a guarded update matches too little, the process dies.
Rollback(u) == phase[u] # "idle" /\ Done(u) /\ UNCHANGED dataVars
-----------------------------------------------------------------------------
Next ==
  \E u \in Users :
     \/ ReadCreate(u) \/ ReadExport(u) \/ ReadItem(u) \/ ReadMarkAll(u)
     \/ ReadConfirm(u) \/ ReadCancel(u)
     \/ WriteCreate(u) \/ WriteExport(u) \/ WriteItem(u) \/ WriteMarkAll(u)
     \/ WriteConfirm(u) \/ WriteCancel(u) \/ WriteRemove(u)
     \/ Commit(u) \/ Rollback(u)

Spec == Init /\ [][Next]_vars
-----------------------------------------------------------------------------
(* Properties. *)

\* A run is handed out as a bank file at most once, however many requests
\* export it at the same time: the loser of the transition gets a null file.
OneFilePerRun == \A r \in Runs : files[r] <= 1

\* Whatever requests race on a run, it orders its payments once, by a file that
\* never changes, and records a payment only after it has ordered it.
Promise == INSTANCE OrderedPayments
             WITH orders <- files, ordered <- sent,
                  recorded <- [r \in Runs |-> {i \in Invoices : paid[r][i] > 0}]
KeepsOrders == Promise!Spec

\* An item is PAID, and has its InvoicePayment, only if the bank file of its
\* run contained it: nobody confirms a payment that was never ordered.
PaidWasSent ==
  \A r \in Runs, i \in Invoices :
     item[r][i] = "PAID" \/ paid[r][i] > 0 => i \in sent[r]

\* A run that is COMPLETED has only items that are PAID or FAILED, and one that
\* is FAILED has none still to be paid, whatever the requests that closed it
\* could not see of each other.
CompletedIsSettled ==
  \A r \in Runs : run[r] \in {"COMPLETED", "FAILED"} => Pending(r) = {}

\* An invoice is paid at most once, whatever runs it was in, unless a request
\* wrote it on a stale premise.
PaidOnce ==
  \A i \in Invoices \ stale, r, q \in Runs :
     paid[r][i] > 0 /\ paid[q][i] > 0 => r = q /\ paid[r][i] = 1

\* Unless a request wrote it on a stale premise, the payment status of an
\* invoice tells where it is: IN_RUN, one item in an active run is to be paid;
\* PAID, an item is; READY, neither, so a new run may take it.
StatusTellsRun ==
  \A i \in Invoices \ stale :
     LET waiting == {r \in Runs : run[r] \in Active /\ item[r][i] = "PENDING"}
         settled == {r \in Runs : item[r][i] = "PAID"} IN
     CASE pay[i] = "IN_RUN" -> Cardinality(waiting) = 1 /\ settled = {}
       [] pay[i] = "PAID"   -> waiting = {} /\ Cardinality(settled) = 1
       [] pay[i] = "READY"  -> waiting = {} /\ settled = {}

\* Unless a request writes it on a stale premise, an invoice goes from READY to
\* IN_RUN, and from there to PAID or back to READY, and no other way: what
\* Approval lets payment runs do to an invoice (AddToRun and LeaveRun).
PayStatusMoves ==
  [][\A i \in Invoices \ stale' :
       <<pay[i], pay'[i]>> \in {<<"READY", "IN_RUN">>, <<"IN_RUN", "PAID">>,
                               <<"IN_RUN", "READY">>, <<pay[i], pay[i]>>}]_vars

\* The claim that the payment status of an invoice prevents a double payment:
\* no invoice gets a second InvoicePayment.
InvoicePaidOnce ==
  \A i \in Invoices, r, q \in Runs :
     paid[r][i] > 0 /\ paid[q][i] > 0 => r = q /\ paid[r][i] = 1
=============================================================================
