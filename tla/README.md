# Contractor Ops: TLA+ models of the parts that race, retry and crash

Contractor Ops is a multi-tenant server (Fastify and tRPC over Prisma and
PostgreSQL, QStash as a queue, Redis for short-lived counters) around
contractors, their invoices and the payment of these. Most of it is input forms
and national rules. What is hard to test in it is a small set of components in
which several processes write the same rows, jobs are delivered more than once,
and processes die between two statements. This directory holds TLA+ modules of
those components, TLC configurations that check them on small instances, and
proofs for every instance.

Source paths below are relative to `src/`; `api/` abbreviates
`packages/api/src/`.

## Inventory

### Transactional outbox: `api/services/outbox/`, `apps/api/src/routes/outbox.ts`
- **State**: `OutboxEvent` rows (status, attempts, nextAttemptAt, unique key of
  organisation and dedupKey).
- **Operations**: `enqueueOutboxEvent` inside the producer's transaction;
  `drainOutboxBatch` (claim in a short transaction with `FOR UPDATE SKIP
  LOCKED`, dispatch with no transaction open, finalize each row by id).
- **Interacts with**: every producer (same transaction), the handlers it calls
  (webhook fan-out, notifications, files), QStash, which polls the drain.
- **Hard**: two producers of one key of which the first rolls back; a claim
  window that runs out while the worker is alive; a crash between claim and
  finalize; two finalizers of one row; the last attempt.
- **Correct when**: a row exists iff its business write committed; each attempt
  belongs to one worker and is counted before the handler is called;
  `DISPATCHED` only after the side effect; `FAILED` only after the last attempt;
  every row settled in the end.

### Outbound webhooks: `api/services/webhooks/`, `apps/api/src/routes/webhooks-outbound.ts`, `api/services/queue.ts`
- **State**: `WebhookDeliveryAttempt` and `WebhookDeadLetter` rows, QStash jobs.
- **Operations**: the fan-out of an event (a row and a job for each
  subscription), `deliverAttempt` (compare-and-set claim, kill switch, rate
  limit, POST, success, retry or dead letter, alert, catch block).
- **Interacts with**: the outbox, which may call the fan-out again; QStash.
- **Hard**: jobs delivered twice, late and in any order; a publication that
  fails; an exception after the outcome was recorded, which the catch block
  records again; a crash while the row is `SENDING`; deduplication ids.
- **Correct when**: one worker posts an attempt at a time; no more posts than
  `maxRetries`; dead letter and status agree; terminal states are final; no
  attempt is forgotten unless a fault took away its last job.

### Payment runs: `api/routers/finance/payment-*.ts`
- **State**: `PaymentRun`, `PaymentRunItem`, `InvoicePayment`,
  `Invoice.paymentStatus`.
- **Operations**: `create`, `lockAndExport`, `updateItemStatus`, `markAllPaid`,
  `cancel`, `removeFromRun`, `confirmStatementMatches`.
- **Interacts with**: invoice approval (gives READY invoices), bank files.
- **Hard**: requests of several users on one run under READ COMMITTED; handlers
  that validate first and write by id later; the completion of a run decided by
  a count that does not see open transactions.
- **Correct when**: one bank file per run; nothing is confirmed that was not
  ordered; a closed run has nothing left to pay; no invoice is paid twice; the
  status of an invoice tells which run it is in.

### Identity-provider deprovisioning: `packages/idp-saga/`, `api/services/idp-deprovisioning-step-runner.ts`, `api/routers/integrations/deprovisioning.ts`
- **State**: `DeprovisioningRun.status`, `DeprovisioningStep` (status,
  attempts), one QStash job per step.
- **Operations**: `startDeprovisioningRun` (rows in a transaction, then a job for
  each step), `runDeprovisioningStep` (count the attempt, call the provider, save
  the outcome, derive the run's status and write it without a lock),
  `retryDeprovisioningStep`, `overrideStepFailure`; provenance rows, with which
  the webhook filter tells our own changes.
- **Interacts with**: QStash, the identity providers, administrators.
- **Hard**: derivations that finish in the other order, a job delivered again for
  a step that is done, a job that dies while its step is `IN_PROGRESS`, retries
  that start attempts again at 0.
- **Correct when**: `COMPLETED` claims no more than was done; the run's status is
  what its steps say once all jobs are answered; the provider is called a bounded
  number of times; every step ends, and one that succeeded stays so.

### Cron runner: `apps/cron-worker/src/jobs/runner.ts`
An overlap guard in memory, an advisory lock held by an open transaction, a
timeout that abandons the handler, the persisted run state, catch-up at boot.
**Hard**: an abandoned handler that goes on without the lock, run states written
out of order. **Correct when**: no two ticks of a job run side by side, and the
state never claims a success that did not happen.

### Approval engine: `api/services/approval-engine.ts`, `api/routers/core/approval-*.ts`, `api/services/approval-integration-action.ts`, `compliance-recovery.ts`
- **State**: `ApprovalFlow` (status, currentStepOrder, complianceHoldsJson),
  `ApprovalStep` (status, approver), `ApprovalDecision` rows, `Invoice.status` and
  `paymentStatus`, the contractor's BLOCKING compliance items.
- **Operations**: `submitForApproval`; `approve`, `reject`, `delegate` and their
  bulk and chat variants over `advanceFlow`; the hold at the last step, its release
  by `resumeFromCompliance` or `onComplianceItemSatisfied`; two voids; the archive
  of a contractor; reassignment of a deactivated approver's steps.
- **Interacts with**: payment runs, which take what it makes READY; the compliance
  scan, which expires items; chat integrations.
- **Hard**: deciders racing on one step; submissions and releases that validate on
  an old read and then write by id; a void that must end whatever is still open.
- **Correct when**: each opening of a step is decided at most once; signatures are
  given in the order of the chain and only a complete chain makes an invoice
  payable; an invoice's status says whether somebody still decides about it.

### Saudi e-invoicing chain: `api/services/zatca-hash-chain.ts`, `zatca-submission.ts`
- **State**: `ZatcaInvoiceChain` rows (counter, hash, previous hash, uuid, status);
  what ZATCA has registered.
- **Operations**: `submitToZatca`, called by QStash jobs, their retries,
  resubmissions and the reconcile job of the cron worker.
- **Interacts with**: invoices, which may be corrected between two submissions; the
  advisory lock of the organisation; ZATCA.
- **Hard**: the row is looked up before the lock; an answer that is lost, when
  ZATCA may have registered the invoice; answers written by id in either order; a
  correction of an invoice whose hash its successor has recorded.
- **Correct when**: counters have no gap or repetition and rows point at their
  predecessor; what ZATCA registered is recorded as it was registered; a status
  says what ZATCA said; no row waits for ever.

### QStash backpressure: `api/services/qstash-backpressure.ts`, `apps/api/src/lib/qstash-route.ts`
- **State**: one Redis counter per route, with or without an expiry.
- **Operations**: INCR and EXPIRE in one script before the work, DECR after it or
  before a rejection.
- **Hard**: the key expires while holders are inside, and their DECRs then count
  for others; pods that die with a slot; calls of Redis that fail.
- **Correct when**: whoever runs over the cap is explained by one of these; a
  counter above zero expires; a full route opens again.

### Notifications, idempotency keys
- `api/services/notification-service.ts`: one row per recipient stands for all
  channels. **Hard**: a crash between the row and the other channels.
- `api/lib/idempotency.ts`: reserve, complete, clear in Redis with a fallback in
  memory. **Hard**: a reservation that expires under a running request.

### The rest
Inbound webhooks, billing and credits, the e-invoice lifecycle, e-signature,
leave balances and provider synchronisation have concurrency of their own and
are candidates after those above. The tables of tax, compliance and
classification rules, the bank-file formats and the front ends are pure
functions or user interface and stay out.

## The modules

| Module | Models | Extends or instantiates |
|---|---|---|
| `AtLeastOnceDelivery` | what the outbox promises, without rows or workers | |
| `Outbox` | the outbox | instance of `AtLeastOnceDelivery` |
| `OutboxMC` | the instance TLC checks | `Outbox` |
| `OutboxProofs` | theorems about every instance | `Outbox` |
| `WebhookDelivery` | fan-out, QStash and delivery | |
| `WebhookDeliveryProofs` | theorems about every instance | `WebhookDelivery` |
| `OrderedPayments` | what payment runs promise to whoever reconciles them with the bank | |
| `PaymentRun` | the payment procedures | instance of `OrderedPayments` |
| `PaymentRunMC` | symmetry of the instance | `PaymentRun` |
| `PaymentRunProofs` | theorems about every instance | `PaymentRun` |
| `Deprovisioning` | runs, steps, jobs, retries and overrides | |
| `DeprovisioningMC` | symmetry of the instances | `Deprovisioning` |
| `DeprovisioningProofs` | theorems about every instance | `Deprovisioning` |
| `SignedInOrder` | what approval promises to whoever pays, without statuses or locks | |
| `Approval` | submission, decisions, holds and voids | instance of `SignedInOrder` |
| `ApprovalMC` | symmetry of the instances | `Approval` |
| `ApprovalProofs` | theorems about every instance | `Approval` |
| `NumberedRegister` | what the Saudi chain promises to the authority, without workers or locks | |
| `ZatcaChain` | the Saudi hash chain and its submissions | instance of `NumberedRegister` |
| `ZatcaChainProofs` | theorems about every instance | `ZatcaChain` |
| `Backpressure` | the slot counter of a route | |
| `BackpressureProofs` | theorems about every instance | `Backpressure` |

An operator whose name ends in a suffix after an underscore, such as
`FailRow_Late`, is a mutant: a plausible mistake in the operator whose name it
starts with. Nothing uses it. Put in the place of that operator it makes TLC
report the property it was written for, which shows that the property speaks of
the code.

### Outbox
`Enqueue`, `Commit` and `Rollback` are the producer: the INSERT with ON CONFLICT
DO NOTHING waits for the transaction whose row it meets, so `Enqueue` is disabled
while that row is uncommitted. A drain is `ClaimSelect` (the SELECT with its
locks), `ClaimCommit` (the bump of attempts and of nextAttemptAt), then for each
row of the batch, oldest first, `Dispatch` or `SkipDemo` and `FinalizeSuccess` or
`FinalizeFailure`. `Crash` ends a worker anywhere. The handlers are one action
that succeeds or throws, with or without the side effect. Time is one bit for
each row, `due`; `Elapse` sets it at any moment, so a worker may be slower than
the claim window. `invoked`, `lost` and `effect` are history variables.

### WebhookDelivery
A fan-out call is `FanOutStart`, then `FanOutCreate` and `FanOutPublish` for each
subscription. `Receive` is the arrival of a job and the compare-and-set; `Load`
reads `attempts`, which all later writes use; `Pause` and `Requeue` are the kill
switch and the rate limit; `Post`, `Accept`, `Record`, `Enqueue` and `Alert` are
the statements of the try block, `Throw` leads from any of them to the catch
block, which is `Record` again, and `Abort` is a crash or an exception the catch
block throws: QStash gets no 200 and tries again. A statement that fails on a
publication may have published. QStash keeps a set of jobs without order; it
forgets a publication whose id it knows, and `Duplicate` delivers a job twice.
The delays of the backoff are left out, so every order of arrival is possible.
`hurt`, `clobbered` and `alarmed` name the attempts at which the guarantees end:
hurt, a fault left the attempt with nobody to carry on; clobbered, a worker
recorded a row that another had claimed since; alarmed, the alert after the
record threw. `Attended` and its neighbours say that nothing else breaks them,
`OnlyFaultsHurt` that duplicated jobs alone never get there.

### PaymentRun
Every procedure is a transaction in three steps. `Read...` loads and validates
without locks; `Write...` stands for its writing statements, takes the row locks
and decides the run status it writes; `Commit` makes the writes visible. A writer
waits (`Waits`) for an open request that holds a row it needs; it does not see
what that one wrote. `removeFromRun` runs as Serializable, so its reads and
writes are one step. The history variable `stale` names the invoices a request
wrote although what it had validated was no longer true; `PaidOnce` and
`StatusTellsRun` speak of the others, and `InvoicePaidOnce` of all. `KeepsOrders`
is the refinement of `OrderedPayments`, in which a run hands out one file, which
never changes, and is paid from it only. Procedures
that write the run's status by id may overwrite a closed run: that is in the
model, since it is in the code.

Data left out: amounts and currencies (each item pays its invoice in full), run
numbers, skonto and withholding, the compliance gate and the ACH payout.

### Deprovisioning
`Start` is the transaction that creates the run with its steps, `PublishFirst`
and `MarkUnpublished` the loop after it. A job is `Receive` (the step is read),
`GiveUp` or `MarkStep`, `CallProvider` or `ProviderThrows`, `SaveStep`,
`ReadSteps` (the derivation) and `WriteRun`; each is one statement, so that two
jobs interleave between any two of them. `Abort` is a crash or a failing
statement, after which QStash tries again; `Timeout` is QStash giving up on a
worker that goes on. Administrators have `RetryRead`, `RetryReset` (the
compare-and-set), `RetryPublish`, `RetryMark` and `OverrideRead`,
`OverrideWrite`, `OverrideCommit`; the override holds the row of its step between
the last two (`Locked`). QStash keeps a set of jobs without order. A publication
whose deduplication id it has seen is dropped or, as it forgets ids after a time,
accepted.

`doubtful` names the steps that had a fault or a late answer, `spent` those of
them for which it may have cost the last delivery, `dropped` those of which QStash
dropped a publication, and `stale` says that the run's status was out of date
when it was last written. The properties say that nothing else does harm: without
these, a retry, an override or a delivery after a transient failure never takes a
success back, exceeds the calls, or leaves a step without an end. `CompletedIsGone`
has no exception.

Left out: provenance rows, cooldown and eligibility, provider toggles,
`finishedAt`, audit rows.

### Approval
A procedure is one READ COMMITTED transaction. `SubmitRead`, `DecideRead`,
`ResumeRead`, `SatisfyRead` and `ArchiveRead` are what it reads and validates;
`SubmitCommit`, `Reject`, `Release` and `ArchiveCommit` what it then writes. An
approval has three steps: `DecideRead`, `ApproveClaim` (the compare-and-set of the
step, after which it holds the rows and reads the compliance items and the
payment status) and `Advance` or `Conclude` (the commit of `advanceFlow`, with
`finalizeApprovedInvoice`). `DecideLost` is the CONFLICT of a lost
compare-and-set, `ApproveRefused` the rollback of a last approval whose invoice is
in a run. Web, bulk and chat decisions run the same statements. A release has three
steps too: `ResumeRead` or `SatisfyRead` (the hold is still there and nothing blocks),
`ReopenRead` (the second read of `resumeApprovalFlowFromCompliance`, which picks the
step to open from whatever the flow is by then) and `Release`, which writes flow and
step by id and checks neither again. So two releases that read one hold may write the
same step twice, or a step that was rejected or cancelled in between; and one that
reads behind the other picks an earlier step. A satisfied item is written before its
flows are looked up, so nobody else satisfies it in the meantime. A release of several
flows reads them all before it writes the first. `VoidInvoice` and
`VoidByApi` differ in the statuses of the flows they cancel. `AddToRun` and
`LeaveRun` are the payment runs as this module sees them: `PaymentRun` has them in
detail.

The history variable `unanswered` counts how often a step was opened less how often
that was decided or cancelled, so a second decision on one opening would show as
-1. A write of PENDING over PENDING is no new opening: its step still takes one
decision. `stale` names the invoices a request wrote on a read that no longer held: two
submissions at once, or the release of a hold that was gone. `StatusTellsFlow`
speaks of the others, all other properties of all. `KeepsOrder` is the refinement
of `SignedInOrder`, in which a flow is a chain of signatures.

Left out: leave requests, clarification requests (they change no status), chain
routing, deadlines, notifications, other statuses of invoices; a deactivation that
reassigns a step that was decided since its plan was made.

### ZatcaChain
A worker is a call of `submitToZatca`, and each await between which others may
commit is a step: `Load`, `Lookup`; `Allocate` and `Record`, which hold the advisory
lock, for a first submission; `Reset` and `Rehash`, which hold none, for a later
one; then the call of ZATCA (`Accept`, `Refuse`, or `Lose` for an answer that does
not come, registered or not) and `Settle`. `Crash` ends a worker anywhere, also in
the transaction; `Edit` corrects an invoice. A hash stands for what was hashed: the
invoice and the version of its content, since counter, previous hash and uuid are
those of the row. ZATCA is external and does what `submitToZatca` relies on: it
answers a uuid it has registered as it did before. `SETTLED` is any of the statuses
an answer that was no refusal is mapped to.

`rehashed` names the rows whose hash became that of another version, `crossed` the
invoices that two workers were submitting at a time. `KeepsRegister` is the
refinement of `NumberedRegister`: invoices enter a register one behind the other
and keep their place, and what ZATCA knows of an invoice is that place. It says
nothing of versions, which is where corrections break the chain of hashes.

### Backpressure
A request is `Claim` (the script), then work, then `Release`; or `Claim` over the
cap, then the DECR of a rejection, which is `Release` as well. `ClaimFails`,
`ReleaseFails` and `Crash` are the faults: a call of Redis that fails may have been
executed. A request whose script failed works without a slot (`Leave`). `Expire`
is Redis alone, whoever is inside. `counted`, `orphans` and `undue` divide the
count into INCRs that will be taken out, INCRs that will not, and DECRs whose INCR
had expired.

## The runs

| Run | Question | Instance |
|---|---|---|
| `outbox` | Does the outbox keep its accounting and its promise, and settle every event? | 3 producers, 2 of one key; 2 events, one of a demo organisation; 2 workers; 2 attempts; 1 crash |
| `webhook` | Is an attempt posted, recorded and finished properly under duplicates, exceptions and crashes? | 1 call, 1 subscription, 2 workers, 2 retries, 2 faults, 1 pause, 1 duplicate |
| `webhook_fan_out` | Do subscriptions and calls leave each other alone? | 2 calls, 2 subscriptions, 1 worker, 2 faults |
| `payment` | Do concurrent requests keep runs, items, files and invoices consistent? | 2 runs, 2 invoices, 2 requests at a time |
| `payment_double` | Does the payment status of an invoice prevent a double payment? No. | 3 runs, 1 request at a time |
| `deprovisioning` | Is COMPLETED backed, are calls capped, does success last, does a quiet run say what its steps say? | 2 steps, 2 jobs at a time, 1 administrator, 2 attempts, 2 retries of QStash, 1 incident |
| `deprovisioning_settle` | Does every step end? | 1 step, 2 incidents |
| `approval` | Do racing deciders, releases and voids keep steps, order and statuses in agreement? | 1 invoice, 2 flows of 2 steps, 2 users, 1 item that expires once |
| `approval_void` | Does a voided invoice stay void? No. | 1 invoice, 1 flow of 1 step, 2 users |
| `zatca` | Is the chain sound, and does it say what ZATCA knows? | 2 invoices, one corrected once, 2 workers, 1 incident |
| `zatca_link` | Does every row hold the hash of its predecessor? No. | 2 invoices, one corrected once, 1 worker, no incident |
| `backpressure` | Is every overload explained, and does a full route open again? | 4 requests, 2 slots, 2 faults |

**Why these bounds.** In the outbox two producers of one key give every order of
conflict, commit and rollback; two workers give every race on a row, and the
claim takes two rows at a time so that one waits while its window runs out; two
attempts have a first, a last and, with one crash, an attempt beyond the last. In
the webhooks two workers and one duplicate give two holders of one attempt; two
faults are needed for an exception inside the catch block; two retries give both
outcomes of `completed >= maxRetries`. `webhook_fan_out` takes the second
subscription and the second call, which need no second worker. In the payment
runs every hazard involves two requests and two runs; a third run is only needed
for the double payment, whose shortest behaviour has one. `PaymentRunMC` gives
TLC the symmetry of runs, invoices and users, which is sound since the
specification treats all of each alike and no liveness property is checked with
it. `Deprovisioning` counts faults, late answers and manual retries together as
incidents: each hazard takes one of them and the races of two jobs, and `settle`
takes two, so that a retry may fail, come twice or meet the job it replaces. Two
steps are the fewest whose derivations differ. MAX_ATTEMPTS equals the number of
QStash's retries in the code (3) and in the instances (2): the last delivery is
the one that finds the attempts used up. `DeprovisioningMC` gives the symmetry of
steps and workers, for safety only. In `approval` the hazards are a second flow of
one invoice, a step before the last, and two users who race or hand a step to each
other; an item that expires once gives a hold, its release, a void between the two, and,
if it is satisfied while the last approval is committing, a hold that two releases
read at once. `ApprovalMC` gives the symmetry of flows, users and items, for safety only. In
`zatca` two invoices are the fewest that have a predecessor, one correction the
fewest that breaks a link, and one incident loses one answer or kills one worker.
In `backpressure` four requests are two more than the cap: with two inside when the
key expires, two more come in; two faults strand both slots.

**Deadlock.** Most instances may stop: producers and fan-out calls are finite and
rows settle, and ids of runs and flows are used up. Hence `CHECK_DEADLOCK FALSE` in
all but `Backpressure.cfg`; that nothing stops too early is what the liveness
properties say.

**Fairness.** In `Outbox`, each worker's steps are weakly fair: QStash polls the
drain every minute and a call that is served makes progress until it crashes;
`Elapse` is weakly fair since time passes. Producers need not commit. In
`WebhookDelivery` the steps of a fan-out call and of a worker are weakly fair, and
so is the delivery of the jobs QStash has accepted. No crash, fault, pause or
duplicate is fair, and all are bounded, so the liveness properties speak of
behaviours with finitely many of them. `Deprovisioning` assumes the same of
its workers, of the administrators' requests once they have begun, and of QStash;
nobody has to retry or to override. In `ZatcaChain` a submission that has begun
goes on (weakly fair), and every row that is PENDING again and again is taken up
again (strongly fair): the reconcile job runs for ever and takes the oldest rows
first. That it takes 100 at a time is left out: with more rows that ZATCA never
answers, younger ones would wait. `Backpressure` assumes of Redis that a key whose
expiry is not set again expires, and of no request that its work ever ends.
`PaymentRun` and `Approval` need no fairness: users owe the system nothing, and all
their properties are safety.

## Where code and documentation differ

Shown by a run:

- `payment_double`. The launch checklist says the payment status of an invoice
  prevents double payments. An exported run may be cancelled, which makes its
  invoices READY; an item of the cancelled run may be marked FAILED later, which
  makes its invoice READY while it is in a second run, and a third run takes it.
- `approval_void`. The testing guide says a voided invoice cannot be re-activated.
  The void of the public API leaves a flow that is held for compliance; it is
  released when the item is satisfied, and the last approval writes
  READY_FOR_PAYMENT over VOID. The void of the application cancels held flows. (The
  archive of a contractor leaves the steps of the flows it cancels PENDING, and
  nothing that decides a step looks at the status of its flow; the contractor is
  not paid, so `VoidIsFinal` leaves him out.)
- `zatca_link`. `zatca-hash-chain.ts` says each invoice references the hash of the
  previous one. A rejected invoice keeps its counter when it is corrected, and its
  hash changes after its successor has recorded it. `Linked` is what holds instead.

Met while modelling, or shown by an earlier run that made room for others:

- `outbox/index.ts` says "max 5 attempts" and "caps the worst case at 5 x 4 = 20
  calls per row". The claim does not look at attempts: after a crash on the last
  attempt the row is claimed again, without limit. `OverrunExplained` is what
  holds instead: each claim beyond the maximum belongs to a worker that crashed or
  is still at work.
- `outbox.prisma` says workers fan out "concurrently without double-processing".
  Only nextAttemptAt hides a claimed row, and a batch may take longer than the
  five minutes; run `outbox` has such behaviours. `AttemptsExclusive` is what holds
  instead.
- `webhook.prisma` says the drain claims rows by status and nextAttemptAt. No code
  does: a row is claimed only by a job that names it, so a row whose job was not
  published stays PENDING. `Attended` is what holds instead.
- `autoCompleteRunIfTerminal` is said to complete a run whose items are all
  terminal. Two requests that settle the last two items do not see each other's,
  and the run stays EXPORTED.
- `recomputeRunStatus` is said to be safe to call concurrently, since "all writes
  converge". Two jobs may read the steps in one order and write in the other: the
  run stays IN_PROGRESS with all steps done. `QuietRunAgrees` holds when the last
  write was not out of date, and `CompletedIsGone` always.
- A manual retry is said to use a new deduplication id. The id is made of attempts
  plus one, and the retry sets attempts to 0, so a second retry repeats it. If
  QStash still knows the id, the step stays PENDING.
- `qstash-backpressure.ts` speaks of a fleet-wide cap. A request that outlives the
  60 seconds of the key is no longer counted, and its DECR creates the key at -1,
  with no expiry until a count passes through 1: until then one more request than
  the cap is let in for each such DECR. `CapExplained` and `LeakGuard` are what
  holds instead.

## What is proved

Every safety property of a passing run is a theorem, and so is the refinement of
each of the four abstract specifications. Some theorems state more than a run
checks: `UnfinishedIsCarried` and `OneWorkerPerStep` of `Deprovisioning`,
`PayStatusMoves` of `PaymentRun`, `PayableIsDecided` of `Approval`,
`DeliveredWasPosted` and `ExactWithoutFaults` of `WebhookDelivery`,
`RefusedWhenFull` of `Backpressure`, `OneFilePerRun` and `RegisteredIsRecorded`.
TLC finds no error in any of them on the instance of their module's run; the
configurations leave them out to keep the runs to what they ask.

The proofs hold for any number of producers, events, workers, runs, invoices,
requests, flows and steps. Each module names what it assumes of its constants.
`OutboxAssumption`, `WebhookAssumption` and `PaymentAssumption` say: the key and the
time of events are functions, limits are natural numbers, the distinguished values
are not elements of the sets, and the sets of subscriptions, runs and requests are
finite (for their cardinalities).

`OutboxProofs` shows all safety properties of run `outbox`, and that calls are
counted before they are made, `DISPATCHED` comes after the effect, and `FAILED`
after the last attempt. The invariant is
`IInv`, four parts of which each is inductive with those before it:
- `TypeOK`;
- `RowInv`: an uncommitted row has exactly one producer that inserted it, workers
  hold visible rows only, and locked rows are PENDING. Needed because a claim must
  not find a row a rollback removes.
- `ClaimInv`: where a worker is says how many rows it has in hand, and attempt
  numbers in hand are distinct and counted. `AttemptsExclusive` alone is not
  inductive: a new claim gets attempts + 1, which is new only because no worker
  holds a number above attempts.
- `OutcomeInv`: a worker that succeeded has its effect, one that threw has its
  call recorded, and claims from the maximum on are explained. It links the
  worker's place to what its finalizer is about to write by id.

`OutboxKeepsPromise` is the refinement: under `IInv` each step of `Outbox` is a
step of `AtLeastOnceDelivery` or leaves its variables alone.

`WebhookDeliveryProofs` shows all safety properties of the runs `webhook` and
`webhook_fan_out`. An attempt that is not clobbered belongs to its holder, the worker
that claimed it last. The invariant is `TypeOK` with
- `HolderInv`: what the holder knows of the row at each of its statements, and what
  the counters of the row are. Any other worker still busy with the row has lost it,
  and what such a worker records clobbers the row. `OneSender`, `PostsBounded`,
  `OneLetterPerDead` and `TerminalIsFinal` follow.
- `FanInv`, `IdsInv`: a row exists before its first job is published, and the ids of
  jobs are made of counters that grow, so QStash drops none that is new.
- `CareInv`, for `Attended`: a row has a job, or a worker that will publish one under
  an id QStash does not know, or a fan-out call about to; a row in SENDING has its
  holder.
- `CalmInv`, for `OnlyFaultsHurt`: without a fault, whoever posts or records holds
  the row. `MissedInv`, for `FanOutIsolated`, counts the faults a call met.

`NoFaultNoHarm` combines them: as long as nothing fails, none of the exceptions
occurs. `DeliveredWasSent` has no exception at all: a worker that records a row it
has lost has posted it itself (`SentInv`).

`PaymentRunProofs` shows all safety properties of run `payment`. `LockInv` says what a request that has written keeps from the
others: the run whose status it writes is written by nobody else, so a request
that is about to hand out a file finds the run DRAFT and without a file at its
commit. `SettleInv` says what a request still knows when others have committed
in between: that the run it pays from was sent with all of its items and never
gets a new one, and that a verdict of COMPLETED or FAILED covers every item that
is to be paid. Both are checked by TLC on the instance of run `payment` as well.
`PaidOnce` and `StatusTellsRun` follow from `PlaceInv`: of an invoice that is not
stale, the payment status says in how many items of active runs it waits and whether
an item is PAID, and its payments are as many as its PAID items. A commit that closes
a run could break it for invoices it does not write; `CloseInv` says that it leaves
none of them to be paid.

`PaymentKeepsOrders` is the refinement of `OrderedPayments`. Only `Commit` changes
its variables: the commit of an export is `Order` because `LockInv` keeps every
other request from the run, and the commit of a payment is `Record` because of
`SettleInv`. `OrderInv` adds that a run without a file has ordered nothing.
`PaymentStatusMoves` says which way the payment status of an invoice goes that is
not stale: from READY into a run, and from there back or to PAID. `Approval` has
exactly these steps as `AddToRun` and `LeaveRun`, so what it assumes of payment
runs is proved, for the invoices that no request wrote on an old read.

`DeprovisioningProofs` shows all safety properties of run `deprovisioning`, for any
number of steps, jobs and administrators, from `DeprovisioningAssumption` (there
is a step, limits are natural numbers, distinguished values are not elements,
workers are not administrators) and `LastDeliveryAssumption` (a job is delivered
again at least `MAX_ATTEMPTS` times; both are 3 in the code). `HandInv` says that whoever is at work has a job
or a step. `GoneInv` says what each status that is about to be written rests on:
a step's success on the provider or an override, a verdict of COMPLETED on all
steps, and the verdict of an open override on all steps but its own. The facts it
rests on only grow, so a verdict that is written late is out of date at worst,
never wrong. `CarrierInv` is about steps no fault has hit: one message, worker,
retry or start carries the step on, none once it has ended (`OneCarrier`), and the
carrier knows its attempts: no delivery has more tries behind it than the row counts
attempts, and a call of the provider is counted before it is made (`Counted`).
`CallsCapped` and `SuccessIsFinal` follow. `QuietInv` adds that after every change
of a step somebody is still to derive the status of the run; an adapter that throws
is delivered again because its attempt was not the last delivery, which is where
`LastDeliveryAssumption` is needed.

`UnfinishedStepsAreCarried` is the safety half of `StepsSettle`: a step that is
PENDING or IN_PROGRESS always has somebody whose turn it is. That a delivery which
fails leaves another behind it is `Counted` with `LastDeliveryAssumption`; without
that assumption it is false. `OneWorkerHasAStep` is the other half of `OneCarrier`:
a step is not reset or counted under the worker that has it in hand.

`ApprovalProofs` shows all four properties of run `approval`, from
`ApprovalAssumption`. `OneDecisionPerOpening` is inductive with `ClaimInv`: a
request that has claimed a step holds its row, the step is PENDING until it commits,
and no two requests hold one flow. The refinement of `SignedInOrder` needs the shape
of a flow: it is `Growing` (the steps before the current one are APPROVED and
signed, those after it not started) or `Complete` (all are signed), however often
its steps are opened again (`ChainInv`); only complete flows are held or about to be
released, and a release has picked at most one step of each (`HoldInv`). `StatusInv` relates invoices to flows: of an invoice that
is not `stale` at most one flow is live, a held flow has no pending step and no flow
has two, and a request that is about to submit the invoice either finds it without
a live flow or makes it `stale`.

`PayableIsSettled` is what a payment run may rely on. An invoice it may take is
READY_FOR_PAYMENT and a whole chain has signed it, also if it was submitted twice;
if no request wrote it on an old read, its flow is APPROVED and stays so. The
inductive part is `PayInv`; that no decision meets such an invoice is `StatusInv`.

`ZatcaChainProofs` shows the safety properties of run `zatca`, from
`ZatcaAssumption`, in four parts. `ChainInv`: the rows are what the recorded
counters are, without gap, so the row with the highest counter is the predecessor
of the next. `WorkInv`: a worker that has allocated holds the lock and has the next
entry of the chain as it is now; one that has looked up a row has its counter and
previous hash, which no step changes. `RegInv`: what is sent or registered has its
row. `AnswerInv`: an `ok` that is not written yet was registered, and a refusal of an
invoice that is in one worker's hands was not. `ChainIsARegister` is the refinement of
`NumberedRegister`, from all four: the recording of a first submission is an entry
behind the last, since the lock keeps the chain as the worker read it.

`BackpressureProofs` shows the safety properties of run `backpressure`, from
`BackpressureAssumption`. `CapExplained` follows from the accounts of the counter: a
request is let in when the count with its own INCR is at most the cap, the requests
the counter knows are at most the count plus `undue`, and both hold whatever expires
or is lost in between. `RefusalsAreDue` is the other side: who is turned away met a
count that others, or slots nobody gives back, had filled.

**Only model-checked**: liveness (`EventuallySettled`, `EventuallyTerminal`,
`StepsSettle`, `EventuallyAnswered`, `RouteReopens`), which the prover does not
treat, as it does nothing that needs ENABLED.

## Not modelled

- **Cron worker**, **notifications**, **idempotency keys**, **provenance rows** of
  deprovisioning: concurrency of their own, next in the plan.
- **Inbound webhooks, billing, e-invoice lifecycle, e-signature, leave balances,
  provider synchronisation**: each stores what a provider says by a unique key or an
  upsert, and what can go wrong depends on the provider; after those above.
- **Rules, bank files, front ends, generated client and seed data**: arithmetic and
  tables without a second description to check them against, formatting, user
  interface, and code that is not written by hand. They are most of the lines of the
  repository.

## Plan

Done, in this order: outbox, webhooks, payment runs, deprovisioning, approval, the
Saudi chain, backpressure. Next:

1. Provenance rows and the webhook filter in `Deprovisioning`.
2. `CronRunner`: guard, lock, timeout, run state. One tick at a time while no
   handler was abandoned; what the run state may claim.
3. `Approval` composed with `PaymentRun` by the invoices it makes READY, in the
   place of `AddToRun` and `LeaveRun`.
4. `Notification`, called by the handlers of `Outbox`; `Idempotency`.
5. With each of these, its abstract specification and the proofs of its safety
   properties, as for the modules there are.

Runs for these stay at two or three processes, one crash and one duplicate each:
the hazards listed for them need no more.
