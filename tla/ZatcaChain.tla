----------------------------- MODULE ZatcaChain -----------------------------
(***************************************************************************)
(* The Saudi e-invoicing chain of one organization: packages/api/src/      *)
(* services/zatca-hash-chain.ts and zatca-submission.ts, with the QStash   *)
(* route apps/api/src/routes/zatca.ts and the reconcile job of the cron    *)
(* worker, which all call submitToZatca.                                   *)
(*                                                                         *)
(* A worker submits one invoice.  Every await of submitToZatca between     *)
(* which another worker may commit is a step: it loads the invoice, looks  *)
(* for its chain row, allocates and records a new one under the advisory   *)
(* lock or takes up the old one, calls ZATCA, and writes the answer.       *)
(*                                                                         *)
(* The hash of an invoice stands for its content and for the counter, the  *)
(* previous hash and the uuid of its row, which are fixed with the row; it *)
(* is the pair of the invoice and a version of its content.  The uuid is   *)
(* the row's.  ZATCA is external: as submitToZatca relies on, it answers a *)
(* uuid it has registered as it did before.  Left out: the two kinds of    *)
(* submission (clearance and reporting), signing, secrets, demo            *)
(* organizations and regions.                                              *)
(***************************************************************************)
EXTENDS Integers

CONSTANTS
  Invoices,    \* approved invoices of the organization
  Workers,     \* running submissions: QStash jobs and the reconcile job
  NoInvoice,   \* the predecessor of the first invoice, and an idle worker's
  NoWorker,    \* the advisory lock is free
  Editable,    \* bound: the invoices of which what they say changes
  MaxEdits,    \* bound: how often it changes
  MaxIncidents \* bound: crashes, rolled back transactions and lost answers

ASSUME ZatcaAssumption ==
  /\ NoInvoice \notin Invoices
  /\ NoWorker \notin Workers
  /\ MaxEdits \in Nat /\ MaxIncidents \in Nat

VARIABLES
  content,    \* version of the invoice and of its contractor's name
  icv,        \* ZatcaInvoiceChain.icv, 0 for no row
  hash,       \* ZatcaInvoiceChain.invoiceHash: the version it is the hash of
  prev,       \* ZatcaInvoiceChain.previousHash
  status,     \* ZatcaInvoiceChain.zatcaStatus
  lock,       \* holder of the advisory lock of the organization
  pc, job, version, coords, answer, \* of each worker
  registered, \* at ZATCA: what it cleared under the uuid of the row
  incidents,
  rehashed,   \* history: rows whose hash became that of another version
  crossed     \* history: invoices two workers were submitting at a time

rowVars == <<icv, hash, prev, status>>
workVars == <<pc, job, version, coords, answer>>
vars == <<content, rowVars, lock, workVars, registered, incidents, rehashed, crossed>>

Versions == 0..MaxEdits
Link(i, v) == [invoice |-> i, version |-> v]
Links == [invoice : Invoices \cup {NoInvoice}, version : Versions]
Genesis == Link(NoInvoice, 0)  \* SHA-256 of "0"

Coords(n, p) == [icv |-> n, prev |-> p]
NoCoords == Coords(0, Genesis)
Registration == [icv : Nat, prev : Links, version : Versions]
Nothing == [icv |-> 0, prev |-> Genesis, version |-> 0]

TypeOK ==
  /\ content \in [Invoices -> Versions]
  /\ icv \in [Invoices -> Nat]
  /\ hash \in [Invoices -> Versions]
  /\ prev \in [Invoices -> Links]
  /\ status \in [Invoices -> {"NONE", "PENDING", "SETTLED", "REJECTED"}]
  /\ lock \in Workers \cup {NoWorker}
  /\ pc \in [Workers -> {"idle", "loaded", "first", "numbered", "reset",
                         "again", "ready", "answered"}]
  /\ job \in [Workers -> Invoices \cup {NoInvoice}]
  /\ version \in [Workers -> Versions]
  /\ coords \in [Workers -> [icv : Nat, prev : Links]]
  /\ answer \in [Workers -> {"none", "ok", "refused"}]
  /\ registered \in [Invoices -> Registration]
  /\ incidents \in Nat
  /\ rehashed \subseteq Invoices
  /\ crossed \subseteq Invoices

Init ==
  /\ content = [i \in Invoices |-> 0]
  /\ icv = [i \in Invoices |-> 0]
  /\ hash = [i \in Invoices |-> 0]
  /\ prev = [i \in Invoices |-> Genesis]
  /\ status = [i \in Invoices |-> "NONE"]
  /\ lock = NoWorker
  /\ pc = [w \in Workers |-> "idle"]
  /\ job = [w \in Workers |-> NoInvoice]
  /\ version = [w \in Workers |-> 0]
  /\ coords = [w \in Workers |-> NoCoords]
  /\ answer = [w \in Workers |-> "none"]
  /\ registered = [i \in Invoices |-> Nothing]
  /\ incidents = 0
  /\ rehashed = {}
  /\ crossed = {}
-----------------------------------------------------------------------------
(* Taking up an invoice. *)

Stop(w) ==
  /\ pc' = [pc EXCEPT ![w] = "idle"]
  /\ job' = [job EXCEPT ![w] = NoInvoice]
  /\ version' = [version EXCEPT ![w] = 0]
  /\ coords' = [coords EXCEPT ![w] = NoCoords]
  /\ answer' = [answer EXCEPT ![w] = "none"]

Goto(w, label) == pc' = [pc EXCEPT ![w] = label]

\* A job, a retry of it, a resubmission or the reconcile job: the route and the
\* reconcile job pass over settled rows.
Load(w, i) ==
  /\ pc[w] = "idle"
  /\ status[i] # "SETTLED"
  /\ Goto(w, "loaded")
  /\ job' = [job EXCEPT ![w] = i]
  /\ version' = [version EXCEPT ![w] = content[i]]
  /\ crossed' = IF \E v \in Workers : job[v] = i THEN crossed \cup {i} ELSE crossed
  /\ UNCHANGED <<content, rowVars, lock, coords, answer, registered, incidents, rehashed>>

\* Mutant: a row that is PENDING is taken for settled.
Found_SkipsPending(i) ==
  CASE status[i] = "NONE"     -> "first"
    [] status[i] = "REJECTED" -> "reset"
    [] OTHER                  -> "idle"

\* Where the chain row of invoice i sends a worker.
Found(i) ==
  CASE status[i] = "NONE"     -> "first"
    [] status[i] = "PENDING"  -> "again"
    [] status[i] = "REJECTED" -> "reset"
    [] status[i] = "SETTLED"  -> "idle"

\* The rows with the highest counter: one, or none in an empty chain.
Last == {i \in Invoices : icv[i] > 0 /\ \A j \in Invoices : icv[j] <= icv[i]}

\* Mutant: the next entry repeats the predecessor of the last one.
NextEntry_SameLink ==
  IF Last = {} THEN Coords(1, Genesis)
  ELSE LET i == CHOOSE i \in Last : TRUE IN Coords(icv[i] + 1, prev[i])

NextEntry ==
  IF Last = {} THEN Coords(1, Genesis)
  ELSE LET i == CHOOSE i \in Last : TRUE IN Coords(icv[i] + 1, Link(i, hash[i]))

\* Mutant: a row that is taken up gets the next counter of the chain.
RowCoords_Renumbered(i) == NextEntry

RowCoords(i) == Coords(icv[i], prev[i])

\* The chain row is looked up, before any lock.
Lookup(w) ==
  /\ pc[w] = "loaded"
  /\ LET i == job[w] IN
       IF Found(i) = "idle"
       THEN Stop(w)
       ELSE /\ Goto(w, Found(i))
            /\ coords' = [coords EXCEPT ![w] = IF Found(i) = "first" THEN NoCoords ELSE RowCoords(i)]
            /\ UNCHANGED <<job, version, answer>>
  /\ UNCHANGED <<content, rowVars, lock, registered, incidents, rehashed, crossed>>
-----------------------------------------------------------------------------
(* The first submission: one transaction, under the advisory lock. *)

Allocate(w) ==
  /\ pc[w] = "first"
  /\ lock = NoWorker
  /\ lock' = w
  /\ coords' = [coords EXCEPT ![w] = NextEntry]
  /\ Goto(w, "numbered")
  /\ UNCHANGED <<content, rowVars, job, version, answer, registered, incidents, rehashed, crossed>>

\* The unique keys: one row per invoice and one per counter.
Insertable(i, n) == status[i] = "NONE" /\ \A j \in Invoices : icv[j] # n

Record(w) ==
  /\ pc[w] = "numbered"
  /\ lock' = NoWorker
  /\ LET i == job[w] IN
       IF Insertable(i, coords[w].icv)
       THEN /\ icv' = [icv EXCEPT ![i] = coords[w].icv]
            /\ prev' = [prev EXCEPT ![i] = coords[w].prev]
            /\ hash' = [hash EXCEPT ![i] = version[w]]
            /\ status' = [status EXCEPT ![i] = "PENDING"]
            /\ Goto(w, "ready")
            /\ UNCHANGED <<job, version, coords, answer>>
       ELSE Stop(w) /\ UNCHANGED rowVars
  /\ UNCHANGED <<content, registered, incidents, rehashed, crossed>>
-----------------------------------------------------------------------------
(* A later submission: two updates of the row by id, under no lock. *)

Reset(w) ==
  /\ pc[w] = "reset"
  /\ status' = [status EXCEPT ![job[w]] = "PENDING"]
  /\ Goto(w, "again")
  /\ UNCHANGED <<content, icv, hash, prev, lock, job, version, coords, answer, registered,
                 incidents, rehashed, crossed>>

Rehash(w) ==
  /\ pc[w] = "again"
  /\ hash' = [hash EXCEPT ![job[w]] = version[w]]
  /\ rehashed' = IF hash[job[w]] = version[w] THEN rehashed ELSE rehashed \cup {job[w]}
  /\ Goto(w, "ready")
  /\ UNCHANGED <<content, icv, prev, status, lock, job, version, coords, answer, registered,
                 incidents, crossed>>
-----------------------------------------------------------------------------
(* ZATCA answers, and the answer is written by id. *)

\* Of what was sent the worker needs nothing more.
Answer(w, a) ==
  /\ Goto(w, "answered")
  /\ answer' = [answer EXCEPT ![w] = a]
  /\ version' = [version EXCEPT ![w] = 0]
  /\ coords' = [coords EXCEPT ![w] = NoCoords]
  /\ UNCHANGED job

Register(w) ==
  registered' = [registered EXCEPT ![job[w]] =
    IF @ = Nothing
    THEN [icv |-> coords[w].icv, prev |-> coords[w].prev, version |-> version[w]] ELSE @]

Accept(w) ==
  /\ pc[w] = "ready"
  /\ Register(w)
  /\ Answer(w, "ok")
  /\ UNCHANGED <<content, rowVars, lock, incidents, rehashed, crossed>>

\* A 4xx for the content, or the status REJECTED.
Refuse(w) ==
  /\ pc[w] = "ready"
  /\ registered[job[w]] = Nothing
  /\ Answer(w, "refused")
  /\ UNCHANGED <<content, rowVars, lock, registered, incidents, rehashed, crossed>>

\* No connection, a timeout, a 5xx, or failed authentication: ZATCA may have
\* registered the invoice.
Lose(w) ==
  /\ pc[w] = "ready"
  /\ incidents < MaxIncidents
  /\ incidents' = incidents + 1
  /\ Register(w) \/ UNCHANGED registered
  /\ Answer(w, "none")
  /\ UNCHANGED <<content, rowVars, lock, rehashed, crossed>>

\* Mutant: an answer that did not come is a rejection.
Outcome_Brands(w) == IF answer[w] = "ok" THEN "SETTLED" ELSE "REJECTED"

\* Mutant: the word of ZATCA is written as it comes, unmapped.
Outcome_Unmapped(w) == IF answer[w] = "none" THEN status[job[w]] ELSE answer[w]

\* What submitAndSettle writes: nothing when the answer was lost.
Outcome(w) ==
  CASE answer[w] = "ok"      -> "SETTLED"
    [] answer[w] = "refused" -> "REJECTED"
    [] answer[w] = "none"    -> status[job[w]]

Settle(w) ==
  /\ pc[w] = "answered"
  /\ status' = [status EXCEPT ![job[w]] = Outcome(w)]
  /\ Stop(w)
  /\ UNCHANGED <<content, icv, hash, prev, lock, registered, incidents, rehashed, crossed>>
-----------------------------------------------------------------------------
\* The worker dies, or its transaction times out; the lock goes with it.
Crash(w) ==
  /\ pc[w] # "idle"
  /\ incidents < MaxIncidents
  /\ incidents' = incidents + 1
  /\ lock' = IF lock = w THEN NoWorker ELSE lock
  /\ Stop(w)
  /\ UNCHANGED <<content, rowVars, registered, rehashed, crossed>>

\* The invoice is corrected, or its contractor gets another name.
Edit(i) ==
  /\ i \in Editable /\ content[i] < MaxEdits
  /\ content' = [content EXCEPT ![i] = @ + 1]
  /\ UNCHANGED <<rowVars, lock, workVars, registered, incidents, rehashed, crossed>>

Submit(w) ==
  \/ Lookup(w)
  \/ Allocate(w)
  \/ Record(w)
  \/ Reset(w)
  \/ Rehash(w)
  \/ Accept(w)
  \/ Refuse(w)
  \/ Settle(w)

Next ==
  \/ \E w \in Workers : Submit(w) \/ Lose(w) \/ Crash(w)
  \/ \E w \in Workers, i \in Invoices : Load(w, i)
  \/ \E i \in Invoices : Edit(i)

Spec == Init /\ [][Next]_vars

\* A worker that has started goes on, and the reconcile job takes up every row
\* that stays PENDING: it runs again and again and takes the oldest first.
FairSpec ==
  /\ Spec
  /\ \A w \in Workers : WF_vars(Submit(w))
  /\ \A i \in Invoices : SF_vars(status[i] = "PENDING" /\ \E w \in Workers : Load(w, i))
-----------------------------------------------------------------------------
(* Properties. *)

InChain == {i \in Invoices : icv[i] > 0}

\* The counters of the chain are 1, 2, 3 ... without a gap and each used once,
\* and every row points at the one before it and at the hash that row has,
\* whatever submissions, crashes and rolled back transactions there were.  A row
\* whose hash a resubmission has changed may be pointed at by its old one.
Linked ==
  \A i \in InChain :
     /\ \A j \in InChain : icv[i] = icv[j] => i = j
     /\ icv[i] = 1 => prev[i] = Genesis
     /\ icv[i] > 1 => \E j \in InChain :
           /\ icv[j] = icv[i] - 1 /\ prev[i].invoice = j
           /\ prev[i].version = hash[j] \/ j \in rehashed

\* What ZATCA registered is in the chain, at the counter and behind the hash it
\* was registered with: nothing is sent before its row is recorded, a row keeps
\* its place however often it is sent, and no two invoices are registered at one
\* place.
RegisteredIsRecorded ==
  \A i \in Invoices : registered[i] # Nothing =>
     /\ icv[i] = registered[i].icv /\ prev[i] = registered[i].prev
     /\ \A j \in Invoices : registered[j].icv = registered[i].icv => i = j

\* Whatever workers race or die, the chain is a register: a new row stands behind
\* the last one and no row ever moves, ZATCA learns the place of a row once, and
\* a row is settled only after ZATCA has learnt it.
Promise == INSTANCE NumberedRegister
             WITH number <- icv, link <- prev, reported <- registered,
                  settled <- {i \in Invoices : status[i] = "SETTLED"}
KeepsRegister == Promise!Spec

\* An invoice the chain calls settled is one ZATCA registered, and one it calls
\* rejected is not, although answers get lost.  Two submissions of one invoice
\* at a time may write their answers in the wrong order.
StatusTellsZatca ==
  \A i \in Invoices :
     /\ status[i] = "SETTLED" => registered[i] # Nothing
     /\ status[i] = "REJECTED" /\ i \notin crossed => registered[i] = Nothing

\* No row stays PENDING: not after a crash, and not after an answer that was lost.
EventuallyAnswered ==
  \A i \in Invoices : status[i] = "PENDING" ~> status[i] # "PENDING"

\* zatca-hash-chain.ts:6: "Each invoice references the hash of the previous
\* invoice".
EveryLinkHolds ==
  \A i, j \in InChain : icv[j] = icv[i] - 1 => prev[i] = Link(j, hash[j])
=============================================================================
