------------------------------- MODULE Outbox -------------------------------
(***************************************************************************)
(* The transactional outbox of packages/api/src/services/outbox/index.ts.  *)
(*                                                                         *)
(* A producer inserts an OutboxEvent row inside the transaction of its     *)
(* business write.  Drain workers (one per POST /outbox/_drain) claim due  *)
(* rows in a short transaction, call the handler of each claimed row with  *)
(* no transaction open, and finalize the row in a transaction of its own.  *)
(* Nothing but nextAttemptAt keeps a second worker away from a claimed     *)
(* row, and both finalizers update the row by id alone.                    *)
(*                                                                         *)
(* Time is abstracted to one bit per row, due: whether nextAttemptAt is in *)
(* the past.  A worker may be slower than any claim window.                *)
(***************************************************************************)
EXTENDS Integers, FiniteSets

CONSTANTS
  Producers,     \* transactions that enqueue an event
  Events,        \* (organizationId, dedupKey) of the OutboxEvent rows
  KeyOf,         \* the event a producer enqueues
  DemoEvents,    \* events of demo organisations
  CreatedAt,     \* createdAt (transaction start) of the row of an event
  Workers,       \* concurrent drain calls
  NoWorker,      \* the lock value of an unlocked row
  MaxAttempts,   \* MAX_OUTBOX_ATTEMPTS
  BatchLimit,    \* DRAIN_BATCH_LIMIT
  MaxCrashes     \* bound of the model: worker crashes in a behaviour

ASSUME OutboxAssumption ==
  /\ KeyOf \in [Producers -> Events]
  /\ DemoEvents \subseteq Events
  /\ CreatedAt \in [Events -> Nat]
  /\ NoWorker \notin Workers
  /\ MaxAttempts \in Nat \ {0}
  /\ BatchLimit \in Nat \ {0}
  /\ MaxCrashes \in Nat

VARIABLES
  ptx,        \* state of each producer's transaction
  status,     \* OutboxEvent.status, with "ABSENT" and "UNCOMMITTED" for no visible row
  attempts,   \* OutboxEvent.attempts
  due,        \* nextAttemptAt <= NOW()
  lock,       \* the claim transaction that holds FOR UPDATE on the row
  pc,         \* where each worker is
  batch,      \* claimed rows a worker has still to dispatch
  called,     \* the claimed row a worker has dispatched and not finalized
  crashes,    \* number of crashes so far
  invoked,    \* history: attempt numbers with which the handler was called
  lost,       \* history: attempt numbers a crashed worker never finalized
  effect      \* history: events whose side effect has happened

rowVars == <<status, attempts, due>>
history == <<invoked, lost, effect>>
vars == <<ptx, status, attempts, due, lock, pc, batch, called, crashes,
          invoked, lost, effect>>

Settled == {"DISPATCHED", "FAILED"}
Visible == {"PENDING"} \cup Settled
Claims == [id : Events, n : Nat]

TypeOK ==
  /\ ptx \in [Producers -> {"idle", "inserted", "deduped", "committed", "aborted"}]
  /\ status \in [Events -> {"ABSENT", "UNCOMMITTED"} \cup Visible]
  /\ attempts \in [Events -> Nat]
  /\ due \in [Events -> BOOLEAN]
  /\ lock \in [Events -> Workers \cup {NoWorker}]
  /\ pc \in [Workers -> {"idle", "claiming", "draining", "succeeded", "threw"}]
  /\ batch \in [Workers -> SUBSET Claims]
  /\ called \in [Workers -> SUBSET Claims]
  /\ crashes \in 0 .. MaxCrashes
  /\ invoked \in [Events -> SUBSET Nat]
  /\ lost \in [Events -> SUBSET Nat]
  /\ effect \subseteq Events

Init ==
  /\ ptx = [p \in Producers |-> "idle"]
  /\ status = [e \in Events |-> "ABSENT"]
  /\ attempts = [e \in Events |-> 0]
  /\ due = [e \in Events |-> FALSE]
  /\ lock = [e \in Events |-> NoWorker]
  /\ pc = [w \in Workers |-> "idle"]
  /\ batch = [w \in Workers |-> {}]
  /\ called = [w \in Workers |-> {}]
  /\ crashes = 0
  /\ invoked = [e \in Events |-> {}]
  /\ lost = [e \in Events |-> {}]
  /\ effect = {}
-----------------------------------------------------------------------------
(* Producers. *)

\* Mutant: a lookup that takes another transaction's uncommitted row for a
\* duplicate and does not wait for its outcome.
Enqueue_NoWait(p) ==
  LET e == KeyOf[p] IN
  /\ ptx[p] = "idle"
  /\ ptx' = [ptx EXCEPT ![p] = IF status[e] = "ABSENT" THEN "inserted" ELSE "deduped"]
  /\ status' = IF status[e] = "ABSENT"
               THEN [status EXCEPT ![e] = "UNCOMMITTED"] ELSE status
  /\ UNCHANGED <<attempts, due, lock, pc, batch, called, crashes, history>>

\* INSERT ... ON CONFLICT DO NOTHING inside the producer's transaction.  A
\* conflict with a row another open transaction inserted waits for the outcome
\* of that transaction, so the producer is disabled while it is uncommitted.
Enqueue(p) ==
  LET e == KeyOf[p] IN
  /\ ptx[p] = "idle"
  /\ \/ /\ status[e] = "ABSENT"
        /\ ptx' = [ptx EXCEPT ![p] = "inserted"]
        /\ status' = [status EXCEPT ![e] = "UNCOMMITTED"]
     \/ /\ status[e] \in Visible
        /\ ptx' = [ptx EXCEPT ![p] = "deduped"]
        /\ UNCHANGED status
  /\ UNCHANGED <<attempts, due, lock, pc, batch, called, crashes, history>>

\* The business write and the row become visible together: PENDING, no
\* attempts, nextAttemptAt = NOW().
Commit(p) ==
  /\ ptx[p] \in {"inserted", "deduped"}
  /\ ptx' = [ptx EXCEPT ![p] = "committed"]
  /\ IF ptx[p] = "inserted"
     THEN /\ status' = [status EXCEPT ![KeyOf[p]] = "PENDING"]
          /\ due' = [due EXCEPT ![KeyOf[p]] = TRUE]
     ELSE UNCHANGED <<status, due>>
  /\ UNCHANGED <<attempts, lock, pc, batch, called, crashes, history>>

Rollback(p) ==
  /\ ptx[p] \in {"inserted", "deduped"}
  /\ ptx' = [ptx EXCEPT ![p] = "aborted"]
  /\ status' = IF ptx[p] = "inserted"
               THEN [status EXCEPT ![KeyOf[p]] = "ABSENT"] ELSE status
  /\ UNCHANGED <<attempts, due, lock, pc, batch, called, crashes, history>>
-----------------------------------------------------------------------------
(* Drain workers. *)

\* Mutant: the claim query also asks for attempts below the maximum.
Claimable_Capped ==
  {e \in Events : /\ status[e] = "PENDING" /\ due[e] /\ lock[e] = NoWorker
                  /\ attempts[e] < MaxAttempts}

Claimable == {e \in Events : status[e] = "PENDING" /\ due[e] /\ lock[e] = NoWorker}

\* ORDER BY createdAt LIMIT: as many rows as the limit allows, oldest first.
OldestOf(S) ==
  {T \in SUBSET S :
     /\ Cardinality(T) = IF Cardinality(S) < BatchLimit THEN Cardinality(S)
                                                        ELSE BatchLimit
     /\ \A e \in T, f \in S \ T : CreatedAt[e] <= CreatedAt[f]}

\* SELECT ... FOR UPDATE SKIP LOCKED: rows another claim holds are skipped.
ClaimSelect(w) ==
  /\ pc[w] = "idle"
  /\ Claimable # {}
  /\ \E T \in OldestOf(Claimable) :
       lock' = [e \in Events |-> IF e \in T THEN w ELSE lock[e]]
  /\ pc' = [pc EXCEPT ![w] = "claiming"]
  /\ UNCHANGED <<ptx, rowVars, batch, called, crashes, history>>

\* Mutants: the claim does not bump attempts, or bumps it the wrong way.
ClaimCommit_NoBump(w) ==
  LET mine == {e \in Events : lock[e] = w} IN
  /\ pc[w] = "claiming"
  /\ due' = [e \in Events |-> IF e \in mine THEN FALSE ELSE due[e]]
  /\ lock' = [e \in Events |-> IF e \in mine THEN NoWorker ELSE lock[e]]
  /\ batch' = [batch EXCEPT ![w] = {[id |-> e, n |-> attempts[e] + 1] : e \in mine}]
  /\ pc' = [pc EXCEPT ![w] = "draining"]
  /\ UNCHANGED <<ptx, status, attempts, called, crashes, history>>

ClaimCommit_Down(w) ==
  LET mine == {e \in Events : lock[e] = w} IN
  /\ pc[w] = "claiming"
  /\ attempts' = [e \in Events |-> IF e \in mine THEN attempts[e] - 1 ELSE attempts[e]]
  /\ lock' = [e \in Events |-> IF e \in mine THEN NoWorker ELSE lock[e]]
  /\ pc' = [pc EXCEPT ![w] = "draining"]
  /\ UNCHANGED <<ptx, status, due, batch, called, crashes, history>>

\* The UPDATE that bumps attempts and pushes nextAttemptAt out by the claim
\* window, and the commit that releases the locks.
ClaimCommit(w) ==
  LET mine == {e \in Events : lock[e] = w} IN
  /\ pc[w] = "claiming"
  /\ attempts' = [e \in Events |-> IF e \in mine THEN attempts[e] + 1 ELSE attempts[e]]
  /\ due' = [e \in Events |-> IF e \in mine THEN FALSE ELSE due[e]]
  /\ lock' = [e \in Events |-> IF e \in mine THEN NoWorker ELSE lock[e]]
  /\ batch' = [batch EXCEPT ![w] = {[id |-> e, n |-> attempts[e] + 1] : e \in mine}]
  /\ pc' = [pc EXCEPT ![w] = "draining"]
  /\ UNCHANGED <<ptx, status, called, crashes, history>>

\* The loop over the batch takes the claimed rows in the order of the SELECT.
IsNext(w, c) ==
  /\ c \in batch[w]
  /\ \A d \in batch[w] : CreatedAt[c.id] <= CreatedAt[d.id]

\* A demo organisation's event is finalized without calling its handler.
SkipDemo(w) ==
  /\ pc[w] = "draining"
  /\ \E c \in batch[w] :
       /\ IsNext(w, c)
       /\ c.id \in DemoEvents
       /\ called' = [called EXCEPT ![w] = {c}]
       /\ batch' = [batch EXCEPT ![w] = @ \ {c}]
  /\ pc' = [pc EXCEPT ![w] = "succeeded"]
  /\ UNCHANGED <<ptx, rowVars, lock, crashes, history>>

\* The handler returns with the side effect done, or throws: a handler that
\* throws may have done it already.
Dispatch(w) ==
  /\ pc[w] = "draining"
  /\ \E c \in batch[w] :
       /\ IsNext(w, c)
       /\ c.id \notin DemoEvents
       /\ called' = [called EXCEPT ![w] = {c}]
       /\ batch' = [batch EXCEPT ![w] = @ \ {c}]
       /\ invoked' = [invoked EXCEPT ![c.id] = @ \cup {c.n}]
       /\ \/ /\ pc' = [pc EXCEPT ![w] = "succeeded"]
             /\ effect' = effect \cup {c.id}
          \/ /\ pc' = [pc EXCEPT ![w] = "threw"]
             /\ effect' \in {effect, effect \cup {c.id}}
  /\ UNCHANGED <<ptx, rowVars, lock, crashes, lost>>

\* The loop goes on with the next row of the batch, or the drain call returns.
NextRow(w) ==
  /\ called' = [called EXCEPT ![w] = {}]
  /\ pc' = [pc EXCEPT ![w] = IF batch[w] = {} THEN "idle" ELSE "draining"]

\* UPDATE ... WHERE id: it waits for a claim that holds the row, and looks
\* neither at the status nor at the attempt it finds there.
FinalizeSuccess(w) ==
  /\ pc[w] = "succeeded"
  /\ \E c \in called[w] :
       /\ lock[c.id] = NoWorker
       /\ status' = [status EXCEPT ![c.id] = "DISPATCHED"]
  /\ NextRow(w)
  /\ UNCHANGED <<ptx, attempts, due, lock, batch, crashes, history>>

\* Mutants of FailRow: one attempt too late, and the status rewritten with every
\* retry.
FailRow_Late(c) ==
  /\ status' = IF c.n > MaxAttempts
               THEN [status EXCEPT ![c.id] = "FAILED"] ELSE status
  /\ due' = [due EXCEPT ![c.id] = FALSE]
  /\ UNCHANGED attempts

FailRow_Reopens(c) ==
  /\ status' = [status EXCEPT ![c.id] = IF c.n >= MaxAttempts THEN "FAILED" ELSE "PENDING"]
  /\ due' = [due EXCEPT ![c.id] = FALSE]
  /\ UNCHANGED attempts

\* The last attempt marks the row FAILED, an earlier one only pushes
\* nextAttemptAt out by the backoff.
FailRow(c) ==
  /\ status' = IF c.n >= MaxAttempts
               THEN [status EXCEPT ![c.id] = "FAILED"] ELSE status
  /\ due' = IF c.n >= MaxAttempts THEN due ELSE [due EXCEPT ![c.id] = FALSE]
  /\ UNCHANGED attempts

FinalizeFailure(w) ==
  /\ pc[w] = "threw"
  /\ \E c \in called[w] : lock[c.id] = NoWorker /\ FailRow(c)
  /\ NextRow(w)
  /\ UNCHANGED <<ptx, lock, batch, crashes, history>>

\* The rows a worker has claimed and not finalized.
Holding(w) == batch[w] \cup called[w]

\* The process dies, or one of its statements fails and the rest of the batch
\* is abandoned with the drain call.  An open claim transaction rolls back.
Crash(w) ==
  /\ crashes < MaxCrashes
  /\ pc[w] # "idle"
  /\ crashes' = crashes + 1
  /\ lost' = [e \in Events |-> lost[e] \cup {c.n : c \in {d \in Holding(w) : d.id = e}}]
  /\ lock' = [e \in Events |-> IF lock[e] = w THEN NoWorker ELSE lock[e]]
  /\ batch' = [batch EXCEPT ![w] = {}]
  /\ called' = [called EXCEPT ![w] = {}]
  /\ pc' = [pc EXCEPT ![w] = "idle"]
  /\ UNCHANGED <<ptx, rowVars, invoked, effect>>

\* A claim window or a backoff runs out.
Elapse(e) ==
  /\ status[e] = "PENDING"
  /\ ~due[e]
  /\ due' = [due EXCEPT ![e] = TRUE]
  /\ UNCHANGED <<ptx, status, attempts, lock, pc, batch, called, crashes, history>>
-----------------------------------------------------------------------------
WorkerStep(w) ==
  \/ ClaimSelect(w) \/ ClaimCommit(w) \/ SkipDemo(w) \/ Dispatch(w)
  \/ FinalizeSuccess(w) \/ FinalizeFailure(w)

Next ==
  \/ \E p \in Producers : Enqueue(p) \/ Commit(p) \/ Rollback(p)
  \/ \E w \in Workers : WorkerStep(w) \/ Crash(w)
  \/ \E e \in Events : Elapse(e)

Spec == Init /\ [][Next]_vars

\* The drain is polled every minute and every call makes progress until it
\* crashes; time passes.  No producer has to commit.
FairSpec ==
  /\ Spec
  /\ \A w \in Workers : WF_vars(WorkerStep(w))
  /\ \A e \in Events : WF_vars(Elapse(e))
-----------------------------------------------------------------------------
(* Safety. *)

\* "The side effect is durably scheduled iff the triggering business write
\* commits": a row is visible exactly when some producer of its key committed,
\* also when the producer whose INSERT won the conflict rolled back.
ScheduledIffCommitted ==
  \A e \in Events :
     (status[e] \in Visible) <=> (\E p \in Producers : KeyOf[p] = e /\ ptx[p] = "committed")

\* The claim is the unit of accounting: no two workers ever hold the same
\* attempt of the same event, and an attempt that is still in a batch has not
\* been handed to the handler before.  Holds although the claim window of a row
\* may expire while a slow worker has not reached it.
AttemptsExclusive ==
  /\ \A v, w \in Workers : v # w => Holding(v) \cap Holding(w) = {}
  /\ \A w \in Workers : \A c \in batch[w] : c.n \notin invoked[c.id]

\* Every handler call was paid for with an attempt of the row before it was
\* made, so a crash after the call can not make it free.
CallsAreCounted ==
  \A e \in Events : invoked[e] \subseteq 1 .. attempts[e]

\* At-least-once: a row is never marked DISPATCHED before its side effect has
\* happened, whichever worker's finalizer wrote the mark.
DispatchedOnlyAfterEffect ==
  \A e \in Events \ DemoEvents : status[e] = "DISPATCHED" => e \in effect

\* A row is given up only after the handler was called with its last attempt.
FailedOnlyAfterLastAttempt ==
  \A e \in Events : status[e] = "FAILED" => \E n \in invoked[e] : n >= MaxAttempts

\* The claim query does not look at attempts, so a row may be claimed beyond
\* MAX_OUTBOX_ATTEMPTS; while the row is PENDING each such claim, and the last
\* regular one, belongs to a worker that crashed or is still at work on it.
OverrunExplained ==
  \A e \in Events : status[e] = "PENDING" =>
     \A n \in MaxAttempts .. attempts[e] :
        \/ n \in lost[e]
        \/ \E w \in Workers : [id |-> e, n |-> n] \in Holding(w)
-----------------------------------------------------------------------------
(* The outbox keeps the promise of AtLeastOnceDelivery. *)

StageOf(e) == CASE status[e] = "PENDING" -> "scheduled"
                [] status[e] = "DISPATCHED" -> "dispatched"
                [] status[e] = "FAILED" -> "failed"
                [] OTHER -> "unscheduled"

Promise == INSTANCE AtLeastOnceDelivery
             WITH Exempt <- DemoEvents,
                  stage <- [e \in Events |-> StageOf(e)],
                  delivered <- effect

\* Every step of the outbox is a step the promise allows: settled rows stay
\* settled, no effect of an unscheduled or a demo event, DISPATCHED only after
\* a delivery.
KeepsPromise == Promise!SafetySpec

\* A committed event is dispatched or failed at some point, for any finite
\* number of worker crashes.
EventuallySettled == Promise!EventuallySettled
=============================================================================
