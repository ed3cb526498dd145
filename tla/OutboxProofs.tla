---------------------------- MODULE OutboxProofs ----------------------------
(***************************************************************************)
(* Proofs about the transactional outbox, for any number of producers,     *)
(* events and workers, any attempt limit and any number of crashes.        *)
(*                                                                         *)
(* Type correctness comes first.  Then three invariants, each inductive    *)
(* relative to the ones before it: producers and rows agree (ProducerInv), *)
(* workers hold only what they claimed (ClaimInv), and what the history    *)
(* says of a row agrees with its status (OutcomeInv).  The safety          *)
(* properties of module Outbox follow from them, and so does the step      *)
(* simulation of AtLeastOnceDelivery.                                      *)
(***************************************************************************)
EXTENDS Outbox, TLAPS

LEMMA TypeInit == Init => TypeOK
BY OutboxAssumption DEF Init, TypeOK, Visible, Settled, Claims

LEMMA TypeNext == TypeOK /\ [Next]_vars => TypeOK'
<1> SUFFICES ASSUME TypeOK, [Next]_vars PROVE TypeOK'
  OBVIOUS
<1> USE OutboxAssumption DEF TypeOK, Visible, Settled
<1>1. ASSUME NEW p \in Producers, Enqueue(p) PROVE TypeOK'
  BY <1>1 DEF Enqueue, history
<1>2. ASSUME NEW p \in Producers, Commit(p) PROVE TypeOK'
  BY <1>2 DEF Commit, history
<1>3. ASSUME NEW p \in Producers, Rollback(p) PROVE TypeOK'
  BY <1>3 DEF Rollback, history
<1>4. ASSUME NEW w \in Workers, ClaimSelect(w) PROVE TypeOK'
  <2>1. PICK T : lock' = [e \in Events |-> IF e \in T THEN w ELSE lock[e]]
    BY <1>4 DEF ClaimSelect
  <2>2. lock' \in [Events -> Workers \cup {NoWorker}]
    BY <2>1
  <2> QED
    BY <1>4, <2>2 DEF ClaimSelect, rowVars, history
<1>5. ASSUME NEW w \in Workers, ClaimCommit(w) PROVE TypeOK'
  <2> DEFINE mine == {e \in Events : lock[e] = w}
  <2>1. {[id |-> e, n |-> attempts[e] + 1] : e \in mine} \subseteq Claims
    BY DEF Claims
  <2>2. batch' \in [Workers -> SUBSET Claims]
    BY <1>5, <2>1 DEF ClaimCommit
  <2>3. attempts' \in [Events -> Nat]
    BY <1>5 DEF ClaimCommit
  <2>4. /\ due' \in [Events -> BOOLEAN]
        /\ lock' \in [Events -> Workers \cup {NoWorker}]
    BY <1>5 DEF ClaimCommit
  <2> QED
    BY <1>5, <2>2, <2>3, <2>4 DEF ClaimCommit, history
<1>6. ASSUME NEW w \in Workers, SkipDemo(w) PROVE TypeOK'
  BY <1>6 DEF SkipDemo, rowVars, history
<1>7. ASSUME NEW w \in Workers, Dispatch(w) PROVE TypeOK'
  <2>1. PICK c \in batch[w] :
          /\ called' = [called EXCEPT ![w] = {c}]
          /\ batch' = [batch EXCEPT ![w] = @ \ {c}]
          /\ invoked' = [invoked EXCEPT ![c.id] = @ \cup {c.n}]
          /\ \/ /\ pc' = [pc EXCEPT ![w] = "succeeded"]
                /\ effect' = effect \cup {c.id}
             \/ /\ pc' = [pc EXCEPT ![w] = "threw"]
                /\ effect' \in {effect, effect \cup {c.id}}
    BY <1>7 DEF Dispatch
  <2>2. c \in Claims /\ c.id \in Events /\ c.n \in Nat
    BY DEF Claims
  <2> QED
    BY <1>7, <2>1, <2>2 DEF Dispatch, rowVars
<1>8. ASSUME NEW w \in Workers, FinalizeSuccess(w) PROVE TypeOK'
  <2>1. PICK c \in called[w] : status' = [status EXCEPT ![c.id] = "DISPATCHED"]
    BY <1>8 DEF FinalizeSuccess
  <2>2. c.id \in Events
    BY DEF Claims
  <2> QED
    BY <1>8, <2>1, <2>2 DEF FinalizeSuccess, NextRow, history
<1>9. ASSUME NEW w \in Workers, FinalizeFailure(w) PROVE TypeOK'
  <2>1. PICK c \in called[w] : FailRow(c)
    BY <1>9 DEF FinalizeFailure
  <2>2. c.id \in Events
    BY DEF Claims
  <2> QED
    BY <1>9, <2>1, <2>2 DEF FinalizeFailure, FailRow, NextRow, history
<1>10. ASSUME NEW w \in Workers, Crash(w) PROVE TypeOK'
  <2>1. \A e \in Events : {c.n : c \in {d \in Holding(w) : d.id = e}} \subseteq Nat
    BY DEF Holding, Claims
  <2>2. lost' \in [Events -> SUBSET Nat]
    BY <1>10, <2>1 DEF Crash
  <2> QED
    BY <1>10, <2>2 DEF Crash, rowVars
<1>11. ASSUME NEW e \in Events, Elapse(e) PROVE TypeOK'
  BY <1>11 DEF Elapse, history
<1>12. CASE UNCHANGED vars
  BY <1>12 DEF vars
<1> QED
  BY <1>1, <1>2, <1>3, <1>4, <1>5, <1>6, <1>7, <1>8, <1>9, <1>10, <1>11, <1>12
  DEF Next, WorkerStep

\* Every variable of the outbox stays in its type.
THEOREM OutboxTypeCorrect == Spec => []TypeOK
BY TypeInit, TypeNext, PTL DEF Spec
-----------------------------------------------------------------------------
(* Producers and rows agree, and workers hold only visible rows. *)

ProducerInv ==
  /\ \A p \in Producers : ptx[p] = "inserted" => status[KeyOf[p]] = "UNCOMMITTED"
  /\ \A p, q \in Producers :
        ptx[p] = "inserted" /\ ptx[q] = "inserted" /\ KeyOf[p] = KeyOf[q] => p = q
  /\ \A p \in Producers :
        ptx[p] \in {"deduped", "committed"} => status[KeyOf[p]] \in Visible
  /\ \A e \in Events : status[e] \in Visible =>
        \E p \in Producers : KeyOf[p] = e /\ ptx[p] = "committed"

RowInv ==
  /\ ProducerInv
  /\ \A w \in Workers : \A c \in Holding(w) : status[c.id] \in Visible
  /\ \A e \in Events : lock[e] # NoWorker => status[e] = "PENDING"

LEMMA HoldingTyped ==
  ASSUME TypeOK, NEW w \in Workers, NEW c \in Holding(w)
  PROVE  c \in Claims /\ c.id \in Events /\ c.n \in Nat
BY DEF TypeOK, Holding, Claims

\* A step that leaves the visible rows visible and the others as they are, and
\* touches no producer, preserves ProducerInv.
LEMMA ProducerFrame ==
  ASSUME ProducerInv, ptx' = ptx,
         \A e \in Events : \/ status'[e] = status[e]
                           \/ status[e] \in Visible /\ status'[e] \in Visible
  PROVE  ProducerInv'
BY OutboxAssumption DEF ProducerInv, Visible, Settled

LEMMA RowInit == Init => RowInv
BY OutboxAssumption DEF Init, RowInv, ProducerInv, Holding, Visible, Settled

LEMMA RowNext == TypeOK /\ RowInv /\ [Next]_vars => RowInv'
<1> SUFFICES ASSUME TypeOK, RowInv, [Next]_vars PROVE RowInv'
  OBVIOUS
<1> USE OutboxAssumption
<1>1. ASSUME NEW p \in Producers, Enqueue(p) PROVE RowInv'
  <2>1. ProducerInv'
    BY <1>1 DEF Enqueue, RowInv, ProducerInv, TypeOK, Visible, Settled
  <2>2. \A e \in Events : status[e] \in Visible => status'[e] = status[e]
    BY <1>1 DEF Enqueue, TypeOK, Visible, Settled
  <2> QED
    BY <1>1, <2>1, <2>2, HoldingTyped
    DEF Enqueue, RowInv, Holding, Visible, Settled
<1>2. ASSUME NEW p \in Producers, Commit(p) PROVE RowInv'
  <2>1. ProducerInv'
    BY <1>2 DEF Commit, RowInv, ProducerInv, TypeOK, Visible, Settled
  <2>2. \A e \in Events : status[e] \in Visible => status'[e] = status[e]
    BY <1>2 DEF Commit, RowInv, ProducerInv, TypeOK, Visible, Settled
  <2> QED
    BY <1>2, <2>1, <2>2, HoldingTyped
    DEF Commit, RowInv, Holding, Visible, Settled
<1>3. ASSUME NEW p \in Producers, Rollback(p) PROVE RowInv'
  <2>1. ProducerInv'
    BY <1>3 DEF Rollback, RowInv, ProducerInv, TypeOK, Visible, Settled
  <2>2. \A e \in Events : status[e] \in Visible => status'[e] = status[e]
    BY <1>3 DEF Rollback, RowInv, ProducerInv, TypeOK, Visible, Settled
  <2> QED
    BY <1>3, <2>1, <2>2, HoldingTyped
    DEF Rollback, RowInv, Holding, Visible, Settled
<1>4. ASSUME NEW w \in Workers, ClaimSelect(w) PROVE RowInv'
  <2>1. PICK T \in SUBSET Claimable :
          lock' = [e \in Events |-> IF e \in T THEN w ELSE lock[e]]
    BY <1>4 DEF ClaimSelect, OldestOf
  <2>2. \A e \in Events : lock'[e] # NoWorker => status[e] = "PENDING"
    BY <2>1 DEF Claimable, RowInv
  <2> QED
    BY <1>4, <2>2, ProducerFrame DEF ClaimSelect, RowInv, Holding, rowVars
<1>5. ASSUME NEW w \in Workers, ClaimCommit(w) PROVE RowInv'
  <2>1. \A v \in Workers : \A c \in Holding(v)' :
           c \in Holding(v) \/ (c.id \in Events /\ lock[c.id] = w)
    BY <1>5 DEF ClaimCommit, Holding, TypeOK
  <2>2. \A v \in Workers : \A c \in Holding(v)' : status[c.id] \in Visible
    BY <2>1 DEF RowInv, Visible
  <2>3. \A e \in Events : lock'[e] # NoWorker => lock[e] # NoWorker
    BY <1>5 DEF ClaimCommit
  <2> QED
    BY <1>5, <2>2, <2>3, ProducerFrame DEF ClaimCommit, RowInv
<1>6. ASSUME NEW w \in Workers, SkipDemo(w) \/ Dispatch(w) \/ Crash(w) PROVE RowInv'
  <2>1. \A v \in Workers : Holding(v)' \subseteq Holding(v)
    BY <1>6 DEF SkipDemo, Dispatch, Crash, Holding, TypeOK
  <2>2. \A e \in Events : lock'[e] # NoWorker => lock[e] # NoWorker
    BY <1>6 DEF SkipDemo, Dispatch, Crash, TypeOK
  <2>3. ptx' = ptx /\ status' = status
    BY <1>6 DEF SkipDemo, Dispatch, Crash, rowVars
  <2> QED
    BY <2>1, <2>2, <2>3, ProducerFrame DEF RowInv
<1>7. ASSUME NEW w \in Workers, FinalizeSuccess(w) \/ FinalizeFailure(w) PROVE RowInv'
  <2>1. PICK c \in called[w] :
          /\ lock[c.id] = NoWorker
          /\ status' \in {status, [status EXCEPT ![c.id] = "DISPATCHED"],
                                  [status EXCEPT ![c.id] = "FAILED"]}
    BY <1>7 DEF FinalizeSuccess, FinalizeFailure, FailRow
  <2>2. c.id \in Events /\ status[c.id] \in Visible
    BY HoldingTyped DEF RowInv, Holding
  <2>3. \A e \in Events : status[e] \in Visible => status'[e] \in Visible
    BY <2>1, <2>2 DEF TypeOK, Visible, Settled
  <2>4. \A e \in Events : status[e] \notin Visible => status'[e] = status[e]
    BY <2>1, <2>2 DEF TypeOK
  <2>5. \A v \in Workers : Holding(v)' \subseteq Holding(v)
    BY <1>7 DEF FinalizeSuccess, FinalizeFailure, NextRow, Holding, TypeOK
  <2>6. ptx' = ptx /\ lock' = lock
    BY <1>7 DEF FinalizeSuccess, FinalizeFailure
  <2>7. \A e \in Events : lock'[e] # NoWorker => status'[e] = "PENDING"
    BY <2>1, <2>2, <2>6 DEF RowInv, TypeOK
  <2> QED
    BY <2>3, <2>4, <2>5, <2>6, <2>7, HoldingTyped, ProducerFrame DEF RowInv
<1>8. ASSUME NEW e \in Events, Elapse(e) PROVE RowInv'
  BY <1>8, ProducerFrame DEF Elapse, RowInv, Holding
<1>9. CASE UNCHANGED vars
  BY <1>9, ProducerFrame DEF vars, RowInv, Holding
<1> QED
  BY <1>1, <1>2, <1>3, <1>4, <1>5, <1>6, <1>7, <1>8, <1>9 DEF Next, WorkerStep

\* A row is visible exactly when a business write that enqueued it committed.
THEOREM OutboxScheduledIffCommitted == Spec => []ScheduledIffCommitted
<1>1. TypeOK /\ RowInv => ScheduledIffCommitted
  BY OutboxAssumption DEF RowInv, ProducerInv, ScheduledIffCommitted
<1> QED
  BY <1>1, OutboxTypeCorrect, RowInit, RowNext, PTL DEF Spec
-----------------------------------------------------------------------------
(* Attempts: what workers hold and what handlers were called with. *)

ClaimInv ==
  /\ \A w \in Workers : pc[w] \in {"idle", "claiming"} => batch[w] = {} /\ called[w] = {}
  /\ \A w \in Workers : pc[w] = "draining" => called[w] = {}
  /\ \A w \in Workers : pc[w] \in {"succeeded", "threw"} => \E c \in Claims : called[w] = {c}
  /\ \A w \in Workers : \A c \in Holding(w) : c.n \in 1 .. attempts[c.id]
  /\ AttemptsExclusive
  /\ CallsAreCounted

LEMMA ClaimInit == Init => ClaimInv
BY DEF Init, ClaimInv, AttemptsExclusive, CallsAreCounted, Holding

\* A step that leaves the workers' claims and the rows' attempts alone.
LEMMA ClaimFrame ==
  ASSUME ClaimInv, attempts' = attempts, batch' = batch, called' = called,
         invoked' = invoked,
         \A w \in Workers : pc'[w] = pc[w] \/ (pc[w] = "idle" /\ pc'[w] = "claiming")
  PROVE  ClaimInv'
BY DEF ClaimInv, AttemptsExclusive, CallsAreCounted, Holding

LEMMA ClaimNext == TypeOK /\ ClaimInv /\ [Next]_vars => ClaimInv'
<1> SUFFICES ASSUME TypeOK, ClaimInv, [Next]_vars PROVE ClaimInv'
  OBVIOUS
<1> USE OutboxAssumption
<1>1. ASSUME NEW p \in Producers, Enqueue(p) \/ Commit(p) \/ Rollback(p) PROVE ClaimInv'
  BY <1>1, ClaimFrame DEF Enqueue, Commit, Rollback, history
<1>2. ASSUME NEW w \in Workers, ClaimSelect(w) PROVE ClaimInv'
  BY <1>2, ClaimFrame DEF ClaimSelect, TypeOK, rowVars, history
<1>3. ASSUME NEW w \in Workers, ClaimCommit(w) PROVE ClaimInv'
  <2> DEFINE new == {[id |-> e, n |-> attempts[e] + 1] : e \in {f \in Events : lock[f] = w}}
  <2>1. /\ batch' = [batch EXCEPT ![w] = new]
        /\ pc' = [pc EXCEPT ![w] = "draining"]
        /\ called' = called /\ invoked' = invoked
        /\ batch[w] = {} /\ called[w] = {}
    BY <1>3 DEF ClaimCommit, history, ClaimInv
  <2>2. /\ Holding(w)' = new
        /\ \A v \in Workers : v # w => Holding(v)' = Holding(v)
    BY <2>1 DEF Holding, TypeOK
  <2>3. \A e \in Events : /\ attempts[e] \in Nat
                          /\ attempts'[e] = IF lock[e] = w THEN attempts[e] + 1 ELSE attempts[e]
    BY <1>3 DEF ClaimCommit, TypeOK
  <2>4. \A c \in new : /\ c.id \in Events
                       /\ c.n = attempts[c.id] + 1
                       /\ c.n = attempts'[c.id]
    BY <2>3
  <2>5. \A v \in Workers : \A c \in Holding(v) : c.id \in Events /\ c.n \in 1 .. attempts[c.id]
    BY HoldingTyped DEF ClaimInv
  <2>6. \A v \in Workers : \A c \in Holding(v)' : c.n \in 1 .. attempts'[c.id]
    BY <2>2, <2>3, <2>4, <2>5
  <2>7. CallsAreCounted'
    BY <2>1, <2>3 DEF CallsAreCounted, ClaimInv, TypeOK
  <2>8. \A v \in Workers : Holding(v) \cap new = {}
    BY <2>3, <2>4, <2>5
  <2>9. \A c \in new : c.n \notin invoked[c.id]
    BY <2>3, <2>4 DEF ClaimInv, CallsAreCounted
  <2>10. AttemptsExclusive'
    BY <2>1, <2>2, <2>8, <2>9 DEF AttemptsExclusive, ClaimInv, TypeOK
  <2> QED
    BY <2>1, <2>6, <2>7, <2>10 DEF ClaimInv, TypeOK
<1>4. ASSUME NEW w \in Workers, SkipDemo(w) \/ Dispatch(w) PROVE ClaimInv'
  <2>1. PICK c \in batch[w] :
          /\ called' = [called EXCEPT ![w] = {c}]
          /\ batch' = [batch EXCEPT ![w] = @ \ {c}]
          /\ invoked' \in {invoked, [invoked EXCEPT ![c.id] = @ \cup {c.n}]}
    BY <1>4 DEF SkipDemo, Dispatch, history
  <2>2. /\ called[w] = {} /\ attempts' = attempts
        /\ pc' \in {[pc EXCEPT ![w] = "succeeded"], [pc EXCEPT ![w] = "threw"]}
    BY <1>4 DEF SkipDemo, Dispatch, ClaimInv, rowVars
  <2>3. c \in Claims /\ c.id \in Events /\ c.n \in 1 .. attempts[c.id] /\ c \in Holding(w)
    BY HoldingTyped DEF Holding, ClaimInv
  <2>4. \A v \in Workers : Holding(v)' = Holding(v)
    BY <2>1, <2>2 DEF Holding, TypeOK
  <2>5. CallsAreCounted'
    BY <2>1, <2>2, <2>3 DEF CallsAreCounted, ClaimInv, TypeOK
  <2>6. ASSUME NEW v \in Workers, NEW d \in batch'[v] PROVE d.n \notin invoked'[d.id]
    <3>1. d \in batch[v] /\ d # c /\ d \in Claims
      BY <2>1, <2>3 DEF ClaimInv, AttemptsExclusive, Holding, TypeOK
    <3>2. d.id # c.id \/ d.n # c.n
      BY <2>3, <3>1 DEF Claims
    <3>3. d.n \notin invoked[d.id] /\ d.id \in Events
      BY <3>1 DEF ClaimInv, AttemptsExclusive, Claims
    <3> QED
      BY <2>1, <2>3, <3>2, <3>3 DEF TypeOK
  <2>7. AttemptsExclusive'
    BY <2>4, <2>6 DEF AttemptsExclusive, ClaimInv
  <2>8. \A v \in Workers \ {w} :
        pc'[v] = pc[v] /\ batch'[v] = batch[v] /\ called'[v] = called[v]
    BY <2>1, <2>2 DEF TypeOK
  <2>9. called'[w] = {c} /\ pc'[w] \in {"succeeded", "threw"}
    BY <2>1, <2>2 DEF TypeOK
  <2> QED
    BY <2>2, <2>3, <2>4, <2>5, <2>7, <2>8, <2>9 DEF ClaimInv
<1>5. ASSUME NEW w \in Workers, FinalizeSuccess(w) \/ FinalizeFailure(w) \/ Crash(w)
      PROVE ClaimInv'
  <2>1. /\ attempts' = attempts /\ invoked' = invoked
        /\ called' = [called EXCEPT ![w] = {}]
    BY <1>5 DEF FinalizeSuccess, FinalizeFailure, FailRow, NextRow, Crash, rowVars, history
  <2>2. \/ batch' = batch /\ pc' = [pc EXCEPT ![w] = IF batch[w] = {} THEN "idle" ELSE "draining"]
        \/ batch' = [batch EXCEPT ![w] = {}] /\ pc' = [pc EXCEPT ![w] = "idle"]
    BY <1>5 DEF FinalizeSuccess, FinalizeFailure, NextRow, Crash
  <2>3. \A v \in Workers : Holding(v)' \subseteq Holding(v) /\ batch'[v] \subseteq batch[v]
    BY <2>1, <2>2 DEF Holding, TypeOK
  <2>4. AttemptsExclusive' /\ CallsAreCounted'
    BY <2>1, <2>3 DEF AttemptsExclusive, CallsAreCounted, ClaimInv
  <2>5. \A v \in Workers : v # w =>
           pc'[v] = pc[v] /\ batch'[v] = batch[v] /\ called'[v] = called[v]
    BY <2>1, <2>2 DEF TypeOK
  <2>6. /\ called'[w] = {}
        /\ pc'[w] = "draining" \/ (pc'[w] = "idle" /\ batch'[w] = {})
    BY <2>1, <2>2 DEF TypeOK
  <2> QED
    BY <2>1, <2>3, <2>4, <2>5, <2>6 DEF ClaimInv
<1>6. ASSUME NEW e \in Events, Elapse(e) PROVE ClaimInv'
  BY <1>6, ClaimFrame DEF Elapse, history
<1>7. CASE UNCHANGED vars
  BY <1>7, ClaimFrame DEF vars
<1> QED
  BY <1>1, <1>2, <1>3, <1>4, <1>5, <1>6, <1>7 DEF Next, WorkerStep

\* No attempt of an event is ever in the hands of two workers, and an attempt
\* waiting in a batch has not been handed to the handler.
THEOREM OutboxAttemptsExclusive == Spec => []AttemptsExclusive
<1>1. ClaimInv => AttemptsExclusive
  BY DEF ClaimInv
<1> QED
  BY <1>1, OutboxTypeCorrect, ClaimInit, ClaimNext, PTL DEF Spec

\* Every handler call is covered by an attempt the row has already counted.
THEOREM OutboxCallsAreCounted == Spec => []CallsAreCounted
<1>1. ClaimInv => CallsAreCounted
  BY DEF ClaimInv
<1> QED
  BY <1>1, OutboxTypeCorrect, ClaimInit, ClaimNext, PTL DEF Spec
-----------------------------------------------------------------------------
(* Outcomes: what the status of a row says of the calls made for it. *)

OutcomeInv ==
  /\ \A w \in Workers : pc[w] = "succeeded" =>
        \A c \in called[w] : c.id \in effect \cup DemoEvents
  /\ \A w \in Workers : pc[w] = "threw" =>
        \A c \in called[w] : c.id \notin DemoEvents /\ c.n \in invoked[c.id]
  /\ \A e \in Events : status[e] \notin Visible => attempts[e] = 0
  /\ DispatchedOnlyAfterEffect
  /\ FailedOnlyAfterLastAttempt
  /\ OverrunExplained

LEMMA OutcomeInit == Init => OutcomeInv
BY DEF Init, OutcomeInv, DispatchedOnlyAfterEffect, FailedOnlyAfterLastAttempt,
       OverrunExplained, Visible, Settled

\* A step after which the statuses are the same, no worker has let go of a
\* claim, no history is shorter and no attempt is counted, and which puts no
\* call into a worker's hand.
LEMMA OutcomeFrame ==
  ASSUME TypeOK, OutcomeInv,
         status' = status, attempts' = attempts,
         effect' = effect, invoked' = invoked, lost' = lost,
         \A w \in Workers : pc'[w] = pc[w] \/ pc'[w] \in {"claiming", "draining"},
         batch' = batch, called' = called
  PROVE  OutcomeInv'
BY DEF OutcomeInv, DispatchedOnlyAfterEffect, FailedOnlyAfterLastAttempt,
       OverrunExplained, Holding

LEMMA OutcomeNext == TypeOK /\ RowInv /\ ClaimInv /\ OutcomeInv /\ [Next]_vars => OutcomeInv'
<1> SUFFICES ASSUME TypeOK, RowInv, ClaimInv, OutcomeInv, [Next]_vars PROVE OutcomeInv'
  OBVIOUS
<1> USE OutboxAssumption
<1>1. ASSUME NEW p \in Producers, Enqueue(p) \/ Commit(p) \/ Rollback(p) PROVE OutcomeInv'
  <2>1. \A e \in Events : \/ status'[e] = status[e]
                          \/ status'[e] \notin Visible /\ status[e] \notin Visible
                          \/ status'[e] = "PENDING" /\ status[e] \notin Visible
    BY <1>1 DEF Enqueue, Commit, Rollback, RowInv, ProducerInv, TypeOK, Visible, Settled
  <2>2. /\ attempts' = attempts /\ batch' = batch /\ called' = called /\ pc' = pc
        /\ invoked' = invoked /\ lost' = lost /\ effect' = effect
    BY <1>1 DEF Enqueue, Commit, Rollback, history
  <2>3. /\ DispatchedOnlyAfterEffect' /\ FailedOnlyAfterLastAttempt'
        /\ \A e \in Events : status'[e] \notin Visible => attempts'[e] = 0
    BY <2>1, <2>2
    DEF OutcomeInv, DispatchedOnlyAfterEffect, FailedOnlyAfterLastAttempt, Visible, Settled
  <2>4. ASSUME NEW e \in Events, status'[e] = "PENDING", NEW n \in MaxAttempts .. attempts'[e]
        PROVE  n \in lost[e] \/ \E w \in Workers : [id |-> e, n |-> n] \in Holding(w)
    <3>1. CASE status[e] = "PENDING"
      BY <2>2, <2>4, <3>1 DEF OutcomeInv, OverrunExplained
    <3>2. CASE status[e] \notin Visible
      BY <2>2, <2>4, <3>2 DEF OutcomeInv
    <3> QED
      BY <2>1, <2>4, <3>1, <3>2 DEF Visible
  <2>5. OverrunExplained'
    BY <2>2, <2>4 DEF OverrunExplained, Holding
  <2> QED
    BY <2>2, <2>3, <2>5 DEF OutcomeInv
<1>2. ASSUME NEW w \in Workers, ClaimSelect(w) PROVE OutcomeInv'
  BY <1>2, OutcomeFrame DEF ClaimSelect, TypeOK, rowVars, history
<1>3. ASSUME NEW w \in Workers, ClaimCommit(w) PROVE OutcomeInv'
  <2> DEFINE new == {[id |-> e, n |-> attempts[e] + 1] : e \in {f \in Events : lock[f] = w}}
  <2>1. /\ batch' = [batch EXCEPT ![w] = new]
        /\ pc' = [pc EXCEPT ![w] = "draining"]
        /\ called' = called /\ status' = status
        /\ invoked' = invoked /\ lost' = lost /\ effect' = effect
        /\ batch[w] = {} /\ called[w] = {}
    BY <1>3 DEF ClaimCommit, history, ClaimInv
  <2>2. /\ Holding(w)' = new
        /\ \A v \in Workers : v # w => Holding(v)' = Holding(v)
        /\ Holding(w) = {}
    BY <2>1 DEF Holding, TypeOK
  <2>3. \A e \in Events : /\ attempts[e] \in Nat
                          /\ attempts'[e] = IF lock[e] = w THEN attempts[e] + 1 ELSE attempts[e]
    BY <1>3 DEF ClaimCommit, TypeOK
  <2>4. \A e \in Events : status[e] \notin Visible => attempts'[e] = 0
    BY <2>3 DEF OutcomeInv, RowInv, Visible
  <2>5. ASSUME NEW e \in Events, status[e] = "PENDING", NEW n \in MaxAttempts .. attempts'[e]
        PROVE  n \in lost[e] \/ \E v \in Workers : [id |-> e, n |-> n] \in Holding(v)'
    <3>1. CASE n <= attempts[e]
      <4>1. n \in MaxAttempts .. attempts[e]
        BY <2>3, <3>1
      <4> QED
        BY <2>2, <2>5, <4>1 DEF OutcomeInv, OverrunExplained
    <3>2. CASE n > attempts[e]
      <4>1. lock[e] = w /\ n = attempts[e] + 1
        BY <2>3, <3>2
      <4> QED
        BY <2>2, <4>1
    <3> QED
      BY <2>3, <3>1, <3>2
  <2>6. OverrunExplained'
    BY <2>1, <2>5 DEF OverrunExplained
  <2>7. DispatchedOnlyAfterEffect' /\ FailedOnlyAfterLastAttempt'
    BY <2>1 DEF OutcomeInv, DispatchedOnlyAfterEffect, FailedOnlyAfterLastAttempt
  <2>8. \A v \in Workers : /\ pc'[v] = pc[v] \/ pc'[v] = "draining"
                           /\ called'[v] = called[v]
    BY <2>1 DEF TypeOK
  <2> QED
    BY <2>1, <2>4, <2>6, <2>7, <2>8 DEF OutcomeInv
<1>4. ASSUME NEW w \in Workers, SkipDemo(w) \/ Dispatch(w) PROVE OutcomeInv'
  <2>1. PICK c \in batch[w] :
          /\ called' = [called EXCEPT ![w] = {c}]
          /\ batch' = [batch EXCEPT ![w] = @ \ {c}]
          /\ \/ /\ c.id \in DemoEvents /\ invoked' = invoked /\ effect' = effect
                /\ pc' = [pc EXCEPT ![w] = "succeeded"]
             \/ /\ c.id \notin DemoEvents
                /\ invoked' = [invoked EXCEPT ![c.id] = @ \cup {c.n}]
                /\ \/ /\ pc' = [pc EXCEPT ![w] = "succeeded"]
                      /\ effect' = effect \cup {c.id}
                   \/ /\ pc' = [pc EXCEPT ![w] = "threw"]
                      /\ effect' \in {effect, effect \cup {c.id}}
    BY <1>4 DEF SkipDemo, Dispatch, history
  <2>2. /\ called[w] = {} /\ attempts' = attempts /\ status' = status /\ lost' = lost
        /\ c.id \in Events
    BY <1>4, HoldingTyped DEF SkipDemo, Dispatch, ClaimInv, rowVars, history, Holding
  <2>3. \A v \in Workers : Holding(v)' = Holding(v)
    BY <2>1, <2>2 DEF Holding, TypeOK
  <2>4. /\ effect \subseteq effect'
        /\ \A e \in Events : invoked[e] \subseteq invoked'[e]
    BY <2>1, <2>2 DEF TypeOK
  <2>5. OverrunExplained'
    BY <2>2, <2>3 DEF OverrunExplained, OutcomeInv
  <2>6. DispatchedOnlyAfterEffect' /\ FailedOnlyAfterLastAttempt'
    BY <2>2, <2>4 DEF OutcomeInv, DispatchedOnlyAfterEffect, FailedOnlyAfterLastAttempt
  <2>7. \A v \in Workers : v # w => pc'[v] = pc[v] /\ called'[v] = called[v]
    BY <2>1 DEF TypeOK
  <2>8. \A v \in Workers, d \in Claims : v # w /\ d \in called[v] => d.id \in Events
    BY DEF Claims
  <2>9. /\ called'[w] = {c}
        /\ pc'[w] = "succeeded" => c.id \in effect' \cup DemoEvents
        /\ pc'[w] = "threw" => c.id \notin DemoEvents /\ c.n \in invoked'[c.id]
    BY <2>1, <2>2 DEF TypeOK
  <2>10. \A v \in Workers : pc'[v] = "succeeded" =>
            \A d \in called'[v] : d.id \in effect' \cup DemoEvents
    BY <2>4, <2>7, <2>9 DEF OutcomeInv
  <2>11. \A v \in Workers : pc'[v] = "threw" =>
            \A d \in called'[v] : d.id \notin DemoEvents /\ d.n \in invoked'[d.id]
    BY <2>4, <2>7, <2>8, <2>9 DEF OutcomeInv, TypeOK
  <2> QED
    BY <2>2, <2>5, <2>6, <2>10, <2>11 DEF OutcomeInv
<1>5. ASSUME NEW w \in Workers, FinalizeSuccess(w) \/ FinalizeFailure(w) PROVE OutcomeInv'
  <2>1. PICK c \in Claims :
          /\ called[w] = {c}
          /\ \/ /\ pc[w] = "succeeded"
                /\ status' = [status EXCEPT ![c.id] = "DISPATCHED"]
             \/ /\ pc[w] = "threw"
                /\ status' = IF c.n >= MaxAttempts
                             THEN [status EXCEPT ![c.id] = "FAILED"] ELSE status
    BY <1>5 DEF FinalizeSuccess, FinalizeFailure, FailRow, ClaimInv
  <2>2. c.id \in Events /\ c.n \in Nat
    BY DEF Claims
  <2>3. /\ attempts' = attempts /\ invoked' = invoked /\ lost' = lost /\ effect' = effect
        /\ batch' = batch /\ called' = [called EXCEPT ![w] = {}]
        /\ pc' \in {[pc EXCEPT ![w] = "idle"], [pc EXCEPT ![w] = "draining"]}
    BY <1>5 DEF FinalizeSuccess, FinalizeFailure, FailRow, NextRow, history
  <2>4. \A v \in Workers : \A d \in Holding(v) : d \in Holding(v)' \/ d = c
    BY <2>1, <2>3 DEF Holding, TypeOK
  <2>5. \A e \in Events : e # c.id => status'[e] = status[e]
    BY <2>1, <2>2 DEF TypeOK
  <2>6. DispatchedOnlyAfterEffect' /\ FailedOnlyAfterLastAttempt'
    BY <2>1, <2>2, <2>3
    DEF OutcomeInv, DispatchedOnlyAfterEffect, FailedOnlyAfterLastAttempt, TypeOK
  <2>7. ASSUME NEW e \in Events, status'[e] = "PENDING", NEW n \in MaxAttempts .. attempts[e]
        PROVE  n \in lost[e] \/ \E v \in Workers : [id |-> e, n |-> n] \in Holding(v)'
    <3>1. status[e] = "PENDING" /\ (e = c.id => c.n < MaxAttempts)
      BY <2>1, <2>2, <2>5, <2>7 DEF TypeOK
    <3>2. [id |-> e, n |-> n] # c
      BY <2>2, <3>1
    <3> QED
      BY <2>4, <3>1, <3>2 DEF OutcomeInv, OverrunExplained
  <2>8. OverrunExplained'
    BY <2>3, <2>7 DEF OverrunExplained
  <2>9. \A v \in Workers : \/ called'[v] = {}
                           \/ pc'[v] = pc[v] /\ called'[v] = called[v]
    BY <2>3 DEF TypeOK
  <2>10. \A e \in Events : status'[e] \notin Visible => status[e] \notin Visible
    BY <2>1, <2>2, <2>5 DEF TypeOK, Visible, Settled
  <2> QED
    BY <2>3, <2>6, <2>8, <2>9, <2>10 DEF OutcomeInv
<1>6. ASSUME NEW w \in Workers, Crash(w) PROVE OutcomeInv'
  <2>1. /\ status' = status /\ attempts' = attempts /\ effect' = effect /\ invoked' = invoked
        /\ batch' = [batch EXCEPT ![w] = {}] /\ called' = [called EXCEPT ![w] = {}]
        /\ pc' = [pc EXCEPT ![w] = "idle"]
        /\ lost' = [e \in Events |-> lost[e] \cup {c.n : c \in {d \in Holding(w) : d.id = e}}]
    BY <1>6 DEF Crash, rowVars
  <2>2. \A v \in Workers : v # w => Holding(v)' = Holding(v)
    BY <2>1 DEF Holding, TypeOK
  <2>3. \A e \in Events, n \in Nat : [id |-> e, n |-> n] \in Holding(w) => n \in lost'[e]
    BY <2>1
  <2>4. \A e \in Events : lost[e] \subseteq lost'[e]
    BY <2>1
  <2>5. \A e \in Events : \A n \in MaxAttempts .. attempts[e] : n \in Nat
    BY DEF TypeOK
  <2>6. OverrunExplained'
    BY <2>1, <2>2, <2>3, <2>4, <2>5 DEF OverrunExplained, OutcomeInv
  <2>7. DispatchedOnlyAfterEffect' /\ FailedOnlyAfterLastAttempt'
    BY <2>1 DEF OutcomeInv, DispatchedOnlyAfterEffect, FailedOnlyAfterLastAttempt
  <2>8. \A v \in Workers : \/ called'[v] = {}
                           \/ pc'[v] = pc[v] /\ called'[v] = called[v]
    BY <2>1 DEF TypeOK
  <2> QED
    BY <2>1, <2>6, <2>7, <2>8 DEF OutcomeInv
<1>7. ASSUME NEW e \in Events, Elapse(e) PROVE OutcomeInv'
  BY <1>7, OutcomeFrame DEF Elapse, history
<1>8. CASE UNCHANGED vars
  BY <1>8, OutcomeFrame DEF vars
<1> QED
  BY <1>1, <1>2, <1>3, <1>4, <1>5, <1>6, <1>7, <1>8 DEF Next, WorkerStep

\* The four invariants together are inductive.
IInv == TypeOK /\ RowInv /\ ClaimInv /\ OutcomeInv

LEMMA OutboxInductive == Spec => []IInv
<1>1. Init => IInv
  BY TypeInit, RowInit, ClaimInit, OutcomeInit DEF IInv
<1>2. IInv /\ [Next]_vars => IInv'
  BY TypeNext, RowNext, ClaimNext, OutcomeNext DEF IInv
<1> QED
  BY <1>1, <1>2, PTL DEF Spec

\* A row marked DISPATCHED has had its side effect, unless it is a demo row.
THEOREM OutboxDispatchedOnlyAfterEffect == Spec => []DispatchedOnlyAfterEffect
<1>1. IInv => DispatchedOnlyAfterEffect
  BY DEF IInv, OutcomeInv
<1> QED
  BY <1>1, OutboxInductive, PTL

\* A row marked FAILED has had its last attempt.
THEOREM OutboxFailedOnlyAfterLastAttempt == Spec => []FailedOnlyAfterLastAttempt
<1>1. IInv => FailedOnlyAfterLastAttempt
  BY DEF IInv, OutcomeInv
<1> QED
  BY <1>1, OutboxInductive, PTL

\* Every attempt from the last regular one on, of a row still PENDING, is in a
\* worker's hands or was lost in a crash.
THEOREM OutboxOverrunExplained == Spec => []OverrunExplained
<1>1. IInv => OverrunExplained
  BY DEF IInv, OutcomeInv
<1> QED
  BY <1>1, OutboxInductive, PTL
-----------------------------------------------------------------------------
(* Every step of the outbox is a step of its promise, or changes nothing the *)
(* promise can see.                                                          *)

stageMap == [e \in Events |-> StageOf(e)]

LEMMA PromiseInit == Init => Promise!Init
BY DEF Init, Promise!Init, StageOf

LEMMA PromiseStutter ==
  ASSUME effect' = effect,
         \A e \in Events : \/ status'[e] = status[e]
                           \/ {status[e], status'[e]} \cap Visible = {}
  PROVE  UNCHANGED Promise!avars
BY DEF Promise!avars, StageOf, Visible, Settled

\* One row moves to another stage, the others stay.
LEMMA PromiseStage ==
  ASSUME TypeOK, NEW e \in Events, NEW s \in Visible, status' = [status EXCEPT ![e] = s]
  PROVE  stageMap' = [stageMap EXCEPT ![e] = CASE s = "PENDING" -> "scheduled"
                                               [] s = "DISPATCHED" -> "dispatched"
                                               [] s = "FAILED" -> "failed"]
BY DEF TypeOK, stageMap, StageOf, Visible, Settled

LEMMA PromiseNext == IInv /\ [Next]_vars => [Promise!Next]_(Promise!avars)
<1> SUFFICES ASSUME IInv, [Next]_vars PROVE [Promise!Next]_(Promise!avars)
  OBVIOUS
<1>0. TypeOK /\ RowInv /\ ClaimInv /\ OutcomeInv
  BY DEF IInv
<1> USE OutboxAssumption, <1>0
<1>1. ASSUME NEW p \in Producers, Enqueue(p) \/ Rollback(p)
      PROVE  UNCHANGED Promise!avars
  <2>1. \A e \in Events : \/ status'[e] = status[e]
                          \/ {status[e], status'[e]} \cap Visible = {}
    BY <1>1 DEF Enqueue, Rollback, RowInv, ProducerInv, TypeOK, Visible, Settled
  <2> QED
    BY <1>1, <2>1, PromiseStutter DEF Enqueue, Rollback, history
<1>2. ASSUME NEW p \in Producers, Commit(p) PROVE [Promise!Next]_(Promise!avars)
  <2>1. CASE ptx[p] = "inserted"
    <3>1. /\ KeyOf[p] \in Events /\ effect' = effect
          /\ status[KeyOf[p]] = "UNCOMMITTED"
          /\ status' = [status EXCEPT ![KeyOf[p]] = "PENDING"]
      BY <1>2, <2>1 DEF Commit, history, RowInv, ProducerInv
    <3>2. Promise!Schedule(KeyOf[p])
      BY <3>1, PromiseStage DEF Promise!Schedule, StageOf, stageMap, Visible
    <3> QED
      BY <3>1, <3>2 DEF Promise!Next
  <2>2. CASE ptx[p] # "inserted"
    BY <1>2, <2>2, PromiseStutter DEF Commit, history
  <2> QED
    BY <2>1, <2>2
<1>3. ASSUME NEW w \in Workers,
             ClaimSelect(w) \/ ClaimCommit(w) \/ SkipDemo(w) \/ Crash(w)
      PROVE  UNCHANGED Promise!avars
  BY <1>3, PromiseStutter DEF ClaimSelect, ClaimCommit, SkipDemo, Crash, rowVars, history
<1>4. ASSUME NEW w \in Workers, Dispatch(w) PROVE [Promise!Next]_(Promise!avars)
  <2>1. PICK c \in batch[w] : c.id \notin DemoEvents /\ effect' \in {effect, effect \cup {c.id}}
    BY <1>4 DEF Dispatch
  <2>2. /\ c.id \in Events /\ status[c.id] \in Visible /\ status' = status
        /\ stageMap' = stageMap
    BY <1>4, HoldingTyped DEF Dispatch, RowInv, Holding, rowVars, stageMap, StageOf
  <2>3. CASE effect' = effect
    BY <2>2, <2>3, PromiseStutter
  <2>4. CASE effect' = effect \cup {c.id}
    <3>1. Promise!Deliver(c.id)
      BY <2>1, <2>2, <2>4 DEF Promise!Deliver, StageOf, stageMap, Visible, Settled
    <3> QED
      BY <2>2, <3>1 DEF Promise!Next
  <2> QED
    BY <2>1, <2>3, <2>4
<1>5. ASSUME NEW w \in Workers, FinalizeSuccess(w) PROVE [Promise!Next]_(Promise!avars)
  <2>1. PICK c \in called[w] : status' = [status EXCEPT ![c.id] = "DISPATCHED"]
    BY <1>5 DEF FinalizeSuccess
  <2>2. /\ c.id \in Events /\ status[c.id] \in Visible /\ effect' = effect
        /\ c.id \in effect \cup DemoEvents
    BY <1>5, HoldingTyped DEF FinalizeSuccess, RowInv, OutcomeInv, Holding, history
  <2>3. Promise!SettleDispatched(c.id)
    BY <2>1, <2>2, PromiseStage
    DEF Promise!SettleDispatched, StageOf, stageMap, Visible, Settled
  <2> QED
    BY <2>2, <2>3 DEF Promise!Next
<1>6. ASSUME NEW w \in Workers, FinalizeFailure(w) PROVE [Promise!Next]_(Promise!avars)
  <2>1. PICK c \in called[w] :
          status' = IF c.n >= MaxAttempts
                    THEN [status EXCEPT ![c.id] = "FAILED"] ELSE status
    BY <1>6 DEF FinalizeFailure, FailRow
  <2>2. /\ c.id \in Events /\ status[c.id] \in Visible /\ effect' = effect
        /\ c.id \notin DemoEvents
    BY <1>6, HoldingTyped DEF FinalizeFailure, RowInv, OutcomeInv, Holding, history
  <2>3. CASE c.n >= MaxAttempts
    <3>1. Promise!SettleFailed(c.id)
      BY <2>1, <2>2, <2>3, PromiseStage
      DEF Promise!SettleFailed, StageOf, stageMap, Visible, Settled
    <3> QED
      BY <2>2, <3>1 DEF Promise!Next
  <2>4. CASE ~(c.n >= MaxAttempts)
    BY <2>1, <2>2, <2>4, PromiseStutter
  <2> QED
    BY <2>3, <2>4
<1>7. ASSUME NEW e \in Events, Elapse(e) PROVE UNCHANGED Promise!avars
  BY <1>7, PromiseStutter DEF Elapse, history
<1>8. CASE UNCHANGED vars
  BY <1>8, PromiseStutter DEF vars
<1> QED
  BY <1>1, <1>2, <1>3, <1>4, <1>5, <1>6, <1>7, <1>8 DEF Next, WorkerStep

\* The outbox implements the safety part of AtLeastOnceDelivery.
THEOREM OutboxKeepsPromise == Spec => KeepsPromise
BY OutboxInductive, PromiseInit, PromiseNext, PTL
DEF Spec, KeepsPromise, Promise!SafetySpec
=============================================================================
