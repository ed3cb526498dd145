------------------------- MODULE DeprovisioningProofs -------------------------
(***************************************************************************)
(* Theorems about Deprovisioning, for any number of steps, jobs, workers   *)
(* and administrators.                                                     *)
(*                                                                         *)
(* IInv is the conjunction of TypeOK, HandInv and GoneInv.  HandInv says   *)
(* that whoever is at work has a job or a step in hand.  GoneInv says what *)
(* every status about to be written rests on, so that a write by id that   *)
(* comes late is still backed by the provider or by an administrator.      *)
(*                                                                         *)
(* RunInv is the second invariant.  CarrierInv says that a step no fault   *)
(* has hit is in one pair of hands, which knows how many attempts it has   *)
(* had; QuietInv, that a run nobody works on says what its steps say.      *)
(***************************************************************************)
EXTENDS Deprovisioning, TLAPS

HandInv ==
  /\ \A w \in Workers : pc[w] # "idle" => job[w] \in Messages
  /\ \A a \in Admins : task[a] # "idle" => subject[a] \in Steps

\* Steps whose access is gone, or vouched for.
Settled == gone \cup overridden

StatusBacked ==
  \A s \in Steps :
    /\ status[s] = "SUCCEEDED" => s \in gone
    /\ status[s] = "MANUAL_COMPLETED" => s \in overridden

OutcomeBacked ==
  \A w \in Workers : pc[w] = "succeeded" => Step(w) \in gone

VerdictBacked ==
  /\ \A w \in Workers :
       pc[w] = "derived" /\ verdict[w] = "COMPLETED" => Steps \subseteq Settled
  /\ \A a \in Admins :
       task[a] = "committing" /\ verdict[a] = "COMPLETED" =>
         Steps \subseteq Settled \cup {subject[a]}

GoneInv ==
  /\ StatusBacked
  /\ OutcomeBacked
  /\ VerdictBacked
  /\ CompletedIsGone

IInv == TypeOK /\ HandInv /\ GoneInv
-----------------------------------------------------------------------------
(* Lemmas about the operators. *)

\* Whatever the steps say, the derived status is one a run may have.
LEMMA DeriveType ==
  ASSUME NEW st, NEW att
  PROVE  Derive(st, att) \in RunStatus
BY DEF Derive, RunStatus

\* A run is derived COMPLETED only when every step is a success.
LEMMA DeriveCompleted ==
  ASSUME NEW st, NEW att, Derive(st, att) = "COMPLETED"
  PROVE  \A s \in Steps : st[s] \in Success
BY DEF Derive

\* The delivery after a failed one is a message again.
LEMMA AgainType ==
  ASSUME NEW m \in Messages
  PROVE  Again(m) \subseteq Messages
<1>1. CASE m.tries < QStashRetries
  <2>1. m.id \in DedupIds /\ m.tries \in 0 .. QStashRetries
    BY DEF Messages
  <2>2. m.tries + 1 \in 0 .. QStashRetries
    BY <1>1, <2>1, DeprovisioningAssumption
  <2>3. [m EXCEPT !.tries = @ + 1] \in Messages
    BY <2>1, <2>2 DEF Messages
  <2> QED BY <1>1, <2>3 DEF Again
<1>2. CASE ~(m.tries < QStashRetries)
  BY <1>2 DEF Again
<1> QED BY <1>1, <1>2

\* A publication keeps the types of the queue and of the history.
LEMMA PublishType ==
  ASSUME TypeOK, NEW id \in DedupIds, Publish(id)
  PROVE  queue' \subseteq Messages /\ known' \subseteq DedupIds /\ dropped' \subseteq Steps
<1>1. id.step \in Steps
  BY DEF DedupIds
<1>2. [id |-> id, tries |-> 0] \in Messages
  BY DeprovisioningAssumption DEF Messages
<1> QED BY <1>1, <1>2 DEF Publish, TypeOK, qVars

LEMMA IdType ==
  ASSUME NEW s \in Steps, NEW n \in Nat
  PROVE  Id(s, n) \in DedupIds
BY DEF Id, DedupIds

\* A worker that is not idle works on a step of the run.
LEMMA StepType ==
  ASSUME HandInv, NEW w \in Workers, pc[w] # "idle"
  PROVE  job[w] \in Messages /\ Step(w) \in Steps
<1>1. job[w] \in Messages
  BY DEF HandInv
<1> QED BY <1>1 DEF Step, Messages, DedupIds
-----------------------------------------------------------------------------
(* Type correctness.                                                          *)

LEMMA TypeInit == Init => TypeOK /\ HandInv
<1> SUFFICES ASSUME Init PROVE TypeOK /\ HandInv
  OBVIOUS
<1>1. 0 \in 0 .. MaxIncidents
  BY DeprovisioningAssumption
<1>2. HandInv
  BY DEF Init, HandInv
<1>3. /\ attempts \in [Steps -> Nat] /\ calls \in [Steps -> Nat]
      /\ seen \in [Workers -> Nat] /\ nextAttempt \in [Admins -> Nat]
      /\ status \in [Steps -> StepStatus]
  BY DEF Init, StepStatus
<1>4. /\ pc \in [Workers -> {"idle"}] /\ job \in [Workers -> {NoJob}]
      /\ verdict \in [Workers \cup Admins -> {"NONE"}]
      /\ task \in [Admins -> {"idle"}] /\ subject \in [Admins -> {NoStep}]
  BY DEF Init
<1> QED
  BY <1>1, <1>2, <1>3, <1>4 DEF Init, TypeOK

\* The steps of startDeprovisioningRun.
LEMMA TypeStart ==
  ASSUME TypeOK, HandInv,
         Start \/ StartCrash \/ \E s \in Steps : PublishFirst(s) \/ MarkUnpublished(s)
  PROVE  TypeOK' /\ HandInv'
<1> USE DEF TypeOK, HandInv, StepStatus, RunStatus, runVars, stepVars, qVars, startVars,
            workerVars, adminVars, history
<1>1. CASE Start
  BY <1>1 DEF Start
<1>2. CASE StartCrash
  BY <1>2, DeprovisioningAssumption DEF StartCrash, Fault, Incident
<1>3. ASSUME NEW s \in Steps, PublishFirst(s) PROVE TypeOK' /\ HandInv'
  <2>1. Id(s, 0) \in DedupIds
    BY IdType
  <2>2. queue' \subseteq Messages /\ known' \subseteq DedupIds /\ dropped' \subseteq Steps
    BY <1>3, <2>1, PublishType DEF PublishFirst
  <2>3. /\ incidents' \in 0 .. MaxIncidents
        /\ doubtful' \subseteq Steps /\ spent' \subseteq doubtful'
        /\ unpublished' \subseteq Steps /\ toPublish' \subseteq Steps
    BY <1>3, DeprovisioningAssumption DEF PublishFirst, Fault, Incident
  <2> QED
    BY <1>3, <2>2, <2>3 DEF PublishFirst
<1>4. ASSUME NEW s \in Steps, MarkUnpublished(s) PROVE TypeOK' /\ HandInv'
  BY <1>4 DEF MarkUnpublished
<1> QED BY <1>1, <1>2, <1>3, <1>4

\* The steps of a worker.
LEMMA TypeWorker ==
  ASSUME TypeOK, HandInv, NEW w \in Workers, WorkerStep(w) \/ Abort(w) \/ Timeout(w)
  PROVE  TypeOK' /\ HandInv'
<1> USE DEF TypeOK, HandInv, StepStatus, RunStatus, runVars, stepVars, qVars, startVars,
            workerVars, adminVars, history, Goto, Return
<1>0. pc[w] # "idle"
  BY DEF WorkerStep, GiveUp, MarkStep, CallProvider, ProviderThrows, SaveStep, ReadSteps,
         WriteRun, Abort, Timeout
<1>1. job[w] \in Messages /\ Step(w) \in Steps
  BY <1>0, StepType
<1>2. Again(job[w]) \subseteq Messages
  BY <1>1, AgainType
<1>3. CASE GiveUp(w)
  BY <1>1, <1>3 DEF GiveUp
<1>4. CASE MarkStep(w)
  BY <1>1, <1>4 DEF MarkStep
<1>5. CASE CallProvider(w)
  BY <1>1, <1>5 DEF CallProvider
<1>6. CASE ProviderThrows(w)
  BY <1>1, <1>2, <1>6 DEF ProviderThrows
<1>7. CASE SaveStep(w)
  BY <1>1, <1>7 DEF SaveStep, Success
<1>8. CASE ReadSteps(w)
  BY <1>1, <1>8, DeriveType DEF ReadSteps
<1>9. CASE WriteRun(w)
  BY <1>1, <1>9 DEF WriteRun
<1>10. CASE Abort(w)
  BY <1>1, <1>2, <1>10, DeprovisioningAssumption DEF Abort, Incident
<1>11. CASE Timeout(w)
  <2>1. [job[w] EXCEPT !.tries = QStashRetries] \in Messages
    BY <1>1, DeprovisioningAssumption DEF Messages
  <2>2. job' = [job EXCEPT ![w] = [job[w] EXCEPT !.tries = QStashRetries]]
    BY <1>11 DEF Timeout
  <2>3. /\ job' \in [Workers -> Messages \cup {NoJob}]
        /\ \A u \in Workers : pc[u] # "idle" => job'[u] \in Messages
    BY <2>1, <2>2
  <2> QED
    BY <1>1, <1>2, <1>11, <2>3, DeprovisioningAssumption DEF Timeout, Fault, Incident
<1> QED
  BY <1>3, <1>4, <1>5, <1>6, <1>7, <1>8, <1>9, <1>10, <1>11 DEF WorkerStep

\* The steps of an administrator.
LEMMA TypeAdmin ==
  ASSUME TypeOK, HandInv, NEW a \in Admins,
         RetryRead(a) \/ OverrideRead(a) \/ AdminStep(a) \/ AdminCrash(a)
  PROVE  TypeOK' /\ HandInv'
<1> USE DEF TypeOK, HandInv, StepStatus, RunStatus, runVars, stepVars, qVars, startVars,
            workerVars, adminVars, history, Begin, Finish, Proceed
<1>1. CASE RetryRead(a)
  BY <1>1, DeprovisioningAssumption DEF RetryRead, Incident
<1>2. CASE OverrideRead(a)
  BY <1>2 DEF OverrideRead
<1>3. CASE RetryReset(a)
  BY <1>3 DEF RetryReset
<1>4. CASE RetryPublish(a)
  <2>1. subject[a] \in Steps /\ Id(subject[a], nextAttempt[a]) \in DedupIds
    BY <1>4, IdType DEF RetryPublish
  <2>2. queue' \subseteq Messages /\ known' \subseteq DedupIds /\ dropped' \subseteq Steps
    BY <1>4, <2>1, PublishType DEF RetryPublish
  <2>3. /\ incidents' \in 0 .. MaxIncidents
        /\ doubtful' \subseteq Steps /\ spent' \subseteq doubtful'
    BY <1>4, <2>1, DeprovisioningAssumption DEF RetryPublish, Fault, Incident
  <2> QED
    BY <1>4, <2>2, <2>3 DEF RetryPublish
<1>5. CASE RetryMark(a)
  BY <1>5 DEF RetryMark
<1>6. CASE OverrideWrite(a)
  BY <1>6, DeriveType DEF OverrideWrite
<1>7. CASE OverrideCommit(a)
  BY <1>7 DEF OverrideCommit, Success
<1>8. CASE AdminCrash(a)
  BY <1>8, DeprovisioningAssumption DEF AdminCrash, Fault, Incident
<1> QED
  BY <1>1, <1>2, <1>3, <1>4, <1>5, <1>6, <1>7, <1>8 DEF AdminStep

LEMMA TypeNext == TypeOK /\ HandInv /\ [Next]_vars => TypeOK' /\ HandInv'
<1> SUFFICES ASSUME TypeOK, HandInv, [Next]_vars PROVE TypeOK' /\ HandInv'
  OBVIOUS
<1>1. ASSUME NEW w \in Workers, NEW m \in queue, Receive(w, m) PROVE TypeOK' /\ HandInv'
  <2>1. m \in Messages /\ m.id.step \in Steps
    BY DEF TypeOK, Messages, DedupIds
  <2> QED
    BY <1>1, <2>1 DEF Receive, TypeOK, HandInv, runVars, stepVars, startVars, adminVars, history
<1>2. CASE UNCHANGED vars
  BY <1>2 DEF vars, TypeOK, HandInv, runVars, stepVars, qVars, startVars, workerVars,
              adminVars, history
<1> QED
  BY <1>1, <1>2, TypeStart, TypeWorker, TypeAdmin DEF Next, StartStep

\* Every variable keeps its type, whatever is retried, lost or late.
THEOREM DeprovisioningTypeCorrect == Spec => []TypeOK
<1>1. Init => TypeOK /\ HandInv
  BY TypeInit
<1>2. TypeOK /\ HandInv /\ [Next]_vars => TypeOK' /\ HandInv'
  BY TypeNext
<1> QED BY <1>1, <1>2, PTL DEF Spec
-----------------------------------------------------------------------------
(* A completed run is backed.                                                 *)

LEMMA GoneInit == Init => GoneInv
BY DEF Init, GoneInv, StatusBacked, OutcomeBacked, VerdictBacked, CompletedIsGone

\* When every step is a success, every access is settled.
LEMMA AllBacked ==
  ASSUME StatusBacked, \A s \in Steps : status[s] \in Success
  PROVE  Steps \subseteq Settled
BY DEF StatusBacked, Success, Settled

\* Steps that write neither a success nor a verdict, and leave workers and
\* administrators where they are.
LEMMA GoneStart ==
  ASSUME TypeOK, HandInv, GoneInv,
         Start \/ StartCrash \/ \E s \in Steps : PublishFirst(s) \/ MarkUnpublished(s)
  PROVE  GoneInv'
<1> USE DEF GoneInv, StatusBacked, OutcomeBacked, VerdictBacked, CompletedIsGone, Settled,
            Step, runVars, stepVars, workerVars, adminVars, history
<1>1. CASE Start
  BY <1>1 DEF Start
<1>2. CASE StartCrash
  BY <1>2 DEF StartCrash
<1>3. ASSUME NEW s \in Steps, PublishFirst(s) PROVE GoneInv'
  BY <1>3 DEF PublishFirst
<1>4. ASSUME NEW s \in Steps, MarkUnpublished(s) PROVE GoneInv'
  BY <1>4 DEF MarkUnpublished, TypeOK
<1> QED BY <1>1, <1>2, <1>3, <1>4

LEMMA GoneWorker ==
  ASSUME TypeOK, HandInv, GoneInv, NEW w \in Workers,
         WorkerStep(w) \/ Abort(w) \/ Timeout(w)
  PROVE  GoneInv'
<1> USE DEF GoneInv, StatusBacked, OutcomeBacked, VerdictBacked, CompletedIsGone, Settled,
            Step, runVars, stepVars, workerVars, adminVars, history, Goto, Return, TypeOK
<1>0. gone' \subseteq Steps
  BY TypeWorker
<1>1. \A a \in Admins : a # w
  BY DeprovisioningAssumption
<1>2. CASE GiveUp(w)
  BY <1>2 DEF GiveUp
<1>3. CASE MarkStep(w)
  BY <1>3 DEF MarkStep
<1>4. CASE CallProvider(w)
  <2>1. Settled \subseteq Settled' /\ gone \subseteq gone' /\ overridden' = overridden
    <3>1. overridden' = overridden
      BY <1>4 DEF CallProvider
    <3>2. gone' = gone \/ gone' = gone \cup {Step(w)}
      BY <1>4 DEF CallProvider
    <3> QED
      BY <3>1, <3>2
  <2>2. StatusBacked' /\ CompletedIsGone'
    BY <1>4, <1>0, <2>1 DEF CallProvider
  <2>3. OutcomeBacked'
    BY <1>4, <2>1 DEF CallProvider
  <2>4. VerdictBacked'
    <3>1. \A u \in Workers : pc'[u] = "derived" => pc[u] = "derived"
      BY <1>4 DEF CallProvider
    <3> QED
      BY <1>4, <2>1, <3>1 DEF CallProvider
  <2> QED
    BY <2>2, <2>3, <2>4
<1>5. CASE ProviderThrows(w)
  <2>1. Settled \subseteq Settled' /\ gone \subseteq gone' /\ overridden' = overridden
    <3>1. overridden' = overridden
      BY <1>5 DEF ProviderThrows
    <3>2. gone' = gone \/ gone' = gone \cup {Step(w)}
      BY <1>5 DEF ProviderThrows
    <3> QED
      BY <3>1, <3>2
  <2>2. StatusBacked' /\ CompletedIsGone'
    BY <1>5, <1>0, <2>1 DEF ProviderThrows
  <2>3. \A u \in Workers : pc'[u] # "idle" =>
          pc'[u] = pc[u] /\ job'[u] = job[u] /\ verdict'[u] = verdict[u]
    BY <1>5 DEF ProviderThrows
  <2>4. \A a \in Admins : verdict'[a] = verdict[a]
    BY <1>1, <1>5 DEF ProviderThrows
  <2>5. OutcomeBacked'
    BY <2>1, <2>3
  <2>6. VerdictBacked'
    BY <1>5, <2>1, <2>3, <2>4 DEF ProviderThrows
  <2> QED
    BY <2>2, <2>5, <2>6
<1>6. CASE SaveStep(w)
  BY <1>6 DEF SaveStep
<1>7. CASE ReadSteps(w)
  <2>1. Derive(status, attempts) = "COMPLETED" => Steps \subseteq Settled
    BY DeriveCompleted, AllBacked
  <2> QED
    BY <1>1, <1>7, <2>1 DEF ReadSteps
<1>8. CASE WriteRun(w)
  BY <1>1, <1>8 DEF WriteRun
<1>9. CASE Abort(w)
  BY <1>1, <1>9 DEF Abort
<1>10. CASE Timeout(w)
  <2>1. \A u \in Workers : Step(u)' = Step(u)
    BY <1>10 DEF Timeout
  <2> QED
    BY <1>10, <2>1 DEF Timeout
<1> QED
  BY <1>2, <1>3, <1>4, <1>5, <1>6, <1>7, <1>8, <1>9, <1>10 DEF WorkerStep

LEMMA GoneAdmin ==
  ASSUME TypeOK, HandInv, GoneInv, NEW a \in Admins,
         RetryRead(a) \/ OverrideRead(a) \/ AdminStep(a) \/ AdminCrash(a)
  PROVE  GoneInv'
<1> USE DEF GoneInv, StatusBacked, OutcomeBacked, VerdictBacked, CompletedIsGone, Settled,
            Step, runVars, stepVars, workerVars, adminVars, history, Begin, Finish, Proceed,
            TypeOK
<1>1. \A w \in Workers : a # w
  BY DeprovisioningAssumption
<1>2. CASE RetryRead(a)
  BY <1>2 DEF RetryRead
<1>3. CASE OverrideRead(a)
  BY <1>3 DEF OverrideRead
<1>4. CASE RetryReset(a)
  BY <1>4 DEF RetryReset
<1>5. CASE RetryPublish(a)
  BY <1>5 DEF RetryPublish
<1>6. CASE RetryMark(a)
  BY <1>6 DEF RetryMark
<1>7. CASE OverrideWrite(a)
  <2> DEFINE after == [status EXCEPT ![subject[a]] = "MANUAL_COMPLETED"]
  <2>1. ASSUME Derive(after, attempts) = "COMPLETED"
        PROVE  Steps \subseteq Settled \cup {subject[a]}
    <3>1. \A s \in Steps : after[s] \in Success
      BY <2>1, DeriveCompleted
    <3>2. \A s \in Steps \ {subject[a]} : status[s] \in Success
      BY <3>1
    <3> QED
      BY <3>2 DEF Success
  <2>2. verdict' = [verdict EXCEPT ![a] = Derive(after, attempts)]
    BY <1>7 DEF OverrideWrite
  <2> HIDE DEF after
  <2> QED
    BY <1>1, <1>7, <2>1, <2>2 DEF OverrideWrite
<1>8. CASE OverrideCommit(a)
  <2>1. verdict[a] = "COMPLETED" => Steps \subseteq Settled'
    BY <1>8 DEF OverrideCommit
  <2>2. Settled' = Settled \cup {subject[a]} /\ subject[a] \in Steps
    BY <1>8 DEF OverrideCommit, HandInv
  <2>3. StatusBacked' /\ OutcomeBacked'
    BY <1>8 DEF OverrideCommit
  <2>4. VerdictBacked'
    BY <1>1, <1>8, <2>2 DEF OverrideCommit
  <2>5. CompletedIsGone'
    BY <1>8, <2>1, <2>2 DEF OverrideCommit
  <2> QED
    BY <2>3, <2>4, <2>5
<1>9. CASE AdminCrash(a)
  BY <1>1, <1>9 DEF AdminCrash
<1> QED
  BY <1>2, <1>3, <1>4, <1>5, <1>6, <1>7, <1>8, <1>9 DEF AdminStep

LEMMA GoneNext == IInv /\ [Next]_vars => GoneInv'
<1> SUFFICES ASSUME TypeOK, HandInv, GoneInv, [Next]_vars PROVE GoneInv'
  BY DEF IInv
<1>1. ASSUME NEW w \in Workers, NEW m \in queue, Receive(w, m) PROVE GoneInv'
  BY <1>1 DEF Receive, GoneInv, StatusBacked, OutcomeBacked, VerdictBacked, CompletedIsGone,
              Settled, Step, TypeOK, runVars, stepVars, adminVars, history
<1>2. CASE UNCHANGED vars
  BY <1>2 DEF vars, GoneInv, StatusBacked, OutcomeBacked, VerdictBacked, CompletedIsGone,
              Settled, Step, runVars, stepVars, workerVars, adminVars, history
<1> QED
  BY <1>1, <1>2, GoneStart, GoneWorker, GoneAdmin DEF Next, StartStep

\* A run that is COMPLETED has taken every access away or had it vouched for:
\* neither a job that comes twice or late, nor a derivation from old steps, nor
\* an override beside a job makes it claim more.
THEOREM DeprovisioningCompletedIsGone == Spec => []CompletedIsGone
<1>1. Init => IInv
  BY TypeInit, GoneInit DEF IInv
<1>2. IInv /\ [Next]_vars => IInv'
  BY TypeNext, GoneNext DEF IInv
<1>3. IInv => CompletedIsGone
  BY DEF IInv, GoneInv
<1> QED BY <1>1, <1>2, <1>3, PTL DEF Spec
-----------------------------------------------------------------------------
(* One carrier for each step.                                                 *)

\* A delivery that may still change its step.
Active == {"loaded", "marked", "succeeded", "refused"}

\* A step is carried on by its job, a worker, a manual retry, or the start.
JobOf(m, s) == m.id.step = s
AtWork(w, s) == pc[w] \in Active /\ Step(w) = s
Retries(a, s) == task[a] = "publishing" /\ subject[a] = s

NoCarrier(s) ==
  /\ \A m \in queue : ~JobOf(m, s)
  /\ \A w \in Workers : ~AtWork(w, s)
  /\ \A a \in Admins : ~Retries(a, s)
  /\ s \notin toPublish

OneCarrier(s) ==
  /\ \A m, n \in queue : JobOf(m, s) /\ JobOf(n, s) => m = n
  /\ \A v, w \in Workers : AtWork(v, s) /\ AtWork(w, s) => v = w
  /\ \A a, b \in Admins : Retries(a, s) /\ Retries(b, s) => a = b
  /\ \A m \in queue : JobOf(m, s) =>
       /\ \A w \in Workers : ~AtWork(w, s)
       /\ \A a \in Admins : ~Retries(a, s)
       /\ s \notin toPublish
  /\ \A w \in Workers : AtWork(w, s) => (\A a \in Admins : ~Retries(a, s)) /\ s \notin toPublish
  /\ \A a \in Admins : Retries(a, s) => s \notin toPublish
  /\ status[s] \in {"FAILED", "SUCCEEDED"} => NoCarrier(s)

\* What the carrier of a step knows of its attempts.
Counted(s) ==
  /\ calls[s] <= attempts[s] /\ attempts[s] <= MaxAttempts
  /\ \A m \in queue : JobOf(m, s) => m.tries <= attempts[s]
  /\ \A w \in Workers : AtWork(w, s) =>
       /\ job[w].tries <= attempts[s]
       /\ pc[w] = "loaded" => seen[w] = attempts[s]
       /\ pc[w] = "marked" => calls[s] < attempts[s] /\ job[w].tries < attempts[s]

CarrierInv ==
  /\ \A s \in Steps \ doubtful : OneCarrier(s) /\ Counted(s)
  /\ unpublished \subseteq doubtful
  /\ \A a \in Admins : task[a] = "unpublished" => subject[a] \in doubtful
  /\ run = "NONE" => /\ queue = {} /\ toPublish = {} /\ doubtful = {} /\ ~stale
                     /\ \A w \in Workers : pc[w] = "idle"
                     /\ \A a \in Admins : task[a] = "idle"
                     /\ \A s \in Steps : status[s] = "PENDING" /\ attempts[s] = 0

VerdictSet ==
  /\ \A w \in Workers : pc[w] = "derived" => verdict[w] # "NONE"
  /\ \A a \in Admins : task[a] = "committing" => verdict[a] # "NONE"

\* Somebody is going to derive the status of the run.
Underway ==
  \/ queue # {} \/ toPublish # {}
  \/ \E w \in Workers : pc[w] # "idle"
  \/ \E a \in Admins : task[a] = "publishing"

QuietInv ==
  run # "NONE" /\ doubtful \cup dropped = {} /\ ~stale /\ ~Underway => run = Derive(status, attempts)

LEMMA CarrierInit == Init => CarrierInv /\ VerdictSet /\ QuietInv
BY DeprovisioningAssumption
   DEF Init, CarrierInv, VerdictSet, QuietInv, OneCarrier, NoCarrier, Counted, JobOf, AtWork, Retries, Active

\* The delivery after a failed one is of the same job, one try later.
LEMMA AgainFacts ==
  ASSUME NEW m \in Messages, NEW n \in Again(m)
  PROVE  /\ n \in Messages /\ n.id = m.id /\ n.tries = m.tries + 1
         /\ \A k \in Again(m) : k = n
<1>1. m.tries \in Nat /\ m.tries < QStashRetries /\ n = [m EXCEPT !.tries = @ + 1]
  BY DeprovisioningAssumption DEF Again, Messages
<1>2. n.id = m.id /\ n.tries = m.tries + 1
  BY <1>1 DEF Messages
<1>3. \A k \in Again(m) : k = n
  BY <1>1 DEF Again
<1> QED
  BY <1>2, <1>3, AgainType

\* A publication adds the job of its id, or nothing.
LEMMA PublishFacts ==
  ASSUME NEW s \in Steps, NEW n \in Nat, Publish(Id(s, n))
  PROVE  /\ \A m \in queue' : m \in queue \/ m = [id |-> Id(s, n), tries |-> 0]
         /\ dropped' = {} => queue' # {}
         /\ dropped \subseteq dropped'
         /\ [id |-> Id(s, n), tries |-> 0].id.step = s
BY DEF Publish, Id, qVars

\* A step no new carrier takes up keeps its carrier, and one that ends loses it.
LEMMA CarrierKept ==
  ASSUME NEW s \in Steps, OneCarrier(s),
         \A m \in queue' : JobOf(m, s) => m \in queue,
         \A w \in Workers : AtWork(w, s)' => AtWork(w, s),
         \A a \in Admins : Retries(a, s)' => Retries(a, s),
         s \in toPublish' => s \in toPublish,
         status'[s] = status[s] \/ status'[s] \notin {"FAILED", "SUCCEEDED"}
  PROVE  OneCarrier(s)'
BY DEF OneCarrier, NoCarrier, JobOf

\* What is counted for a step stays right while its row is left alone.
LEMMA CountedKept ==
  ASSUME NEW s \in Steps, Counted(s),
         \A m \in queue' : JobOf(m, s) => m \in queue,
         \A w \in Workers : AtWork(w, s)' => AtWork(w, s) /\ job'[w] = job[w] /\ seen'[w] = seen[w]
                                            /\ (pc'[w] \in {"loaded", "marked"} => pc'[w] = pc[w]),
         attempts'[s] = attempts[s], calls'[s] = calls[s]
  PROVE  Counted(s)'
BY DEF Counted, AtWork, JobOf

\* Both lemmas, for steps that leave the row and its workers alone.
LEMMA StepKept ==
  ASSUME NEW s \in Steps, OneCarrier(s), Counted(s),
         \A m \in queue' : JobOf(m, s) => m \in queue,
         \A w \in Workers : AtWork(w, s)' => AtWork(w, s) /\ job'[w] = job[w] /\ seen'[w] = seen[w]
                                            /\ (pc'[w] \in {"loaded", "marked"} => pc'[w] = pc[w]),
         \A a \in Admins : Retries(a, s)' => Retries(a, s),
         s \in toPublish' => s \in toPublish,
         attempts'[s] = attempts[s], calls'[s] = calls[s],
         status'[s] = status[s] \/ status'[s] \notin {"FAILED", "SUCCEEDED"}
  PROVE  OneCarrier(s)' /\ Counted(s)'
BY CarrierKept, CountedKept

\* startDeprovisioningRun.
LEMMA CarrierStart ==
  ASSUME TypeOK, HandInv, CarrierInv, NEW s \in Steps, s \notin doubtful',
         Start \/ StartCrash \/ \E t \in Steps : PublishFirst(t) \/ MarkUnpublished(t)
  PROVE  OneCarrier(s)' /\ Counted(s)'
<1> USE DEF runVars, stepVars, qVars, startVars, workerVars, adminVars, history, Fault
<1>0. s \notin doubtful /\ OneCarrier(s) /\ Counted(s)
  <2>1. doubtful \subseteq doubtful'
    BY DEF Start, StartCrash, PublishFirst, MarkUnpublished
  <2> QED
    BY <2>1 DEF CarrierInv
<1>1. CASE Start
  <2>1. /\ queue' = {} /\ toPublish' = Steps /\ status'[s] = "PENDING"
        /\ \A w \in Workers : ~AtWork(w, s)'
        /\ \A a \in Admins : ~Retries(a, s)'
        /\ attempts' = attempts /\ calls' = calls
    BY <1>1 DEF Start, CarrierInv, AtWork, Retries, Active
  <2> QED
    BY <1>0, <2>1 DEF OneCarrier, Counted
<1>2. CASE StartCrash
  <2>1. /\ UNCHANGED <<queue, stepVars, workerVars, adminVars, calls>> /\ toPublish' = {}
    BY <1>2 DEF StartCrash
  <2> QED
    BY <1>0, <2>1, StepKept DEF AtWork, Retries, Step
<1>3. ASSUME NEW t \in Steps, PublishFirst(t) PROVE OneCarrier(s)' /\ Counted(s)'
  <2>1. /\ t \in toPublish /\ toPublish' = toPublish \ {t}
        /\ UNCHANGED <<stepVars, workerVars, adminVars, calls>>
        /\ UNCHANGED queue \/ Publish(Id(t, 0))
    BY <1>3 DEF PublishFirst
  <2>2. /\ \A w \in Workers : AtWork(w, s)' <=> AtWork(w, s)
        /\ \A a \in Admins : Retries(a, s)' <=> Retries(a, s)
    BY <2>1 DEF AtWork, Retries, Step
  <2>3. ASSUME t # s PROVE \A m \in queue' : JobOf(m, s) => m \in queue
    BY <2>1, <2>3, PublishFacts DEF JobOf
  <2>4. CASE t # s
    BY <1>0, <2>1, <2>2, <2>3, <2>4, StepKept
  <2>5. CASE t = s
    <3>1. /\ \A m \in queue : ~JobOf(m, s)
          /\ \A w \in Workers : ~AtWork(w, s)
          /\ \A a \in Admins : ~Retries(a, s)
          /\ status[s] \notin {"FAILED", "SUCCEEDED"} /\ s \notin toPublish'
      <4>1. s \in toPublish /\ s \notin toPublish'
        BY <2>1, <2>5
      <4>2. \A m \in queue : ~JobOf(m, s)
        BY <1>0, <4>1 DEF OneCarrier
      <4>3. \A w \in Workers : ~AtWork(w, s)
        BY <1>0, <4>1 DEF OneCarrier
      <4>4. \A a \in Admins : ~Retries(a, s)
        BY <1>0, <4>1 DEF OneCarrier
      <4>5. status[s] \notin {"FAILED", "SUCCEEDED"}
        BY <1>0, <4>1 DEF OneCarrier, NoCarrier
      <4> QED
        BY <4>1, <4>2, <4>3, <4>4, <4>5
    <3>2. \A m \in queue' : JobOf(m, s) => m = [id |-> Id(s, 0), tries |-> 0]
      BY <2>1, <2>5, <3>1, PublishFacts
    <3>3. OneCarrier(s)'
      BY <2>1, <2>2, <3>1, <3>2 DEF OneCarrier, JobOf
    <3>4. attempts[s] \in Nat
      BY DEF TypeOK
    <3>5. Counted(s)'
      BY <1>0, <2>1, <2>2, <3>1, <3>2, <3>4 DEF Counted, JobOf
    <3> QED
      BY <3>3, <3>5
  <2> QED
    BY <2>4, <2>5
<1>4. ASSUME NEW t \in Steps, MarkUnpublished(t) PROVE OneCarrier(s)' /\ Counted(s)'
  <2>1. t # s
    BY <1>0, <1>4 DEF MarkUnpublished, CarrierInv
  <2>2. /\ UNCHANGED <<queue, toPublish, workerVars, adminVars, calls>>
        /\ status'[s] = status[s] /\ attempts'[s] = attempts[s]
    BY <1>4, <2>1 DEF MarkUnpublished, TypeOK
  <2> QED
    BY <1>0, <2>2, StepKept DEF AtWork, Retries, Step
<1> QED
  BY <1>1, <1>2, <1>3, <1>4

\* A job that arrives, and what its worker does.
LEMMA CarrierWorker ==
  ASSUME TypeOK, HandInv, CarrierInv, NEW s \in Steps, s \notin doubtful', NEW w \in Workers,
         (\E m \in queue : Receive(w, m)) \/ WorkerStep(w) \/ Abort(w) \/ Timeout(w)
  PROVE  OneCarrier(s)' /\ Counted(s)'
<1> USE DEF runVars, stepVars, qVars, startVars, workerVars, adminVars, history, Fault
<1>0. s \notin doubtful /\ OneCarrier(s) /\ Counted(s)
  <2>1. doubtful \subseteq doubtful'
    BY DEF Receive, WorkerStep, GiveUp, MarkStep, CallProvider, ProviderThrows, SaveStep, ReadSteps,
           WriteRun, Abort, Timeout
  <2> QED
    BY <2>1 DEF CarrierInv
<1>a. /\ UNCHANGED <<toPublish, task, subject>>
      /\ \A v \in Workers \ {w} : pc'[v] = pc[v] /\ job'[v] = job[v] /\ seen'[v] = seen[v]
  BY DEF Receive, WorkerStep, GiveUp, MarkStep, CallProvider, ProviderThrows, SaveStep, ReadSteps,
         WriteRun, Abort, Timeout, Goto, Return, TypeOK
<1>b. /\ \A v \in Workers \ {w} : AtWork(v, s)' <=> AtWork(v, s)
      /\ \A a \in Admins : Retries(a, s)' <=> Retries(a, s)
  BY <1>a DEF AtWork, Retries, Step
<1>t. attempts[s] \in Nat /\ calls[s] \in Nat /\ MaxAttempts \in Nat /\ QStashRetries \in Nat
  BY DeprovisioningAssumption DEF TypeOK
<1>k. ASSUME ~AtWork(w, s)', \A m \in queue' : JobOf(m, s) => m \in queue,
             status'[s] = status[s], attempts'[s] = attempts[s], calls'[s] = calls[s]
      PROVE  OneCarrier(s)' /\ Counted(s)'
  <2>1. /\ \A v \in Workers : AtWork(v, s)' => AtWork(v, s) /\ job'[v] = job[v] /\ seen'[v] = seen[v]
                                            /\ (pc'[v] \in {"loaded", "marked"} => pc'[v] = pc[v])
    BY <1>k, <1>a, <1>b
  <2> QED
    BY <1>k, <1>0, <1>a, <1>b, <2>1, StepKept
<1>1. ASSUME NEW m \in queue, Receive(w, m) PROVE OneCarrier(s)' /\ Counted(s)'
  <2>1. /\ pc[w] = "idle" /\ pc'[w] = "loaded" /\ job'[w] = m /\ seen'[w] = attempts[m.id.step]
        /\ queue' = queue \ {m} /\ UNCHANGED <<stepVars, calls>> /\ Step(w)' = m.id.step
    BY <1>1 DEF Receive, TypeOK, Step
  <2>2. CASE ~JobOf(m, s)
    BY <1>k, <2>1, <2>2 DEF AtWork, JobOf
  <2>3. CASE JobOf(m, s)
    <3>1. /\ \A n \in queue' : ~JobOf(n, s)
          /\ \A v \in Workers \ {w} : ~AtWork(v, s)'
          /\ \A a \in Admins : ~Retries(a, s)'
          /\ s \notin toPublish' /\ status'[s] \notin {"FAILED", "SUCCEEDED"}
      <4>1. \A n \in queue : JobOf(n, s) => n = m
        BY <1>0, <2>3 DEF OneCarrier
      <4>2. \A n \in queue' : ~JobOf(n, s)
        BY <2>1, <4>1
      <4>3. \A v \in Workers : ~AtWork(v, s)
        BY <1>0, <2>3 DEF OneCarrier
      <4>4. (\A a \in Admins : ~Retries(a, s)) /\ s \notin toPublish
        BY <1>0, <2>3 DEF OneCarrier
      <4>5. status[s] \notin {"FAILED", "SUCCEEDED"}
        BY <1>0, <2>3 DEF OneCarrier, NoCarrier
      <4> QED
        BY <1>a, <1>b, <2>1, <4>2, <4>3, <4>4, <4>5
    <3>2. OneCarrier(s)'
      BY <3>1 DEF OneCarrier, JobOf
    <3>3. Counted(s)'
      BY <1>0, <2>1, <2>3, <3>1 DEF Counted, JobOf
    <3> QED
      BY <3>2, <3>3
  <2> QED
    BY <2>2, <2>3
<1>2. ASSUME pc[w] # "idle", Step(w) # s, WorkerStep(w) \/ Abort(w) \/ Timeout(w)
      PROVE  OneCarrier(s)' /\ Counted(s)'
  <2>1. job[w] \in Messages /\ Step(w) \in Steps
    BY <1>2, StepType
  <2>2. ~AtWork(w, s)'
    <3>1. CASE job' = job
      BY <1>2, <3>1 DEF AtWork, Step
    <3>2. CASE Return(w)
      <4>1. pc'[w] = "idle"
        BY <3>2 DEF Return, TypeOK
      <4> QED
        BY <4>1 DEF AtWork, Active
    <3>3. CASE job' = [job EXCEPT ![w].tries = QStashRetries]
      <4>1. DOMAIN job = Workers
        BY DEF TypeOK
      <4>2. job'[w] = [job[w] EXCEPT !.tries = QStashRetries]
        BY <3>3, <4>1
      <4>3. job'[w].id = job[w].id
        BY <4>2, <2>1 DEF Messages
      <4> QED
        BY <1>2, <4>3 DEF AtWork, Step
    <3>4. \/ job' = job \/ Return(w) \/ job' = [job EXCEPT ![w].tries = QStashRetries]
      BY <1>2 DEF WorkerStep, GiveUp, MarkStep, CallProvider, ProviderThrows, SaveStep, ReadSteps,
           WriteRun, Abort, Timeout, Goto
    <3> QED
      BY <3>1, <3>2, <3>3, <3>4
  <2>3. \A m \in queue' : JobOf(m, s) => m \in queue
    <3>1. queue' = queue \/ queue' = queue \cup Again(job[w])
      BY <1>2 DEF WorkerStep, GiveUp, MarkStep, CallProvider, ProviderThrows, SaveStep, ReadSteps,
         WriteRun, Abort, Timeout
    <3> QED
      BY <1>2, <2>1, <3>1, AgainFacts DEF JobOf, Step
  <2>4. status'[s] = status[s] /\ attempts'[s] = attempts[s] /\ calls'[s] = calls[s]
    BY <1>2, <2>1 DEF WorkerStep, GiveUp, MarkStep, CallProvider, ProviderThrows, SaveStep, ReadSteps,
         WriteRun, Abort, Timeout, TypeOK
  <2> QED
    BY <1>k, <2>2, <2>3, <2>4
<1>3. ASSUME pc[w] # "idle", Step(w) = s, WorkerStep(w)
      PROVE  OneCarrier(s)' /\ Counted(s)'
  <2>m. job[w] \in Messages /\ job[w].tries \in 0 .. QStashRetries /\ job[w].id.step = s
    BY <1>3, StepType DEF Messages, Step
  <2>a. ASSUME AtWork(w, s)
        PROVE  /\ \A m \in queue : ~JobOf(m, s)
               /\ \A v \in Workers \ {w} : ~AtWork(v, s)
               /\ \A a \in Admins : ~Retries(a, s)
               /\ s \notin toPublish
               /\ status[s] \notin {"FAILED", "SUCCEEDED"}
    BY <2>a, <1>0 DEF OneCarrier, NoCarrier
  <2>s. ASSUME AtWork(w, s), UNCHANGED <<queue, job>>, AtWork(w, s)',
               status'[s] \notin {"FAILED", "SUCCEEDED"}
        PROVE  OneCarrier(s)'
    BY <2>s, <2>a, <1>0, <1>a, <1>b, CarrierKept
  <2>1. CASE GiveUp(w) \/ SaveStep(w)
    <3>1. /\ AtWork(w, s) /\ ~AtWork(w, s)'
          /\ UNCHANGED <<queue, attempts, calls>>
      BY <1>3, <2>1 DEF GiveUp, SaveStep, Goto, AtWork, Active, TypeOK, Step
    <3>2. NoCarrier(s)'
      BY <2>a, <3>1, <1>a, <1>b DEF NoCarrier, JobOf
    <3>3. OneCarrier(s)'
      BY <3>2 DEF NoCarrier, OneCarrier, JobOf
    <3>4. Counted(s)'
      BY <3>1, <3>2, <1>0 DEF NoCarrier, Counted, JobOf
    <3> QED
      BY <3>3, <3>4
  <2>2. CASE MarkStep(w)
    <3>1. /\ pc[w] = "loaded" /\ pc'[w] = "marked" /\ UNCHANGED <<queue, job, seen, calls>>
          /\ seen[w] < MaxAttempts /\ status'[s] = "IN_PROGRESS" /\ attempts'[s] = attempts[s] + 1
          /\ AtWork(w, s) /\ AtWork(w, s)'
      BY <1>3, <1>t, <2>2 DEF MarkStep, Exhausted, Goto, AtWork, Active, TypeOK, Step
    <3>2. /\ seen[w] = attempts[s] /\ job[w].tries <= attempts[s] /\ calls[s] <= attempts[s]
      BY <3>1, <1>0 DEF Counted
    <3>3. OneCarrier(s)'
      BY <3>1, <2>s
    <3>4. /\ calls'[s] < attempts'[s] /\ attempts'[s] <= MaxAttempts /\ job'[w].tries < attempts'[s]
      BY <3>1, <3>2, <1>t, <2>m
    <3>5. \A v \in Workers : AtWork(v, s)' => v = w
      BY <3>1, <2>a, <1>b
    <3> QED
      BY <3>1, <3>3, <3>4, <3>5, <1>t, <2>m, <2>a DEF Counted, JobOf
  <2>3. CASE CallProvider(w)
    <3>1. /\ pc[w] = "marked" /\ pc'[w] \in {"succeeded", "refused"}
          /\ UNCHANGED <<queue, status, attempts, job, seen>> /\ calls'[s] = calls[s] + 1
          /\ AtWork(w, s) /\ AtWork(w, s)'
      BY <1>3, <2>3 DEF CallProvider, Goto, AtWork, Active, TypeOK, Step
    <3>2. /\ calls[s] < attempts[s] /\ attempts[s] <= MaxAttempts /\ job[w].tries < attempts[s]
      BY <3>1, <1>0 DEF Counted
    <3>3. OneCarrier(s)'
      BY <3>1, <2>s, <2>a
    <3>4. \A v \in Workers : AtWork(v, s)' => v = w
      BY <3>1, <2>a, <1>b
    <3>5. calls'[s] <= attempts'[s] /\ job'[w].tries <= attempts'[s]
      BY <3>1, <3>2, <1>t, <2>m
    <3> QED
      BY <3>1, <3>2, <3>3, <3>4, <3>5, <2>a DEF Counted, JobOf
  <2>4. CASE ProviderThrows(w)
    <3>1. /\ pc[w] = "marked" /\ AtWork(w, s) /\ ~AtWork(w, s)'
          /\ UNCHANGED <<status, attempts>> /\ queue' = queue \cup Again(job[w])
          /\ calls'[s] = calls[s] \/ calls'[s] = calls[s] + 1
      BY <1>3, <2>4 DEF ProviderThrows, Return, AtWork, Active, TypeOK, Step
    <3>2. /\ calls[s] < attempts[s] /\ attempts[s] <= MaxAttempts /\ job[w].tries < attempts[s]
      BY <3>1, <1>0 DEF Counted
    <3>3. \A m \in queue' : JobOf(m, s) => m \in Again(job[w])
      BY <3>1, <2>a
    <3>4. \A m, n \in queue' : JobOf(m, s) /\ JobOf(n, s) => m = n
      BY <3>3, <2>m, AgainFacts
    <3>5. \A m \in queue' : JobOf(m, s) => m.tries <= attempts[s]
      BY <3>2, <3>3, <2>m, <1>t, AgainFacts
    <3>6. /\ \A v \in Workers : ~AtWork(v, s)'
          /\ \A a \in Admins : ~Retries(a, s)'
          /\ s \notin toPublish' /\ status'[s] \notin {"FAILED", "SUCCEEDED"}
      BY <3>1, <2>a, <1>a, <1>b
    <3>7. OneCarrier(s)'
      BY <3>4, <3>6 DEF OneCarrier, JobOf
    <3>8. Counted(s)'
      BY <3>1, <3>2, <3>5, <3>6, <1>t DEF Counted, JobOf
    <3> QED
      BY <3>7, <3>8
  <2>5. CASE ReadSteps(w) \/ WriteRun(w)
    <3>1. ~AtWork(w, s)' /\ UNCHANGED <<queue, stepVars, calls>>
      BY <2>5 DEF ReadSteps, WriteRun, Goto, Return, AtWork, Active, TypeOK
    <3> QED
      BY <3>1, <1>k
  <2> QED
    BY <1>3, <2>1, <2>2, <2>3, <2>4, <2>5 DEF WorkerStep
<1>4. ASSUME pc[w] # "idle", Step(w) = s, Abort(w) \/ Timeout(w) PROVE FALSE
  BY <1>4 DEF Abort, Timeout
<1>5. WorkerStep(w) \/ Abort(w) \/ Timeout(w) => pc[w] # "idle"
  BY DEF WorkerStep, GiveUp, MarkStep, CallProvider, ProviderThrows, SaveStep, ReadSteps,
         WriteRun, Abort, Timeout
<1> QED
  BY <1>1, <1>2, <1>3, <1>4, <1>5

\* What an administrator does.
LEMMA CarrierAdmin ==
  ASSUME TypeOK, HandInv, CarrierInv, NEW s \in Steps, s \notin doubtful', NEW a \in Admins,
         RetryRead(a) \/ OverrideRead(a) \/ AdminStep(a) \/ AdminCrash(a)
  PROVE  OneCarrier(s)' /\ Counted(s)'
<1> USE DEF runVars, stepVars, qVars, startVars, workerVars, adminVars, history, Fault
<1>0. s \notin doubtful /\ OneCarrier(s) /\ Counted(s)
  <2>1. doubtful \subseteq doubtful'
    BY DEF RetryRead, OverrideRead, AdminStep, RetryReset, RetryPublish, RetryMark, OverrideWrite,
           OverrideCommit, AdminCrash
  <2> QED
    BY <2>1 DEF CarrierInv
<1>a. /\ UNCHANGED <<toPublish, pc, job, seen>>
      /\ \A b \in Admins \ {a} : task'[b] = task[b] /\ subject'[b] = subject[b]
  BY DEF RetryRead, OverrideRead, AdminStep, RetryReset, RetryPublish, RetryMark, OverrideWrite,
         OverrideCommit, AdminCrash, Begin, Finish, Proceed, TypeOK
<1>b. /\ \A w \in Workers : AtWork(w, s)' <=> AtWork(w, s)
      /\ \A b \in Admins \ {a} : Retries(b, s)' <=> Retries(b, s)
  BY <1>a DEF AtWork, Retries, Step
<1>t. attempts[s] \in Nat /\ calls[s] \in Nat /\ MaxAttempts \in Nat
  BY DeprovisioningAssumption DEF TypeOK
<1>k. ASSUME ~Retries(a, s)', \A m \in queue' : JobOf(m, s) => m \in queue,
             status'[s] = status[s] \/ status'[s] \notin {"FAILED", "SUCCEEDED"},
             attempts'[s] = attempts[s], calls'[s] = calls[s]
      PROVE  OneCarrier(s)' /\ Counted(s)'
  <2>1. /\ \A v \in Workers : AtWork(v, s)' => AtWork(v, s) /\ job'[v] = job[v] /\ seen'[v] = seen[v]
                                            /\ (pc'[v] \in {"loaded", "marked"} => pc'[v] = pc[v])
    BY <1>a, <1>b
  <2> QED
    BY <1>k, <1>0, <1>a, <1>b, <2>1, StepKept
<1>1. CASE RetryRead(a) \/ OverrideRead(a) \/ OverrideWrite(a) \/ AdminCrash(a)
  <2>1. ~Retries(a, s)' /\ UNCHANGED <<queue, stepVars, calls>>
    BY <1>1 DEF RetryRead, OverrideRead, OverrideWrite, AdminCrash, Begin, Proceed, Finish, Retries, TypeOK
  <2> QED
    BY <2>1, <1>k
<1>2. CASE OverrideCommit(a)
  <2>1. /\ ~Retries(a, s)' /\ UNCHANGED <<queue, attempts, calls>>
        /\ status'[s] = status[s] \/ status'[s] = "MANUAL_COMPLETED"
    BY <1>2 DEF OverrideCommit, Finish, Retries, TypeOK
  <2> QED
    BY <2>1, <1>k
<1>3. CASE RetryMark(a)
  <2>1. subject[a] # s
    BY <1>0, <1>3 DEF RetryMark, CarrierInv
  <2>2. /\ ~Retries(a, s)' /\ UNCHANGED <<queue, calls>>
        /\ status'[s] = status[s] /\ attempts'[s] = attempts[s]
    BY <1>3, <2>1 DEF RetryMark, Finish, Retries, TypeOK
  <2> QED
    BY <2>2, <1>k
<1>4. CASE RetryReset(a)
  <2>1. CASE subject[a] = s /\ status[s] = "FAILED"
    <3>1. /\ status'[s] = "PENDING" /\ attempts'[s] = 0 /\ calls'[s] = 0 /\ UNCHANGED queue
      BY <1>4, <2>1 DEF RetryReset, TypeOK
    <3>2. NoCarrier(s)
      BY <1>0, <2>1 DEF OneCarrier
    <3>3. OneCarrier(s)'
      BY <1>a, <1>b, <3>1, <3>2 DEF NoCarrier, OneCarrier, JobOf
    <3>4. Counted(s)'
      BY <1>a, <1>b, <1>t, <3>1, <3>2 DEF NoCarrier, Counted, JobOf
    <3> QED
      BY <3>3, <3>4
  <2>2. CASE subject[a] # s \/ status[s] # "FAILED"
    <3>1. /\ ~Retries(a, s)' /\ UNCHANGED queue
          /\ status'[s] = status[s] /\ attempts'[s] = attempts[s] /\ calls'[s] = calls[s]
      BY <1>4, <2>2 DEF RetryReset, Proceed, Finish, Retries, TypeOK
    <3> QED
      BY <3>1, <1>k
  <2> QED
    BY <2>1, <2>2
<1>5. CASE RetryPublish(a)
  <2>0. subject[a] \in Steps /\ nextAttempt[a] \in Nat
    BY <1>5 DEF RetryPublish, HandInv, TypeOK
  <2>1. /\ ~Retries(a, s)' /\ UNCHANGED <<stepVars, calls>>
        /\ UNCHANGED queue \/ Publish(Id(subject[a], nextAttempt[a]))
    BY <1>5 DEF RetryPublish, Proceed, Finish, Retries, TypeOK
  <2>2. CASE subject[a] # s
    <3>1. \A m \in queue' : JobOf(m, s) => m \in queue
      BY <2>0, <2>1, <2>2, PublishFacts DEF JobOf
    <3> QED
      BY <2>1, <3>1, <1>k
  <2>3. CASE subject[a] = s
    <3> DEFINE j == [id |-> Id(s, nextAttempt[a]), tries |-> 0]
    <3>1. Retries(a, s)
      BY <1>5, <2>3 DEF RetryPublish, Retries
    <3>2. /\ \A m \in queue : ~JobOf(m, s)
          /\ \A w \in Workers : ~AtWork(w, s)'
          /\ \A b \in Admins : ~Retries(b, s)'
          /\ s \notin toPublish' /\ status'[s] \notin {"FAILED", "SUCCEEDED"}
      BY <1>0, <1>a, <1>b, <2>1, <3>1 DEF OneCarrier, NoCarrier
    <3>3. \A m \in queue' : JobOf(m, s) => m = j
      BY <2>0, <2>1, <2>3, <3>2, PublishFacts
    <3>4. OneCarrier(s)'
      BY <3>2, <3>3 DEF OneCarrier, JobOf
    <3>5. Counted(s)'
      BY <1>0, <1>t, <2>1, <3>2, <3>3 DEF Counted, JobOf
    <3> QED
      BY <3>4, <3>5
  <2> QED
    BY <2>2, <2>3
<1> QED
  BY <1>1, <1>2, <1>3, <1>4, <1>5 DEF AdminStep

\* A worker that acts is busy.
LEMMA BusyWorker ==
  ASSUME NEW w \in Workers, WorkerStep(w) \/ Abort(w) \/ Timeout(w)
  PROVE  pc[w] # "idle"
BY DEF WorkerStep, GiveUp, MarkStep, CallProvider, ProviderThrows, SaveStep, ReadSteps, WriteRun,
       Abort, Timeout

\* The doubtful steps stay doubtful, and so does what is marked.
LEMMA DoubtGrows ==
  ASSUME TypeOK, HandInv, CarrierInv, Next
  PROVE  /\ doubtful \subseteq doubtful' /\ dropped \subseteq dropped'
         /\ unpublished' \subseteq doubtful'
         /\ \A a \in Admins : task'[a] = "unpublished" => subject'[a] \in doubtful'
<1> USE DEF runVars, stepVars, qVars, startVars, workerVars, adminVars, history, Fault, CarrierInv
<1>1. CASE Start
  BY <1>1 DEF Start
<1>2. CASE StartCrash
  BY <1>2 DEF StartCrash
<1>3. ASSUME NEW s \in Steps, PublishFirst(s)
      PROVE  /\ doubtful \subseteq doubtful' /\ dropped \subseteq dropped'
             /\ unpublished' \subseteq doubtful' /\ UNCHANGED adminVars
  BY <1>3 DEF PublishFirst, Publish
<1>4. ASSUME NEW s \in Steps, MarkUnpublished(s)
      PROVE  /\ doubtful \subseteq doubtful' /\ dropped \subseteq dropped'
             /\ unpublished' \subseteq doubtful' /\ UNCHANGED adminVars
  BY <1>4 DEF MarkUnpublished
<1>5. ASSUME NEW w \in Workers, (\E m \in queue : Receive(w, m)) \/ WorkerStep(w) \/ Abort(w) \/ Timeout(w)
      PROVE  /\ doubtful \subseteq doubtful' /\ dropped \subseteq dropped'
             /\ UNCHANGED <<unpublished, adminVars>>
  BY <1>5 DEF Receive, WorkerStep, GiveUp, MarkStep, CallProvider, ProviderThrows, SaveStep,
              ReadSteps, WriteRun, Abort, Timeout
<1>6. ASSUME NEW a \in Admins, RetryRead(a) \/ OverrideRead(a) \/ AdminStep(a) \/ AdminCrash(a)
      PROVE  /\ doubtful \subseteq doubtful' /\ dropped \subseteq dropped'
             /\ unpublished' = unpublished
             /\ \A b \in Admins \ {a} : task'[b] = task[b] /\ subject'[b] = subject[b]
             /\ task'[a] = "unpublished" => subject'[a] \in doubtful'
  <2>1. CASE RetryPublish(a)
    BY <1>6, <2>1 DEF RetryPublish, Publish, Proceed, Finish, TypeOK
  <2>2. CASE RetryRead(a) \/ OverrideRead(a)
    BY <1>6, <2>2 DEF RetryRead, OverrideRead, Begin, TypeOK
  <2>3. CASE RetryReset(a) \/ RetryMark(a)
    BY <1>6, <2>3 DEF RetryReset, RetryMark, Proceed, Finish, TypeOK
  <2>4. CASE OverrideWrite(a) \/ OverrideCommit(a) \/ AdminCrash(a)
    BY <1>6, <2>4 DEF OverrideWrite, OverrideCommit, AdminCrash, Proceed, Finish, TypeOK
  <2> QED
    BY <1>6, <2>1, <2>2, <2>3, <2>4 DEF AdminStep
<1>7. ASSUME NEW s \in Steps, PublishFirst(s) \/ MarkUnpublished(s)
      PROVE  \A a \in Admins : task'[a] = "unpublished" => subject'[a] \in doubtful'
  BY <1>3, <1>4, <1>7
<1>8. ASSUME NEW a \in Admins, RetryRead(a) \/ OverrideRead(a) \/ AdminStep(a) \/ AdminCrash(a)
      PROVE  /\ unpublished' \subseteq doubtful'
             /\ \A b \in Admins : task'[b] = "unpublished" => subject'[b] \in doubtful'
  BY <1>6, <1>8
<1> QED
  BY <1>1, <1>2, <1>3, <1>4, <1>5, <1>6, <1>7, <1>8 DEF Next, StartStep

\* What is about to be written to the run is a status.
LEMMA VerdictNext ==
  ASSUME TypeOK, VerdictSet, [Next]_vars
  PROVE  VerdictSet'
<1> USE DEF runVars, stepVars, qVars, startVars, workerVars, adminVars, history, VerdictSet
<1>1. CASE Start \/ StartStep \/ StartCrash
  BY <1>1 DEF Start, StartStep, StartCrash, PublishFirst, MarkUnpublished
<1>2. ASSUME NEW w \in Workers,
             (\E m \in queue : Receive(w, m)) \/ WorkerStep(w) \/ Abort(w) \/ Timeout(w)
      PROVE  VerdictSet'
  <2>1. \A a \in Admins : a # w
    BY DeprovisioningAssumption
  <2>2. CASE ReadSteps(w)
    <3>1. Derive(status, attempts) # "NONE"
      BY DeriveType DEF RunStatus
    <3> QED
      BY <1>2, <2>1, <2>2, <3>1 DEF ReadSteps, Goto, TypeOK
  <2>3. CASE ProviderThrows(w) \/ WriteRun(w) \/ Abort(w)
    BY <1>2, <2>1, <2>3 DEF ProviderThrows, WriteRun, Abort, Return, TypeOK
  <2>4. CASE \E m \in queue : Receive(w, m)
    BY <1>2, <2>1, <2>4 DEF Receive, TypeOK
  <2>5. CASE GiveUp(w) \/ MarkStep(w) \/ CallProvider(w) \/ SaveStep(w) \/ Timeout(w)
    BY <1>2, <2>1, <2>5 DEF GiveUp, MarkStep, CallProvider, SaveStep, Timeout, Goto, TypeOK
  <2> QED
    BY <1>2, <2>2, <2>3, <2>4, <2>5 DEF WorkerStep
<1>3. ASSUME NEW a \in Admins, RetryRead(a) \/ OverrideRead(a) \/ AdminStep(a) \/ AdminCrash(a)
      PROVE  VerdictSet'
  <2>1. \A w \in Workers : a # w
    BY DeprovisioningAssumption
  <2>2. CASE OverrideWrite(a)
    <3> DEFINE v == Derive([status EXCEPT ![subject[a]] = "MANUAL_COMPLETED"], attempts)
    <3>1. v # "NONE"
      BY DeriveType DEF RunStatus
    <3>2. /\ verdict' = [verdict EXCEPT ![a] = v] /\ task' = [task EXCEPT ![a] = "committing"]
          /\ pc' = pc
      BY <2>2 DEF OverrideWrite, Proceed
    <3> HIDE DEF v
    <3> QED
      BY <2>1, <3>1, <3>2 DEF TypeOK
  <2>3. CASE OverrideCommit(a) \/ AdminCrash(a)
    BY <1>3, <2>1, <2>3 DEF OverrideCommit, AdminCrash, Finish, TypeOK
  <2>4. CASE RetryRead(a) \/ OverrideRead(a)
    BY <1>3, <2>1, <2>4 DEF RetryRead, OverrideRead, Begin, TypeOK
  <2>5. CASE RetryReset(a) \/ RetryPublish(a) \/ RetryMark(a)
    BY <1>3, <2>1, <2>5 DEF RetryReset, RetryPublish, RetryMark, Proceed, Finish, TypeOK
  <2> QED
    BY <1>3, <2>2, <2>3, <2>4, <2>5 DEF AdminStep
<1>4. CASE UNCHANGED vars
  BY <1>4 DEF vars
<1> QED
  BY <1>1, <1>2, <1>3, <1>4 DEF Next

\* Only the start acts on a run that does not exist ...
LEMMA OnlyStart ==
  ASSUME TypeOK, HandInv, CarrierInv, Next, run = "NONE"
  PROVE  Start
<1> USE DEF CarrierInv
<1>1. ASSUME NEW a \in Admins, RetryRead(a) \/ OverrideRead(a) \/ AdminStep(a) \/ AdminCrash(a)
      PROVE  FALSE
  BY <1>1 DEF RetryRead, OverrideRead, AdminStep, RetryReset, RetryPublish, RetryMark,
              OverrideWrite, OverrideCommit, AdminCrash, Begin
<1>2. ASSUME NEW w \in Workers, WorkerStep(w) \/ Abort(w) \/ Timeout(w)
      PROVE  FALSE
  BY <1>2, BusyWorker
<1>3. CASE StartStep \/ StartCrash
  BY <1>3 DEF StartStep, StartCrash, PublishFirst, MarkUnpublished
<1>4. ASSUME NEW w \in Workers, NEW m \in queue, Receive(w, m)
      PROVE  FALSE
  OBVIOUS
<1> QED
  BY <1>1, <1>2, <1>3, <1>4 DEF Next

\* ... and it makes one.
LEMMA NoRunYet ==
  ASSUME TypeOK, HandInv, CarrierInv, VerdictSet, Next
  PROVE  run' # "NONE"
<1> USE DEF runVars, stepVars, qVars, startVars, workerVars, adminVars, history, CarrierInv
<1>1. CASE run = "NONE"
  BY <1>1, OnlyStart DEF Start
<1>2. CASE run # "NONE"
  <2>1. ASSUME NEW w \in Workers,
               (\E m \in queue : Receive(w, m)) \/ WorkerStep(w) \/ Abort(w) \/ Timeout(w)
        PROVE  run' = run \/ (pc[w] = "derived" /\ run' = verdict[w])
    BY <2>1 DEF Receive, WorkerStep, GiveUp, MarkStep, CallProvider, ProviderThrows, SaveStep,
                ReadSteps, WriteRun, Abort, Timeout
  <2>2. ASSUME NEW a \in Admins, RetryRead(a) \/ OverrideRead(a) \/ AdminStep(a) \/ AdminCrash(a)
        PROVE  run' = run \/ (task[a] = "committing" /\ run' = verdict[a])
    BY <2>2 DEF RetryRead, OverrideRead, AdminStep, RetryReset, RetryPublish, RetryMark,
                OverrideWrite, OverrideCommit, AdminCrash
  <2>3. CASE Start \/ StartStep \/ StartCrash
    BY <1>2, <2>3 DEF Start, StartStep, StartCrash, PublishFirst, MarkUnpublished
  <2> QED
    BY <1>2, <2>1, <2>2, <2>3 DEF Next, VerdictSet
<1> QED
  BY <1>1, <1>2

LEMMA CarrierNext ==
  ASSUME TypeOK, HandInv, CarrierInv, VerdictSet, [Next]_vars
  PROVE  CarrierInv'
<1>1. CASE Next
  <2>1. ASSUME NEW s \in Steps, s \notin doubtful' PROVE OneCarrier(s)' /\ Counted(s)'
    BY <1>1, <2>1, CarrierStart, CarrierWorker, CarrierAdmin DEF Next, StartStep
  <2> QED
    BY <1>1, <2>1, DoubtGrows, NoRunYet DEF CarrierInv
<1>2. CASE UNCHANGED vars
  <2>1. ASSUME NEW s \in Steps PROVE OneCarrier(s)' = OneCarrier(s) /\ Counted(s)' = Counted(s)
    BY <1>2 DEF vars, OneCarrier, NoCarrier, Counted, AtWork, Retries, Step, stepVars, qVars,
                startVars, workerVars, adminVars, history
  <2> QED
    BY <1>2, <2>1 DEF vars, CarrierInv, runVars, stepVars, qVars, startVars, workerVars, adminVars,
                      history
<1> QED
  BY <1>1, <1>2
-----------------------------------------------------------------------------
(* What the carriers give.                                                    *)

\* A run nobody works on has the status its steps say.
LEMMA QuietNext ==
  ASSUME TypeOK, HandInv, CarrierInv, QuietInv, [Next]_vars
  PROVE  QuietInv'
<1> USE DEF runVars, stepVars, qVars, startVars, workerVars, adminVars, history, Fault
<1>1. CASE Next
  <2> SUFFICES ASSUME run' # "NONE", (doubtful \cup dropped)' = {}, ~stale', ~Underway'
               PROVE  run' = Derive(status', attempts')
    BY DEF QuietInv, Derive
  <2>0. /\ doubtful = {} /\ dropped = {} /\ doubtful' = {} /\ dropped' = {}
        /\ unpublished = {}
        /\ \A a \in Admins : task[a] # "unpublished"
    BY <1>1, DoubtGrows DEF CarrierInv
  <2>1. ASSUME ~Underway, run' = run, stale' = stale, status' = status, attempts' = attempts
        PROVE  run' = Derive(status', attempts')
    BY <2>0, <2>1 DEF QuietInv
  <2>2. CASE Start
    BY <2>2, DeprovisioningAssumption DEF Start, Underway
  <2>3. CASE StartCrash
    BY <2>0, <2>3 DEF StartCrash
  <2>4. ASSUME NEW s \in Steps, PublishFirst(s) \/ MarkUnpublished(s) PROVE FALSE
    <3>1. CASE MarkUnpublished(s)
      BY <2>0, <3>1 DEF MarkUnpublished
    <3>2. CASE PublishFirst(s)
      <4>1. Publish(Id(s, 0))
        BY <2>0, <3>2 DEF PublishFirst
      <4> QED
        BY <2>0, <4>1, PublishFacts DEF Underway
    <3> QED
      BY <2>4, <3>1, <3>2
  <2>5. ASSUME NEW w \in Workers,
               (\E m \in queue : Receive(w, m)) \/ WorkerStep(w) \/ Abort(w) \/ Timeout(w)
        PROVE  run' = Derive(status', attempts')
    <3>1. pc'[w] = "idle"
      BY DEF Underway
    <3>2. CASE WriteRun(w)
      BY <3>2 DEF WriteRun
    <3>3. CASE ProviderThrows(w)
      <4>1. /\ pc[w] = "marked" /\ job[w] \in Messages /\ Step(w) \in Steps
            /\ queue' = queue \cup Again(job[w])
        BY <3>3, StepType DEF ProviderThrows
      <4>2. job[w].tries < attempts[Step(w)] /\ attempts[Step(w)] <= MaxAttempts
        BY <2>0, <4>1 DEF CarrierInv, Counted, AtWork, Active
      <4>3. job[w].tries < QStashRetries
        BY <4>1, <4>2, LastDeliveryAssumption, DeprovisioningAssumption DEF TypeOK, Messages
      <4>4. Again(job[w]) # {}
        BY <4>3 DEF Again
      <4> QED
        BY <4>1, <4>4 DEF Underway
    <3>4. CASE Abort(w) \/ Timeout(w)
      <4>1. doubtful' # {}
        BY <3>4 DEF Abort, Timeout
      <4> QED
        BY <2>0, <4>1
    <3>5. CASE \E m \in queue : Receive(w, m)
      BY <3>1, <3>5 DEF Receive, TypeOK
    <3>6. CASE GiveUp(w) \/ MarkStep(w) \/ CallProvider(w) \/ SaveStep(w) \/ ReadSteps(w)
      BY <3>1, <3>6 DEF GiveUp, MarkStep, CallProvider, SaveStep, ReadSteps, Goto, TypeOK
    <3> QED
      BY <2>5, <3>2, <3>3, <3>4, <3>5, <3>6 DEF WorkerStep
  <2>6. ASSUME NEW a \in Admins, RetryRead(a) \/ OverrideRead(a) \/ AdminStep(a) \/ AdminCrash(a)
        PROVE  run' = Derive(status', attempts')
    <3>1. CASE OverrideCommit(a)
      BY <3>1 DEF OverrideCommit
    <3>2. CASE RetryMark(a)
      BY <2>0, <3>2 DEF RetryMark
    <3>3. CASE RetryPublish(a)
      <4>1. /\ subject[a] \in Steps /\ nextAttempt[a] \in Nat
        BY <3>3 DEF RetryPublish, HandInv, TypeOK
      <4>2. Publish(Id(subject[a], nextAttempt[a]))
        BY <2>0, <3>3 DEF RetryPublish
      <4> QED
        BY <2>0, <4>1, <4>2, PublishFacts DEF Underway
    <3>4. CASE AdminCrash(a)
      BY <2>0, <3>4 DEF AdminCrash
    <3>5. CASE RetryReset(a)
      <4>1. /\ UNCHANGED <<runVars, qVars, startVars, workerVars>>
            /\ task[a] = "retrying"
            /\ \A b \in Admins \ {a} : task'[b] = task[b]
            /\ task'[a] = "publishing" \/ UNCHANGED stepVars
        BY <3>5 DEF RetryReset, Proceed, Finish, TypeOK
      <4>2. UNCHANGED stepVars /\ ~Underway
        BY <4>1 DEF Underway
      <4> QED
        BY <2>1, <4>1, <4>2
    <3>6. CASE RetryRead(a) \/ OverrideRead(a) \/ OverrideWrite(a)
      <4>1. /\ UNCHANGED <<runVars, stepVars, qVars, startVars, workerVars>>
            /\ task[a] # "publishing"
            /\ \A b \in Admins \ {a} : task'[b] = task[b]
        BY <3>6 DEF RetryRead, OverrideRead, OverrideWrite, Begin, Proceed, TypeOK
      <4>2. ~Underway
        BY <4>1 DEF Underway
      <4> QED
        BY <2>1, <4>1, <4>2
    <3> QED
      BY <2>6, <3>1, <3>2, <3>3, <3>4, <3>5, <3>6 DEF AdminStep
  <2> QED
    BY <1>1, <2>2, <2>3, <2>4, <2>5, <2>6 DEF Next, StartStep
<1>2. CASE UNCHANGED vars
  BY <1>2 DEF vars, QuietInv, Underway, Derive
<1> QED
  BY <1>1, <1>2

\* A step that succeeded has no carrier left to change it.
LEMMA SuccessKept ==
  ASSUME TypeOK, HandInv, CarrierInv, [Next]_vars, NEW s \in Steps, s \notin doubtful',
         status[s] = "SUCCEEDED"
  PROVE  status'[s] \in Success
<1> USE DEF runVars, stepVars, qVars, startVars, workerVars, adminVars, history, Fault, Success
<1>1. CASE Next
  <2>0. s \notin doubtful /\ NoCarrier(s)
    BY <1>1, DoubtGrows DEF CarrierInv, OneCarrier
  <2>1. CASE Start \/ StartCrash
    BY <2>1 DEF Start, StartCrash
  <2>2. ASSUME NEW t \in Steps, PublishFirst(t) \/ MarkUnpublished(t)
        PROVE  status'[s] = status[s]
    BY <2>0, <2>2 DEF PublishFirst, MarkUnpublished, CarrierInv, TypeOK
  <2>3. ASSUME NEW w \in Workers,
               (\E m \in queue : Receive(w, m)) \/ WorkerStep(w) \/ Abort(w) \/ Timeout(w)
        PROVE  status'[s] = status[s]
    <3>1. CASE GiveUp(w) \/ MarkStep(w) \/ SaveStep(w)
      <4>1. pc[w] \in Active /\ Step(w) # s
        BY <2>0, <3>1 DEF GiveUp, MarkStep, SaveStep, NoCarrier, AtWork, Active
      <4> QED
        BY <3>1, <4>1 DEF GiveUp, MarkStep, SaveStep, TypeOK
    <3>2. CASE \E m \in queue : Receive(w, m)
      BY <3>2 DEF Receive
    <3> QED
      BY <2>3, <3>1, <3>2 DEF WorkerStep, CallProvider, ProviderThrows, ReadSteps, WriteRun, Abort,
                              Timeout
  <2>4. ASSUME NEW a \in Admins, RetryRead(a) \/ OverrideRead(a) \/ AdminStep(a) \/ AdminCrash(a)
        PROVE  status'[s] \in Success
    <3>1. CASE OverrideCommit(a)
      BY <3>1 DEF OverrideCommit, TypeOK
    <3>2. CASE RetryMark(a)
      BY <2>0, <3>2 DEF RetryMark, CarrierInv, TypeOK
    <3>3. CASE RetryReset(a)
      BY <3>3 DEF RetryReset, TypeOK
    <3> QED
      BY <2>4, <3>1, <3>2, <3>3 DEF AdminStep, RetryRead, OverrideRead, RetryPublish, OverrideWrite,
                                    AdminCrash
  <2> QED
    BY <1>1, <2>1, <2>2, <2>3, <2>4 DEF Next, StartStep
<1>2. CASE UNCHANGED vars
  BY <1>2 DEF vars
<1> QED
  BY <1>1, <1>2

RunInv == TypeOK /\ HandInv /\ CarrierInv /\ VerdictSet /\ QuietInv

LEMMA RunInvariant == Spec => []RunInv
<1>1. Init => RunInv
  BY TypeInit, CarrierInit DEF RunInv
<1>2. RunInv /\ [Next]_vars => RunInv'
  BY TypeNext, CarrierNext, VerdictNext, QuietNext DEF RunInv
<1> QED
  BY <1>1, <1>2, PTL DEF Spec

\* Between two manual retries no step calls its provider more often than it has
\* attempts, however many deliveries of its job fail; a fault or a late answer
\* is what it takes.
THEOREM DeprovisioningCallsCapped == Spec => []CallsCapped
<1>1. RunInv => CallsCapped
  <2> SUFFICES ASSUME RunInv, NEW s \in Steps \ doubtful PROVE calls[s] <= MaxAttempts
    BY DEF CallsCapped
  <2>1. calls[s] <= attempts[s] /\ attempts[s] <= MaxAttempts
    BY DEF RunInv, CarrierInv, Counted
  <2>2. calls[s] \in Nat /\ attempts[s] \in Nat /\ MaxAttempts \in Nat
    BY DeprovisioningAssumption DEF RunInv, TypeOK
  <2> QED
    BY <2>1, <2>2
<1> QED
  BY <1>1, RunInvariant, PTL

\* Once a job has saved the success of a step, neither another delivery nor an
\* administrator makes anything less of it, unless a fault or a late answer hit
\* the step.
THEOREM DeprovisioningSuccessIsFinal == Spec => SuccessIsFinal
<1>1. RunInv /\ [Next]_vars =>
        [\A s \in Steps :
           status[s] = "SUCCEEDED" /\ status'[s] \notin Success => s \in doubtful']_vars
  BY SuccessKept DEF RunInv
<1> QED
  BY <1>1, RunInvariant, PTL DEF Spec, SuccessIsFinal

\* A started run that no request, job or worker works on any more has the status
\* its steps say: every change of a step is followed by a derivation.
THEOREM DeprovisioningQuietRunAgrees == Spec => []QuietRunAgrees
<1>1. RunInv => QuietRunAgrees
  BY DEF RunInv, QuietInv, QuietRunAgrees, Quiet, Underway
<1> QED
  BY <1>1, RunInvariant, PTL
-----------------------------------------------------------------------------
(* Nothing is forgotten.                                                      *)

Unfinished(s) == status[s] \in {"PENDING", "IN_PROGRESS"}

\* Somebody carries the step on.
Carried(s) ==
  \/ s \in toPublish
  \/ \E m \in queue : JobOf(m, s)
  \/ \E w \in Workers : AtWork(w, s)
  \/ \E a \in Admins : Retries(a, s)

CarriedInv ==
  run # "NONE" => \A s \in Steps \ (doubtful \cup dropped) : Unfinished(s) => Carried(s)

\* A step that was carried is carried still if its carrier has not changed.
LEMMA CarriedKept ==
  ASSUME NEW s \in Steps, Unfinished(s) => Carried(s), Unfinished(s)' => Unfinished(s),
         s \in toPublish => s \in toPublish',
         \A m \in queue : JobOf(m, s) => m \in queue',
         \A w \in Workers : AtWork(w, s) => AtWork(w, s)',
         \A a \in Admins : Retries(a, s) => Retries(a, s)'
  PROVE  Unfinished(s)' => Carried(s)'
BY DEF Carried, JobOf

\* A publication that is not dropped puts the step on the list.
LEMMA PublishCarries ==
  ASSUME NEW s \in Steps, NEW n \in Nat, Publish(Id(s, n))
  PROVE  /\ s \notin dropped' => Carried(s)'
         /\ queue \subseteq queue'
<1>1. Id(s, n).step = s
  BY DEF Id
<1>2. CASE queue' = queue \cup {[id |-> Id(s, n), tries |-> 0]}
  <2>1. [id |-> Id(s, n), tries |-> 0] \in queue'
    BY <1>2
  <2>2. JobOf([id |-> Id(s, n), tries |-> 0], s)
    BY <1>1 DEF JobOf
  <2> QED
    BY <1>2, <2>1, <2>2 DEF Carried
<1>3. CASE dropped' = dropped \cup {s} /\ queue' = queue
  BY <1>3
<1> QED
  BY <1>1, <1>2, <1>3 DEF Publish, qVars

LEMMA CarriedStart ==
  ASSUME TypeOK, HandInv, CarrierInv, NEW s \in Steps, s \notin doubtful', s \notin dropped',
         Unfinished(s) => Carried(s),
         StartCrash \/ \E t \in Steps : PublishFirst(t) \/ MarkUnpublished(t)
  PROVE  Unfinished(s)' => Carried(s)'
<1> USE DEF runVars, stepVars, startVars, workerVars, adminVars, Fault,
            Unfinished, AtWork, Step, Retries
<1>k. ASSUME UNCHANGED <<queue, pc, job, task, subject>>, s \in toPublish => s \in toPublish',
             status'[s] = status[s]
      PROVE  Unfinished(s)' => Carried(s)'
  <2>1. /\ \A m \in queue : JobOf(m, s) => m \in queue'
        /\ \A w \in Workers : AtWork(w, s) => AtWork(w, s)'
        /\ \A a \in Admins : Retries(a, s) => Retries(a, s)'
        /\ Unfinished(s)' => Unfinished(s)
    BY <1>k
  <2> HIDE DEF Unfinished, AtWork, Retries
  <2> QED
    BY <1>k, <2>1, CarriedKept
<1>1. CASE StartCrash
  <2>1. s \notin toPublish
    BY <1>1 DEF StartCrash
  <2> QED
    BY <1>1, <1>k, <2>1 DEF StartCrash, qVars
<1>2. ASSUME NEW t \in Steps, MarkUnpublished(t) PROVE Unfinished(s)' => Carried(s)'
  <2>1. t # s
    BY <1>2 DEF MarkUnpublished, CarrierInv, history
  <2>2. status'[s] = status[s]
    BY <1>2, <2>1 DEF MarkUnpublished, TypeOK
  <2>3. UNCHANGED <<queue, pc, job, task, subject, toPublish>>
    BY <1>2 DEF MarkUnpublished, qVars
  <2> QED
    BY <1>k, <2>2, <2>3
<1>3. ASSUME NEW t \in Steps, PublishFirst(t) PROVE Unfinished(s)' => Carried(s)'
  <2>1. CASE t = s
    <3>1. Publish(Id(s, 0))
      BY <1>3, <2>1 DEF PublishFirst
    <3> QED
      BY <3>1, PublishCarries
  <2>2. CASE t # s
    <3>1. queue \subseteq queue'
      BY <1>3, PublishCarries DEF PublishFirst, qVars
    <3> QED
      BY <1>3, <2>2, <3>1, CarriedKept DEF PublishFirst
  <2> QED
    BY <2>1, <2>2
<1> QED
  BY <1>1, <1>2, <1>3

LEMMA CarriedWorker ==
  ASSUME TypeOK, HandInv, CarrierInv, NEW s \in Steps, s \notin doubtful', s \notin doubtful,
         Unfinished(s) => Carried(s), NEW w \in Workers,
         (\E m \in queue : Receive(w, m)) \/ WorkerStep(w) \/ Abort(w) \/ Timeout(w)
  PROVE  Unfinished(s)' => Carried(s)'
<1> USE DEF stepVars, startVars, adminVars, Unfinished, Retries
<1>k. ASSUME UNCHANGED <<toPublish, task, subject>>, Unfinished(s)' => Unfinished(s),
             \A v \in Workers \ {w} : pc'[v] = pc[v] /\ job'[v] = job[v],
             AtWork(w, s) => AtWork(w, s)',
             \A m \in queue : JobOf(m, s) => m \in queue'
      PROVE  Unfinished(s)' => Carried(s)'
  <2>1. \A v \in Workers : AtWork(v, s) => AtWork(v, s)'
    BY <1>k DEF AtWork, Step
  <2> QED
    BY <1>k, <2>1, CarriedKept
<1>1. ASSUME NEW m \in queue, Receive(w, m) PROVE Unfinished(s)' => Carried(s)'
  <2>1. /\ pc[w] = "idle" /\ pc'[w] = "loaded" /\ job'[w] = m /\ queue' = queue \ {m}
        /\ \A v \in Workers \ {w} : pc'[v] = pc[v] /\ job'[v] = job[v]
        /\ UNCHANGED <<toPublish, task, subject, status>>
    BY <1>1 DEF Receive, TypeOK
  <2>2. CASE JobOf(m, s)
    BY <2>1, <2>2 DEF Carried, AtWork, Active, Step, JobOf
  <2>3. CASE ~JobOf(m, s)
    <3>1. ~AtWork(w, s)
      BY <2>1 DEF AtWork, Active
    <3>2. \A n \in queue : JobOf(n, s) => n \in queue'
      BY <2>1, <2>3
    <3> QED
      BY <1>k, <2>1, <3>1, <3>2
  <2> QED
    BY <2>2, <2>3
<1>2. CASE GiveUp(w) \/ MarkStep(w) \/ CallProvider(w) \/ SaveStep(w) \/ ReadSteps(w)
  <2>1. /\ job' = job /\ queue' = queue /\ pc'[w] # "idle"
        /\ \A v \in Workers \ {w} : pc'[v] = pc[v]
        /\ UNCHANGED <<toPublish, task, subject>>
    BY <1>2 DEF GiveUp, MarkStep, CallProvider, SaveStep, ReadSteps, Goto, qVars, TypeOK
  <2>2. CASE AtWork(w, s) /\ AtWork(w, s)'
    BY <2>2 DEF Carried
  <2>3. CASE AtWork(w, s) /\ ~AtWork(w, s)'
    <3>1. GiveUp(w) \/ SaveStep(w)
      BY <1>2, <2>1, <2>3 DEF MarkStep, CallProvider, ReadSteps, Goto, AtWork, Active, Step, TypeOK
    <3>2. Step(w) = s
      BY <2>3 DEF AtWork
    <3>3. status'[s] \in {"FAILED", "SUCCEEDED"}
      BY <3>1, <3>2 DEF GiveUp, SaveStep, TypeOK
    <3> QED
      BY <3>3
  <2>4. CASE ~AtWork(w, s)
    <3>1. status'[s] = status[s]
      BY <1>2, <2>4 DEF GiveUp, MarkStep, CallProvider, SaveStep, ReadSteps, AtWork, Active, TypeOK
    <3> QED
      BY <1>k, <2>1, <2>4, <3>1
  <2> QED
    BY <2>2, <2>3, <2>4
<1>3. CASE ProviderThrows(w)
  <2>1. /\ pc[w] = "marked" /\ job[w] \in Messages /\ Step(w) \in Steps
        /\ queue' = queue \cup Again(job[w])
        /\ \A v \in Workers \ {w} : pc'[v] = pc[v] /\ job'[v] = job[v]
        /\ UNCHANGED <<toPublish, task, subject, status>>
    BY <1>3, StepType DEF ProviderThrows, Return, TypeOK
  <2>2. CASE Step(w) = s
    <3>1. job[w].tries < attempts[s] /\ attempts[s] <= MaxAttempts
      BY <2>1, <2>2 DEF CarrierInv, Counted, AtWork, Active
    <3>2. job[w].tries < QStashRetries
      BY <2>1, <3>1, LastDeliveryAssumption, DeprovisioningAssumption DEF TypeOK, Messages
    <3>3. PICK n \in Again(job[w]) : TRUE
      BY <3>2 DEF Again
    <3>4. n \in queue' /\ JobOf(n, s)
      BY <2>1, <2>2, <3>3, AgainFacts DEF JobOf, Step
    <3> QED
      BY <3>4 DEF Carried
  <2>3. CASE Step(w) # s
    <3>1. ~AtWork(w, s)
      BY <2>3 DEF AtWork
    <3> QED
      BY <1>k, <2>1, <3>1
  <2> QED
    BY <2>2, <2>3
<1>4. CASE WriteRun(w)
  <2>1. /\ pc[w] = "derived"
        /\ \A v \in Workers \ {w} : pc'[v] = pc[v] /\ job'[v] = job[v]
        /\ UNCHANGED <<toPublish, task, subject, status, queue>>
    BY <1>4 DEF WriteRun, Return, qVars, TypeOK
  <2>2. ~AtWork(w, s)
    BY <2>1 DEF AtWork, Active
  <2> QED
    BY <1>k, <2>1, <2>2
<1>5. CASE Abort(w) \/ Timeout(w)
  <2>1. /\ Step(w) # s
        /\ queue \subseteq queue'
        /\ \A v \in Workers \ {w} : pc'[v] = pc[v] /\ job'[v] = job[v]
        /\ UNCHANGED <<toPublish, task, subject, status>>
    BY <1>5 DEF Abort, Timeout, Fault, Return, TypeOK
  <2>2. ~AtWork(w, s)
    BY <2>1 DEF AtWork
  <2> QED
    BY <1>k, <2>1, <2>2
<1> QED
  BY <1>1, <1>2, <1>3, <1>4, <1>5 DEF WorkerStep

LEMMA CarriedAdmin ==
  ASSUME TypeOK, HandInv, CarrierInv, NEW s \in Steps, s \notin doubtful', s \notin doubtful,
         s \notin dropped', Unfinished(s) => Carried(s), NEW a \in Admins,
         RetryRead(a) \/ OverrideRead(a) \/ AdminStep(a) \/ AdminCrash(a)
  PROVE  Unfinished(s)' => Carried(s)'
<1> USE DEF stepVars, startVars, workerVars, Unfinished, AtWork, Step
<1>k. ASSUME UNCHANGED <<toPublish, pc, job>>, Unfinished(s)' => Unfinished(s),
             \A b \in Admins \ {a} : task'[b] = task[b] /\ subject'[b] = subject[b],
             ~Retries(a, s), queue \subseteq queue'
      PROVE  Unfinished(s)' => Carried(s)'
  <2>1. \A b \in Admins : Retries(b, s) => Retries(b, s)'
    BY <1>k DEF Retries
  <2> QED
    BY <1>k, <2>1, CarriedKept
<1>1. CASE RetryRead(a) \/ OverrideRead(a) \/ OverrideWrite(a)
  <2>1. /\ UNCHANGED <<toPublish, pc, job, status, queue>>
        /\ \A b \in Admins \ {a} : task'[b] = task[b] /\ subject'[b] = subject[b]
        /\ task[a] # "publishing"
    BY <1>1 DEF RetryRead, OverrideRead, OverrideWrite, Begin, Proceed, qVars, TypeOK
  <2> QED
    BY <1>k, <2>1 DEF Retries
<1>2. CASE RetryReset(a)
  <2>1. /\ UNCHANGED <<toPublish, pc, job, queue>>
        /\ \A b \in Admins \ {a} : task'[b] = task[b] /\ subject'[b] = subject[b]
        /\ task[a] = "retrying"
    BY <1>2 DEF RetryReset, Finish, Proceed, qVars, TypeOK
  <2>2. CASE status'[s] = status[s]
    BY <1>k, <2>1, <2>2 DEF Retries
  <2>3. CASE status'[s] # status[s]
    <3>1. subject[a] = s /\ task'[a] = "publishing" /\ subject'[a] = s
      BY <1>2, <2>3 DEF RetryReset, Proceed, TypeOK
    <3> QED
      BY <3>1 DEF Carried, Retries
  <2> QED
    BY <2>2, <2>3
<1>3. CASE RetryPublish(a)
  <2>1. /\ UNCHANGED <<toPublish, pc, job, status>>
        /\ \A b \in Admins \ {a} : task'[b] = task[b] /\ subject'[b] = subject[b]
        /\ subject[a] \in Steps /\ nextAttempt[a] \in Nat
    BY <1>3 DEF RetryPublish, Finish, Proceed, HandInv, TypeOK
  <2>2. CASE subject[a] = s
    <3>1. Publish(Id(s, nextAttempt[a]))
      BY <1>3, <2>2 DEF RetryPublish, Fault
    <3> QED
      BY <2>1, <3>1, PublishCarries
  <2>3. CASE subject[a] # s
    <3>1. queue \subseteq queue'
      BY <1>3, <2>1, PublishCarries DEF RetryPublish, qVars
    <3> QED
      BY <1>k, <2>1, <2>3, <3>1 DEF Retries
  <2> QED
    BY <2>2, <2>3
<1>4. CASE RetryMark(a) \/ AdminCrash(a)
  <2>1. subject[a] # s
    BY <1>4 DEF RetryMark, AdminCrash, Fault, CarrierInv
  <2>2. /\ UNCHANGED <<toPublish, pc, job, queue>> /\ status'[s] = status[s]
        /\ \A b \in Admins \ {a} : task'[b] = task[b] /\ subject'[b] = subject[b]
    BY <1>4, <2>1 DEF RetryMark, AdminCrash, Finish, qVars, TypeOK
  <2> QED
    BY <1>k, <2>1, <2>2 DEF Retries
<1>5. CASE OverrideCommit(a)
  <2>1. /\ UNCHANGED <<toPublish, pc, job, queue>> /\ task[a] = "committing"
        /\ \A b \in Admins \ {a} : task'[b] = task[b] /\ subject'[b] = subject[b]
        /\ status'[s] \in {status[s], "MANUAL_COMPLETED"}
    BY <1>5 DEF OverrideCommit, Finish, qVars, TypeOK
  <2> QED
    BY <1>k, <2>1 DEF Retries
<1> QED
  BY <1>1, <1>2, <1>3, <1>4, <1>5 DEF AdminStep

LEMMA CarriedNext ==
  ASSUME TypeOK, HandInv, CarrierInv, CarriedInv, [Next]_vars
  PROVE  CarriedInv'
<1>1. CASE Next
  <2> SUFFICES ASSUME NEW s \in Steps, s \notin doubtful', s \notin dropped'
               PROVE  Unfinished(s)' => Carried(s)'
    BY DEF CarriedInv
  <2>1. CASE Start
    BY <2>1 DEF Start, Carried
  <2>2. CASE ~Start
    <3>1. Unfinished(s) => Carried(s)
      BY <1>1, <2>2, DoubtGrows, OnlyStart DEF CarriedInv
    <3>2. s \notin doubtful
      BY <1>1, DoubtGrows
    <3> QED
      BY <1>1, <2>2, <3>1, <3>2, CarriedStart, CarriedWorker, CarriedAdmin DEF Next, StartStep
  <2> QED
    BY <2>1, <2>2
<1>2. CASE UNCHANGED vars
  BY <1>2 DEF vars, CarriedInv, Unfinished, Carried, JobOf, AtWork, Active, Step, Retries, runVars,
              stepVars, qVars, startVars, workerVars, adminVars, history
<1> QED
  BY <1>1, <1>2

\* However many deliveries fail, a started run never has an unfinished step that
\* nobody will take up: the head-of-job guard makes the last delivery find the
\* attempts used up.  This is the part of StepsSettle that is not liveness.
THEOREM UnfinishedStepsAreCarried == Spec => []UnfinishedIsCarried
<1>1. Init => RunInv /\ CarriedInv
  BY TypeInit, CarrierInit DEF RunInv, CarriedInv, Init
<1>2. RunInv /\ CarriedInv /\ [Next]_vars => RunInv' /\ CarriedInv'
  BY TypeNext, CarrierNext, VerdictNext, QuietNext, CarriedNext DEF RunInv
<1>3. CarriedInv => UnfinishedIsCarried
  BY DEF CarriedInv, UnfinishedIsCarried, Unfinished, Carried, JobOf, AtWork, Active, Retries
<1> QED
  BY <1>1, <1>2, <1>3, PTL DEF Spec

\* No two deliveries work on one step, and none on a step that is settled or
\* waits for an administrator, whatever is retried and overridden meanwhile.
THEOREM OneWorkerHasAStep == Spec => []OneWorkerPerStep
<1>1. RunInv => OneWorkerPerStep
  <2> SUFFICES ASSUME RunInv, NEW s \in Steps \ doubtful, NEW w \in Workers,
                      pc[w] \in Active, Step(w) = s
               PROVE  /\ status[s] \in {"PENDING", "IN_PROGRESS", "MANUAL_COMPLETED"}
                      /\ \A v \in Workers \ {w} :
                           pc[v] \in {"idle", "saved", "derived"} \/ Step(v) # s
    BY DEF OneWorkerPerStep, Active
  <2>1. OneCarrier(s) /\ AtWork(w, s)
    BY DEF RunInv, CarrierInv, AtWork
  <2>2. status[s] \notin {"FAILED", "SUCCEEDED"}
    BY <2>1 DEF OneCarrier, NoCarrier
  <2>3. \A v \in Workers \ {w} : ~AtWork(v, s)
    BY <2>1 DEF OneCarrier
  <2> QED
    BY <2>2, <2>3 DEF RunInv, TypeOK, StepStatus, Success, AtWork, Active
<1> QED
  BY <1>1, RunInvariant, PTL
=============================================================================
