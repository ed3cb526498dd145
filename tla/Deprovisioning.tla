--------------------------- MODULE Deprovisioning ---------------------------
(***************************************************************************)
(* The deprovisioning saga: packages/api/src/routers/integrations/         *)
(* deprovisioning.ts, services/idp-deprovisioning-step-runner.ts and       *)
(* packages/idp-saga/src/run-status.ts.                                    *)
(*                                                                         *)
(* A run has one step for each provider and kind of access.  Starting it   *)
(* publishes a QStash job per step.  A job counts an attempt in the step,  *)
(* calls the provider, saves the outcome by id, then reads all steps and   *)
(* writes the status of the run it derives from them, with no transaction  *)
(* around any of this.  An administrator may retry a step that is FAILED,  *)
(* or override one that is FAILED with all attempts used.                  *)
(*                                                                         *)
(* QStash delivers a job again when it is not answered 200 in time, in any *)
(* order with other jobs, and for a time drops a publication whose         *)
(* deduplication id it knows.  One run is modelled; runs share nothing.    *)
(***************************************************************************)
EXTENDS Integers, FiniteSets

CONSTANTS
  Steps,          \* the steps of the run
  Workers,        \* concurrent requests of the step-runner route
  Admins,         \* concurrent requests of administrators
  NoStep,         \* what an idle administrator has in hand
  NoJob,          \* what an idle worker holds
  MaxAttempts,    \* MAX_ATTEMPTS
  QStashRetries,  \* retries of a published job
  MaxIncidents    \* bound: manual retries, failing statements and publications,
                  \* crashes, and deliveries QStash gives up waiting for

DedupIds == [step : Steps, n : Nat]
Messages == [id : DedupIds, tries : 0 .. QStashRetries]

ASSUME DeprovisioningAssumption ==
  /\ Steps # {}
  /\ NoStep \notin Steps
  /\ NoJob \notin Messages
  /\ Workers \cap Admins = {}
  /\ MaxAttempts \in Nat \ {0}
  /\ {QStashRetries, MaxIncidents} \subseteq Nat

\* The last delivery of a job finds the attempts used up: both are 3 in the code.
ASSUME LastDeliveryAssumption == MaxAttempts <= QStashRetries

VARIABLES
  run,         \* DeprovisioningRun.status, "NONE" for no row
  status,      \* DeprovisioningStep.status
  attempts,    \* DeprovisioningStep.attempts
  queue,       \* jobs QStash has yet to deliver
  known,       \* deduplication ids QStash has seen
  toPublish,   \* steps whose first job startDeprovisioningRun has yet to publish
  unpublished, \* the step whose first publication threw, until it is marked
  pc,          \* where each worker is in runDeprovisioningStep
  job,         \* the job a worker is processing
  seen,        \* attempts as the worker read it
  verdict,     \* the run status a worker or administrator goes on to write
  task,        \* where each administrator's request is
  subject,     \* its step
  nextAttempt, \* the number in the deduplication id of its retry
  incidents,   \* counter of the bounded events
  gone,        \* history: steps whose access the provider has taken away
  overridden,  \* history: steps an administrator declared complete
  calls,       \* history: provider calls of a step since its last manual retry
  doubtful,    \* history: steps hit by a fault or a late answer
  spent,       \* history: those for which that may have cost the last delivery
  dropped,     \* history: steps one of whose publications QStash dropped
  stale        \* history: the status of the run was out of date when written

runVars == <<run, stale>>
stepVars == <<status, attempts>>
qVars == <<queue, known>>
startVars == <<toPublish, unpublished>>
workerVars == <<pc, job, seen>>
adminVars == <<task, subject, nextAttempt>>
history == <<gone, overridden, calls, doubtful, spent, dropped>>
vars == <<runVars, stepVars, qVars, startVars, workerVars, verdict, adminVars,
          incidents, history>>

Success == {"SUCCEEDED", "MANUAL_COMPLETED"}
StepStatus == {"PENDING", "IN_PROGRESS", "FAILED"} \cup Success
RunStatus == {"IN_PROGRESS", "COMPLETED", "PARTIAL_FAILURE", "FAILED"}

TypeOK ==
  /\ run \in RunStatus \cup {"NONE"}
  /\ stale \in BOOLEAN
  /\ status \in [Steps -> StepStatus]
  /\ attempts \in [Steps -> Nat]
  /\ queue \subseteq Messages
  /\ known \subseteq DedupIds
  /\ toPublish \subseteq Steps
  /\ unpublished \subseteq Steps
  /\ pc \in [Workers -> {"idle", "loaded", "marked", "succeeded", "refused", "saved", "derived"}]
  /\ job \in [Workers -> Messages \cup {NoJob}]
  /\ seen \in [Workers -> Nat]
  /\ verdict \in [Workers \cup Admins -> RunStatus \cup {"NONE"}]
  /\ task \in [Admins -> {"idle", "retrying", "publishing", "unpublished",
                          "overriding", "committing"}]
  /\ subject \in [Admins -> Steps \cup {NoStep}]
  /\ nextAttempt \in [Admins -> Nat]
  /\ incidents \in 0 .. MaxIncidents
  /\ gone \subseteq Steps
  /\ overridden \subseteq Steps
  /\ calls \in [Steps -> Nat]
  /\ doubtful \subseteq Steps
  /\ spent \subseteq doubtful
  /\ dropped \subseteq Steps

Init ==
  /\ run = "NONE"
  /\ stale = FALSE
  /\ status = [s \in Steps |-> "PENDING"]
  /\ attempts = [s \in Steps |-> 0]
  /\ queue = {}
  /\ known = {}
  /\ toPublish = {}
  /\ unpublished = {}
  /\ pc = [w \in Workers |-> "idle"]
  /\ job = [w \in Workers |-> NoJob]
  /\ seen = [w \in Workers |-> 0]
  /\ verdict = [x \in Workers \cup Admins |-> "NONE"]
  /\ task = [a \in Admins |-> "idle"]
  /\ subject = [a \in Admins |-> NoStep]
  /\ nextAttempt = [a \in Admins |-> 0]
  /\ incidents = 0
  /\ gone = {}
  /\ overridden = {}
  /\ calls = [s \in Steps |-> 0]
  /\ doubtful = {}
  /\ spent = {}
  /\ dropped = {}
-----------------------------------------------------------------------------
(* The status of a run. *)

\* Mutant: one success completes the run.
Derive_Any(st, att) ==
  CASE \E s \in Steps : st[s] \in Success -> "COMPLETED"
    [] OTHER -> "IN_PROGRESS"

\* Mutant: a run goes back to PENDING when no step is at work or done.
Derive_Pending(st, att) ==
  CASE \A s \in Steps : st[s] \in Success -> "COMPLETED"
    [] \A s \in Steps : st[s] \in {"PENDING", "FAILED"} -> "PENDING"
    [] OTHER -> "IN_PROGRESS"

\* deriveRunStatus.  A step that FAILED with attempts left is still retryable.
Derive(st, att) ==
  LET dead == {s \in Steps : st[s] = "FAILED" /\ att[s] >= MaxAttempts}
      done == {s \in Steps : st[s] \in Success}
  IN CASE done = Steps -> "COMPLETED"
       [] dead = Steps -> "FAILED"
       [] dead # {} /\ done # {} -> "PARTIAL_FAILURE"
       [] OTHER -> "IN_PROGRESS"

\* An override holds the row of its step from its update to its commit.
Locked(s) == \E a \in Admins : task[a] = "committing" /\ subject[a] = s

Incident ==
  /\ incidents < MaxIncidents
  /\ incidents' = incidents + 1

\* A fault, or an answer QStash did not wait for, concerns these steps.
Fault(S) ==
  /\ Incident
  /\ doubtful' = doubtful \cup S
  /\ spent' = spent \cup S
-----------------------------------------------------------------------------
(* QStash. *)

Id(s, n) == [step |-> s, n |-> n]

\* A publication is accepted, or dropped for an id QStash still remembers.
Publish(id) ==
  \/ /\ queue' = queue \cup {[id |-> id, tries |-> 0]}
     /\ known' = known \cup {id}
     /\ UNCHANGED dropped
  \/ /\ id \in known
     /\ dropped' = dropped \cup {id.step}
     /\ UNCHANGED qVars

Again(m) == IF m.tries < QStashRetries THEN {[m EXCEPT !.tries = @ + 1]} ELSE {}
-----------------------------------------------------------------------------
(* startDeprovisioningRun.  A second call with the same idempotency key      *)
(* returns the run it finds and changes nothing.                             *)

\* The run with its steps and its IN_PROGRESS, in one transaction.
Start ==
  /\ run = "NONE"
  /\ run' = "IN_PROGRESS"
  /\ toPublish' = Steps
  /\ UNCHANGED <<stale, stepVars, qVars, unpublished, workerVars, verdict, adminVars,
                 incidents, history>>

\* The first job of a step.  A publication that throws may have been accepted.
PublishFirst(s) ==
  /\ s \in toPublish
  /\ unpublished = {}
  /\ toPublish' = toPublish \ {s}
  /\ \/ /\ Publish(Id(s, 0))
        /\ UNCHANGED <<unpublished, incidents, doubtful, spent>>
     \/ /\ Fault({s})
        /\ unpublished' = {s}
        /\ \/ UNCHANGED <<qVars, dropped>>
           \/ Publish(Id(s, 0))
  /\ UNCHANGED <<runVars, stepVars, workerVars, verdict, adminVars, gone, overridden, calls>>

\* enqueue_failed: the step is FAILED with one attempt, for a manual retry.
MarkUnpublished(s) ==
  /\ s \in unpublished
  /\ ~Locked(s)
  /\ status' = [status EXCEPT ![s] = "FAILED"]
  /\ attempts' = [attempts EXCEPT ![s] = 1]
  /\ unpublished' = {}
  /\ UNCHANGED <<runVars, qVars, toPublish, workerVars, verdict, adminVars, incidents, history>>

\* The request dies in its loop.
StartCrash ==
  /\ toPublish \cup unpublished # {}
  /\ Fault(toPublish \cup unpublished)
  /\ toPublish' = {}
  /\ unpublished' = {}
  /\ UNCHANGED <<runVars, stepVars, qVars, workerVars, verdict, adminVars, gone, overridden, calls, dropped>>
-----------------------------------------------------------------------------
(* runDeprovisioningStep. *)

Step(w) == job[w].id.step

Goto(w, place) == pc' = [pc EXCEPT ![w] = place] /\ UNCHANGED <<job, seen>>

\* The route answers, whatever the answer.
Return(w) ==
  /\ pc' = [pc EXCEPT ![w] = "idle"]
  /\ job' = [job EXCEPT ![w] = NoJob]
  /\ seen' = [seen EXCEPT ![w] = 0]
  /\ verdict' = [verdict EXCEPT ![w] = "NONE"]

\* The job arrives and the step is read.  Its status is not looked at.
Receive(w, m) ==
  /\ pc[w] = "idle"
  /\ queue' = queue \ {m}
  /\ pc' = [pc EXCEPT ![w] = "loaded"]
  /\ job' = [job EXCEPT ![w] = m]
  /\ seen' = [seen EXCEPT ![w] = attempts[m.id.step]]
  /\ UNCHANGED <<runVars, stepVars, known, startVars, verdict, adminVars, incidents, history>>

\* Mutant: the head-of-job guard lets one attempt too many pass.
Exhausted_Late(w) == seen[w] > MaxAttempts

Exhausted(w) == seen[w] >= MaxAttempts

\* Mutant: the short circuit returns without deriving the status of the run.
GiveUp_NoDerive(w) ==
  /\ pc[w] = "loaded"
  /\ Exhausted(w)
  /\ ~Locked(Step(w))
  /\ status' = [status EXCEPT ![Step(w)] = "FAILED"]
  /\ Return(w)
  /\ UNCHANGED <<runVars, attempts, qVars, startVars, adminVars, incidents, history>>

\* No attempt is left: FAILED.
GiveUp(w) ==
  /\ pc[w] = "loaded"
  /\ Exhausted(w)
  /\ ~Locked(Step(w))
  /\ status' = [status EXCEPT ![Step(w)] = "FAILED"]
  /\ Goto(w, "saved")
  /\ UNCHANGED <<runVars, attempts, qVars, startVars, verdict, adminVars, incidents, history>>

\* IN_PROGRESS, and the attempt counted.
MarkStep(w) ==
  /\ pc[w] = "loaded"
  /\ ~Exhausted(w)
  /\ ~Locked(Step(w))
  /\ status' = [status EXCEPT ![Step(w)] = "IN_PROGRESS"]
  /\ attempts' = [attempts EXCEPT ![Step(w)] = @ + 1]
  /\ Goto(w, "marked")
  /\ UNCHANGED <<runVars, qVars, startVars, verdict, adminVars, incidents, history>>

\* The provider takes the access away, finds it gone, or refuses.
CallProvider(w) ==
  /\ pc[w] = "marked"
  /\ calls' = [calls EXCEPT ![Step(w)] = @ + 1]
  /\ \/ /\ gone' = gone \cup {Step(w)}
        /\ Goto(w, "succeeded")
     \/ /\ UNCHANGED gone
        /\ Goto(w, "refused")
  /\ UNCHANGED <<runVars, stepVars, qVars, startVars, verdict, adminVars, incidents,
                 overridden, doubtful, spent, dropped>>

\* No connection token, or a transient failure, with or without the effect:
\* the adapter throws, the route answers 500 and QStash tries again.
ProviderThrows(w) ==
  /\ pc[w] = "marked"
  /\ \/ UNCHANGED <<calls, gone>>
     \/ /\ calls' = [calls EXCEPT ![Step(w)] = @ + 1]
        /\ gone' \in {gone, gone \cup {Step(w)}}
  /\ queue' = queue \cup Again(job[w])
  /\ Return(w)
  /\ UNCHANGED <<runVars, stepVars, known, startVars, adminVars, incidents,
                 overridden, doubtful, spent, dropped>>

\* The outcome, by id.
SaveStep(w) ==
  /\ pc[w] \in {"succeeded", "refused"}
  /\ ~Locked(Step(w))
  /\ status' = [status EXCEPT ![Step(w)] = IF pc[w] = "succeeded" THEN "SUCCEEDED" ELSE "FAILED"]
  /\ Goto(w, "saved")
  /\ UNCHANGED <<runVars, attempts, qVars, startVars, verdict, adminVars, incidents, history>>

\* recomputeRunStatus, its reads ...
ReadSteps(w) ==
  /\ pc[w] = "saved"
  /\ verdict' = [verdict EXCEPT ![w] = Derive(status, attempts)]
  /\ Goto(w, "derived")
  /\ UNCHANGED <<runVars, stepVars, qVars, startVars, adminVars, incidents, history>>

\* Mutant: the route answers 500 while the run is unfinished.
WriteRun_Again(w) ==
  /\ pc[w] = "derived"
  /\ run' = verdict[w]
  /\ stale' = (verdict[w] # Derive(status, attempts))
  /\ queue' = IF verdict[w] = "IN_PROGRESS" THEN queue \cup Again(job[w]) ELSE queue
  /\ Return(w)
  /\ UNCHANGED <<stepVars, known, startVars, adminVars, incidents, history>>

\* ... and its write, and 200.
WriteRun(w) ==
  /\ pc[w] = "derived"
  /\ run' = verdict[w]
  /\ stale' = (verdict[w] # Derive(status, attempts))
  /\ Return(w)
  /\ UNCHANGED <<stepVars, qVars, startVars, adminVars, incidents, history>>

\* The process dies or a statement throws: no 200.  A delivery that ends between
\* the attempt and the outcome, and is not the last, costs the step nothing.
Abort(w) ==
  /\ pc[w] # "idle"
  /\ Incident
  /\ doubtful' = doubtful \cup {Step(w)}
  /\ spent' = IF pc[w] \in {"marked", "succeeded", "refused"} /\ Again(job[w]) # {}
              THEN spent ELSE spent \cup {Step(w)}
  /\ queue' = queue \cup Again(job[w])
  /\ Return(w)
  /\ UNCHANGED <<runVars, stepVars, known, startVars, adminVars, gone, overridden, calls, dropped>>

\* QStash waits no longer and delivers the job again, while the worker goes on;
\* what it answers later has no effect.
Timeout(w) ==
  /\ pc[w] # "idle"
  /\ Fault({Step(w)})
  /\ queue' = queue \cup Again(job[w])
  /\ job' = [job EXCEPT ![w].tries = QStashRetries]
  /\ UNCHANGED <<runVars, stepVars, known, startVars, pc, seen, verdict, adminVars,
                 gone, overridden, calls, dropped>>
-----------------------------------------------------------------------------
(* Administrators. *)

Begin(a, place, s, n) ==
  /\ task[a] = "idle"
  /\ run # "NONE"
  /\ task' = [task EXCEPT ![a] = place]
  /\ subject' = [subject EXCEPT ![a] = s]
  /\ nextAttempt' = [nextAttempt EXCEPT ![a] = n]

Finish(a) ==
  /\ task' = [task EXCEPT ![a] = "idle"]
  /\ subject' = [subject EXCEPT ![a] = NoStep]
  /\ nextAttempt' = [nextAttempt EXCEPT ![a] = 0]

Proceed(a, place) ==
  task' = [task EXCEPT ![a] = place] /\ UNCHANGED <<subject, nextAttempt>>

\* retryDeprovisioningStep reads the step ...
RetryRead(a) ==
  /\ Incident
  /\ \E s \in Steps : status[s] = "FAILED" /\ Begin(a, "retrying", s, attempts[s] + 1)
  /\ UNCHANGED <<runVars, stepVars, qVars, startVars, workerVars, verdict, history>>

\* ... resets it with a fresh budget if it is FAILED still ...
RetryReset(a) ==
  LET s == subject[a] IN
  /\ task[a] = "retrying"
  /\ ~Locked(s)
  /\ IF status[s] = "FAILED"
     THEN /\ status' = [status EXCEPT ![s] = "PENDING"]
          /\ attempts' = [attempts EXCEPT ![s] = 0]
          /\ calls' = [calls EXCEPT ![s] = 0]
          /\ Proceed(a, "publishing")
     ELSE Finish(a) /\ UNCHANGED <<stepVars, calls>>
  /\ UNCHANGED <<runVars, qVars, startVars, workerVars, verdict, incidents,
                 gone, overridden, doubtful, spent, dropped>>

\* ... and publishes a job.
RetryPublish(a) ==
  LET s == subject[a] IN
  /\ task[a] = "publishing"
  /\ \/ /\ Publish(Id(s, nextAttempt[a]))
        /\ Finish(a)
        /\ UNCHANGED <<incidents, doubtful, spent>>
     \/ /\ Fault({s})
        /\ Proceed(a, "unpublished")
        /\ \/ UNCHANGED <<qVars, dropped>>
           \/ Publish(Id(s, nextAttempt[a]))
  /\ UNCHANGED <<runVars, stepVars, startVars, workerVars, verdict, gone, overridden, calls>>

RetryMark(a) ==
  LET s == subject[a] IN
  /\ task[a] = "unpublished"
  /\ ~Locked(s)
  /\ status' = [status EXCEPT ![s] = "FAILED"]
  /\ attempts' = [attempts EXCEPT ![s] = nextAttempt[a]]
  /\ Finish(a)
  /\ UNCHANGED <<runVars, qVars, startVars, workerVars, verdict, incidents, history>>

\* overrideStepFailure checks the step ...
OverrideRead(a) ==
  /\ \E s \in Steps :
       /\ status[s] = "FAILED"
       /\ attempts[s] >= MaxAttempts
       /\ Begin(a, "overriding", s, 0)
  /\ UNCHANGED <<runVars, stepVars, qVars, startVars, workerVars, verdict, incidents, history>>

\* ... and in one transaction completes it by id, derives the status of the run
\* from its own write and what is committed, and writes that.
OverrideWrite(a) ==
  LET s == subject[a] IN
  /\ task[a] = "overriding"
  /\ ~Locked(s)
  /\ verdict' = [verdict EXCEPT ![a] = Derive([status EXCEPT ![s] = "MANUAL_COMPLETED"], attempts)]
  /\ Proceed(a, "committing")
  /\ UNCHANGED <<runVars, stepVars, qVars, startVars, workerVars, incidents, history>>

OverrideCommit(a) ==
  LET s == subject[a] IN
  /\ task[a] = "committing"
  /\ status' = [status EXCEPT ![s] = "MANUAL_COMPLETED"]
  /\ run' = verdict[a]
  /\ stale' = (verdict[a] # Derive(status', attempts))
  /\ overridden' = overridden \cup {s}
  /\ verdict' = [verdict EXCEPT ![a] = "NONE"]
  /\ Finish(a)
  /\ UNCHANGED <<attempts, qVars, startVars, workerVars, incidents, gone, calls, doubtful, spent, dropped>>

\* The request dies; an open transaction rolls back.
AdminCrash(a) ==
  /\ task[a] # "idle"
  /\ Fault({subject[a]})
  /\ verdict' = [verdict EXCEPT ![a] = "NONE"]
  /\ Finish(a)
  /\ UNCHANGED <<runVars, stepVars, qVars, startVars, workerVars, gone, overridden, calls, dropped>>
-----------------------------------------------------------------------------
StartStep == \E s \in Steps : PublishFirst(s) \/ MarkUnpublished(s)

WorkerStep(w) ==
  \/ GiveUp(w) \/ MarkStep(w) \/ CallProvider(w) \/ ProviderThrows(w)
  \/ SaveStep(w) \/ ReadSteps(w) \/ WriteRun(w)

AdminStep(a) ==
  RetryReset(a) \/ RetryPublish(a) \/ RetryMark(a) \/ OverrideWrite(a) \/ OverrideCommit(a)

Next ==
  \/ Start \/ StartStep \/ StartCrash
  \/ \E w \in Workers, m \in queue : Receive(w, m)
  \/ \E w \in Workers : WorkerStep(w) \/ Abort(w) \/ Timeout(w)
  \/ \E a \in Admins : RetryRead(a) \/ OverrideRead(a) \/ AdminStep(a) \/ AdminCrash(a)

Spec == Init /\ [][Next]_vars

\* QStash delivers what it has accepted, and a request that is being served
\* makes progress until it crashes.  Nobody has to retry or to override.
FairSpec ==
  /\ Spec
  /\ WF_vars(StartStep)
  /\ \A w \in Workers : WF_vars(WorkerStep(w))
  /\ \A a \in Admins : WF_vars(AdminStep(a))
  /\ WF_vars(\E w \in Workers, m \in queue : Receive(w, m))
-----------------------------------------------------------------------------
(* Safety. *)

\* A run that is COMPLETED has taken every access away, or an administrator
\* vouched for it, whatever jobs were delivered twice, derived from old steps
\* or written in the other order.
CompletedIsGone ==
  run = "COMPLETED" => gone \cup overridden = Steps

\* The head-of-job guard caps the calls of the provider between two manual
\* retries, also when QStash uses up all its retries.  Only a step that two
\* deliveries may have had at once can exceed it.
CallsCapped ==
  \A s \in Steps \ doubtful : calls[s] <= MaxAttempts

\* No request, job or worker is left.
Quiet ==
  /\ run # "NONE"
  /\ toPublish \cup unpublished = {}
  /\ queue = {}
  /\ \A w \in Workers : pc[w] = "idle"
  /\ \A a \in Admins : task[a] = "idle"

\* When nothing is under way the status of the run is what its steps say, up to
\* faults, dropped publications and a write that was out of date.
QuietRunAgrees ==
  Quiet /\ doubtful \cup dropped = {} /\ ~stale => run = Derive(status, attempts)

\* A step that is not finished is on somebody's list: the start's, its job's, a
\* worker's who has still to save its outcome, or a manual retry's.  A delivery
\* that fails leaves nothing behind: when it is the last one, the attempts were
\* used up before it called the provider.  Only faults, late answers and dropped
\* publications break this.
UnfinishedIsCarried ==
  run # "NONE" =>
    \A s \in Steps \ (doubtful \cup dropped) :
       status[s] \in {"PENDING", "IN_PROGRESS"} =>
          \/ s \in toPublish
          \/ \E m \in queue : m.id.step = s
          \/ \E w \in Workers : pc[w] \notin {"idle", "saved", "derived"} /\ Step(w) = s
          \/ \E a \in Admins : task[a] = "publishing" /\ subject[a] = s

\* The provider is never asked twice at a time for one step, and a step is not
\* reset or overridden under the worker that has it in hand, unless a fault or a
\* late answer gave the step a second delivery.
OneWorkerPerStep ==
  \A s \in Steps \ doubtful, w \in Workers :
     pc[w] \in {"loaded", "marked", "succeeded", "refused"} /\ Step(w) = s =>
        /\ status[s] \in {"PENDING", "IN_PROGRESS", "MANUAL_COMPLETED"}
        /\ \A v \in Workers \ {w} : pc[v] \in {"idle", "saved", "derived"} \/ Step(v) # s

\* Manual retries, overrides and the retries of QStash never take a step's
\* success back; that takes a fault or a late answer.
SuccessIsFinal ==
  [][\A s \in Steps :
        status[s] = "SUCCEEDED" /\ status'[s] \notin Success => s \in doubtful']_vars

\* Every step of a started run ends, also when a process dies in the middle of
\* it: the last delivery finds the attempts used up.  Excepted are steps
\* that lost their job, a delivery that counted no attempt, or the last one, and
\* those of which a job still runs when an administrator sees them FAILED.
StepsSettle ==
  \A s \in Steps :
     (run # "NONE" /\ status[s] \in {"PENDING", "IN_PROGRESS"}) ~>
        (status[s] \in {"FAILED"} \cup Success \/ s \in spent \cup dropped)
=============================================================================
