-------------------------- MODULE WebhookDelivery --------------------------
(***************************************************************************)
(* Outbound webhooks: packages/api/src/services/webhooks/fan-out.ts and    *)
(* dispatcher.ts, the route apps/api/src/routes/webhooks-outbound.ts and   *)
(* the QStash jobs between them.                                           *)
(*                                                                         *)
(* The outbox calls the fan-out handler once or more for an event.  Every  *)
(* call creates one delivery attempt per matching subscription and         *)
(* publishes a job for it.  A worker that receives a job claims the row by *)
(* compare-and-set, posts, and records the outcome; a retry is one more    *)
(* job.  Nothing scans the table: a row no job points at is never looked   *)
(* at again.                                                               *)
(*                                                                         *)
(* QStash delivers a job at least once, in any order, at any time after it *)
(* was published (the delays of the backoff are not modelled), and drops a *)
(* publication whose deduplication id it knows.                            *)
(***************************************************************************)
EXTENDS Integers, FiniteSets

CONSTANTS
  Calls,          \* calls of the fan-out handler, each with its own rows
  Subs,           \* enabled subscriptions whose filter matches the event
  Workers,        \* concurrent requests of the deliver route
  NoJob,          \* what an idle worker holds
  NoWorker,       \* the holder of a row nobody has claimed
  MaxRetries,     \* WebhookSubscription.maxRetries
  QStashRetries,  \* retries of the webhook.deliver job
  MaxPauses,      \* bound: kill-switch and rate-limit requeues of a row
  MaxFaults,      \* bound: failing statements and crashes
  MaxCopies       \* bound: jobs QStash delivers twice

Attempts == Calls \X Subs
DedupIds == [att : Attempts, kind : {"first", "retry", "pause"}, n : Nat]
Messages == [id : DedupIds, tries : 0 .. QStashRetries, copy : BOOLEAN]

ASSUME WebhookAssumption ==
  /\ NoJob \notin Messages
  /\ NoWorker \notin Workers
  /\ IsFiniteSet(Subs)
  /\ MaxRetries \in Nat \ {0}
  /\ {QStashRetries, MaxPauses, MaxFaults, MaxCopies} \subseteq Nat

VARIABLES
  fan,          \* state of each fan-out call
  todo,         \* subscriptions a fan-out call has still to visit
  fresh,        \* the subscription whose attempt is created and not published
  status,       \* WebhookDeliveryAttempt.status, "NONE" for no row
  attempts,     \* WebhookDeliveryAttempt.attempts
  letters,      \* number of WebhookDeadLetter rows of an attempt
  queue,        \* jobs QStash has yet to deliver
  known,        \* deduplication ids QStash has seen
  pc,           \* where each worker is in deliverAttempt
  job,          \* the job a worker is processing
  seen,         \* attempts as the worker loaded it
  caught,       \* the worker is in the catch block
  pauses, faults, copies,   \* counters of the bounded events
  holder,       \* history: the worker that claimed a row last
  posts,        \* history: requests sent for an attempt
  hurt,         \* history: attempts a fault left with nobody to carry on
  clobbered,    \* history: attempts a worker recorded after losing the row
  alarmed       \* history: attempts whose failure alert failed

fanVars == <<fan, todo, fresh>>
qVars == <<queue, known>>
workerVars == <<pc, job, seen, caught>>
counters == <<pauses, faults, copies>>
history == <<holder, posts, hurt, clobbered, alarmed>>
vars == <<fanVars, status, attempts, letters, qVars, workerVars, counters, history>>

Claimable == {"PENDING", "FAILED"}
Terminal == {"DELIVERED", "DEAD"}

TypeOK ==
  /\ fan \in [Calls -> {"idle", "looping", "crashed"}]
  /\ todo \in [Calls -> SUBSET Subs]
  /\ fresh \in [Calls -> SUBSET Subs]
  /\ status \in [Attempts -> {"NONE", "SENDING"} \cup Claimable \cup Terminal]
  /\ attempts \in [Attempts -> Nat]
  /\ letters \in [Attempts -> Nat]
  /\ queue \subseteq Messages
  /\ known \subseteq DedupIds
  /\ pc \in [Workers -> {"idle", "claimed", "loaded", "accepted", "pausing",
                         "recording", "enqueueing", "alerting"}]
  /\ job \in [Workers -> Messages \cup {NoJob}]
  /\ seen \in [Workers -> Nat]
  /\ caught \in [Workers -> BOOLEAN]
  /\ pauses \in [Attempts -> 0 .. MaxPauses]
  /\ faults \in 0 .. MaxFaults
  /\ copies \in 0 .. MaxCopies
  /\ holder \in [Attempts -> Workers \cup {NoWorker}]
  /\ posts \in [Attempts -> Nat]
  /\ hurt \subseteq Attempts
  /\ clobbered \subseteq Attempts
  /\ alarmed \subseteq Attempts

Init ==
  /\ fan = [k \in Calls |-> "idle"]
  /\ todo = [k \in Calls |-> {}]
  /\ fresh = [k \in Calls |-> {}]
  /\ status = [a \in Attempts |-> "NONE"]
  /\ attempts = [a \in Attempts |-> 0]
  /\ letters = [a \in Attempts |-> 0]
  /\ queue = {}
  /\ known = {}
  /\ pc = [w \in Workers |-> "idle"]
  /\ job = [w \in Workers |-> NoJob]
  /\ seen = [w \in Workers |-> 0]
  /\ caught = [w \in Workers |-> FALSE]
  /\ pauses = [a \in Attempts |-> 0]
  /\ faults = 0
  /\ copies = 0
  /\ holder = [a \in Attempts |-> NoWorker]
  /\ posts = [a \in Attempts |-> 0]
  /\ hurt = {}
  /\ clobbered = {}
  /\ alarmed = {}
-----------------------------------------------------------------------------
(* QStash. *)

Id(a, kind, n) == [att |-> a, kind |-> kind, n |-> n]

\* enqueueJob with a dedupId: a known id is accepted and dropped.
Publish(id) ==
  /\ known' = known \cup {id}
  /\ queue' = IF id \in known THEN queue
              ELSE queue \cup {[id |-> id, tries |-> 0, copy |-> FALSE]}

\* A job answered with anything but 200 is delivered again, until its retries
\* are used up.
Again(m) == IF m.tries < QStashRetries THEN {[m EXCEPT !.tries = @ + 1]} ELSE {}

Fault == faults < MaxFaults /\ faults' = faults + 1

\* At-least-once: a job that is queued or being processed is delivered twice.
Duplicate ==
  /\ copies < MaxCopies
  /\ copies' = copies + 1
  /\ \E m \in queue \cup {job[w] : w \in {v \in Workers : pc[v] # "idle"}} :
       queue' = queue \cup {[m EXCEPT !.copy = TRUE]}
  /\ UNCHANGED <<fanVars, status, attempts, letters, known, workerVars, pauses, faults, history>>
-----------------------------------------------------------------------------
(* handleWebhookPublish. *)

FanOutStart(k) ==
  /\ fan[k] = "idle"
  /\ fan' = [fan EXCEPT ![k] = "looping"]
  /\ todo' = [todo EXCEPT ![k] = Subs]
  /\ UNCHANGED <<fresh, status, attempts, letters, qVars, workerVars, counters, history>>

\* Mutant: a failing subscription ends the loop.
FanOutCreate_Stops(k) ==
  /\ fan[k] = "looping"
  /\ fresh[k] = {}
  /\ \E s \in todo[k] :
       \/ /\ todo' = [todo EXCEPT ![k] = @ \ {s}]
          /\ status' = [status EXCEPT ![<<k, s>>] = "PENDING"]
          /\ fresh' = [fresh EXCEPT ![k] = {s}]
          /\ UNCHANGED faults
       \/ Fault /\ todo' = [todo EXCEPT ![k] = {}] /\ UNCHANGED <<status, fresh>>
  /\ UNCHANGED <<fan, attempts, letters, qVars, workerVars, pauses, copies, history>>

\* The row of the next subscription.  An error is logged and the loop goes on.
FanOutCreate(k) ==
  /\ fan[k] = "looping"
  /\ fresh[k] = {}
  /\ \E s \in todo[k] :
       /\ todo' = [todo EXCEPT ![k] = @ \ {s}]
       /\ \/ /\ status' = [status EXCEPT ![<<k, s>>] = "PENDING"]
             /\ fresh' = [fresh EXCEPT ![k] = {s}]
             /\ UNCHANGED faults
          \/ Fault /\ UNCHANGED <<status, fresh>>
  /\ UNCHANGED <<fan, attempts, letters, qVars, workerVars, pauses, copies, history>>

\* Its first job.  An error is swallowed too, and the row stays without a job.
FanOutPublish(k) ==
  /\ fan[k] = "looping"
  /\ \E s \in fresh[k] :
       \/ /\ Publish(Id(<<k, s>>, "first", 0))
          /\ UNCHANGED <<faults, hurt>>
       \/ /\ Fault
          /\ hurt' = hurt \cup {<<k, s>>}
          /\ UNCHANGED qVars
  /\ fresh' = [fresh EXCEPT ![k] = {}]
  /\ UNCHANGED <<fan, todo, status, attempts, letters, workerVars, pauses, copies,
                 holder, posts, clobbered, alarmed>>

\* The drain worker dies in the loop; the outbox makes another call later.
FanOutCrash(k) ==
  /\ fan[k] = "looping"
  /\ Fault
  /\ fan' = [fan EXCEPT ![k] = "crashed"]
  /\ todo' = [todo EXCEPT ![k] = {}]
  /\ fresh' = [fresh EXCEPT ![k] = {}]
  /\ hurt' = hurt \cup ({k} \X fresh[k])
  /\ UNCHANGED <<status, attempts, letters, qVars, workerVars, pauses, copies,
                 holder, posts, clobbered, alarmed>>
-----------------------------------------------------------------------------
(* deliverAttempt. *)

Row(w) == job[w].id.att

\* deliverAttempt returns, the route answers 200 and the job is gone.
Return(w) ==
  /\ pc' = [pc EXCEPT ![w] = "idle"]
  /\ job' = [job EXCEPT ![w] = NoJob]
  /\ seen' = [seen EXCEPT ![w] = 0]
  /\ caught' = [caught EXCEPT ![w] = FALSE]

Goto(w, place) == pc' = [pc EXCEPT ![w] = place] /\ UNCHANGED <<job, seen, caught>>

\* Mutants: the row is claimed by a plain update, or unless it is SENDING.
Receive_NoCas(w, m) ==
  /\ pc[w] = "idle"
  /\ queue' = queue \ {m}
  /\ status' = [status EXCEPT ![m.id.att] = "SENDING"]
  /\ holder' = [holder EXCEPT ![m.id.att] = w]
  /\ pc' = [pc EXCEPT ![w] = "claimed"]
  /\ job' = [job EXCEPT ![w] = m]
  /\ UNCHANGED <<fanVars, attempts, letters, known, seen, caught, counters,
                 posts, hurt, clobbered, alarmed>>

Receive_AnyButSending(w, m) ==
  /\ pc[w] = "idle"
  /\ queue' = queue \ {m}
  /\ IF status[m.id.att] # "SENDING"
     THEN /\ status' = [status EXCEPT ![m.id.att] = "SENDING"]
          /\ holder' = [holder EXCEPT ![m.id.att] = w]
          /\ pc' = [pc EXCEPT ![w] = "claimed"]
          /\ job' = [job EXCEPT ![w] = m]
     ELSE UNCHANGED <<status, holder, pc, job>>
  /\ UNCHANGED <<fanVars, attempts, letters, known, seen, caught, counters,
                 posts, hurt, clobbered, alarmed>>

\* The job arrives and the compare-and-set claims the row, PENDING or FAILED to
\* SENDING.  A row in any other state is somebody else's: return, and 200.
Receive(w, m) ==
  /\ pc[w] = "idle"
  /\ queue' = queue \ {m}
  /\ IF status[m.id.att] \in Claimable
     THEN /\ status' = [status EXCEPT ![m.id.att] = "SENDING"]
          /\ holder' = [holder EXCEPT ![m.id.att] = w]
          /\ pc' = [pc EXCEPT ![w] = "claimed"]
          /\ job' = [job EXCEPT ![w] = m]
     ELSE UNCHANGED <<status, holder, pc, job>>
  /\ UNCHANGED <<fanVars, attempts, letters, known, seen, caught, counters,
                 posts, hurt, clobbered, alarmed>>

\* findUnique: attempts is read once, for all that follows.
Load(w) ==
  /\ pc[w] = "claimed"
  /\ seen' = [seen EXCEPT ![w] = attempts[Row(w)]]
  /\ pc' = [pc EXCEPT ![w] = "loaded"]
  /\ UNCHANGED <<fanVars, status, attempts, letters, qVars, job, caught, counters, history>>

\* The module is switched off for the organisation, or the subscription is over
\* its rate: the row goes back to PENDING ...
Pause(w) ==
  /\ pc[w] = "loaded"
  /\ pauses[Row(w)] < MaxPauses
  /\ pauses' = [pauses EXCEPT ![Row(w)] = @ + 1]
  /\ status' = [status EXCEPT ![Row(w)] = "PENDING"]
  /\ Goto(w, "pausing")
  /\ UNCHANGED <<fanVars, attempts, letters, qVars, faults, copies, history>>

\* Mutant: the id of the job lacks the part that makes it unique.
Requeue_ReusesId(w) ==
  /\ pc[w] = "pausing"
  /\ Publish(Id(Row(w), "first", 0))
  /\ Return(w)
  /\ UNCHANGED <<fanVars, status, attempts, letters, counters, history>>

\* ... and a new job, with an id of its own, takes it up later.
Requeue(w) ==
  /\ pc[w] = "pausing"
  /\ Publish(Id(Row(w), "pause", pauses[Row(w)]))
  /\ Return(w)
  /\ UNCHANGED <<fanVars, status, attempts, letters, counters, history>>

\* The SSRF check, the signature and the request: a 2xx answer, another answer,
\* or an exception, before or after the request reached the receiver.
Post(w) ==
  /\ pc[w] = "loaded"
  /\ \/ /\ posts' = [posts EXCEPT ![Row(w)] = @ + 1]
        /\ pc' \in {[pc EXCEPT ![w] = "accepted"], [pc EXCEPT ![w] = "recording"]}
        /\ UNCHANGED caught
     \/ /\ posts' \in {posts, [posts EXCEPT ![Row(w)] = @ + 1]}
        /\ pc' = [pc EXCEPT ![w] = "recording"]
        /\ caught' = [caught EXCEPT ![w] = TRUE]
  /\ UNCHANGED <<fanVars, status, attempts, letters, qVars, job, seen, counters,
                 holder, hurt, clobbered, alarmed>>

\* The row is written by id, whatever happened to it since it was claimed.
Accept(w) ==
  /\ pc[w] = "accepted"
  /\ status' = [status EXCEPT ![Row(w)] = "DELIVERED"]
  /\ attempts' = [attempts EXCEPT ![Row(w)] = seen[w] + 1]
  /\ Return(w)
  /\ UNCHANGED <<fanVars, letters, qVars, counters, history>>

\* The write of scheduleNextOrDeadLetter, parameterised by the number of
\* attempts it records and the numbers from which it dead-letters and from
\* which it creates the dead letter.
Write(w, completed, deadFrom, letterFrom) ==
  /\ pc[w] = "recording"
  /\ attempts' = [attempts EXCEPT ![Row(w)] = completed]
  /\ status' = [status EXCEPT ![Row(w)] = IF completed >= deadFrom THEN "DEAD" ELSE "FAILED"]
  /\ letters' = IF completed >= letterFrom
                THEN [letters EXCEPT ![Row(w)] = @ + 1] ELSE letters
  /\ Goto(w, IF completed >= deadFrom THEN "alerting" ELSE "enqueueing")
  /\ clobbered' = IF holder[Row(w)] = w THEN clobbered ELSE clobbered \cup {Row(w)}
  /\ UNCHANGED <<fanVars, qVars, counters, holder, posts, hurt, alarmed>>

\* Mutants: the attempts are counted down, one attempt too many is made, the
\* dead letter is written one attempt early.
Record_CountsDown(w) == Write(w, seen[w] - 1, MaxRetries, MaxRetries)
Record_TooLate(w) == Write(w, seen[w] + 1, MaxRetries + 1, MaxRetries + 1)
Record_EarlyLetter(w) == Write(w, seen[w] + 1, MaxRetries, MaxRetries - 1)

\* FAILED, or DEAD and the dead letter in one transaction.
Record(w) == Write(w, seen[w] + 1, MaxRetries, MaxRetries)

\* Mutant: the deduplication id of a retry does not name the attempt.
Enqueue_ReusesId(w) ==
  /\ pc[w] = "enqueueing"
  /\ Publish(Id(Row(w), "first", 0))
  /\ Goto(w, "alerting")
  /\ UNCHANGED <<fanVars, status, attempts, letters, counters, history>>

\* The job of the retry.
Enqueue(w) ==
  /\ pc[w] = "enqueueing"
  /\ Publish(Id(Row(w), "retry", seen[w] + 1))
  /\ Goto(w, "alerting")
  /\ UNCHANGED <<fanVars, status, attempts, letters, counters, history>>

\* fireFailureAlertIfNeeded counts rows and logs.
Alert(w) ==
  /\ pc[w] = "alerting"
  /\ Return(w)
  /\ UNCHANGED <<fanVars, status, attempts, letters, qVars, counters, history>>

\* A statement of the try block throws.  The catch block runs
\* scheduleNextOrDeadLetter, for the second time if it was that which threw,
\* with the attempts loaded at the start.  A publication that reports an error
\* may have been accepted.
Throw(w) ==
  /\ ~caught[w]
  /\ pc[w] \in {"loaded", "accepted", "pausing", "recording", "enqueueing", "alerting"}
  /\ Fault
  /\ caught' = [caught EXCEPT ![w] = TRUE]
  /\ pc' = [pc EXCEPT ![w] = "recording"]
  /\ alarmed' = IF pc[w] = "alerting" THEN alarmed \cup {Row(w)} ELSE alarmed
  /\ \/ UNCHANGED qVars
     \/ pc[w] = "pausing" /\ Publish(Id(Row(w), "pause", pauses[Row(w)]))
     \/ pc[w] = "enqueueing" /\ Publish(Id(Row(w), "retry", seen[w] + 1))
  /\ UNCHANGED <<fanVars, status, attempts, letters, job, seen, pauses, copies,
                 holder, posts, hurt, clobbered>>

\* The process dies, or the load or the catch block throws: no 200, and QStash
\* tries the job again.  A row left SENDING is not claimable any more.
Abort(w) ==
  /\ pc[w] # "idle"
  /\ Fault
  /\ queue' = queue \cup Again(job[w])
  /\ hurt' = IF status[Row(w)] = "SENDING" \/ Again(job[w]) = {}
             THEN hurt \cup {Row(w)} ELSE hurt
  /\ Return(w)
  /\ UNCHANGED <<fanVars, status, attempts, letters, known, pauses, copies,
                 holder, posts, clobbered, alarmed>>
-----------------------------------------------------------------------------
FanOutStep(k) == FanOutCreate(k) \/ FanOutPublish(k)

WorkerStep(w) ==
  \/ Load(w) \/ Pause(w) \/ Requeue(w) \/ Post(w) \/ Accept(w)
  \/ Record(w) \/ Enqueue(w) \/ Alert(w)

Next ==
  \/ \E k \in Calls : FanOutStart(k) \/ FanOutStep(k) \/ FanOutCrash(k)
  \/ \E w \in Workers, m \in queue : Receive(w, m)
  \/ \E w \in Workers : WorkerStep(w) \/ Throw(w) \/ Abort(w)
  \/ Duplicate

Spec == Init /\ [][Next]_vars

\* QStash delivers what it has accepted, and a request that is being served
\* makes progress until it crashes.
FairSpec ==
  /\ Spec
  /\ \A k \in Calls : WF_vars(FanOutStep(k))
  /\ \A w \in Workers : WF_vars(WorkerStep(w))
  /\ WF_vars(\E w \in Workers, m \in queue : Receive(w, m))
-----------------------------------------------------------------------------
(* Safety. *)

\* An attempt is posted by one worker at a time, with jobs delivered twice and
\* in any order, as long as no worker records a row it has lost.
OneSender ==
  \A v, w \in Workers :
     /\ v # w
     /\ pc[v] \in {"claimed", "loaded", "accepted"}
     /\ pc[w] \in {"claimed", "loaded", "accepted"}
     /\ Row(v) = Row(w)
     => Row(v) \in clobbered

\* An attempt that is not finished is on somebody's list: a job, a worker or
\* the fan-out.  One failing statement never breaks this; what does is a crash
\* (or a failure of the catch block) while the row is SENDING, the loss of the
\* first job, the last retry of QStash, or a stale record.
Attended ==
  \A a \in Attempts \ (hurt \cup clobbered) :
     status[a] \in {"SENDING"} \cup Claimable =>
        \/ \E m \in queue : m.id.att = a
        \/ \E w \in Workers : pc[w] # "idle" /\ Row(w) = a
        \/ \E k \in Calls : \E s \in fresh[k] : a = <<k, s>>

\* The subscriber is never called more often than maxRetries allows, also when
\* jobs are duplicated and failures recorded twice.
PostsBounded ==
  \A a \in Attempts \ clobbered : posts[a] <= MaxRetries

\* The dead letter and the status DEAD go together, and there is one dead
\* letter unless the alert after it failed.
OneLetterPerDead ==
  \A a \in Attempts \ (clobbered \cup alarmed) :
     letters[a] = IF status[a] = "DEAD" THEN 1 ELSE 0

\* Duplicated and reordered jobs alone never make a worker record a row it has
\* lost, nor leave a row with nobody to carry on.
OnlyFaultsHurt ==
  faults = 0 => hurt = {} /\ clobbered = {}

\* A poison subscription does not fail the others of the same fan-out.
FanOutIsolated ==
  \A k \in Calls :
     fan[k] = "looping" /\ todo[k] = {} =>
        Cardinality({s \in Subs : status[<<k, s>>] = "NONE"}) <= faults

\* An attempt is DELIVERED only if the subscriber was called for it, whoever
\* records it and however late, and whatever was recorded in between.
DeliveredWasPosted ==
  \A a \in Attempts : status[a] = "DELIVERED" => posts[a] > 0

\* As long as no statement fails and no process dies, QStash may duplicate, delay
\* and reorder as it likes: one sender at a time, no more calls than allowed, one
\* letter for each dead attempt, and somebody who carries on.
ExactWithoutFaults ==
  faults = 0 =>
    /\ \A v, w \in Workers :
         v # w /\ {pc[v], pc[w]} \subseteq {"claimed", "loaded", "accepted"} => Row(v) # Row(w)
    /\ \A a \in Attempts :
         /\ posts[a] <= MaxRetries
         /\ letters[a] = IF status[a] = "DEAD" THEN 1 ELSE 0
         /\ status[a] \in {"SENDING"} \cup Claimable =>
              \/ \E m \in queue : m.id.att = a
              \/ \E w \in Workers : pc[w] # "idle" /\ Row(w) = a
              \/ \E k \in Calls : \E s \in fresh[k] : a = <<k, s>>

\* DELIVERED and DEAD are final, up to stale records.
TerminalIsFinal ==
  [][\A a \in Attempts :
        status[a] \in Terminal /\ status'[a] # status[a] => a \in clobbered']_vars

\* Every attempt is delivered or dead-lettered in the end, unless a fault left
\* it with nobody to carry on.
EventuallyTerminal ==
  \A a \in Attempts :
     (status[a] = "PENDING") ~> (status[a] \in Terminal \/ a \in hurt \cup clobbered)
=============================================================================
