----------------------- MODULE WebhookDeliveryProofs -----------------------
(***************************************************************************)
(* Proofs about the outbound webhooks, for any number of calls,            *)
(* subscriptions, workers, faults and duplicated jobs.                     *)
(*                                                                         *)
(* An attempt that is not clobbered belongs to the worker that claimed it  *)
(* last, its holder.  HolderInv says what the holder knows of the row at   *)
(* each of its statements; every other worker that is still busy with the  *)
(* row has lost it, and what such a worker records clobbers the row.       *)
(***************************************************************************)
EXTENDS WebhookDelivery, TLAPS, FiniteSetTheorems

Sending == {"claimed", "loaded", "accepted"}

Busy(w, a) == pc[w] # "idle" /\ Row(w) = a

\* A busy worker has a job.
JobInv ==
  /\ \A w \in Workers : pc[w] # "idle" => job[w] \in Messages
  /\ \A w \in Workers : pc[w] = "idle" => job[w] = NoJob

\* Rows exist before they are published, and an announced row exists.
FanInv ==
  /\ \A k \in Calls :
       /\ fan[k] = "idle" => \A s \in Subs : status[<<k, s>>] = "NONE"
       /\ fan[k] # "looping" => todo[k] = {} /\ fresh[k] = {}
       /\ \A s \in todo[k] : status[<<k, s>>] = "NONE"
       /\ \A s \in fresh[k] : /\ status[<<k, s>>] # "NONE"
                              /\ Id(<<k, s>>, "first", 0) \notin known
       /\ \A s, t \in fresh[k] : s = t
  /\ \A id \in known : status[id.att] # "NONE"
  /\ \A m \in queue : m.id \in known
  /\ \A w \in Workers : pc[w] # "idle" => job[w].id \in known
\* The worker that claimed the row last, as long as nobody clobbered it.
Owns(w) == pc[w] # "idle" /\ Row(w) \notin clobbered /\ holder[Row(w)] = w

\* What the holder of a row knows of it.
Knows(w) ==
  LET a == Row(w) IN
  /\ pc[w] \in Sending => status[a] = "SENDING"
  /\ pc[w] = "claimed" => posts[a] <= attempts[a] /\ attempts[a] < MaxRetries
  /\ pc[w] # "claimed" => posts[a] <= seen[w] + 1 /\ seen[w] < MaxRetries
  /\ pc[w] \in {"loaded", "pausing"} => posts[a] <= seen[w]
  /\ pc[w] \in {"loaded", "accepted", "pausing"} => attempts[a] = seen[w]
  /\ pc[w] = "pausing" => status[a] = "PENDING"
  /\ pc[w] = "recording" =>
       \/ status[a] \in {"SENDING", "PENDING"} /\ attempts[a] = seen[w]
       \/ status[a] = "FAILED" /\ attempts[a] = seen[w] + 1 /\ attempts[a] < MaxRetries
       \/ status[a] = "DEAD" /\ attempts[a] = seen[w] + 1 /\ attempts[a] = MaxRetries
          /\ a \in alarmed
  /\ pc[w] \in {"enqueueing", "alerting"} =>
       /\ attempts[a] = seen[w] + 1
       /\ status[a] = IF attempts[a] = MaxRetries THEN "DEAD" ELSE "FAILED"
  /\ pc[w] = "enqueueing" => status[a] = "FAILED"

Keeps(w) ==
  /\ pc[w] \in Sending /\ Row(w) \notin clobbered => holder[Row(w)] = w
  /\ Owns(w) => Knows(w)

RowInv(a) ==
  /\ posts[a] <= MaxRetries
  /\ status[a] = "NONE" => posts[a] = 0 /\ attempts[a] = 0
  /\ status[a] \in Claimable => posts[a] <= attempts[a] /\ attempts[a] < MaxRetries
  /\ a \notin alarmed => letters[a] = IF status[a] = "DEAD" THEN 1 ELSE 0

HolderInv ==
  /\ \A w \in Workers : Keeps(w)
  /\ \A a \in Attempts \ clobbered : RowInv(a)
\* Ids are made of counters that grow.
IdsInv ==
  /\ \A id \in known :
       /\ id.kind = "pause" => id.n <= pauses[id.att]
       /\ id.kind = "retry" /\ id.att \notin clobbered => id.n <= attempts[id.att]
  /\ \A w \in Workers :
       pc[w] = "enqueueing" /\ Row(w) \notin clobbered => seen[w] + 1 <= attempts[Row(w)]

Carried(a) ==
  \/ \E m \in queue : m.id.att = a
  \/ \E k \in Calls : \E s \in fresh[k] : a = <<k, s>>

\* The holder is still at work ...
Tends(a) == /\ holder[a] \in Workers
            /\ pc[holder[a]] # "idle"
            /\ Row(holder[a]) = a

\* ... and will publish an id that QStash does not know.
Unsent(w, a) ==
  \/ pc[w] = "pausing" /\ Id(a, "pause", pauses[a]) \notin known
  \/ pc[w] \in {"recording", "enqueueing"} /\ Id(a, "retry", seen[w] + 1) \notin known

Care(a) ==
  /\ status[a] = "SENDING" => Tends(a)
  /\ status[a] \in Claimable => Carried(a) \/ (Tends(a) /\ Unsent(holder[a], a))

CareInv == \A a \in Attempts \ (hurt \cup clobbered) : Care(a)
-----------------------------------------------------------------------------
(* Lemmas about jobs and rows. *)

LEMMA MessageFacts ==
  ASSUME NEW m \in Messages
  PROVE  /\ m.id \in DedupIds /\ m.id.att \in Attempts
         /\ [m EXCEPT !.copy = TRUE] \in Messages
         /\ [m EXCEPT !.copy = TRUE].id = m.id
         /\ Again(m) \subseteq Messages
         /\ \A n \in Again(m) : n.id = m.id
<1>1. m.id \in DedupIds /\ m.tries \in 0 .. QStashRetries
  BY DEF Messages
<1>2. m.id.att \in Attempts
  BY <1>1 DEF DedupIds
<1>3. /\ [m EXCEPT !.copy = TRUE] \in Messages
      /\ [m EXCEPT !.copy = TRUE].id = m.id
  BY DEF Messages
<1>4. QStashRetries \in Nat
  BY WebhookAssumption
<1>5. Again(m) \subseteq Messages /\ \A n \in Again(m) : n.id = m.id
  BY <1>1, <1>4 DEF Again, Messages
<1> QED
  BY <1>1, <1>2, <1>3, <1>5

LEMMA IdFacts ==
  ASSUME NEW a \in Attempts, NEW kind \in {"first", "retry", "pause"}, NEW n \in Nat
  PROVE  /\ Id(a, kind, n) \in DedupIds
         /\ Id(a, kind, n).att = a /\ Id(a, kind, n).kind = kind /\ Id(a, kind, n).n = n
         /\ [id |-> Id(a, kind, n), tries |-> 0, copy |-> FALSE] \in Messages
         /\ [id |-> Id(a, kind, n), tries |-> 0, copy |-> FALSE].id = Id(a, kind, n)
BY WebhookAssumption DEF Id, DedupIds, Messages

\* A publication is known afterwards, and queued if it was new.
LEMMA PublishFacts ==
  ASSUME TypeOK, NEW a \in Attempts, NEW kind \in {"first", "retry", "pause"}, NEW n \in Nat,
         Publish(Id(a, kind, n))
  PROVE  /\ queue' \subseteq Messages /\ known' \subseteq DedupIds
         /\ queue \subseteq queue' /\ known' = known \cup {Id(a, kind, n)}
         /\ \A m \in queue' : m \in queue \/ m.id = Id(a, kind, n)
         /\ Id(a, kind, n) \notin known => \E m \in queue' : m.id.att = a
<1> DEFINE id == Id(a, kind, n)
           m == [id |-> id, tries |-> 0, copy |-> FALSE]
<1>1. id \in DedupIds /\ id.att = a /\ m \in Messages /\ m.id = id
  BY IdFacts
<1>2. known' = known \cup {id} /\ queue' = IF id \in known THEN queue ELSE queue \cup {m}
  BY DEF Publish
<1>3. queue \subseteq Messages /\ known \subseteq DedupIds
  BY DEF TypeOK
<1> HIDE DEF m, id
<1>4. /\ queue' \subseteq Messages /\ known' \subseteq DedupIds
      /\ queue \subseteq queue' /\ known' = known \cup {id}
      /\ \A x \in queue' : x \in queue \/ x.id = id
      /\ id \notin known => \E x \in queue' : x.id.att = a
  BY <1>1, <1>2, <1>3
<1> QED
  BY <1>4 DEF id

LEMMA WebhookInit == Init => TypeOK /\ JobInv /\ FanInv
<1> SUFFICES ASSUME Init PROVE TypeOK /\ JobInv /\ FanInv
  OBVIOUS
<1>1. TypeOK
  BY WebhookAssumption DEF Init, TypeOK, Claimable, Terminal
<1>2. JobInv /\ FanInv
  BY DEF Init, JobInv, FanInv, Attempts
<1> QED
  BY <1>1, <1>2

Returned(w) ==
  /\ pc' = [pc EXCEPT ![w] = "idle"]
  /\ job' = [job EXCEPT ![w] = NoJob]

LEMMA WebhookTypeNext ==
  ASSUME TypeOK, JobInv, [Next]_vars
  PROVE  TypeOK' /\ JobInv'
<1> USE DEF TypeOK, JobInv, fanVars, qVars, workerVars, counters, history, Fault
<1> USE WebhookAssumption
<1>r. ASSUME NEW w \in Workers, pc[w] # "idle"
      PROVE  Row(w) \in Attempts /\ job[w] \in Messages /\ pauses[Row(w)] \in Nat
  <2>1. job[w] \in Messages
    BY <1>r
  <2>2. Row(w) \in Attempts
    BY <2>1, MessageFacts DEF Row
  <2> QED
    BY <2>1, <2>2
<1>1. ASSUME NEW k \in Calls, FanOutStart(k) PROVE TypeOK' /\ JobInv'
  BY <1>1 DEF FanOutStart
<1>2. ASSUME NEW k \in Calls, FanOutCreate(k) PROVE TypeOK' /\ JobInv'
  <2> PICK s \in todo[k] :
         /\ todo' = [todo EXCEPT ![k] = @ \ {s}]
         /\ \/ /\ status' = [status EXCEPT ![<<k, s>>] = "PENDING"]
               /\ fresh' = [fresh EXCEPT ![k] = {s}]
               /\ UNCHANGED faults
            \/ Fault /\ UNCHANGED <<status, fresh>>
    BY <1>2 DEF FanOutCreate
  <2> s \in Subs /\ <<k, s>> \in Attempts
    BY DEF Attempts
  <2>1. status' \in [Attempts -> {"NONE", "SENDING"} \cup Claimable \cup Terminal]
    BY DEF Claimable
  <2>2. todo' \in [Calls -> SUBSET Subs] /\ fresh' \in [Calls -> SUBSET Subs]
    OBVIOUS
  <2>3. faults' \in 0 .. MaxFaults
    OBVIOUS
  <2> QED
    BY <1>2, <2>1, <2>2, <2>3 DEF FanOutCreate
<1>3. ASSUME NEW k \in Calls, FanOutPublish(k) PROVE TypeOK' /\ JobInv'
  <2> PICK s \in fresh[k] :
       \/ Publish(Id(<<k, s>>, "first", 0)) /\ UNCHANGED <<faults, hurt>>
       \/ Fault /\ hurt' = hurt \cup {<<k, s>>} /\ UNCHANGED qVars
    BY <1>3 DEF FanOutPublish
  <2> s \in Subs /\ <<k, s>> \in Attempts
    BY DEF Attempts
  <2>1. queue' \subseteq Messages /\ known' \subseteq DedupIds
    BY PublishFacts
  <2> QED
    BY <1>3, <2>1 DEF FanOutPublish
<1>4. ASSUME NEW k \in Calls, FanOutCrash(k) PROVE TypeOK' /\ JobInv'
  <2> {k} \X fresh[k] \subseteq Attempts
    BY DEF Attempts
  <2> QED
    BY <1>4 DEF FanOutCrash
<1>5. ASSUME NEW w \in Workers, NEW m \in queue, Receive(w, m) PROVE TypeOK' /\ JobInv'
  <2> m \in Messages /\ m.id.att \in Attempts
    BY MessageFacts
  <2> QED
    BY <1>5 DEF Receive
<1>6. ASSUME NEW w \in Workers, Load(w) PROVE TypeOK' /\ JobInv'
  BY <1>6, <1>r DEF Load
<1>7. ASSUME NEW w \in Workers, Pause(w) PROVE TypeOK' /\ JobInv'
  BY <1>7, <1>r DEF Pause, Goto, Claimable
<1>8. ASSUME NEW w \in Workers, Requeue(w) PROVE TypeOK' /\ JobInv'
  <2>1. queue' \subseteq Messages /\ known' \subseteq DedupIds
    BY <1>8, <1>r, PublishFacts DEF Requeue
  <2> QED
    BY <1>8, <2>1 DEF Requeue, Return
<1>9. ASSUME NEW w \in Workers, Post(w) PROVE TypeOK' /\ JobInv'
  <2>1. Row(w) \in Attempts /\ pc[w] # "idle"
    BY <1>9, <1>r DEF Post
  <2>2. posts' = posts \/ posts' = [posts EXCEPT ![Row(w)] = @ + 1]
    BY <1>9 DEF Post
  <2>3. posts' \in [Attempts -> Nat]
    BY <2>1, <2>2
  <2>4. \E place \in {"accepted", "recording"} : pc' = [pc EXCEPT ![w] = place]
    BY <1>9 DEF Post
  <2>5. caught' = caught \/ caught' = [caught EXCEPT ![w] = TRUE]
    BY <1>9 DEF Post
  <2>6. UNCHANGED <<fanVars, status, attempts, letters, qVars, job, seen, counters,
                    holder, hurt, clobbered, alarmed>>
    BY <1>9 DEF Post
  <2>7. caught' \in [Workers -> BOOLEAN]
    BY <2>5
  <2>8. /\ pc' \in [Workers -> {"idle", "claimed", "loaded", "accepted", "pausing",
                                "recording", "enqueueing", "alerting"}]
        /\ \A v \in Workers : pc'[v] = "idle" <=> pc[v] = "idle"
    BY <2>1, <2>4
  <2>9. JobInv'
    BY <2>6, <2>8
  <2> QED
    BY <2>3, <2>6, <2>7, <2>8, <2>9
<1>10. ASSUME NEW w \in Workers, Accept(w) PROVE TypeOK' /\ JobInv'
  BY <1>10, <1>r DEF Accept, Return, Terminal
<1>11. ASSUME NEW w \in Workers, Record(w) PROVE TypeOK' /\ JobInv'
  BY <1>11, <1>r DEF Record, Write, Goto, Claimable, Terminal
<1>12. ASSUME NEW w \in Workers, Enqueue(w) PROVE TypeOK' /\ JobInv'
  <2>1. queue' \subseteq Messages /\ known' \subseteq DedupIds
    <3> HIDE DEF TypeOK, JobInv
    <3>1. Row(w) \in Attempts /\ Publish(Id(Row(w), "retry", seen[w] + 1))
      BY <1>12, <1>r DEF Enqueue
    <3>2. seen[w] + 1 \in Nat
      BY DEF TypeOK
    <3> QED
      BY <3>1, <3>2, PublishFacts
  <2> QED
    BY <1>12, <2>1 DEF Enqueue, Goto
<1>13. ASSUME NEW w \in Workers, Alert(w) PROVE TypeOK' /\ JobInv'
  BY <1>13 DEF Alert, Return
<1>14. ASSUME NEW w \in Workers, Throw(w) PROVE TypeOK' /\ JobInv'
  <2>1. pc[w] # "idle"
    BY <1>14 DEF Throw
  <2>2. queue' \subseteq Messages /\ known' \subseteq DedupIds
    BY <1>14, <2>1, <1>r, PublishFacts DEF Throw
  <2> QED
    BY <1>14, <1>r, <2>1, <2>2 DEF Throw
<1>15. ASSUME NEW w \in Workers, Abort(w) PROVE TypeOK' /\ JobInv'
  <2> Again(job[w]) \subseteq Messages /\ Row(w) \in Attempts
    BY <1>15, <1>r, MessageFacts DEF Abort
  <2> QED
    BY <1>15 DEF Abort, Return
<1>16. CASE Duplicate
  <2> PICK m \in queue \cup {job[w] : w \in {v \in Workers : pc[v] # "idle"}} :
         queue' = queue \cup {[m EXCEPT !.copy = TRUE]}
    BY <1>16 DEF Duplicate
  <2> m \in Messages
    OBVIOUS
  <2> [m EXCEPT !.copy = TRUE] \in Messages
    BY MessageFacts
  <2>1. queue' \subseteq Messages
    OBVIOUS
  <2> QED
    BY <1>16, <2>1 DEF Duplicate
<1>17. CASE UNCHANGED vars
  BY <1>17 DEF vars
<1> QED
  BY <1>1, <1>2, <1>3, <1>4, <1>5, <1>6, <1>7, <1>8, <1>9, <1>10, <1>11, <1>12,
     <1>13, <1>14, <1>15, <1>16, <1>17 DEF Next, FanOutStep, WorkerStep
-----------------------------------------------------------------------------
(* The rows of the fan-out. *)

\* Steps that leave the fan-out alone, create no row and publish for rows that
\* exist keep FanInv.
LEMMA FanQuiet ==
  ASSUME TypeOK, FanInv, TypeOK',
         UNCHANGED fanVars,
         \A a \in Attempts : status'[a] = "NONE" <=> status[a] = "NONE",
         \A id \in known' \ known : status[id.att] # "NONE" /\ id.kind # "first",
         known \subseteq known',
         \A m \in queue' : m.id \in known',
         \A v \in Workers : pc'[v] # "idle" => job'[v].id \in known'
  PROVE  FanInv'
<1>1. \A id \in known' : id.att \in Attempts
  BY DEF TypeOK, DedupIds
<1>2. \A k \in Calls : \A s \in Subs : <<k, s>> \in Attempts
  BY DEF Attempts
<1>3. \A k \in Calls : \A s \in Subs : Id(<<k, s>>, "first", 0).kind = "first"
  BY DEF Id
<1>4. \A k \in Calls : todo[k] \subseteq Subs /\ fresh[k] \subseteq Subs
  BY DEF TypeOK
<1>5. fan' = fan /\ todo' = todo /\ fresh' = fresh
  BY DEF fanVars
<1> QED
  BY <1>1, <1>2, <1>3, <1>4, <1>5 DEF FanInv

LEMMA FanNext ==
  ASSUME TypeOK, JobInv, FanInv, TypeOK', JobInv', [Next]_vars
  PROVE  FanInv'
<1> USE DEF fanVars, qVars, workerVars, counters, history
<1>r. ASSUME NEW w \in Workers, pc[w] # "idle"
      PROVE  /\ Row(w) \in Attempts /\ status[Row(w)] # "NONE"
             /\ job[w] \in Messages /\ job[w].id \in known
             /\ pauses[Row(w)] \in Nat /\ seen[w] + 1 \in Nat
  <2>1. job[w] \in Messages /\ job[w].id \in known
    BY <1>r DEF JobInv, FanInv
  <2>2. Row(w) \in Attempts
    BY <2>1, MessageFacts DEF Row
  <2>3. pauses[Row(w)] \in 0 .. MaxPauses /\ seen[w] \in Nat
    BY <2>2 DEF TypeOK
  <2> QED
    BY <2>1, <2>2, <2>3, WebhookAssumption DEF FanInv, Row
<1>t. \A k \in Calls : /\ todo[k] \subseteq Subs /\ fresh[k] \subseteq Subs
                      /\ \A s \in Subs : <<k, s>> \in Attempts
  BY DEF TypeOK, Attempts
<1>1. ASSUME NEW k \in Calls, FanOutStart(k) PROVE FanInv'
  BY <1>1, <1>t DEF FanOutStart, FanInv, TypeOK
<1>2. ASSUME NEW k \in Calls, FanOutCreate(k) PROVE FanInv'
  <2>0. fan[k] = "looping" /\ fresh[k] = {} /\ UNCHANGED <<fan, qVars, pc, job>>
    BY <1>2 DEF FanOutCreate
  <2> PICK s \in todo[k] :
         /\ todo' = [todo EXCEPT ![k] = @ \ {s}]
         /\ \/ /\ status' = [status EXCEPT ![<<k, s>>] = "PENDING"]
               /\ fresh' = [fresh EXCEPT ![k] = {s}]
            \/ UNCHANGED <<status, fresh>>
    BY <1>2 DEF FanOutCreate
  <2>1. s \in Subs /\ status[<<k, s>>] = "NONE"
    BY <1>t DEF FanInv
  <2>2. Id(<<k, s>>, "first", 0).att = <<k, s>>
    BY DEF Id
  <2>3. Id(<<k, s>>, "first", 0) \notin known
    BY <2>1, <2>2 DEF FanInv
  <2>4. \A id \in known : id.att \in Attempts
    BY DEF TypeOK, DedupIds
  <2>5. CASE UNCHANGED <<status, fresh>>
    BY <2>0, <2>1, <2>5 DEF FanInv, TypeOK
  <2>6. CASE /\ status' = [status EXCEPT ![<<k, s>>] = "PENDING"]
             /\ fresh' = [fresh EXCEPT ![k] = {s}]
    <3>1. \A id \in known' : status'[id.att] # "NONE"
      BY <2>0, <2>4, <2>6 DEF FanInv, TypeOK
    <3>2. ASSUME NEW c \in Calls
          PROVE  /\ fan[c]' = "idle" => \A t \in Subs : status'[<<c, t>>] = "NONE"
                 /\ fan[c]' # "looping" => todo'[c] = {} /\ fresh'[c] = {}
                 /\ \A t \in todo'[c] : status'[<<c, t>>] = "NONE"
                 /\ \A t \in fresh'[c] : /\ status'[<<c, t>>] # "NONE"
                                         /\ Id(<<c, t>>, "first", 0) \notin known'
                 /\ \A t, u \in fresh'[c] : t = u
      <4>1. CASE c = k
        <5>1. /\ fan[k] = "looping" /\ fan'[c] = "looping" /\ known' = known
              /\ todo'[c] = todo[k] \ {s} /\ fresh'[c] = {s}
          BY <2>0, <2>6, <4>1 DEF TypeOK
        <5>2. \A t \in Subs \ {s} : status'[<<c, t>>] = status[<<k, t>>]
          BY <2>6, <1>t, <4>1 DEF TypeOK
        <5>3. status'[<<c, s>>] = "PENDING" /\ todo[k] \subseteq Subs
          BY <2>1, <2>6, <1>t, <4>1 DEF TypeOK
        <5>4. \A t \in todo[k] : status[<<k, t>>] = "NONE"
          BY DEF FanInv
        <5> QED
          BY <2>3, <4>1, <5>1, <5>2, <5>3, <5>4
      <4>2. CASE c # k
        <5>1. \A t \in Subs : status'[<<c, t>>] = status[<<c, t>>]
          BY <4>2, <2>6, <1>t DEF TypeOK
        <5> QED
          BY <5>1, <4>2, <2>0, <2>6, <1>t DEF FanInv, TypeOK
      <4> QED
        BY <4>1, <4>2
    <3> QED
      BY <3>1, <3>2, <2>0 DEF FanInv
  <2> QED
    BY <2>5, <2>6
<1>3. ASSUME NEW k \in Calls, FanOutPublish(k) PROVE FanInv'
  <2>0. /\ fresh' = [fresh EXCEPT ![k] = {}]
        /\ UNCHANGED <<fan, todo, status, pc, job>>
    BY <1>3 DEF FanOutPublish
  <2> PICK s \in fresh[k] : Publish(Id(<<k, s>>, "first", 0)) \/ UNCHANGED qVars
    BY <1>3 DEF FanOutPublish
  <2>1. s \in Subs /\ <<k, s>> \in Attempts /\ status[<<k, s>>] # "NONE"
    BY <1>t DEF FanInv
  <2> DEFINE id == Id(<<k, s>>, "first", 0)
  <2>2. id.att = <<k, s>>
    BY DEF Id
  <2>3. /\ known \subseteq known' /\ known' \subseteq known \cup {id}
        /\ \A m \in queue' : m.id \in known'
    BY <2>1, PublishFacts DEF FanInv
  <2>4. \A c \in Calls \ {k} : \A t \in Subs : Id(<<c, t>>, "first", 0) # id
    BY DEF Id
  <2>5. \A i \in known' : status'[i.att] # "NONE"
    BY <2>0, <2>1, <2>2, <2>3 DEF FanInv
  <2> HIDE DEF id
  <2>6. \A v \in Workers : pc'[v] # "idle" => job'[v].id \in known'
    BY <2>0, <2>3 DEF FanInv
  <2> QED
    BY <2>0, <2>3, <2>4, <2>5, <2>6, <1>t DEF FanInv, TypeOK
<1>4. ASSUME NEW k \in Calls, FanOutCrash(k) PROVE FanInv'
  BY <1>4 DEF FanOutCrash, FanInv, TypeOK
<1>5. ASSUME NEW w \in Workers, NEW m \in queue, Receive(w, m) PROVE FanInv'
  <2>1. m.id.att \in Attempts
    BY MessageFacts DEF TypeOK
  <2>2. \A a \in Attempts : status'[a] = "NONE" <=> status[a] = "NONE"
    BY <1>5, <2>1 DEF Receive, TypeOK, Claimable
  <2>3. /\ UNCHANGED <<fanVars, known>> /\ queue' \subseteq queue
        /\ \A v \in Workers : pc'[v] # "idle" => \/ pc[v] # "idle" /\ job'[v] = job[v]
                                               \/ job'[v] = m
    BY <1>5 DEF Receive, TypeOK
  <2>4. m.id \in known
    BY DEF FanInv
  <2>5. \A v \in Workers : pc'[v] # "idle" => job'[v].id \in known'
    BY <2>3, <2>4 DEF FanInv
  <2>6. \A n \in queue' : n.id \in known'
    BY <2>3 DEF FanInv
  <2> QED
    BY <2>2, <2>3, <2>5, <2>6, FanQuiet
<1>6. ASSUME NEW w \in Workers, pc[w] # "idle",
             UNCHANGED fanVars,
             \/ UNCHANGED status
             \/ \E value \in {"PENDING", "DELIVERED", "DEAD", "FAILED"} :
                  status' = [status EXCEPT ![Row(w)] = value],
             \/ UNCHANGED qVars
             \/ Publish(Id(Row(w), "pause", pauses[Row(w)]))
             \/ Publish(Id(Row(w), "retry", seen[w] + 1))
             \/ known' = known /\ queue' = queue \cup Again(job[w]),
             \A v \in Workers : pc'[v] # "idle" => pc[v] # "idle" /\ job'[v] = job[v]
      PROVE  FanInv'
  <2>1. \A a \in Attempts : status'[a] = "NONE" <=> status[a] = "NONE"
    BY <1>6, <1>r DEF TypeOK
  <2>2. /\ known \subseteq known'
        /\ \A id \in known' \ known : status[id.att] # "NONE" /\ id.kind # "first"
        /\ \A m \in queue' : m.id \in known'
    <3>1. CASE UNCHANGED qVars
      BY <3>1 DEF FanInv
    <3>2. ASSUME NEW kind \in {"pause", "retry"}, NEW n \in Nat, Publish(Id(Row(w), kind, n))
          PROVE  /\ known \subseteq known'
                 /\ \A id \in known' \ known : status[id.att] # "NONE" /\ id.kind # "first"
                 /\ \A m \in queue' : m.id \in known'
      <4>1. /\ Id(Row(w), kind, n).att = Row(w) /\ Id(Row(w), kind, n).kind = kind
        BY DEF Id
      <4>2. /\ known' = known \cup {Id(Row(w), kind, n)}
            /\ \A m \in queue' : m \in queue \/ m.id = Id(Row(w), kind, n)
        BY <3>2, <1>6, <1>r, PublishFacts
      <4>3. status[Row(w)] # "NONE"
        BY <1>6, <1>r
      <4>4. \A id \in known' \ known : status[id.att] # "NONE" /\ id.kind # "first"
        BY <4>1, <4>2, <4>3
      <4>5. \A m \in queue' : m.id \in known'
        BY <4>2 DEF FanInv
      <4> QED
        BY <4>2, <4>4, <4>5
    <3>3. CASE known' = known /\ queue' = queue \cup Again(job[w])
      <4>1. job[w].id \in known /\ \A n \in Again(job[w]) : n.id = job[w].id
        BY <1>6, <1>r, MessageFacts
      <4> QED
        BY <3>3, <4>1 DEF FanInv
    <3> QED
      BY <3>1, <3>2, <3>3, <1>6, <1>r
  <2>3. \A v \in Workers : pc'[v] # "idle" => job'[v].id \in known'
    BY <1>6, <2>2 DEF FanInv
  <2> QED
    BY <2>1, <2>2, <2>3, <1>6, FanQuiet
<1>7. ASSUME NEW w \in Workers, Load(w) PROVE FanInv'
  BY <1>7, <1>6 DEF Load, TypeOK
<1>8. ASSUME NEW w \in Workers, Pause(w) PROVE FanInv'
  BY <1>8, <1>6 DEF Pause, Goto, TypeOK
<1>9. ASSUME NEW w \in Workers, Requeue(w) PROVE FanInv'
  BY <1>9, <1>6 DEF Requeue, Return, TypeOK
<1>10. ASSUME NEW w \in Workers, Post(w) PROVE FanInv'
  BY <1>10, <1>6 DEF Post, TypeOK
<1>11. ASSUME NEW w \in Workers, Accept(w) PROVE FanInv'
  BY <1>11, <1>6 DEF Accept, Return, TypeOK
<1>12. ASSUME NEW w \in Workers, Record(w) PROVE FanInv'
  BY <1>12, <1>6 DEF Record, Write, Goto, TypeOK
<1>13. ASSUME NEW w \in Workers, Enqueue(w) PROVE FanInv'
  BY <1>13, <1>6 DEF Enqueue, Goto, TypeOK
<1>14. ASSUME NEW w \in Workers, Alert(w) PROVE FanInv'
  BY <1>14, <1>6 DEF Alert, Return, TypeOK
<1>15. ASSUME NEW w \in Workers, Throw(w) PROVE FanInv'
  BY <1>15, <1>6 DEF Throw, TypeOK
<1>16. ASSUME NEW w \in Workers, Abort(w) PROVE FanInv'
  BY <1>16, <1>6 DEF Abort, Return, TypeOK
<1>17. CASE Duplicate
  <2> PICK m \in queue \cup {job[w] : w \in {v \in Workers : pc[v] # "idle"}} :
         queue' = queue \cup {[m EXCEPT !.copy = TRUE]}
    BY <1>17 DEF Duplicate
  <2>1. m \in Messages /\ m.id \in known
    BY DEF TypeOK, JobInv, FanInv
  <2>2. [m EXCEPT !.copy = TRUE].id \in known
    BY <2>1, MessageFacts
  <2>3. UNCHANGED <<fanVars, status, known, pc, job>>
    BY <1>17 DEF Duplicate
  <2> QED
    BY <2>2, <2>3, FanQuiet DEF FanInv
<1>18. CASE UNCHANGED vars
  BY <1>18, FanQuiet DEF vars, FanInv
<1> QED
  BY <1>1, <1>2, <1>3, <1>4, <1>5, <1>7, <1>8, <1>9, <1>10, <1>11, <1>12, <1>13,
     <1>14, <1>15, <1>16, <1>17, <1>18 DEF Next, FanOutStep, WorkerStep
-----------------------------------------------------------------------------
(* What the holder knows. *)

\* A worker that is about to write an unclobbered row leaves the other rows and
\* what the other workers know as they are.
LEMMA OthersKeep ==
  ASSUME TypeOK, JobInv, HolderInv, NEW w \in Workers, pc[w] # "idle", NEW a \in Attempts, a = Row(w),
         \A v \in Workers \ {w} : pc'[v] = pc[v] /\ job'[v] = job[v] /\ seen'[v] = seen[v],
         UNCHANGED holder,
         \A b \in Attempts \ {a} : /\ status'[b] = status[b] /\ attempts'[b] = attempts[b]
                                  /\ letters'[b] = letters[b] /\ posts'[b] = posts[b],
         clobbered \subseteq clobbered', clobbered' \subseteq clobbered \cup {a},
         alarmed \subseteq alarmed', alarmed' \subseteq alarmed \cup {a},
         holder[a] = w \/ a \in clobbered' \/ UNCHANGED <<status, attempts, letters, posts>>,
         a \notin clobbered' => RowInv(a)',
         Keeps(w)'
  PROVE  HolderInv'
<1>1. ASSUME NEW v \in Workers \ {w} PROVE Keeps(v)'
  <2>1. CASE pc[v] = "idle"
    BY <2>1 DEF Keeps, Owns, Sending
  <2>2. CASE pc[v] # "idle"
    <3>1. Row(v) \in Attempts /\ Row(v)' = Row(v)
      BY <2>2, MessageFacts DEF JobInv, Row
    <3>2. Keeps(v)
      BY DEF HolderInv
    <3>3. CASE Row(v) # Row(w) \/ UNCHANGED <<status, attempts, letters, posts>>
      <4>1. /\ status'[Row(v)] = status[Row(v)] /\ attempts'[Row(v)] = attempts[Row(v)]
            /\ posts'[Row(v)] = posts[Row(v)]
        BY <3>1, <3>3
      <4>2. Owns(v)' => Owns(v)
        BY <3>1 DEF Owns
      <4>3. Knows(v) => Knows(v)'
        BY <3>1, <4>1 DEF Knows
      <4> QED
        BY <3>1, <3>2, <4>2, <4>3 DEF Keeps
    <3>4. CASE Row(v) = Row(w) /\ (holder[Row(w)] = w \/ Row(w) \in clobbered')
      BY <3>1, <3>2, <3>4 DEF Keeps, Owns
    <3> QED
      BY <3>3, <3>4
  <2> QED
    BY <2>1, <2>2
<1>2. ASSUME NEW b \in Attempts \ clobbered' PROVE RowInv(b)'
  BY <1>2 DEF RowInv, HolderInv
<1> QED
  BY <1>1, <1>2 DEF HolderInv

\* Where a busy worker is, with a name for its row.
LEMMA BusyRow ==
  ASSUME TypeOK, JobInv, FanInv, NEW w \in Workers, pc[w] # "idle"
  PROVE  \E a \in Attempts :
           /\ a = Row(w) /\ status[a] # "NONE"
           /\ attempts[a] \in Nat /\ posts[a] \in Nat /\ letters[a] \in Nat
           /\ seen[w] \in Nat /\ MaxRetries \in Nat \ {0}
<1>1. job[w] \in Messages
  BY DEF JobInv
<1>2. Row(w) \in Attempts /\ status[Row(w)] # "NONE"
  BY <1>1, MessageFacts DEF Row, FanInv
<1> QED
  BY <1>2, WebhookAssumption DEF TypeOK

LEMMA HolderInit == Init => HolderInv
BY WebhookAssumption DEF Init, HolderInv, Keeps, Owns, Sending, RowInv, Claimable

LEMMA HolderNext ==
  ASSUME TypeOK, JobInv, FanInv, HolderInv, TypeOK', [Next]_vars
  PROVE  HolderInv'
<1> USE DEF fanVars, qVars, workerVars, counters, history
<1>k. ASSUME NEW w \in Workers PROVE Keeps(w)
  BY DEF HolderInv
<1>a. ASSUME NEW a \in Attempts, a \notin clobbered PROVE RowInv(a)
  BY <1>a DEF HolderInv
<1>q. ASSUME UNCHANGED <<status, attempts, letters, workerVars, holder, posts, clobbered, alarmed>>
      PROVE  HolderInv'
  <2>1. ASSUME NEW v \in Workers PROVE Keeps(v)'
    BY <1>q, <1>k DEF Keeps, Owns, Knows, Row
  <2>2. ASSUME NEW b \in Attempts, b \notin clobbered' PROVE RowInv(b)'
    BY <1>q, <1>a, <2>2 DEF RowInv
  <2> QED
    BY <2>1, <2>2 DEF HolderInv
<1>1. ASSUME NEW k \in Calls, FanOutStart(k) \/ FanOutPublish(k) \/ FanOutCrash(k)
      PROVE  HolderInv'
  BY <1>1, <1>q DEF FanOutStart, FanOutPublish, FanOutCrash
<1>2. ASSUME NEW k \in Calls, FanOutCreate(k) PROVE HolderInv'
  <2> PICK s \in todo[k] :
        \/ status' = [status EXCEPT ![<<k, s>>] = "PENDING"]
        \/ UNCHANGED status
    BY <1>2 DEF FanOutCreate
  <2> UNCHANGED <<attempts, letters, workerVars, holder, posts, clobbered, alarmed>>
    BY <1>2 DEF FanOutCreate
  <2>1. CASE UNCHANGED status
    BY <2>1, <1>q
  <2>2. CASE status' = [status EXCEPT ![<<k, s>>] = "PENDING"]
    <3>1. PICK a \in Attempts : a = <<k, s>> /\ status[a] = "NONE"
      BY DEF FanInv, TypeOK, Attempts
    <3>2. ASSUME NEW v \in Workers PROVE Keeps(v)'
      <4>1. CASE pc[v] = "idle"
        BY <4>1 DEF Keeps, Owns, Sending
      <4>2. CASE pc[v] # "idle"
        <5>1. PICK b \in Attempts : b = Row(v) /\ status[b] # "NONE"
          BY <4>2, BusyRow
        <5>2. status'[Row(v)] = status[Row(v)]
          BY <5>1, <3>1, <2>2 DEF TypeOK
        <5> QED
          BY <5>2, <1>k DEF Keeps, Owns, Knows, Row
      <4> QED
        BY <4>1, <4>2
    <3>3. ASSUME NEW b \in Attempts \ clobbered' PROVE RowInv(b)'
      <4>1. RowInv(b) /\ attempts[b] \in Nat /\ posts[b] \in Nat
        BY <3>3, <1>a DEF TypeOK
      <4>2. CASE b = a
        <5>1. status'[b] = "PENDING" /\ status[b] = "NONE"
          BY <4>2, <3>1, <2>2 DEF TypeOK
        <5> QED
          BY <4>1, <5>1, WebhookAssumption DEF RowInv, Claimable
      <4>3. CASE b # a
        <5>1. status'[b] = status[b]
          BY <4>3, <3>1, <2>2 DEF TypeOK
        <5> QED
          BY <4>1, <5>1 DEF RowInv
      <4> QED
        BY <4>2, <4>3
    <3> QED
      BY <3>2, <3>3 DEF HolderInv
  <2> QED
    BY <2>1, <2>2
<1>3. ASSUME NEW w \in Workers, NEW m \in queue, Receive(w, m) PROVE HolderInv'
  <2>1. PICK a \in Attempts : a = m.id.att
    BY MessageFacts DEF TypeOK
  <2>0. pc[w] = "idle" /\ UNCHANGED <<attempts, letters, seen, caught, posts, clobbered, alarmed>>
    BY <1>3 DEF Receive
  <2>2. CASE status[a] \notin Claimable
    BY <1>3, <2>0, <2>1, <2>2, <1>q DEF Receive
  <2>3. CASE status[a] \in Claimable
    <3>1. /\ status' = [status EXCEPT ![a] = "SENDING"]
          /\ holder' = [holder EXCEPT ![a] = w]
          /\ pc' = [pc EXCEPT ![w] = "claimed"]
          /\ job' = [job EXCEPT ![w] = m]
      BY <1>3, <2>1, <2>3 DEF Receive
    <3>2. Keeps(w)'
      BY <3>1, <2>0, <2>1, <2>3, <1>a DEF Keeps, Owns, Knows, RowInv, Row, Sending, TypeOK
    <3>3. ASSUME NEW v \in Workers \ {w} PROVE Keeps(v)'
      <4>1. CASE pc[v] = "idle"
        BY <3>1, <4>1 DEF Keeps, Owns, Sending, TypeOK
      <4>2. CASE pc[v] # "idle"
        <5>1. PICK b \in Attempts : b = Row(v)
          BY <4>2, BusyRow
        <5>2. b = Row(v)' /\ pc'[v] = pc[v] /\ seen'[v] = seen[v]
          BY <5>1, <3>1, <2>0 DEF Row, TypeOK
        <5>3. CASE b = a
          <6>1. a \notin clobbered => pc[v] \notin Sending
            BY <5>1, <5>3, <4>2, <2>3, <1>k DEF Keeps, Owns, Knows, Claimable
          <6>2. holder'[a] = w
            BY <3>1 DEF TypeOK
          <6> QED
            BY <6>1, <6>2, <5>2, <5>3, <2>0 DEF Keeps, Owns
        <5>4. CASE b # a
          <6> status'[b] = status[b] /\ holder'[b] = holder[b]
            BY <5>4, <3>1 DEF TypeOK
          <6> QED
            BY <5>1, <5>2, <2>0, <1>k DEF Keeps, Owns, Knows
        <5> QED
          BY <5>3, <5>4
      <4> QED
        BY <4>1, <4>2
    <3>4. ASSUME NEW b \in Attempts \ clobbered' PROVE RowInv(b)'
      BY <3>1, <3>4, <2>0, <2>3, <1>a DEF RowInv, TypeOK, Claimable
    <3> QED
      BY <3>2, <3>3, <3>4 DEF HolderInv
  <2> QED
    BY <2>2, <2>3
<1>o. ASSUME NEW w \in Workers, pc[w] # "idle", NEW a \in Attempts, a = Row(w),
             \E place \in {"loaded", "accepted", "pausing", "recording", "enqueueing",
                           "alerting"} : pc' = [pc EXCEPT ![w] = place],
             UNCHANGED <<job, holder>>,
             \A v \in Workers \ {w} : seen'[v] = seen[v],
             \A b \in Attempts \ {a} : /\ status'[b] = status[b] /\ attempts'[b] = attempts[b]
                                      /\ letters'[b] = letters[b] /\ posts'[b] = posts[b],
             clobbered \subseteq clobbered', clobbered' \subseteq clobbered \cup {a},
             holder[a] = w \/ a \in clobbered' \/ UNCHANGED <<status, attempts, letters, posts>>,
             alarmed \subseteq alarmed', alarmed' \subseteq alarmed \cup {a},
             a \notin clobbered /\ holder[a] = w => RowInv(a)' /\ Knows(w)',
             pc'[w] \in Sending => pc[w] \in Sending
      PROVE  HolderInv'
  <2>1. a = Row(w)' /\ \A v \in Workers \ {w} : pc'[v] = pc[v]
    BY <1>o DEF Row, TypeOK
  <2>2. Keeps(w)'
    <3>1. Keeps(w)
      BY <1>k
    <3>2. pc'[w] \in Sending /\ a \notin clobbered' => holder'[a] = w
      BY <1>o, <3>1 DEF Keeps
    <3>3. a \notin clobbered' /\ holder'[a] = w => Knows(w)'
      BY <1>o
    <3> QED
      BY <2>1, <3>2, <3>3 DEF Keeps, Owns
  <2>3. a \notin clobbered' => RowInv(a)'
    BY <1>o, <1>a DEF RowInv
  <2> QED
    BY <1>o, <2>1, <2>2, <2>3, OthersKeep
<1>4. ASSUME NEW w \in Workers, Load(w) PROVE HolderInv'
  <2>1. PICK a \in Attempts : a = Row(w) /\ attempts[a] \in Nat /\ posts[a] \in Nat
    BY <1>4, BusyRow DEF Load
  <2>2. /\ pc[w] = "claimed" /\ pc' = [pc EXCEPT ![w] = "loaded"]
        /\ seen' = [seen EXCEPT ![w] = attempts[a]]
        /\ UNCHANGED <<status, attempts, letters, job, holder, posts, clobbered, alarmed>>
    BY <1>4, <2>1 DEF Load
  <2>3. ASSUME a \notin clobbered, holder[a] = w PROVE RowInv(a)' /\ Knows(w)'
    <3>1. Knows(w) /\ RowInv(a)
      BY <2>1, <2>2, <2>3, <1>k, <1>a DEF Keeps, Owns
    <3>2. a = Row(w)' /\ pc'[w] = "loaded" /\ seen'[w] = attempts[a]
      BY <2>1, <2>2 DEF Row, TypeOK
    <3>3. RowInv(a)'
      BY <3>1, <2>2 DEF RowInv
    <3>4. /\ status[a] = "SENDING" /\ posts[a] <= attempts[a]
          /\ attempts[a] < MaxRetries
      BY <3>1, <2>1, <2>2 DEF Knows, Sending
    <3>5. Knows(w)'
      BY <3>2, <3>4, <2>1, <2>2 DEF Knows
    <3> QED
      BY <3>3, <3>5
  <2>4. /\ pc[w] # "idle"
        /\ \E place \in {"loaded", "accepted", "pausing", "recording", "enqueueing",
                         "alerting"} : pc' = [pc EXCEPT ![w] = place]
        /\ pc'[w] \in Sending => pc[w] \in Sending
        /\ \A v \in Workers \ {w} : seen'[v] = seen[v]
    BY <2>2 DEF Sending, TypeOK
  <2> QED
    BY <2>1, <2>2, <2>3, <2>4, <1>o
<1>5. ASSUME NEW w \in Workers, Pause(w) PROVE HolderInv'
  <2>1. PICK a \in Attempts : a = Row(w) /\ attempts[a] \in Nat /\ posts[a] \in Nat /\ seen[w] \in Nat
    BY <1>5, BusyRow DEF Pause
  <2>2. /\ pc[w] = "loaded" /\ pc' = [pc EXCEPT ![w] = "pausing"]
        /\ status' = [status EXCEPT ![a] = "PENDING"]
        /\ UNCHANGED <<attempts, letters, job, seen, holder, posts, clobbered, alarmed>>
    BY <1>5, <2>1 DEF Pause, Goto
  <2>3. ASSUME a \notin clobbered, holder[a] = w PROVE RowInv(a)' /\ Knows(w)'
    <3>1. Knows(w) /\ RowInv(a)
      BY <2>1, <2>2, <2>3, <1>k, <1>a DEF Keeps, Owns
    <3>2. a = Row(w)' /\ pc'[w] = "pausing" /\ status'[a] = "PENDING"
      BY <2>1, <2>2 DEF Row, TypeOK
    <3>3. /\ status[a] = "SENDING" /\ posts[a] <= seen[w]
          /\ attempts[a] = seen[w] /\ seen[w] < MaxRetries
      BY <3>1, <2>1, <2>2 DEF Knows, Sending
    <3>4. RowInv(a)'
      BY <3>1, <3>2, <3>3, <2>1, <2>2 DEF RowInv
    <3>5. Knows(w)'
      BY <3>2, <3>3, <2>1, <2>2 DEF Knows, Sending
    <3> QED
      BY <3>4, <3>5
  <2>4. holder[a] = w \/ a \in clobbered
    BY <2>1, <2>2, <1>k DEF Keeps, Sending
  <2>5. /\ pc[w] # "idle" /\ pc[w] \in Sending
        /\ holder[a] = w \/ a \in clobbered'
    BY <2>2, <2>4 DEF Sending
  <2>7. \A b \in Attempts \ {a} : /\ status'[b] = status[b] /\ attempts'[b] = attempts[b]
                                  /\ letters'[b] = letters[b] /\ posts'[b] = posts[b]
    BY <2>2 DEF TypeOK
  <2>6. \E place \in {"loaded", "accepted", "pausing", "recording", "enqueueing",
                      "alerting"} : pc' = [pc EXCEPT ![w] = place]
    BY <2>2
  <2> QED
    BY <2>1, <2>2, <2>3, <2>5, <2>6, <2>7, <1>o
<1>6. ASSUME NEW w \in Workers, Post(w) PROVE HolderInv'
  <2>1. PICK a \in Attempts : a = Row(w) /\ attempts[a] \in Nat /\ posts[a] \in Nat /\ seen[w] \in Nat
    BY <1>6, BusyRow DEF Post
  <2>2. /\ pc[w] = "loaded"
        /\ \E place \in {"accepted", "recording"} : pc' = [pc EXCEPT ![w] = place]
        /\ posts' = posts \/ posts' = [posts EXCEPT ![a] = @ + 1]
        /\ UNCHANGED <<status, attempts, letters, job, seen, holder, clobbered, alarmed>>
    BY <1>6, <2>1 DEF Post
  <2>3. ASSUME a \notin clobbered, holder[a] = w PROVE RowInv(a)' /\ Knows(w)'
    <3>1. Knows(w) /\ RowInv(a)
      BY <2>1, <2>2, <2>3, <1>k, <1>a DEF Keeps, Owns
    <3>2. a = Row(w)' /\ pc'[w] \in {"accepted", "recording"}
      BY <2>1, <2>2 DEF Row, TypeOK
    <3>3. /\ status[a] = "SENDING" /\ posts[a] <= seen[w]
          /\ attempts[a] = seen[w] /\ seen[w] < MaxRetries
      BY <3>1, <2>1, <2>2 DEF Knows, Sending
    <3>4. posts'[a] <= seen[w] + 1 /\ posts'[a] <= MaxRetries
      <4>1. posts'[a] = posts[a] \/ posts'[a] = posts[a] + 1
        BY <2>2 DEF TypeOK
      <4> QED
        BY <4>1, <3>3, <2>1, WebhookAssumption
    <3>5. RowInv(a)'
      BY <3>1, <3>3, <3>4, <2>2 DEF RowInv, Claimable
    <3>6. Knows(w)'
      BY <3>2, <3>3, <3>4, <2>2 DEF Knows, Sending
    <3> QED
      BY <3>5, <3>6
  <2>4. holder[a] = w \/ a \in clobbered
    BY <2>1, <2>2, <1>k DEF Keeps, Sending
  <2>5. /\ pc[w] # "idle" /\ pc[w] \in Sending
        /\ holder[a] = w \/ a \in clobbered'
    BY <2>2, <2>4 DEF Sending
  <2>7. \A b \in Attempts \ {a} : /\ status'[b] = status[b] /\ attempts'[b] = attempts[b]
                                  /\ letters'[b] = letters[b] /\ posts'[b] = posts[b]
    BY <2>2 DEF TypeOK
  <2>6. \E place \in {"loaded", "accepted", "pausing", "recording", "enqueueing",
                      "alerting"} : pc' = [pc EXCEPT ![w] = place]
    BY <2>2
  <2> QED
    BY <2>1, <2>2, <2>3, <2>5, <2>6, <2>7, <1>o
<1>7. ASSUME NEW w \in Workers, Record(w) PROVE HolderInv'
  <2>1. PICK a \in Attempts : a = Row(w) /\ attempts[a] \in Nat /\ posts[a] \in Nat
                            /\ seen[w] \in Nat /\ letters[a] \in Nat
    BY <1>7, BusyRow DEF Record, Write
  <2>2. /\ pc[w] = "recording"
        /\ pc' = [pc EXCEPT ![w] = IF seen[w] + 1 >= MaxRetries THEN "alerting" ELSE "enqueueing"]
        /\ attempts' = [attempts EXCEPT ![a] = seen[w] + 1]
        /\ status' = [status EXCEPT ![a] = IF seen[w] + 1 >= MaxRetries THEN "DEAD" ELSE "FAILED"]
        /\ letters' = IF seen[w] + 1 >= MaxRetries THEN [letters EXCEPT ![a] = @ + 1] ELSE letters
        /\ clobbered' = IF holder[a] = w THEN clobbered ELSE clobbered \cup {a}
        /\ UNCHANGED <<job, seen, holder, posts, alarmed>>
    BY <1>7, <2>1 DEF Record, Write, Goto
  <2>3. ASSUME a \notin clobbered, holder[a] = w PROVE RowInv(a)' /\ Knows(w)'
    <3>1. Knows(w) /\ RowInv(a)
      BY <2>1, <2>2, <2>3, <1>k, <1>a DEF Keeps, Owns
    <3>2. a = Row(w)'
      BY <2>1, <2>2 DEF Row
    <3>3. /\ status'[a] = IF seen[w] + 1 >= MaxRetries THEN "DEAD" ELSE "FAILED"
          /\ attempts'[a] = seen[w] + 1
          /\ letters'[a] = IF seen[w] + 1 >= MaxRetries THEN letters[a] + 1 ELSE letters[a]
          /\ pc'[w] = IF seen[w] + 1 >= MaxRetries THEN "alerting" ELSE "enqueueing"
      BY <2>2 DEF TypeOK
    <3> QED
      BY <3>1, <3>2, <3>3, <2>1, <2>2, WebhookAssumption DEF Knows, RowInv, Sending, Claimable
  <2>4. CASE holder[a] = w
    <3>1. /\ pc[w] # "idle" /\ pc'[w] \notin Sending /\ clobbered' = clobbered
          /\ \E place \in {"alerting", "enqueueing"} : pc' = [pc EXCEPT ![w] = place]
      BY <2>2, <2>4 DEF TypeOK, Sending
    <3>2. \A b \in Attempts \ {a} : /\ status'[b] = status[b] /\ attempts'[b] = attempts[b]
                                    /\ letters'[b] = letters[b] /\ posts'[b] = posts[b]
      BY <2>2 DEF TypeOK
    <3>3. a \notin clobbered /\ holder[a] = w => RowInv(a)' /\ Knows(w)'
      BY <2>3
    <3>4. UNCHANGED <<job, holder, seen, alarmed>>
      BY <2>2
    <3>5. \E place \in {"loaded", "accepted", "pausing", "recording", "enqueueing",
                        "alerting"} : pc' = [pc EXCEPT ![w] = place]
      BY <3>1
    <3>6. /\ pc[w] # "idle" /\ clobbered \subseteq clobbered'
          /\ clobbered' \subseteq clobbered \cup {a} /\ alarmed \subseteq alarmed'
          /\ alarmed' \subseteq alarmed \cup {a} /\ pc'[w] \notin Sending
          /\ \A v \in Workers \ {w} : seen'[v] = seen[v]
      BY <3>1, <3>4
    <3> QED
      BY <2>1, <2>4, <3>2, <3>3, <3>4, <3>5, <3>6, <1>o
  <2>5. CASE holder[a] # w
    <3>1. /\ a \in clobbered' /\ a = Row(w)' /\ pc'[w] # "idle"
          /\ \A v \in Workers \ {w} : pc'[v] = pc[v]
      BY <2>1, <2>2, <2>5 DEF Row, TypeOK
    <3>2. Keeps(w)'
      BY <3>1 DEF Keeps, Owns
    <3>3. /\ clobbered \subseteq clobbered' /\ clobbered' \subseteq clobbered \cup {a}
          /\ \A b \in Attempts \ {a} : /\ status'[b] = status[b] /\ attempts'[b] = attempts[b]
                                      /\ letters'[b] = letters[b] /\ posts'[b] = posts[b]
      BY <2>2 DEF TypeOK
    <3> QED
      BY <2>1, <2>2, <3>1, <3>2, <3>3, OthersKeep
  <2> QED
    BY <2>4, <2>5
<1>8. ASSUME NEW w \in Workers, Enqueue(w) PROVE HolderInv'
  <2>1. PICK a \in Attempts : a = Row(w)
    BY <1>8, BusyRow DEF Enqueue
  <2>2. /\ pc[w] = "enqueueing" /\ pc' = [pc EXCEPT ![w] = "alerting"]
        /\ UNCHANGED <<status, attempts, letters, job, seen, holder, posts, clobbered, alarmed>>
    BY <1>8 DEF Enqueue, Goto
  <2>3. a \notin clobbered /\ holder[a] = w => RowInv(a)' /\ Knows(w)'
    <3> SUFFICES ASSUME a \notin clobbered, holder[a] = w PROVE RowInv(a)' /\ Knows(w)'
      OBVIOUS
    <3>1. Knows(w) /\ RowInv(a)
      BY <2>1, <2>2, <1>k, <1>a DEF Keeps, Owns
    <3>2. a = Row(w)' /\ pc'[w] = "alerting"
      BY <2>1, <2>2 DEF Row, TypeOK
    <3>3. RowInv(a)'
      BY <3>1, <2>2 DEF RowInv
    <3>4. Knows(w)'
      BY <3>1, <3>2, <2>1, <2>2 DEF Knows, Sending
    <3> QED
      BY <3>3, <3>4
  <2>4. /\ pc[w] # "idle"
        /\ \E place \in {"loaded", "accepted", "pausing", "recording", "enqueueing",
                         "alerting"} : pc' = [pc EXCEPT ![w] = place]
        /\ pc'[w] \in Sending => pc[w] \in Sending
        /\ \A v \in Workers \ {w} : seen'[v] = seen[v]
    BY <2>2 DEF Sending, TypeOK
  <2> QED
    BY <2>1, <2>2, <2>3, <2>4, <1>o
<1>9. ASSUME NEW w \in Workers, Throw(w) PROVE HolderInv'
  <2>1. PICK a \in Attempts : a = Row(w) /\ attempts[a] \in Nat /\ posts[a] \in Nat /\ seen[w] \in Nat
    BY <1>9, BusyRow DEF Throw
  <2>2. /\ pc[w] \in {"loaded", "accepted", "pausing", "recording", "enqueueing", "alerting"}
        /\ pc' = [pc EXCEPT ![w] = "recording"]
        /\ alarmed' = IF pc[w] = "alerting" THEN alarmed \cup {a} ELSE alarmed
        /\ UNCHANGED <<status, attempts, letters, job, seen, holder, posts, clobbered>>
    BY <1>9, <2>1 DEF Throw
  <2>3. ASSUME a \notin clobbered, holder[a] = w PROVE RowInv(a)' /\ Knows(w)'
    <3>1. Knows(w) /\ RowInv(a)
      BY <2>1, <2>2, <2>3, <1>k, <1>a DEF Keeps, Owns
    <3>2. a = Row(w)' /\ pc'[w] = "recording"
      BY <2>1, <2>2 DEF Row, TypeOK
    <3>3. RowInv(a)'
      BY <3>1, <2>2 DEF RowInv
    <3>4. /\ posts[a] <= seen[w] + 1 /\ seen[w] < MaxRetries
      BY <3>1, <2>1, <2>2 DEF Knows
    <3>5. \/ status[a] \in {"SENDING", "PENDING"} /\ attempts[a] = seen[w]
          \/ status[a] = "FAILED" /\ attempts[a] = seen[w] + 1 /\ attempts[a] < MaxRetries
          \/ status[a] = "DEAD" /\ attempts[a] = seen[w] + 1 /\ attempts[a] = MaxRetries
             /\ a \in alarmed'
      <4>1. CASE pc[w] \in {"loaded", "accepted", "pausing"}
        BY <4>1, <3>1, <2>1 DEF Knows, Sending
      <4>2. CASE pc[w] = "recording"
        BY <4>2, <3>1, <2>1, <2>2 DEF Knows
      <4>3. CASE pc[w] = "enqueueing"
        BY <4>3, <3>1, <2>1 DEF Knows, RowInv, Claimable
      <4>4. CASE pc[w] = "alerting"
        BY <4>4, <3>1, <2>1, <2>2 DEF Knows, RowInv, Claimable
      <4> QED
        BY <4>1, <4>2, <4>3, <4>4, <2>2
    <3>6. Knows(w)'
      BY <3>2, <3>4, <3>5, <2>2 DEF Knows, Sending
    <3> QED
      BY <3>3, <3>6
  <2>4. /\ pc[w] # "idle"
        /\ \E place \in {"loaded", "accepted", "pausing", "recording", "enqueueing",
                         "alerting"} : pc' = [pc EXCEPT ![w] = place]
        /\ pc'[w] \in Sending => pc[w] \in Sending
        /\ \A v \in Workers \ {w} : seen'[v] = seen[v]
    BY <2>2 DEF Sending, TypeOK
  <2> QED
    BY <2>1, <2>2, <2>3, <2>4, <1>o
<1>10. ASSUME NEW w \in Workers, Requeue(w) \/ Alert(w) \/ Abort(w) PROVE HolderInv'
  <2>1. PICK a \in Attempts : a = Row(w)
    BY <1>10, BusyRow DEF Requeue, Alert, Abort
  <2>2. /\ pc[w] # "idle" /\ Return(w)
        /\ UNCHANGED <<status, attempts, letters, holder, posts, clobbered, alarmed>>
    BY <1>10 DEF Requeue, Alert, Abort
  <2>3. Keeps(w)'
    BY <2>2 DEF Return, Keeps, Owns, Sending, TypeOK
  <2>4. a \notin clobbered' => RowInv(a)'
    BY <2>2, <1>a DEF RowInv
  <2> QED
    BY <2>1, <2>2, <2>3, <2>4, OthersKeep DEF Return, TypeOK
<1>11. ASSUME NEW w \in Workers, Accept(w) PROVE HolderInv'
  <2>1. PICK a \in Attempts : a = Row(w) /\ attempts[a] \in Nat /\ posts[a] \in Nat /\ seen[w] \in Nat
    BY <1>11, BusyRow DEF Accept
  <2>2. /\ pc[w] = "accepted" /\ Return(w)
        /\ status' = [status EXCEPT ![a] = "DELIVERED"]
        /\ attempts' = [attempts EXCEPT ![a] = seen[w] + 1]
        /\ UNCHANGED <<letters, holder, posts, clobbered, alarmed>>
    BY <1>11, <2>1 DEF Accept
  <2>3. Keeps(w)'
    BY <2>2 DEF Return, Keeps, Owns, Sending, TypeOK
  <2>4. holder[a] = w \/ a \in clobbered
    BY <2>1, <2>2, <1>k DEF Keeps, Sending
  <2>5. a \notin clobbered' => RowInv(a)'
    BY <2>1, <2>2, <2>4, <1>k, <1>a DEF Keeps, Owns, Knows, RowInv, Sending, TypeOK, Claimable
  <2> QED
    BY <2>1, <2>2, <2>3, <2>4, <2>5, OthersKeep DEF Return, TypeOK
<1>12. CASE Duplicate
  BY <1>12, <1>q DEF Duplicate
<1>13. CASE UNCHANGED vars
  BY <1>13, <1>q DEF vars
<1> QED
  BY <1>1, <1>2, <1>3, <1>4, <1>5, <1>6, <1>7, <1>8, <1>9, <1>10, <1>11, <1>12, <1>13
     DEF Next, FanOutStep, WorkerStep
-----------------------------------------------------------------------------
(* Nobody forgets an attempt. *)

\* The counters of an unclobbered row grow.
LEMMA CountersGrow ==
  ASSUME TypeOK, JobInv, FanInv, HolderInv, [Next]_vars,
         NEW a \in Attempts
  PROVE  /\ pauses[a] <= pauses'[a]
         /\ a \notin clobbered' => attempts[a] <= attempts'[a]
<1> USE DEF fanVars, qVars, workerVars, counters, history
<1>0. attempts[a] \in Nat /\ pauses[a] \in Nat
  BY WebhookAssumption DEF TypeOK
<1>1. ASSUME NEW w \in Workers, Pause(w) PROVE pauses[a] <= pauses'[a] /\ UNCHANGED attempts
  BY <1>0, <1>1 DEF Pause, TypeOK
<1>2. ASSUME NEW w \in Workers, Accept(w) \/ Record(w), a \notin clobbered'
      PROVE  attempts[a] <= attempts'[a]
  <2>1. /\ pc[w] \in {"accepted", "recording"}
        /\ attempts' = [attempts EXCEPT ![Row(w)] = seen[w] + 1]
    BY <1>2 DEF Accept, Record, Write
  <2>2. PICK b \in Attempts : b = Row(w) /\ seen[w] \in Nat
    BY <2>1, BusyRow
  <2>3. CASE a = b
    <3>1. a \notin clobbered /\ (pc[w] = "recording" => holder[a] = w)
      BY <1>2, <2>1, <2>2, <2>3 DEF Accept, Record, Write
    <3>2. Owns(w) /\ Knows(w)
      BY <2>1, <2>2, <2>3, <3>1 DEF HolderInv, Keeps, Owns, Sending
    <3> QED
      BY <1>0, <2>1, <2>2, <2>3, <3>2 DEF Knows, TypeOK
  <2>4. CASE a # b
    BY <1>0, <2>1, <2>2, <2>4 DEF TypeOK
  <2> QED
    BY <2>3, <2>4
<1>3. CASE UNCHANGED <<pauses, attempts>>
  BY <1>0, <1>3
<1>4. CASE \E w \in Workers : Pause(w)
  BY <1>0, <1>1, <1>4
<1>5. CASE \E w \in Workers : Accept(w) \/ Record(w)
  BY <1>0, <1>2, <1>5 DEF Accept, Record, Write
<1>6. \/ UNCHANGED <<pauses, attempts>>
      \/ \E w \in Workers : Pause(w)
      \/ \E w \in Workers : Accept(w) \/ Record(w)
  BY DEF Next, FanOutStart, FanOutStep, FanOutCreate, FanOutPublish, FanOutCrash, Receive,
         WorkerStep, Load, Requeue, Post, Enqueue, Alert, Throw, Abort, Duplicate, vars
<1> QED
  BY <1>3, <1>4, <1>5, <1>6

LEMMA IdsNext ==
  ASSUME TypeOK, JobInv, FanInv, HolderInv, IdsInv, TypeOK', [Next]_vars
  PROVE  IdsInv'
<1> USE DEF fanVars, qVars, workerVars, counters, history
<1>0. /\ \A a \in Attempts : pauses[a] <= pauses'[a] /\ (a \notin clobbered' => attempts[a] <= attempts'[a])
      /\ \A a \in Attempts : /\ pauses[a] \in Nat /\ pauses'[a] \in Nat
                             /\ attempts[a] \in Nat /\ attempts'[a] \in Nat
      /\ \A id \in known : id.att \in Attempts /\ id.n \in Nat
      /\ clobbered \subseteq clobbered'
  <2>1. clobbered \subseteq clobbered'
    BY DEF Next, FanOutStart, FanOutStep, FanOutCreate, FanOutPublish, FanOutCrash, Receive,
         WorkerStep, Load, Pause, Requeue, Post, Accept, Record, Write, Enqueue, Alert,
         Throw, Abort, Duplicate, vars
  <2>2. \A a \in Attempts : pauses[a] <= pauses'[a] /\ (a \notin clobbered' => attempts[a] <= attempts'[a])
    BY CountersGrow
  <2>3. \A a \in Attempts : /\ pauses[a] \in 0 .. MaxPauses /\ pauses'[a] \in 0 .. MaxPauses
                            /\ attempts[a] \in Nat /\ attempts'[a] \in Nat
    BY DEF TypeOK
  <2>4. \A id \in known : id.att \in Attempts /\ id.n \in Nat
    BY DEF TypeOK, DedupIds
  <2> QED
    BY <2>1, <2>2, <2>3, <2>4, WebhookAssumption
<1>1. ASSUME NEW id \in known
      PROVE  /\ id.kind = "pause" => id.n <= pauses'[id.att]
             /\ id.kind = "retry" /\ id.att \notin clobbered' => id.n <= attempts'[id.att]
  BY <1>0 DEF IdsInv
<1>2. ASSUME NEW w \in Workers, pc'[w] = "enqueueing", pc[w] = "enqueueing", job'[w] = job[w],
             seen'[w] = seen[w], Row(w)' \notin clobbered'
      PROVE  seen'[w] + 1 <= attempts'[Row(w)']
  <2>1. PICK a \in Attempts : a = Row(w) /\ seen[w] \in Nat
    BY <1>2, BusyRow
  <2>2. a = Row(w)' /\ a \notin clobbered
    BY <1>2, <2>1, <1>0 DEF Row
  <2>3. seen[w] + 1 <= attempts[a]
    BY <1>2, <2>1, <2>2 DEF IdsInv
  <2> QED
    BY <1>0, <1>2, <2>1, <2>2, <2>3
<1>3. ASSUME NEW w \in Workers, pc'[w] = "enqueueing", Row(w)' \notin clobbered'
      PROVE  seen'[w] + 1 <= attempts'[Row(w)']
  <2>1. CASE pc[w] = "enqueueing" /\ job'[w] = job[w] /\ seen'[w] = seen[w]
    BY <2>1, <1>2, <1>3
  <2>2. CASE Record(w)
    <3>1. PICK a \in Attempts : a = Row(w) /\ seen[w] \in Nat
      BY <2>2, BusyRow DEF Record, Write
    <3>2. a = Row(w)' /\ seen'[w] = seen[w] /\ attempts'[a] = seen[w] + 1
      BY <2>2, <3>1 DEF Record, Write, Goto, Row, TypeOK
    <3> QED
      BY <3>1, <3>2
  <2>3. \/ pc[w] = "enqueueing" /\ job'[w] = job[w] /\ seen'[w] = seen[w]
        \/ Record(w)
    <3>1. CASE \E k \in Calls : FanOutStart(k) \/ FanOutStep(k) \/ FanOutCrash(k)
      BY <3>1, <1>3 DEF FanOutStart, FanOutStep, FanOutCreate, FanOutPublish, FanOutCrash
    <3>2. ASSUME NEW v \in Workers, NEW m \in queue, Receive(v, m) PROVE <2>3
      BY <3>2, <1>3 DEF Receive, TypeOK
    <3>3. ASSUME NEW v \in Workers, WorkerStep(v) \/ Throw(v) \/ Abort(v) PROVE <2>3
      BY <3>3, <1>3 DEF WorkerStep, Load, Pause, Requeue, Post, Accept, Record, Write, Enqueue,
           Alert, Throw, Abort, Goto, Return, TypeOK
    <3>4. CASE Duplicate \/ UNCHANGED vars
      BY <3>4, <1>3 DEF Duplicate, vars
    <3> QED
      BY <3>1, <3>2, <3>3, <3>4 DEF Next
  <2> QED
    BY <2>1, <2>2, <2>3
<1>4. ASSUME NEW id \in known' \ known
      PROVE  /\ id.kind = "pause" => id.n <= pauses'[id.att]
             /\ id.kind = "retry" /\ id.att \notin clobbered' => id.n <= attempts'[id.att]
  <2>1. ASSUME NEW w \in Workers, pc[w] # "idle",
               \/ id = Id(Row(w), "pause", pauses[Row(w)])
               \/ id = Id(Row(w), "retry", seen[w] + 1) /\ pc[w] = "enqueueing"
        PROVE  /\ id.kind = "pause" => id.n <= pauses'[id.att]
               /\ id.kind = "retry" /\ id.att \notin clobbered' => id.n <= attempts'[id.att]
    <3>1. PICK a \in Attempts : a = Row(w) /\ seen[w] \in Nat
      BY <2>1, BusyRow
    <3>2. CASE id = Id(a, "pause", pauses[a])
      BY <3>2, <1>0 DEF Id
    <3>3. CASE id = Id(a, "retry", seen[w] + 1) /\ pc[w] = "enqueueing"
      <4>1. a \notin clobbered' => seen[w] + 1 <= attempts[a]
        BY <3>1, <3>3, <1>0 DEF IdsInv
      <4> QED
        BY <3>1, <3>3, <4>1, <1>0 DEF Id
    <3> QED
      BY <3>1, <3>2, <3>3, <2>1
  <2>2. ASSUME NEW k \in Calls, FanOutPublish(k) PROVE id.kind = "first"
    BY <2>2 DEF FanOutPublish, Publish, Id
  <2>3. \/ \E k \in Calls : FanOutPublish(k)
        \/ \E w \in Workers : Requeue(w) \/ Enqueue(w) \/ Throw(w)
    BY DEF Next, FanOutStart, FanOutStep, FanOutCreate, FanOutCrash, Receive, WorkerStep, Load,
           Pause, Post, Accept, Record, Write, Alert, Abort, Duplicate, vars
  <2>4. ASSUME NEW w \in Workers, Requeue(w) \/ Enqueue(w) \/ Throw(w)
        PROVE  /\ pc[w] # "idle"
               /\ \/ id = Id(Row(w), "pause", pauses[Row(w)])
                  \/ id = Id(Row(w), "retry", seen[w] + 1) /\ pc[w] = "enqueueing"
    BY <2>4 DEF Requeue, Enqueue, Throw, Publish
  <2> QED
    BY <2>1, <2>2, <2>3, <2>4
<1> QED
  BY <1>1, <1>3, <1>4 DEF IdsInv

\* A step of a worker that does not hold the row of an attempt leaves the
\* attempt in care.
LEMMA CareKept ==
  ASSUME TypeOK, JobInv, NEW a \in Attempts, Care(a), NEW w \in Workers,
         holder[a] = w => ~Busy(w, a),
         status'[a] = status[a], pauses'[a] = pauses[a], holder'[a] = holder[a],
         \A v \in Workers \ {w} : pc'[v] = pc[v] /\ job'[v] = job[v] /\ seen'[v] = seen[v],
         \A m \in queue : m.id.att = a => m \in queue',
         UNCHANGED fresh,
         \/ \A id \in known' : id.att = a => id \in known
         \/ \E m \in queue' : m.id.att = a
  PROVE  Care(a)'
<1>1. Tends(a) => Tends(a)' /\ holder[a] # w
  BY DEF Tends, Busy, Row
<1>2. Carried(a) => Carried(a)'
  BY DEF Carried
<1>3. ASSUME Tends(a), Unsent(holder[a], a) PROVE Unsent(holder[a], a)' \/ Carried(a)'
  <2>1. Id(a, "pause", pauses[a]).att = a /\ Id(a, "retry", seen[holder[a]] + 1).att = a
    BY DEF Id
  <2>2. holder[a] \in Workers \ {w}
    BY <1>1, <1>3 DEF Tends
  <2>3. CASE \A id \in known' : id.att = a => id \in known
    BY <1>3, <2>1, <2>2, <2>3 DEF Unsent
  <2>4. CASE \E m \in queue' : m.id.att = a
    BY <2>4 DEF Carried
  <2> QED
    BY <2>3, <2>4
<1> QED
  BY <1>1, <1>2, <1>3 DEF Care

LEMMA CareNext ==
  ASSUME TypeOK, JobInv, FanInv, HolderInv, IdsInv, CareInv, TypeOK', [Next]_vars
  PROVE  CareInv'
<1> USE DEF fanVars, qVars, workerVars, counters, history
<1> SUFFICES ASSUME NEW a \in Attempts, a \notin hurt', a \notin clobbered' PROVE Care(a)'
  BY DEF CareInv
<1>0. /\ hurt \subseteq hurt' /\ clobbered \subseteq clobbered'
  BY DEF Next, FanOutStart, FanOutStep, FanOutCreate, FanOutPublish, FanOutCrash, Receive,
         WorkerStep, Load, Pause, Requeue, Post, Accept, Record, Write, Enqueue, Alert,
         Throw, Abort, Duplicate, vars
<1>c. a \notin hurt /\ a \notin clobbered /\ Care(a)
  BY <1>0 DEF CareInv
<1>q. ASSUME UNCHANGED <<status, fresh, known, workerVars, pauses, holder>>, queue \subseteq queue'
      PROVE  Care(a)'
  BY <1>c, <1>q DEF Care, Carried, Tends, Unsent, Row
<1>1. ASSUME NEW k \in Calls, FanOutStart(k) PROVE Care(a)'
  BY <1>1, <1>q DEF FanOutStart
<1>2. ASSUME NEW k \in Calls, FanOutCreate(k) PROVE Care(a)'
  <2>0. fresh[k] = {} /\ UNCHANGED <<qVars, workerVars, pauses, holder>>
    BY <1>2 DEF FanOutCreate
  <2> PICK s \in todo[k] :
        \/ /\ status' = [status EXCEPT ![<<k, s>>] = "PENDING"]
           /\ fresh' = [fresh EXCEPT ![k] = {s}]
        \/ UNCHANGED <<status, fresh>>
    BY <1>2 DEF FanOutCreate
  <2>1. CASE UNCHANGED <<status, fresh>>
    BY <2>0, <2>1, <1>q
  <2>2. CASE /\ status' = [status EXCEPT ![<<k, s>>] = "PENDING"]
             /\ fresh' = [fresh EXCEPT ![k] = {s}]
    <3>1. Carried(a) => Carried(a)'
      BY <2>0, <2>2 DEF Carried, TypeOK
    <3>2. CASE a = <<k, s>>
      <4>1. Carried(a)'
        BY <2>2, <3>2 DEF Carried, TypeOK
      <4> QED
        BY <4>1, <3>2, <2>2 DEF Care, TypeOK
    <3>3. CASE a # <<k, s>>
      <4>1. status'[a] = status[a]
        BY <2>2, <3>3 DEF TypeOK
      <4> QED
        BY <4>1, <3>1, <2>0, <1>c DEF Care, Tends, Unsent, Row
    <3> QED
      BY <3>2, <3>3
  <2> QED
    BY <2>1, <2>2
<1>3. ASSUME NEW k \in Calls, FanOutPublish(k) PROVE Care(a)'
  <2>0. /\ fresh' = [fresh EXCEPT ![k] = {}]
        /\ UNCHANGED <<status, workerVars, pauses, holder>>
    BY <1>3 DEF FanOutPublish
  <2> PICK s \in fresh[k] :
       \/ Publish(Id(<<k, s>>, "first", 0))
       \/ hurt' = hurt \cup {<<k, s>>} /\ UNCHANGED qVars
    BY <1>3 DEF FanOutPublish
  <2>1. <<k, s>> \in Attempts /\ Id(<<k, s>>, "first", 0) \notin known /\ fresh[k] = {s}
    BY DEF FanInv, TypeOK, Attempts
  <2>2. CASE a = <<k, s>>
    <3>1. \E m \in queue' : m.id.att = a
      BY <1>3, <2>1, <2>2, PublishFacts
    <3> QED
      BY <3>1, <1>c, <2>0 DEF Care, Carried, Tends, Row
  <2>3. CASE a # <<k, s>>
    <3>1. /\ queue \subseteq queue'
          /\ \A id \in known' : id.att = a => id \in known
      BY <2>1, <2>3, PublishFacts DEF Id
    <3>2. Carried(a) => Carried(a)'
      BY <3>1, <2>0, <2>1, <2>3 DEF Carried, TypeOK
    <3>3. \A w : Unsent(w, a) => Unsent(w, a)'
      BY <3>1, <2>0 DEF Unsent, Id
    <3> QED
      BY <3>2, <3>3, <1>c, <2>0 DEF Care, Tends, Row
  <2> QED
    BY <2>2, <2>3
<1>4. ASSUME NEW k \in Calls, FanOutCrash(k) PROVE Care(a)'
  <2>1. /\ fresh' = [fresh EXCEPT ![k] = {}]
        /\ UNCHANGED <<status, qVars, workerVars, pauses, holder>>
        /\ hurt' = hurt \cup ({k} \X fresh[k])
    BY <1>4 DEF FanOutCrash
  <2>2. Carried(a) => Carried(a)'
    BY <2>1 DEF Carried, TypeOK
  <2> QED
    BY <2>1, <2>2, <1>c DEF Care, Tends, Unsent, Row
<1>5. ASSUME NEW w \in Workers, NEW m \in queue, Receive(w, m) PROVE Care(a)'
  <2>0. pc[w] = "idle" /\ UNCHANGED <<fresh, known, seen, pauses>> /\ queue' = queue \ {m}
    BY <1>5 DEF Receive
  <2>1. CASE a = m.id.att /\ status[a] \in Claimable
    <3>1. status'[a] = "SENDING" /\ holder'[a] = w /\ pc'[w] = "claimed" /\ job'[w] = m
      BY <1>5, <2>1 DEF Receive, TypeOK
    <3> QED
      BY <2>1, <3>1 DEF Care, Tends, Row, Claimable
  <2>2. CASE a = m.id.att /\ status[a] \notin Claimable
    <3>1. UNCHANGED <<status, holder, pc, job>>
      BY <1>5, <2>2 DEF Receive
    <3> QED
      BY <2>2, <3>1, <1>c DEF Care, Tends, Row
  <2>3. CASE a # m.id.att
    <3>1. status'[a] = status[a] /\ holder'[a] = holder[a]
      BY <1>5, <2>3 DEF Receive, TypeOK
    <3>2. \A v \in Workers \ {w} : pc'[v] = pc[v] /\ job'[v] = job[v]
      BY <1>5 DEF Receive, TypeOK
    <3> QED
      BY <1>c, <2>0, <2>3, <3>1, <3>2, CareKept DEF Busy
  <2> QED
    BY <2>1, <2>2, <2>3
<1>6. ASSUME NEW w \in Workers, pc[w] # "idle", ~(Row(w) = a /\ holder[a] = w),
             WorkerStep(w) \/ Throw(w) \/ Abort(w)
      PROVE  Care(a)'
  <2>1. PICK b \in Attempts : b = Row(w) /\ seen[w] \in Nat
    BY <1>6, BusyRow
  <2>2. UNCHANGED <<fresh, holder>>
    BY <1>6 DEF WorkerStep, Load, Pause, Requeue, Post, Accept, Record, Write, Enqueue, Alert,
         Throw, Abort
  <2>3. \A v \in Workers \ {w} : pc'[v] = pc[v] /\ job'[v] = job[v] /\ seen'[v] = seen[v]
    BY <1>6 DEF WorkerStep, Load, Pause, Requeue, Post, Accept, Record, Write, Enqueue, Alert,
         Throw, Abort, Goto, Return, TypeOK
  <2>4. status'[a] = status[a] /\ pauses'[a] = pauses[a]
    <3>1. CASE a # b
      BY <1>6, <2>1, <3>1 DEF WorkerStep, Load, Pause, Requeue, Post, Accept, Record, Write, Enqueue,
           Alert, Throw, Abort, TypeOK
    <3>2. CASE a = b
      <4>1. pc[w] \notin Sending
        BY <1>6, <1>c, <2>1, <3>2 DEF HolderInv, Keeps
      <4>2. ~Record(w)
        BY <1>6, <2>1, <3>2 DEF Record, Write
      <4> QED
        BY <1>6, <4>1, <4>2 DEF WorkerStep, Load, Pause, Requeue, Post, Accept, Enqueue,
           Alert, Throw, Abort, Sending
    <3> QED
      BY <3>1, <3>2
  <2>5. /\ queue \subseteq queue'
        /\ \/ \A id \in known' : id.att = a => id \in known
           \/ \E m \in queue' : m.id.att = a
    <3>1. ASSUME NEW kind \in {"pause", "retry"}, NEW n \in Nat, Publish(Id(b, kind, n)) PROVE <2>5
      <4>1. /\ queue \subseteq queue' /\ known' = known \cup {Id(b, kind, n)}
            /\ Id(b, kind, n) \notin known => \E m \in queue' : m.id.att = b
            /\ Id(b, kind, n).att = b
        BY <3>1, PublishFacts DEF Id
      <4> QED
        BY <4>1
    <3>2. CASE known' = known /\ queue \subseteq queue'
      BY <3>2
    <3>3. \/ known' = known /\ queue \subseteq queue'
          \/ Publish(Id(b, "pause", pauses[b])) \/ Publish(Id(b, "retry", seen[w] + 1))
      BY <1>6, <2>1 DEF WorkerStep, Load, Pause, Requeue, Post, Accept, Record, Write, Enqueue,
           Alert, Throw, Abort
    <3>4. pauses[b] \in Nat /\ seen[w] + 1 \in Nat
      BY <2>1, WebhookAssumption DEF TypeOK
    <3> QED
      BY <3>1, <3>2, <3>3, <3>4
  <2> QED
    BY <1>c, <1>6, <2>1, <2>2, <2>3, <2>4, <2>5, CareKept DEF Busy
<1>7. ASSUME NEW w \in Workers, pc[w] # "idle", Row(w) = a, holder[a] = w,
             WorkerStep(w) \/ Throw(w) \/ Abort(w)
      PROVE  Care(a)'
  <2>1. /\ Knows(w) /\ RowInv(a) /\ seen[w] \in Nat /\ attempts[a] \in Nat /\ pauses[a] \in Nat
        /\ MaxRetries \in Nat
    BY <1>7, <1>c, WebhookAssumption DEF HolderInv, Keeps, Owns, TypeOK
  <2>t. ASSUME pc'[w] # "idle", UNCHANGED <<job, holder>> PROVE Tends(a)'
    BY <1>7, <2>t DEF Tends, Row
  <2>q. ASSUME \E m \in queue' : m.id.att = a, status'[a] # "SENDING" PROVE Care(a)'
    BY <2>q DEF Care, Carried, Claimable
  <2>u. ASSUME UNCHANGED <<status, fresh, qVars, pauses, job, seen, holder>>,
               pc'[w] = pc[w] \/ (pc'[w] # "idle" /\ ~Unsent(w, a))
        PROVE  Care(a)'
    <3>1. Carried(a) => Carried(a)'
      BY <2>u DEF Carried
    <3>2. Tends(a)'
      BY <1>7, <2>u, <2>t
    <3>3. Unsent(w, a) => Unsent(w, a)'
      BY <2>u DEF Unsent
    <3> QED
      BY <1>7, <1>c, <2>u, <3>1, <3>2, <3>3 DEF Care
  <2>2. CASE Load(w) \/ Post(w)
    <3>1. UNCHANGED <<status, holder, job>> /\ pc'[w] # "idle" /\ pc[w] \in Sending
      BY <2>2 DEF Load, Post, Sending, TypeOK
    <3>2. status'[a] = "SENDING"
      BY <1>7, <3>1, <2>1 DEF Knows
    <3>3. Tends(a)'
      BY <3>1, <2>t
    <3> QED
      BY <3>2, <3>3 DEF Care, Claimable
  <2>3. CASE Pause(w)
    <3>1. /\ UNCHANGED <<holder, job, known>> /\ pc'[w] = "pausing" /\ status'[a] = "PENDING"
          /\ pauses'[a] = pauses[a] + 1
      BY <1>7, <2>3 DEF Pause, Goto, TypeOK
    <3>2. Id(a, "pause", pauses'[a]) \notin known
      BY <3>1, <2>1 DEF IdsInv, Id
    <3> QED
      BY <1>7, <3>1, <3>2, <2>t DEF Care, Unsent
  <2>4. CASE Requeue(w)
    <3>1. /\ pc[w] = "pausing" /\ Publish(Id(a, "pause", pauses[a])) /\ UNCHANGED <<status, fresh>>
      BY <1>7, <2>4 DEF Requeue
    <3>2. status[a] = "PENDING"
      BY <3>1, <1>7, <2>1 DEF Knows
    <3>3. /\ queue \subseteq queue'
          /\ Id(a, "pause", pauses[a]) \notin known => \E m \in queue' : m.id.att = a
      BY <2>1, <3>1, PublishFacts
    <3>4. Carried(a) \/ Id(a, "pause", pauses[a]) \notin known
      BY <1>7, <1>c, <3>1, <3>2 DEF Care, Unsent, Claimable
    <3>5. Carried(a)'
      BY <3>1, <3>3, <3>4 DEF Carried
    <3> QED
      BY <3>1, <3>2, <3>5 DEF Care
  <2>5. CASE Accept(w)
    <3>1. status'[a] = "DELIVERED"
      BY <1>7, <2>5 DEF Accept, TypeOK
    <3> QED
      BY <3>1 DEF Care, Claimable
  <2>6. CASE Record(w)
    <3>1. /\ pc[w] = "recording"
          /\ status'[a] = IF seen[w] + 1 >= MaxRetries THEN "DEAD" ELSE "FAILED"
          /\ pc'[w] = IF seen[w] + 1 >= MaxRetries THEN "alerting" ELSE "enqueueing"
          /\ UNCHANGED <<fresh, queue, known, job, seen, holder>>
      BY <1>7, <2>6 DEF Record, Write, Goto, TypeOK
    <3>2. CASE status[a] \in {"SENDING", "PENDING"} /\ attempts[a] = seen[w]
      <4>1. Id(a, "retry", seen[w] + 1) \notin known
        BY <3>2, <1>c, <2>1 DEF IdsInv, Id
      <4> QED
        BY <1>7, <3>1, <4>1, <2>t DEF Care, Unsent, Claimable
    <3>3. CASE status[a] = "FAILED" /\ attempts[a] = seen[w] + 1 /\ attempts[a] < MaxRetries
      <4>1. Carried(a) \/ Id(a, "retry", seen[w] + 1) \notin known
        BY <1>7, <1>c, <3>1, <3>3 DEF Care, Unsent, Claimable
      <4>2. Carried(a) => Carried(a)'
        BY <3>1 DEF Carried
      <4> QED
        BY <1>7, <3>1, <3>3, <4>1, <4>2, <2>t, <2>1 DEF Care, Unsent
    <3>4. CASE status[a] = "DEAD" /\ attempts[a] = seen[w] + 1 /\ attempts[a] = MaxRetries
      BY <3>1, <3>4, <2>1 DEF Care, Claimable
    <3> QED
      BY <1>7, <3>1, <3>2, <3>3, <3>4, <2>1 DEF Knows
  <2>7. ASSUME pc[w] = "enqueueing", Publish(Id(a, "retry", seen[w] + 1)), UNCHANGED <<status, fresh>>
        PROVE  Care(a)'
    <3>1. status[a] = "FAILED"
      BY <1>7, <2>1, <2>7 DEF Knows
    <3>2. /\ queue \subseteq queue'
          /\ Id(a, "retry", seen[w] + 1) \notin known => \E m \in queue' : m.id.att = a
      BY <2>1, <2>7, PublishFacts
    <3>3. Carried(a) \/ Id(a, "retry", seen[w] + 1) \notin known
      BY <1>7, <1>c, <2>7, <3>1 DEF Care, Unsent, Claimable
    <3>4. Carried(a)'
      BY <2>7, <3>2, <3>3 DEF Carried
    <3> QED
      BY <2>7, <3>1, <3>4 DEF Care
  <2>8. CASE Enqueue(w)
    BY <1>7, <2>7, <2>8 DEF Enqueue
  <2>9. CASE Alert(w)
    <3>1. /\ pc[w] = "alerting" /\ UNCHANGED <<status, fresh, queue>>
      BY <2>9 DEF Alert
    <3>2. status[a] # "SENDING"
      BY <1>7, <2>1, <3>1 DEF Knows
    <3>3. Carried(a) => Carried(a)'
      BY <3>1 DEF Carried
    <3> QED
      BY <1>7, <1>c, <3>1, <3>2, <3>3 DEF Care, Unsent
  <2>10. CASE Throw(w)
    <3>1. /\ pc'[w] = "recording" /\ UNCHANGED <<status, fresh, job, seen, pauses, holder>>
          /\ pc[w] \in {"loaded", "accepted", "pausing", "recording", "enqueueing", "alerting"}
      BY <2>10 DEF Throw, TypeOK
    <3>2. CASE pc[w] = "pausing" /\ Publish(Id(a, "pause", pauses[a]))
      <4>1. status[a] = "PENDING"
        BY <3>2, <1>7, <2>1 DEF Knows
      <4>2. /\ queue \subseteq queue'
            /\ Id(a, "pause", pauses[a]) \notin known => \E m \in queue' : m.id.att = a
        BY <2>1, <3>2, PublishFacts
      <4>3. Carried(a) \/ Id(a, "pause", pauses[a]) \notin known
        BY <1>7, <1>c, <3>2, <4>1 DEF Care, Unsent, Claimable
      <4>4. Carried(a)'
        BY <3>1, <4>2, <4>3 DEF Carried
      <4> QED
        BY <3>1, <4>1, <4>4 DEF Care
    <3>3. CASE pc[w] = "enqueueing" /\ Publish(Id(a, "retry", seen[w] + 1))
      BY <3>1, <3>3, <2>7
    <3>4. CASE UNCHANGED qVars
      <4>1. CASE pc[w] = "pausing"
        <5>1. Id(a, "retry", seen[w] + 1) \notin known
          BY <4>1, <1>7, <1>c, <2>1 DEF Knows, IdsInv, Id
        <5> QED
          BY <1>7, <3>1, <3>4, <5>1, <2>t DEF Care, Unsent
      <4>2. CASE pc[w] \in {"recording", "enqueueing"}
        <5>1. Unsent(w, a) => Unsent(w, a)'
          BY <3>1, <3>4, <4>2 DEF Unsent
        <5>2. Carried(a) => Carried(a)'
          BY <3>1, <3>4 DEF Carried
        <5> QED
          BY <1>7, <1>c, <3>1, <5>1, <5>2, <2>t DEF Care
      <4>3. CASE pc[w] \in {"loaded", "accepted", "alerting"}
        <5>1. ~Unsent(w, a)
          BY <4>3 DEF Unsent
        <5> QED
          BY <3>1, <3>4, <5>1, <2>u
      <4> QED
        BY <3>1, <4>1, <4>2, <4>3
    <3> QED
      BY <1>7, <2>10, <3>2, <3>3, <3>4 DEF Throw
  <2>11. CASE Abort(w)
    <3>1. /\ queue' = queue \cup Again(job[w]) /\ UNCHANGED status
          /\ status[a] # "SENDING" /\ Again(job[w]) # {}
      BY <1>7, <2>11 DEF Abort
    <3>2. PICK m \in Again(job[w]) : TRUE
      BY <3>1
    <3>3. m.id.att = a
      BY <1>7, <3>2, MessageFacts DEF JobInv, Row
    <3> QED
      BY <3>1, <3>2, <3>3, <2>q
  <2> QED
    BY <1>7, <2>2, <2>3, <2>4, <2>5, <2>6, <2>8, <2>9, <2>10, <2>11 DEF WorkerStep
<1>8. CASE Duplicate
  BY <1>8, <1>q DEF Duplicate
<1>9. CASE UNCHANGED vars
  BY <1>9, <1>q DEF vars
<1>10. ASSUME NEW w \in Workers, WorkerStep(w) \/ Throw(w) \/ Abort(w) PROVE pc[w] # "idle"
  BY <1>10 DEF WorkerStep, Load, Pause, Requeue, Post, Accept, Record, Write, Enqueue,
     Alert, Throw, Abort
<1> QED
  BY <1>1, <1>2, <1>3, <1>4, <1>5, <1>6, <1>7, <1>8, <1>9, <1>10 DEF Next, FanOutStep
-----------------------------------------------------------------------------
(* Steps without faults, and the fan-out. *)

\* Without a fault the row of a worker that posts or records is its own.
CalmInv ==
  faults = 0 =>
    /\ hurt = {} /\ clobbered = {}
    /\ \A w \in Workers : pc[w] \in Sending \cup {"recording"} =>
         holder[Row(w)] = w /\ status[Row(w)] = "SENDING"

LEMMA CalmNext ==
  ASSUME TypeOK, JobInv, FanInv, HolderInv, CalmInv, TypeOK', [Next]_vars
  PROVE  CalmInv'
<1> USE DEF fanVars, qVars, workerVars, counters, history, Fault
<1> SUFFICES ASSUME faults' = 0
             PROVE  /\ hurt' = {} /\ clobbered' = {}
                    /\ \A w \in Workers : pc'[w] \in Sending \cup {"recording"} =>
                         holder'[Row(w)'] = w /\ status'[Row(w)'] = "SENDING"
  BY DEF CalmInv
<1>0. faults \in Nat /\ ~Fault
  BY WebhookAssumption DEF TypeOK
<1>1. faults = 0
  BY <1>0 DEF Next, FanOutStart, FanOutStep, FanOutCreate, FanOutPublish, FanOutCrash, Receive,
         WorkerStep, Load, Pause, Requeue, Post, Accept, Record, Write, Enqueue, Alert,
         Throw, Abort, Duplicate, vars
<1>2. /\ hurt = {} /\ clobbered = {}
      /\ \A w \in Workers : pc[w] \in Sending \cup {"recording"} =>
           holder[Row(w)] = w /\ status[Row(w)] = "SENDING"
  BY <1>1 DEF CalmInv
<1>3. hurt' = {} /\ clobbered' = {}
  BY <1>0, <1>2 DEF Next, FanOutStart, FanOutStep, FanOutCreate, FanOutPublish, FanOutCrash, Receive,
         WorkerStep, Load, Pause, Requeue, Post, Accept, Record, Write, Enqueue, Alert,
         Throw, Abort, Duplicate, vars
<1>4. ASSUME NEW v \in Workers, pc'[v] \in Sending \cup {"recording"}
      PROVE  holder'[Row(v)'] = v /\ status'[Row(v)'] = "SENDING"
  <2>1. ASSUME NEW w \in Workers, NEW m \in queue, Receive(w, m)
        PROVE  holder'[Row(v)'] = v /\ status'[Row(v)'] = "SENDING"
    <3>0. m.id.att \in Attempts
      BY MessageFacts DEF TypeOK
    <3>1. CASE v = w /\ status[m.id.att] \in Claimable
      BY <2>1, <3>0, <3>1 DEF Receive, Row, TypeOK
    <3>2. CASE status[m.id.att] \notin Claimable
      BY <2>1, <3>2, <1>2, <1>4 DEF Receive, Row, Sending
    <3>3. CASE v # w /\ status[m.id.att] \in Claimable
      <4>1. pc[v] = pc'[v] /\ job[v] = job'[v]
        BY <2>1, <3>3 DEF Receive, TypeOK
      <4>2. holder[Row(v)] = v /\ status[Row(v)] = "SENDING" /\ Row(v)' = Row(v)
        BY <4>1, <1>2, <1>4 DEF Row
      <4>3. Row(v) # m.id.att
        BY <4>2, <3>3 DEF Claimable
      <4>4. PICK c \in Attempts : c = Row(v)
        BY <4>1, <1>4, BusyRow DEF Sending
      <4>5. status'[c] = status[c] /\ holder'[c] = holder[c]
        BY <2>1, <3>3, <4>3, <4>4 DEF Receive, TypeOK
      <4> QED
        BY <4>2, <4>4, <4>5
    <3> QED
      BY <3>1, <3>2, <3>3
  <2>2. ASSUME NEW w \in Workers, WorkerStep(w) PROVE holder'[Row(v)'] = v /\ status'[Row(v)'] = "SENDING"
    <3>1. pc[w] # "idle"
      BY <2>2 DEF WorkerStep, Load, Pause, Requeue, Post, Accept, Record, Write, Enqueue, Alert
    <3>2. PICK b \in Attempts : b = Row(w)
      BY <3>1, BusyRow
    <3>3. CASE v = w
      <4>1. Load(w) \/ Post(w)
        BY <2>2, <3>3, <1>4 DEF WorkerStep, Load, Pause, Requeue, Post, Accept, Record, Write,
             Enqueue, Alert, Return, Goto, TypeOK, Sending
      <4> QED
        BY <4>1, <3>3, <1>2 DEF Load, Post, Sending, Row
    <3>4. CASE v # w
      <4>1. pc[v] = pc'[v] /\ job[v] = job'[v]
        BY <2>2, <3>4 DEF WorkerStep, Load, Pause, Requeue, Post, Accept, Record, Write,
             Enqueue, Alert, Return, Goto, TypeOK
      <4>2. holder[Row(v)] = v /\ status[Row(v)] = "SENDING" /\ Row(v)' = Row(v)
        BY <4>1, <1>2, <1>4 DEF Row
      <4>3. CASE pc[w] \in Sending \cup {"recording"}
        <5>1. Row(v) # b
          BY <4>2, <4>3, <3>2, <3>4, <1>2
        <5>2. PICK c \in Attempts : c = Row(v)
          BY <4>1, <1>4, BusyRow DEF Sending
        <5>3. status'[c] = status[c] /\ holder'[c] = holder[c]
          BY <2>2, <3>2, <5>1, <5>2 DEF WorkerStep, Load, Pause, Requeue, Post, Accept, Record, Write,
             Enqueue, Alert, TypeOK
        <5> QED
          BY <4>2, <5>2, <5>3
      <4>4. CASE pc[w] \notin Sending \cup {"recording"}
        <5>1. UNCHANGED <<status, holder>>
          BY <2>2, <4>4 DEF WorkerStep, Load, Pause, Requeue, Post, Accept, Record, Write,
             Enqueue, Alert, Sending
        <5> QED
          BY <4>2, <5>1
      <4> QED
        BY <4>3, <4>4
    <3> QED
      BY <3>3, <3>4
  <2>3. ASSUME NEW w \in Workers, Throw(w) \/ Abort(w) PROVE FALSE
    BY <2>3, <1>0 DEF Throw, Abort
  <2>4. ASSUME NEW k \in Calls, FanOutCreate(k) PROVE holder'[Row(v)'] = v /\ status'[Row(v)'] = "SENDING"
    <3>1. pc[v] = pc'[v] /\ job[v] = job'[v] /\ UNCHANGED holder
      BY <2>4 DEF FanOutCreate
    <3>2. holder[Row(v)] = v /\ status[Row(v)] = "SENDING" /\ Row(v)' = Row(v)
      BY <3>1, <1>2, <1>4 DEF Row
    <3>3. PICK s \in todo[k] : UNCHANGED status \/ status' = [status EXCEPT ![<<k, s>>] = "PENDING"]
      BY <2>4 DEF FanOutCreate
    <3>4. Row(v) # <<k, s>>
      BY <3>2, <3>3 DEF FanInv
    <3>5. PICK c \in Attempts : c = Row(v)
      BY <3>1, <1>4, BusyRow DEF Sending
    <3> QED
      BY <3>1, <3>2, <3>3, <3>4, <3>5 DEF TypeOK
  <2>5. ASSUME UNCHANGED <<pc, job, status, holder>> PROVE holder'[Row(v)'] = v /\ status'[Row(v)'] = "SENDING"
    BY <2>5, <1>2, <1>4 DEF Row
  <2>6. ASSUME NEW k \in Calls, FanOutStart(k) \/ FanOutPublish(k) \/ FanOutCrash(k)
        PROVE  UNCHANGED <<pc, job, status, holder>>
    BY <2>6 DEF FanOutStart, FanOutPublish, FanOutCrash
  <2>7. Duplicate \/ UNCHANGED vars => UNCHANGED <<pc, job, status, holder>>
    BY DEF Duplicate, vars
  <2> QED
    BY <2>1, <2>2, <2>3, <2>4, <2>5, <2>6, <2>7 DEF Next, FanOutStep
<1> QED
  BY <1>3, <1>4

\* Subscriptions a fan-out call has passed by without a row.
Missed(k) == {s \in Subs \ todo[k] : status[<<k, s>>] = "NONE"}

MissedInv == \A k \in Calls : fan[k] = "looping" => Cardinality(Missed(k)) <= faults

LEMMA MissedNext ==
  ASSUME TypeOK, JobInv, FanInv, MissedInv, TypeOK', [Next]_vars
  PROVE  MissedInv'
<1> USE DEF fanVars, qVars, workerVars, counters, history, Fault
<1> SUFFICES ASSUME NEW c \in Calls, fan'[c] = "looping"
             PROVE  Cardinality(Missed(c)') <= faults'
  BY DEF MissedInv
<1>0. /\ faults \in Nat /\ faults' \in Nat
      /\ \A s \in Subs : <<c, s>> \in Attempts
      /\ IsFiniteSet(Missed(c)) /\ Cardinality(Missed(c)) \in Nat
  <2>1. faults \in Nat /\ faults' \in Nat
    BY WebhookAssumption DEF TypeOK
  <2>2. Missed(c) \subseteq Subs
    BY DEF Missed
  <2>3. IsFiniteSet(Missed(c)) /\ Cardinality(Missed(c)) \in Nat
    BY <2>2, WebhookAssumption, FS_Subset, FS_CardinalityType
  <2> QED
    BY <2>1, <2>3 DEF Attempts
<1>1. faults <= faults'
  <2>1. faults' = faults \/ faults' = faults + 1
    BY DEF Next, FanOutStart, FanOutStep, FanOutCreate, FanOutPublish, FanOutCrash, Receive,
         WorkerStep, Load, Pause, Requeue, Post, Accept, Record, Write, Enqueue, Alert,
         Throw, Abort, Duplicate, vars
  <2> QED
    BY <2>1, <1>0
<1>q. ASSUME fan[c] = "looping", todo'[c] = todo[c],
             \A s \in Subs : status'[<<c, s>>] = "NONE" <=> status[<<c, s>>] = "NONE"
      PROVE  Cardinality(Missed(c)') <= faults'
  <2>1. Missed(c)' = Missed(c)
    BY <1>q DEF Missed
  <2> QED
    BY <1>0, <1>1, <1>q, <2>1 DEF MissedInv
<1>2. ASSUME NEW k \in Calls, FanOutStart(k) PROVE Cardinality(Missed(c)') <= faults'
  <2>1. CASE c = k
    <3>1. Missed(c)' = {}
      BY <1>2, <2>1 DEF FanOutStart, Missed, TypeOK
    <3> QED
      BY <3>1, <1>0, FS_EmptySet
  <2>2. CASE c # k
    BY <1>2, <2>2, <1>q DEF FanOutStart, TypeOK
  <2> QED
    BY <2>1, <2>2
<1>3. ASSUME NEW k \in Calls, FanOutCreate(k) PROVE Cardinality(Missed(c)') <= faults'
  <2> PICK s \in todo[k] :
         /\ todo' = [todo EXCEPT ![k] = @ \ {s}]
         /\ \/ status' = [status EXCEPT ![<<k, s>>] = "PENDING"] /\ UNCHANGED faults
            \/ Fault /\ UNCHANGED status
    BY <1>3 DEF FanOutCreate
  <2>0. fan[c] = "looping" /\ s \in Subs /\ status[<<k, s>>] = "NONE"
    BY <1>3 DEF FanOutCreate, FanInv, TypeOK
  <2>1. CASE c # k
    <3>1. \A t \in Subs : <<c, t>> # <<k, s>>
      BY <2>1
    <3>2. todo'[c] = todo[c] /\ \A t \in Subs : status'[<<c, t>>] = status[<<c, t>>]
      BY <1>0, <2>1, <3>1 DEF TypeOK
    <3> QED
      BY <2>0, <3>2, <1>q
  <2>2. CASE c = k /\ status' = [status EXCEPT ![<<k, s>>] = "PENDING"]
    <3>1. Missed(c)' = Missed(c)
      BY <1>0, <2>0, <2>2 DEF Missed, TypeOK
    <3> QED
      BY <1>0, <1>1, <2>0, <3>1 DEF MissedInv
  <2>3. CASE c = k /\ faults' = faults + 1 /\ UNCHANGED status
    <3>1. Missed(c)' = Missed(c) \cup {s}
      BY <2>0, <2>3 DEF Missed, TypeOK
    <3>2. \/ Cardinality(Missed(c)') = Cardinality(Missed(c))
          \/ Cardinality(Missed(c)') = Cardinality(Missed(c)) + 1
      <4> DEFINE M == Missed(c)
      <4>1. Cardinality(M \cup {s}) = IF s \in M THEN Cardinality(M) ELSE Cardinality(M) + 1
        <5> HIDE DEF M
        <5> IsFiniteSet(M)
          BY <1>0 DEF M
        <5> QED
          BY FS_AddElement
      <4> QED
        BY <3>1, <4>1
    <3>3. Cardinality(Missed(c)') \in Nat
      BY <1>0, <3>2
    <3> QED
      BY <1>0, <2>0, <2>3, <3>2, <3>3 DEF MissedInv
  <2> QED
    BY <2>1, <2>2, <2>3
<1>4. ASSUME NEW k \in Calls, FanOutPublish(k) \/ FanOutCrash(k)
      PROVE  Cardinality(Missed(c)') <= faults'
  <2>1. CASE c = k /\ FanOutCrash(k)
    BY <2>1 DEF FanOutCrash, TypeOK
  <2>2. CASE ~(c = k /\ FanOutCrash(k))
    BY <1>4, <2>2, <1>q DEF FanOutPublish, FanOutCrash, TypeOK
  <2> QED
    BY <2>1, <2>2
<1>5. ASSUME UNCHANGED <<fan, todo>>,
             \/ UNCHANGED status
             \/ \E a \in Attempts, value \in {"PENDING", "SENDING", "DELIVERED", "DEAD", "FAILED"} :
                   status[a] # "NONE" /\ status' = [status EXCEPT ![a] = value]
      PROVE  Cardinality(Missed(c)') <= faults'
  BY <1>0, <1>5, <1>q DEF TypeOK
<1>6. ASSUME NEW w \in Workers, NEW m \in queue, Receive(w, m)
      PROVE  Cardinality(Missed(c)') <= faults'
  <2>1. m.id.att \in Attempts
    BY MessageFacts DEF TypeOK
  <2> QED
    BY <1>5, <1>6, <2>1 DEF Receive, Claimable
<1>7. ASSUME NEW w \in Workers, WorkerStep(w) \/ Throw(w) \/ Abort(w)
      PROVE  Cardinality(Missed(c)') <= faults'
  <2>1. pc[w] # "idle"
    BY <1>7 DEF WorkerStep, Load, Pause, Requeue, Post, Accept, Record, Write, Enqueue,
       Alert, Throw, Abort
  <2>2. PICK a \in Attempts : a = Row(w) /\ status[a] # "NONE"
    BY <2>1, BusyRow
  <2>3. \/ UNCHANGED status
        \/ \E value \in {"PENDING", "SENDING", "DELIVERED", "DEAD", "FAILED"} :
              status' = [status EXCEPT ![a] = value]
    BY <1>7, <2>2 DEF WorkerStep, Load, Pause, Requeue, Post, Accept, Record, Write, Enqueue,
       Alert, Throw, Abort
  <2>4. UNCHANGED <<fan, todo>>
    BY <1>7 DEF WorkerStep, Load, Pause, Requeue, Post, Accept, Record, Write, Enqueue,
       Alert, Throw, Abort
  <2> QED
    BY <2>2, <2>3, <2>4, <1>5
<1>8. CASE Duplicate \/ UNCHANGED vars
  BY <1>5, <1>8 DEF Duplicate, vars
<1> QED
  BY <1>2, <1>3, <1>4, <1>6, <1>7, <1>8 DEF Next, FanOutStep
-----------------------------------------------------------------------------
(* The theorems. *)

IInv == JobInv /\ FanInv /\ HolderInv /\ IdsInv /\ CareInv /\ CalmInv /\ MissedInv

LEMMA IInvInit == Init => TypeOK /\ IInv
<1> SUFFICES ASSUME Init PROVE TypeOK /\ IInv
  OBVIOUS
<1>1. TypeOK /\ JobInv /\ FanInv /\ HolderInv
  BY WebhookInit, HolderInit
<1>2. IdsInv /\ CareInv
  BY DEF Init, IdsInv, CareInv, Care, Claimable
<1>3. CalmInv /\ MissedInv
  BY DEF Init, CalmInv, MissedInv, Sending
<1> QED
  BY <1>1, <1>2, <1>3 DEF IInv

LEMMA IInvAlways == Spec => [](TypeOK /\ IInv)
<1>1. Init => TypeOK /\ IInv
  BY IInvInit
<1>2. TypeOK /\ IInv /\ [Next]_vars => TypeOK' /\ IInv'
  <2> SUFFICES ASSUME TypeOK, IInv, [Next]_vars PROVE TypeOK' /\ IInv'
    OBVIOUS
  <2>1. TypeOK' /\ JobInv'
    BY WebhookTypeNext DEF IInv
  <2>2. FanInv' /\ HolderInv' /\ IdsInv'
    BY <2>1, FanNext, HolderNext, IdsNext DEF IInv
  <2>3. CareInv' /\ CalmInv' /\ MissedInv'
    BY <2>1, CareNext, CalmNext, MissedNext DEF IInv
  <2> QED
    BY <2>1, <2>2, <2>3 DEF IInv
<1> QED
  BY <1>1, <1>2, PTL DEF Spec

\* The model stays within its types.
THEOREM WebhookTypeCorrect == Spec => []TypeOK
BY IInvAlways, PTL

\* The compare-and-set of deliverAttempt keeps two workers from posting one
\* attempt at a time, as long as nobody records a row he has lost.
THEOREM OneWorkerSends == Spec => []OneSender
<1>1. TypeOK /\ IInv => OneSender
  BY DEF IInv, HolderInv, Keeps, OneSender, Sending
<1> QED
  BY <1>1, IInvAlways, PTL

\* A row that is not finished has a job, a worker who will publish one, or a
\* fan-out call that is about to, unless a fault or a stale record broke it.
THEOREM EveryAttemptIsAttended == Spec => []Attended
<1>1. TypeOK /\ IInv => Attended
  <2> SUFFICES ASSUME TypeOK, IInv, NEW a \in Attempts \ (hurt \cup clobbered),
                      status[a] \in {"SENDING"} \cup Claimable
               PROVE  \/ \E m \in queue : m.id.att = a
                      \/ \E w \in Workers : pc[w] # "idle" /\ Row(w) = a
                      \/ \E k \in Calls : \E s \in fresh[k] : a = <<k, s>>
    BY DEF Attended
  <2> QED
    BY DEF IInv, CareInv, Care, Carried, Tends
<1> QED
  BY <1>1, IInvAlways, PTL

\* scheduleNextOrDeadLetter stops at maxRetries, also when exceptions make it
\* record one failure twice.
THEOREM PostsStayBounded == Spec => []PostsBounded
<1>1. TypeOK /\ IInv => PostsBounded
  BY DEF IInv, HolderInv, RowInv, PostsBounded
<1> QED
  BY <1>1, IInvAlways, PTL

\* DEAD and the dead letter are written together and once, unless the alert
\* after them threw.
THEOREM DeadHasOneLetter == Spec => []OneLetterPerDead
<1>1. TypeOK /\ IInv => OneLetterPerDead
  BY DEF IInv, HolderInv, RowInv, OneLetterPerDead
<1> QED
  BY <1>1, IInvAlways, PTL

\* Jobs that come twice and in any order do no harm by themselves.
THEOREM DuplicatesAreHarmless == Spec => []OnlyFaultsHurt
<1>1. TypeOK /\ IInv => OnlyFaultsHurt
  BY DEF IInv, CalmInv, OnlyFaultsHurt
<1> QED
  BY <1>1, IInvAlways, PTL

\* Every subscription that gets no row cost the fan-out an error of its own.
THEOREM SubscriptionsAreIsolated == Spec => []FanOutIsolated
<1>1. TypeOK /\ IInv => FanOutIsolated
  <2> SUFFICES ASSUME TypeOK, IInv, NEW k \in Calls, fan[k] = "looping", todo[k] = {}
               PROVE  Cardinality({s \in Subs : status[<<k, s>>] = "NONE"}) <= faults
    BY DEF FanOutIsolated
  <2>1. Missed(k) = {s \in Subs : status[<<k, s>>] = "NONE"}
    BY DEF Missed
  <2> QED
    BY <2>1 DEF IInv, MissedInv
<1> QED
  BY <1>1, IInvAlways, PTL

\* No late job and no second record takes back DELIVERED or DEAD.
THEOREM TerminalStaysFinal == Spec => TerminalIsFinal
<1>1. TypeOK /\ IInv /\ [Next]_vars =>
        [\A a \in Attempts :
           status[a] \in Terminal /\ status'[a] # status[a] => a \in clobbered']_vars
  <2> SUFFICES ASSUME TypeOK, IInv, [Next]_vars, NEW a \in Attempts,
                      status[a] \in Terminal, status'[a] # status[a]
               PROVE  a \in clobbered'
    OBVIOUS
  <2>1. ASSUME NEW k \in Calls, FanOutCreate(k) PROVE FALSE
    BY <2>1 DEF FanOutCreate, IInv, FanInv, TypeOK, Terminal
  <2>2. ASSUME NEW w \in Workers, NEW m \in queue, Receive(w, m) PROVE FALSE
    BY <2>2 DEF Receive, TypeOK, Terminal, Claimable
  <2>3. ASSUME NEW w \in Workers, pc[w] \in Sending, Row(w) = a, clobbered \subseteq clobbered'
        PROVE  a \in clobbered'
    BY <2>3 DEF IInv, HolderInv, Keeps, Owns, Knows, Sending, Terminal
  <2>4. ASSUME NEW w \in Workers, Pause(w) \/ Accept(w) PROVE a \in clobbered'
    <3>1. pc[w] \in Sending /\ clobbered' = clobbered /\ Row(w) = a
      BY <2>4 DEF Pause, Accept, Sending, history, TypeOK
    <3> QED
      BY <3>1, <2>3
  <2>5. ASSUME NEW w \in Workers, Record(w) PROVE a \in clobbered'
    <3>1. /\ pc[w] = "recording" /\ Row(w) = a
          /\ status'[a] = IF seen[w] + 1 >= MaxRetries THEN "DEAD" ELSE "FAILED"
          /\ clobbered' = IF holder[a] = w THEN clobbered ELSE clobbered \cup {a}
      BY <2>5 DEF Record, Write, TypeOK
    <3>2. CASE holder[a] = w /\ a \notin clobbered
      <4>1. Knows(w)
        BY <3>1, <3>2 DEF IInv, HolderInv, Keeps, Owns
      <4>2. status[a] = "DEAD" /\ seen[w] + 1 = MaxRetries
        BY <3>1, <4>1 DEF Knows, Terminal
      <4> QED
        BY <3>1, <4>2, WebhookAssumption DEF TypeOK
    <3> QED
      BY <3>1, <3>2
  <2>6. \/ \E k \in Calls : FanOutCreate(k)
        \/ \E w \in Workers, m \in queue : Receive(w, m)
        \/ \E w \in Workers : Pause(w) \/ Accept(w) \/ Record(w)
    BY DEF Next, FanOutStart, FanOutStep, FanOutPublish, FanOutCrash, WorkerStep, Load,
       Requeue, Post, Enqueue, Alert, Throw, Abort, Duplicate, vars
  <2> QED
    BY <2>1, <2>2, <2>4, <2>5, <2>6
<1> QED
  BY <1>1, IInvAlways, PTL DEF Spec, TerminalIsFinal
-----------------------------------------------------------------------------
(* What was delivered was sent, and what holds without faults. *)

SentInv == DeliveredWasPosted /\ \A w \in Workers : pc[w] = "accepted" => posts[Row(w)] > 0

LEMMA PostsGrow ==
  ASSUME TypeOK, [Next]_vars, NEW a \in Attempts
  PROVE  posts[a] > 0 => posts'[a] > 0
<1> USE DEF fanVars, qVars, workerVars, counters, history
<1>0. posts[a] \in Nat
  BY DEF TypeOK
<1>1. ASSUME NEW w \in Workers, Post(w) PROVE posts[a] > 0 => posts'[a] > 0
  BY <1>0, <1>1 DEF Post, TypeOK
<1>2. UNCHANGED posts \/ \E w \in Workers : Post(w)
  BY DEF Next, FanOutStart, FanOutStep, FanOutCreate, FanOutPublish, FanOutCrash, Receive,
         WorkerStep, Load, Pause, Requeue, Accept, Record, Write, Enqueue, Alert,
         Throw, Abort, Duplicate, vars
<1> QED
  BY <1>1, <1>2

\* A worker gets to record a success only by a request that was answered.
LEMMA AcceptedWasPosted ==
  ASSUME TypeOK, JobInv, FanInv, SentInv, [Next]_vars, NEW v \in Workers, pc'[v] = "accepted"
  PROVE  posts'[Row(v)'] > 0
<1> USE DEF fanVars, qVars, workerVars, counters, history
<1>1. ASSUME pc[v] = "accepted", job'[v] = job[v] PROVE posts'[Row(v)'] > 0
  <2>1. PICK a \in Attempts : a = Row(v)
    BY <1>1, BusyRow
  <2>2. posts[a] > 0 /\ Row(v)' = a
    BY <1>1, <2>1 DEF SentInv, Row
  <2> QED
    BY <2>2, PostsGrow
<1>2. ASSUME Post(v) PROVE posts'[Row(v)'] > 0
  <2>1. PICK a \in Attempts : a = Row(v)
    BY <1>2, BusyRow DEF Post
  <2>2. /\ pc' \in {[pc EXCEPT ![v] = "accepted"], [pc EXCEPT ![v] = "recording"]}
        /\ posts' = [posts EXCEPT ![a] = @ + 1] \/ pc' = [pc EXCEPT ![v] = "recording"]
        /\ job' = job
    BY <1>2, <2>1 DEF Post
  <2>3. posts' = [posts EXCEPT ![a] = @ + 1] /\ Row(v)' = a /\ posts[a] \in Nat
    BY <2>1, <2>2 DEF TypeOK, Row
  <2> QED
    BY <2>3 DEF TypeOK
<1>3. Post(v) \/ (pc[v] = "accepted" /\ job'[v] = job[v])
  <2>1. ASSUME NEW w \in Workers, NEW m \in queue, Receive(w, m)
        PROVE  pc[v] = "accepted" /\ job'[v] = job[v]
    BY <2>1 DEF Receive, TypeOK
  <2>2. ASSUME NEW w \in Workers, WorkerStep(w) \/ Throw(w) \/ Abort(w), ~Post(v)
        PROVE  pc[v] = "accepted" /\ job'[v] = job[v]
    <3>1. CASE w = v
      BY <2>2, <3>1 DEF WorkerStep, Load, Pause, Requeue, Accept, Record, Write, Enqueue, Alert,
                        Throw, Abort, Return, Goto, TypeOK
    <3>2. CASE w # v
      <4>1. CASE Post(w)
        BY <3>2, <4>1 DEF Post, TypeOK
      <4> QED
        BY <2>2, <3>2, <4>1 DEF WorkerStep, Load, Pause, Requeue, Accept, Record, Write, Enqueue,
                                Alert, Throw, Abort, Return, Goto, TypeOK
    <3> QED
      BY <3>1, <3>2
  <2>3. CASE UNCHANGED <<pc, job>>
    BY <2>3
  <2> QED
    BY <2>1, <2>2, <2>3 DEF Next, FanOutStart, FanOutStep, FanOutCreate, FanOutPublish,
                            FanOutCrash, Duplicate, vars
<1> QED
  BY <1>1, <1>2, <1>3

LEMMA SentNext ==
  ASSUME TypeOK, JobInv, FanInv, SentInv, [Next]_vars
  PROVE  SentInv'
<1> USE DEF fanVars, qVars, workerVars, counters, history
<1>1. ASSUME NEW a \in Attempts, status'[a] = "DELIVERED" PROVE posts'[a] > 0
  <2>1. ASSUME NEW w \in Workers, Accept(w), status[a] # "DELIVERED" PROVE posts[a] > 0
    <3>1. pc[w] = "accepted" /\ status' = [status EXCEPT ![Row(w)] = "DELIVERED"]
      BY <2>1 DEF Accept
    <3>2. Row(w) = a
      BY <1>1, <2>1, <3>1 DEF TypeOK
    <3> QED
      BY <3>1, <3>2 DEF SentInv
  <2>2. ASSUME NEW w \in Workers, Record(w) \/ Pause(w), status[a] # "DELIVERED" PROVE FALSE
    <3>1. PICK x \in {"DEAD", "FAILED", "PENDING"} : status' = [status EXCEPT ![Row(w)] = x]
      BY <2>2 DEF Record, Write, Pause
    <3> QED
      BY <1>1, <2>2, <3>1 DEF TypeOK
  <2>3. ASSUME NEW w \in Workers, NEW m \in queue, Receive(w, m), status[a] # "DELIVERED"
        PROVE  FALSE
    BY <1>1, <2>3 DEF Receive, TypeOK
  <2>4. ASSUME NEW k \in Calls, FanOutCreate(k), status[a] # "DELIVERED" PROVE FALSE
    BY <1>1, <2>4 DEF FanOutCreate, TypeOK
  <2>5. CASE status[a] = "DELIVERED"
    BY <2>5, PostsGrow DEF SentInv, DeliveredWasPosted
  <2>6. \/ UNCHANGED status
        \/ \E w \in Workers : Accept(w) \/ Record(w) \/ Pause(w) \/ \E m \in queue : Receive(w, m)
        \/ \E k \in Calls : FanOutCreate(k)
    BY DEF Next, FanOutStart, FanOutStep, FanOutPublish, FanOutCrash, WorkerStep, Load, Requeue,
           Post, Enqueue, Alert, Throw, Abort, Duplicate, vars
  <2>7. CASE status[a] # "DELIVERED"
    <3>1. \E w \in Workers : Accept(w)
      BY <1>1, <2>2, <2>3, <2>4, <2>6, <2>7
    <3> QED
      BY <2>1, <2>7, <3>1, PostsGrow
  <2> QED
    BY <2>5, <2>7
<1>2. \A w \in Workers : pc'[w] = "accepted" => posts'[Row(w)'] > 0
  BY AcceptedWasPosted
<1> QED
  BY <1>1, <1>2 DEF SentInv, DeliveredWasPosted

\* No attempt is DELIVERED that was never sent: also the worker whose record
\* comes late, after others had the row, writes what it has seen itself.
THEOREM DeliveredWasSent == Spec => []DeliveredWasPosted
<1>1. Init => SentInv
  BY DEF Init, SentInv, DeliveredWasPosted
<1>2. TypeOK /\ IInv /\ SentInv /\ [Next]_vars => SentInv'
  BY SentNext DEF IInv
<1>3. SentInv => DeliveredWasPosted
  BY DEF SentInv
<1> QED
  BY <1>1, <1>2, <1>3, IInvAlways, PTL DEF Spec

\* Only a fault makes the alert of a dead attempt fail.
AlarmInv == faults = 0 => alarmed = {}

LEMMA AlarmNext == TypeOK /\ AlarmInv /\ [Next]_vars => AlarmInv'
<1> SUFFICES ASSUME TypeOK, AlarmInv, [Next]_vars PROVE AlarmInv'
  OBVIOUS
<1> USE DEF counters, history
<1>1. \/ UNCHANGED <<faults, alarmed>>
      \/ faults' = faults + 1
  BY DEF Next, FanOutStart, FanOutStep, FanOutCreate, FanOutPublish, FanOutCrash, Receive,
         WorkerStep, Load, Pause, Requeue, Post, Accept, Record, Write, Enqueue, Alert,
         Throw, Abort, Duplicate, Fault, vars
<1>2. faults \in Nat
  BY WebhookAssumption DEF TypeOK
<1> QED
  BY <1>1, <1>2 DEF AlarmInv

\* Without faults none of the exceptions of the other theorems occurs, however
\* often and in whatever order QStash delivers.
THEOREM NoFaultNoHarm == Spec => []ExactWithoutFaults
<1>1. Init => AlarmInv
  BY DEF Init, AlarmInv
<1>2. TypeOK /\ AlarmInv /\ [Next]_vars => AlarmInv'
  BY AlarmNext
<1>3. TypeOK /\ AlarmInv /\ OneSender /\ Attended /\ PostsBounded /\ OneLetterPerDead
        /\ OnlyFaultsHurt => ExactWithoutFaults
  <2> SUFFICES ASSUME OneSender, Attended, PostsBounded, OneLetterPerDead,
                      hurt = {}, clobbered = {}, alarmed = {}
               PROVE  ExactWithoutFaults
    BY DEF AlarmInv, OnlyFaultsHurt, ExactWithoutFaults
  <2>1. \A v, w \in Workers :
          v # w /\ {pc[v], pc[w]} \subseteq {"claimed", "loaded", "accepted"} => Row(v) # Row(w)
    BY DEF OneSender
  <2>2. \A a \in Attempts : /\ posts[a] <= MaxRetries
                            /\ letters[a] = IF status[a] = "DEAD" THEN 1 ELSE 0
    BY DEF PostsBounded, OneLetterPerDead
  <2>3. \A a \in Attempts : status[a] \in {"SENDING"} \cup Claimable =>
          \/ \E m \in queue : m.id.att = a
          \/ \E w \in Workers : pc[w] # "idle" /\ Row(w) = a
          \/ \E k \in Calls : \E s \in fresh[k] : a = <<k, s>>
    BY DEF Attended
  <2> QED
    BY <2>1, <2>2, <2>3 DEF ExactWithoutFaults
<1> QED
  BY <1>1, <1>2, <1>3, WebhookTypeCorrect, OneWorkerSends, EveryAttemptIsAttended,
     PostsStayBounded, DeadHasOneLetter, DuplicatesAreHarmless, PTL DEF Spec
=============================================================================
