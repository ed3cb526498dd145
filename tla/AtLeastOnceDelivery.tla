------------------------ MODULE AtLeastOnceDelivery ------------------------
(***************************************************************************)
(* What the transactional outbox promises to the code that enqueues an     *)
(* event, with no row, claim or worker in sight (packages/api/src/services *)
(* /outbox/index.ts, the comment at the top of the file): an event is      *)
(* scheduled, is delivered to its handler any number of times while it is  *)
(* scheduled or later, and is settled either as dispatched, and then it    *)
(* has been delivered at least once, or as failed.  A settled event never  *)
(* becomes unsettled again, but its verdict may still be overwritten.      *)
(***************************************************************************)
CONSTANTS Events,   \* the events that may be scheduled
          Exempt    \* events of demo organisations: settled undelivered

VARIABLES stage,      \* what the promise knows of each event
          delivered   \* events whose side effect has happened

avars == <<stage, delivered>>

Stages == {"unscheduled", "scheduled", "dispatched", "failed"}

Init ==
  /\ stage = [e \in Events |-> "unscheduled"]
  /\ delivered = {}

Schedule(e) ==
  /\ stage[e] = "unscheduled"
  /\ stage' = [stage EXCEPT ![e] = "scheduled"]
  /\ UNCHANGED delivered

\* At-least-once: the side effect may happen again after it has happened.
Deliver(e) ==
  /\ stage[e] # "unscheduled"
  /\ e \notin Exempt
  /\ delivered' = delivered \cup {e}
  /\ UNCHANGED stage

SettleDispatched(e) ==
  /\ stage[e] # "unscheduled"
  /\ e \in delivered \cup Exempt
  /\ stage' = [stage EXCEPT ![e] = "dispatched"]
  /\ UNCHANGED delivered

SettleFailed(e) ==
  /\ stage[e] # "unscheduled"
  /\ e \notin Exempt
  /\ stage' = [stage EXCEPT ![e] = "failed"]
  /\ UNCHANGED delivered

Next ==
  \E e \in Events :
     Schedule(e) \/ Deliver(e) \/ SettleDispatched(e) \/ SettleFailed(e)

SafetySpec == Init /\ [][Next]_avars

\* No scheduled event is left scheduled for ever.
EventuallySettled ==
  \A e \in Events :
     (stage[e] = "scheduled") ~> (stage[e] \in {"dispatched", "failed"})

Spec == SafetySpec /\ EventuallySettled
=============================================================================
