------------------------------ MODULE OutboxMC ------------------------------
(* Two retried producers of one event, one producer of a demo event or of a
   second event, two drain workers. *)
EXTENDS Outbox
CONSTANTS p1, p2, p3, e1, e2

MCProducers == {p1, p2, p3}
MCEvents == {e1, e2}
MCKeyOf == [p \in MCProducers |-> IF p = p3 THEN e2 ELSE e1]
MCCreatedAt == [e \in MCEvents |-> IF e = e1 THEN 1 ELSE 2]
MCDemo == {e2}
=============================================================================
