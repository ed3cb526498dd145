---------------------------- MODULE Backpressure ----------------------------
(***************************************************************************)
(* The semaphore of a QStash route: packages/api/src/services/             *)
(* qstash-backpressure.ts, as the routes use it (apps/api/src/lib/         *)
(* qstash-route.ts).  All pods share one Redis counter per route.          *)
(*                                                                         *)
(* A request claims a slot with one script, INCR and EXPIRE, and gives it  *)
(* back with DECR, from inside the cap when its work is done and from over *)
(* the cap at once.  Each of these calls is a step, and so is what Redis   *)
(* does by itself: the key expires, whoever is inside.  DECR creates a key *)
(* that is missing, at -1 and with no expiry.                              *)
(*                                                                         *)
(* A request that has ended is redelivered, or another takes its place.    *)
(* Left out: the rejections per minute that only alert, and routes without *)
(* Redis, which have no semaphore.                                         *)
(***************************************************************************)
EXTENDS Integers, FiniteSets

CONSTANTS
  Requests,      \* requests that may be in the pods at a time
  MaxConcurrent, \* the cap of the route
  MaxFaults      \* bound: crashes and failed calls of Redis

ASSUME BackpressureAssumption ==
  /\ IsFiniteSet(Requests)
  /\ MaxConcurrent \in Nat \ {0}
  /\ MaxFaults \in Nat

VARIABLES
  key,     \* the Redis key: missing, with an expiry, or without one
  count,   \* its value, 0 when it is missing
  at,      \* where each request is
  faults,
  counted, \* history: requests whose INCR is in the count and may be taken out
  orphans, \* history: INCRs in the count that nobody takes out
  undue    \* history: DECRs in the count whose INCR had expired

redis == <<key, count>>
history == <<counted, orphans, undue>>
vars == <<redis, at, faults, history>>

TypeOK ==
  /\ key \in {"missing", "expiring", "persistent"}
  /\ count \in Int
  /\ at \in [Requests -> {"waiting", "inside", "over", "open"}]
  /\ faults \in Nat
  /\ counted \subseteq {r \in Requests : at[r] \in {"inside", "over"}}
  /\ orphans \in Nat
  /\ undue \in Nat

Init ==
  /\ key = "missing"
  /\ count = 0
  /\ at = [r \in Requests |-> "waiting"]
  /\ faults = 0
  /\ counted = {}
  /\ orphans = 0
  /\ undue = 0
-----------------------------------------------------------------------------
(* The two calls of Redis. *)

\* Mutant: EXPIRE when the script has created the key.
Armed_NewKey(n) == IF key = "missing" THEN "expiring" ELSE key

\* Mutant: EXPIRE is a call of its own, and is lost.
Armed_Never(n) == IF key = "missing" THEN "persistent" ELSE key

\* The key after the script has made its value n: EXPIRE only when n is 1.
Armed(n) ==
  CASE n = 1                      -> "expiring"
    [] n # 1 /\ key = "missing"   -> "persistent"
    [] n # 1 /\ key # "missing"   -> key

Incr == count' = count + 1 /\ key' = Armed(count + 1)

Decr ==
  /\ count' = count - 1
  /\ key' = IF key = "missing" THEN "persistent" ELSE key

Fault == faults < MaxFaults /\ faults' = faults + 1

Goto(r, place) == at' = [at EXCEPT ![r] = place]
-----------------------------------------------------------------------------
(* withBackpressure. *)

\* Mutant: the request that finds the cap reached is let in.
Admitted_OneMore(n) == n <= MaxConcurrent + 1

Admitted(n) == n <= MaxConcurrent

\* Mutant: a request over the cap is rejected with its slot.
Claim_Phantom(r) ==
  /\ at[r] = "waiting"
  /\ Incr
  /\ Goto(r, IF Admitted(count + 1) THEN "inside" ELSE "waiting")
  /\ counted' = counted \cup {r}
  /\ UNCHANGED <<faults, orphans, undue>>

Claim(r) ==
  /\ at[r] = "waiting"
  /\ Incr
  /\ Goto(r, IF Admitted(count + 1) THEN "inside" ELSE "over")
  /\ counted' = counted \cup {r}
  /\ UNCHANGED <<faults, orphans, undue>>

\* The script fails, or its answer is lost: the work goes on without a slot.
ClaimFails(r) ==
  /\ at[r] = "waiting"
  /\ Fault
  /\ Goto(r, "open")
  /\ \/ Incr /\ orphans' = orphans + 1
     \/ UNCHANGED <<redis, orphans>>
  /\ UNCHANGED <<counted, undue>>

TakenOut(r) ==
  /\ Decr
  /\ counted' = counted \ {r}
  /\ undue' = IF r \in counted THEN undue ELSE undue + 1
  /\ UNCHANGED orphans

LeftIn(r) ==
  /\ counted' = counted \ {r}
  /\ orphans' = IF r \in counted THEN orphans + 1 ELSE orphans
  /\ UNCHANGED <<redis, undue>>

\* The finally of the work, and the DECR before a rejection.
Release(r) ==
  /\ at[r] \in {"inside", "over"}
  /\ Goto(r, "waiting")
  /\ TakenOut(r)
  /\ UNCHANGED faults

\* DECR fails, or its answer is lost: this is logged and forgotten.
ReleaseFails(r) ==
  /\ at[r] \in {"inside", "over"}
  /\ Fault
  /\ Goto(r, "waiting")
  /\ TakenOut(r) \/ LeftIn(r)

\* The work of a request that was let in without a slot ends.
Leave(r) ==
  /\ at[r] = "open"
  /\ Goto(r, "waiting")
  /\ UNCHANGED <<redis, faults, history>>

\* The pod is killed.
Crash(r) ==
  /\ at[r] # "waiting"
  /\ Fault
  /\ Goto(r, "waiting")
  /\ LeftIn(r)

\* SAFETY_TTL_SEC after EXPIRE, whatever has happened since.
Expire ==
  /\ key = "expiring"
  /\ key' = "missing"
  /\ count' = 0
  /\ counted' = {}
  /\ orphans' = 0
  /\ undue' = 0
  /\ UNCHANGED <<at, faults>>

Next ==
  \/ \E r \in Requests :
        \/ Claim(r)
        \/ ClaimFails(r)
        \/ Release(r)
        \/ ReleaseFails(r)
        \/ Leave(r)
        \/ Crash(r)
  \/ Expire

Spec == Init /\ [][Next]_vars

\* Redis expires a key whose expiry is not set again, and it is set again only
\* when the count passes from 0 to 1.  No work need ever end.
FairSpec == Spec /\ WF_vars(count > 0 /\ Expire)
-----------------------------------------------------------------------------
(* Properties. *)

Running == {r \in Requests : at[r] \in {"inside", "open"}}

\* The counter is the number of requests it still counts, the slots nobody gives
\* back, less the slots given back twice over: once by an expiry and once by the
\* request that held them.
CountAccounts == count = Cardinality(counted) + orphans - undue

\* The counter accounts for every claim, and no more requests are at work than
\* the cap allows, except those the counter does not know (let in without Redis,
\* or inside when the key expired) and one for each slot that such a request
\* gave back.
CapExplained ==
  /\ CountAccounts
  /\ Cardinality(Running \cap counted) <= MaxConcurrent + undue

\* "Doing INCR + EXPIRE atomically prevents an OOM-killed worker from stranding
\* a counter without a TTL": a counter that counts against the cap expires, also
\* when a late DECR has created it without an expiry.
LeakGuard == count > 0 => key = "expiring"

\* A request is turned away only when the others, or slots that nobody gives
\* back, use up the cap, less the slots given back twice over.
RefusedWhenFull ==
  [][\A r \in Requests :
       at[r] = "waiting" /\ at'[r] = "over" =>
          Cardinality(counted' \ {r}) + orphans' - undue' >= MaxConcurrent]_vars

\* A full route is not full for ever, whoever holds its slots or has lost them.
RouteReopens == count >= MaxConcurrent ~> count < MaxConcurrent
=============================================================================
