-------------------------- MODULE ZatcaChainProofs --------------------------
(***************************************************************************)
(* Proofs about the Saudi e-invoicing chain, for any number of invoices,   *)
(* workers, edits and incidents.                                           *)
(*                                                                         *)
(* ChainInv says what Linked needs to be inductive: a chain that has rows  *)
(* has a last one.  WorkInv says what a worker holds: the next entry while *)
(* it has the lock, and the place of its row from then on.  RegInv and     *)
(* AnswerInv relate the rows to what ZATCA registered.                     *)
(***************************************************************************)
EXTENDS ZatcaChain, TLAPS

ChainInv ==
  /\ \A i \in Invoices : icv[i] > 0 <=> status[i] # "NONE"
  /\ InChain = {} \/ Last # {}
  /\ Linked

IsNext(c) ==
  \/ InChain = {} /\ c = Coords(1, Genesis)
  \/ \E j \in Last : /\ c.icv = icv[j] + 1 /\ c.prev.invoice = j
                     /\ c.prev.version = hash[j] \/ j \in rehashed

WorkInv ==
  \A w \in Workers :
     /\ lock = w <=> pc[w] = "numbered"
     /\ pc[w] # "idle" => job[w] \in Invoices
     /\ pc[w] = "idle" => job[w] = NoInvoice
     /\ pc[w] = "numbered" => IsNext(coords[w])
     /\ pc[w] \in {"reset", "again", "ready", "answered"} => icv[job[w]] > 0
     /\ pc[w] \in {"reset", "again", "ready"} => coords[w] = RowCoords(job[w])

RegInv ==
  \A i \in Invoices : registered[i] # Nothing =>
     icv[i] > 0 /\ registered[i].icv = icv[i] /\ registered[i].prev = prev[i]

AnswerInv ==
  /\ StatusTellsZatca
  /\ \A w \in Workers : pc[w] = "answered" /\ answer[w] = "ok" => registered[job[w]] # Nothing
  /\ \A w \in Workers : pc[w] = "answered" /\ answer[w] = "refused" /\ job[w] \notin crossed =>
        registered[job[w]] = Nothing
  /\ \A v, w \in Workers : v # w /\ pc[v] # "idle" /\ job[v] = job[w] => job[v] \in crossed
  /\ \A w \in Workers : pc[w] \in {"again", "ready", "answered"} /\ job[w] \notin crossed =>
        status[job[w]] = "PENDING"

IInv == ChainInv /\ WorkInv /\ RegInv /\ AnswerInv
-----------------------------------------------------------------------------
(* Lemmas about the chain. *)

\* The counter Allocate computes is the next one.
LEMMA NextEntryIsNext ==
  ASSUME TypeOK, ChainInv
  PROVE  IsNext(NextEntry)
<1>1. CASE Last = {}
  BY <1>1 DEF NextEntry, IsNext, ChainInv
<1>2. CASE Last # {}
  <2> DEFINE i == CHOOSE i \in Last : TRUE
  <2>1. i \in Last
    BY <1>2
  <2>2. NextEntry = Coords(icv[i] + 1, Link(i, hash[i]))
    BY <1>2 DEF NextEntry
  <2> HIDE DEF i
  <2> QED
    BY <2>1, <2>2 DEF IsNext, Coords, Link
<1> QED
  BY <1>1, <1>2

LEMMA NextEntryType ==
  ASSUME TypeOK
  PROVE  NextEntry \in [icv : Nat, prev : Links]
<1>1. CASE Last = {}
  BY <1>1, ZatcaAssumption DEF NextEntry, Coords, Genesis, Link, Links, Versions
<1>2. CASE Last # {}
  <2> DEFINE i == CHOOSE i \in Last : TRUE
  <2>1. i \in Invoices
    BY <1>2 DEF Last
  <2>2. NextEntry = Coords(icv[i] + 1, Link(i, hash[i]))
    BY <1>2 DEF NextEntry
  <2> HIDE DEF i
  <2> QED
    BY <2>1, <2>2 DEF TypeOK, Coords, Link, Links
<1> QED
  BY <1>1, <1>2
-----------------------------------------------------------------------------
LEMMA ZatcaInit == Init => TypeOK /\ IInv
<1> SUFFICES ASSUME Init PROVE TypeOK /\ IInv
  OBVIOUS
<1>1. TypeOK
  BY ZatcaAssumption DEF Init, TypeOK, Versions, Links, Link, Genesis, NoCoords, Coords, Registration, Nothing
<1>2. ChainInv
  BY DEF Init, ChainInv, Linked, InChain
<1>3. WorkInv
  BY ZatcaAssumption DEF Init, WorkInv
<1>4. RegInv /\ AnswerInv
  BY DEF Init, RegInv, AnswerInv, StatusTellsZatca
<1> QED
  BY <1>1, <1>2, <1>3, <1>4 DEF IInv

WorkTyped ==
  /\ pc \in [Workers -> {"idle", "loaded", "first", "numbered", "reset",
                         "again", "ready", "answered"}]
  /\ job \in [Workers -> Invoices \cup {NoInvoice}]
  /\ version \in [Workers -> Versions]
  /\ coords \in [Workers -> [icv : Nat, prev : Links]]
  /\ answer \in [Workers -> {"none", "ok", "refused"}]

LEMMA StopTyped ==
  ASSUME WorkTyped, NEW w \in Workers, Stop(w)
  PROVE  WorkTyped'
<1>1. NoCoords \in [icv : Nat, prev : Links] /\ 0 \in Versions
  BY ZatcaAssumption DEF NoCoords, Coords, Genesis, Link, Links, Versions
<1> QED
  BY <1>1 DEF WorkTyped, Stop

LEMMA ZatcaTypeNext ==
  ASSUME TypeOK, WorkInv, [Next]_vars
  PROVE  TypeOK'
<1> USE DEF TypeOK, rowVars, workVars, Goto
<1>a. WorkTyped
  BY DEF WorkTyped
<1>b. ASSUME NEW w \in Workers, Stop(w) PROVE WorkTyped'
  BY <1>a, <1>b, StopTyped
<1>1. ASSUME NEW w \in Workers, NEW i \in Invoices, Load(w, i) PROVE TypeOK'
  BY <1>1 DEF Load
<1>2. ASSUME NEW w \in Workers, Lookup(w) PROVE TypeOK'
  <2> job[w] \in Invoices
    BY <1>2 DEF Lookup, WorkInv
  <2> /\ NoCoords \in [icv : Nat, prev : Links]
      /\ RowCoords(job[w]) \in [icv : Nat, prev : Links]
      /\ 0 \in Versions
    BY ZatcaAssumption DEF NoCoords, Coords, Genesis, Link, Links, Versions, RowCoords
  <2>1. CASE Found(job[w]) = "idle"
    <3> Stop(w) /\ UNCHANGED <<content, rowVars, lock, registered, incidents, rehashed, crossed>>
      BY <1>2, <2>1 DEF Lookup
    <3> QED
      BY <1>b DEF WorkTyped
  <2>2. CASE Found(job[w]) # "idle"
    <3>1. Found(job[w]) \in {"first", "again", "reset"}
      BY <2>2 DEF Found
    <3>2. PICK c \in [icv : Nat, prev : Links] :
            /\ pc' = [pc EXCEPT ![w] = Found(job[w])]
            /\ coords' = [coords EXCEPT ![w] = c]
            /\ UNCHANGED <<job, version, answer, content, rowVars, lock, registered, incidents,
                           rehashed, crossed>>
      BY <1>2, <2>2 DEF Lookup
    <3>3. /\ pc' \in [Workers -> {"idle", "loaded", "first", "numbered", "reset",
                                  "again", "ready", "answered"}]
          /\ coords' \in [Workers -> [icv : Nat, prev : Links]]
      BY <3>1, <3>2
    <3> QED
      BY <3>2, <3>3
  <2> QED
    BY <2>1, <2>2
<1>3. ASSUME NEW w \in Workers, Allocate(w) PROVE TypeOK'
  BY <1>3, NextEntryType DEF Allocate
<1>4. ASSUME NEW w \in Workers, Record(w) PROVE TypeOK'
  <2> job[w] \in Invoices
    BY <1>4 DEF Record, WorkInv
  <2>1. CASE Insertable(job[w], coords[w].icv)
    <3> coords[w].icv \in Nat /\ coords[w].prev \in Links /\ version[w] \in Versions
      OBVIOUS
    <3> /\ icv' = [icv EXCEPT ![job[w]] = coords[w].icv]
        /\ prev' = [prev EXCEPT ![job[w]] = coords[w].prev]
        /\ hash' = [hash EXCEPT ![job[w]] = version[w]]
        /\ status' = [status EXCEPT ![job[w]] = "PENDING"]
        /\ pc' = [pc EXCEPT ![w] = "ready"]
        /\ lock' = NoWorker
        /\ UNCHANGED <<job, version, coords, answer, content, registered, incidents,
                       rehashed, crossed>>
      BY <1>4, <2>1 DEF Record
    <3> QED
      OBVIOUS
  <2>2. CASE ~Insertable(job[w], coords[w].icv)
    <3> /\ Stop(w) /\ lock' = NoWorker
        /\ UNCHANGED <<rowVars, content, registered, incidents, rehashed, crossed>>
      BY <1>4, <2>2 DEF Record
    <3> QED
      BY <1>b DEF WorkTyped
  <2> QED
    BY <2>1, <2>2
<1>5. ASSUME NEW w \in Workers, Reset(w) PROVE TypeOK'
  BY <1>5 DEF Reset
<1>6. ASSUME NEW w \in Workers, Rehash(w) PROVE TypeOK'
  <2> job[w] \in Invoices
    BY <1>6 DEF Rehash, WorkInv
  <2> QED
    BY <1>6 DEF Rehash
<1>7. ASSUME NEW w \in Workers, Accept(w) \/ Refuse(w) \/ Lose(w) PROVE TypeOK'
  <2> /\ NoCoords \in [icv : Nat, prev : Links]
      /\ 0 \in Versions
    BY ZatcaAssumption DEF NoCoords, Coords, Genesis, Link, Links, Versions
  <2>1. Register(w) => registered' \in [Invoices -> Registration]
    <3> coords[w].icv \in Nat /\ coords[w].prev \in Links
      OBVIOUS
    <3> DEFINE r == [icv |-> coords[w].icv, prev |-> coords[w].prev, version |-> version[w]]
    <3>1. r \in Registration
      BY DEF Registration
    <3>2. registered \in [Invoices -> Registration]
      OBVIOUS
    <3>3. Register(w) => \/ registered' = [registered EXCEPT ![job[w]] = r]
                         \/ registered' = [registered EXCEPT ![job[w]] = registered[job[w]]]
      BY DEF Register
    <3> HIDE DEF r, TypeOK, rowVars, workVars
    <3>4. ASSUME registered' = [registered EXCEPT ![job[w]] = r]
          PROVE  registered' \in [Invoices -> Registration]
      BY <3>1, <3>2, <3>4
    <3>5. ASSUME registered' = [registered EXCEPT ![job[w]] = registered[job[w]]]
          PROVE  registered' \in [Invoices -> Registration]
      BY <3>2, <3>5
    <3> QED
      BY <3>3, <3>4, <3>5
  <2>2. CASE Accept(w)
    BY <2>1, <2>2 DEF Accept, Answer
  <2>3. CASE Refuse(w)
    BY <2>3 DEF Refuse, Answer
  <2>4. CASE Lose(w)
    BY <2>1, <2>4 DEF Lose, Answer
  <2> QED
    BY <1>7, <2>2, <2>3, <2>4
<1>8. ASSUME NEW w \in Workers, Settle(w) PROVE TypeOK'
  <2> job[w] \in Invoices
    BY <1>8 DEF Settle, WorkInv
  <2> Outcome(w) \in {"NONE", "PENDING", "SETTLED", "REJECTED"}
    BY DEF Outcome
  <2> QED
    BY <1>8, <1>b DEF Settle, WorkTyped
<1>9. ASSUME NEW w \in Workers, Crash(w) PROVE TypeOK'
  BY <1>9, <1>b DEF Crash, WorkTyped
<1>10. ASSUME NEW i \in Invoices, Edit(i) PROVE TypeOK'
  BY <1>10, ZatcaAssumption DEF Edit, Versions
<1>11. CASE UNCHANGED vars
  BY <1>11 DEF vars
<1> QED
  BY <1>1, <1>2, <1>3, <1>4, <1>5, <1>6, <1>7, <1>8, <1>9, <1>10, <1>11 DEF Next, Submit
-----------------------------------------------------------------------------
(* The chain of rows. *)

\* What an action that touches no row leaves as it was.
LEMMA RowsFrame ==
  ASSUME ChainInv, UNCHANGED <<rowVars, rehashed>>
  PROVE  /\ ChainInv'
         /\ \A i \in Invoices : RowCoords(i)' = RowCoords(i)
         /\ \A w \in Workers : coords'[w] = coords[w] /\ IsNext(coords[w]) => IsNext(coords[w])'
<1> USE DEF rowVars
<1>1. ChainInv'
  BY DEF ChainInv, InChain, Last, Linked
<1>2. \A i \in Invoices : RowCoords(i)' = RowCoords(i)
  BY DEF RowCoords
<1>3. \A w \in Workers : coords'[w] = coords[w] /\ IsNext(coords[w]) => IsNext(coords[w])'
  BY DEF IsNext, InChain, Last
<1> QED
  BY <1>1, <1>2, <1>3

\* A recorded row is the last one, and points at the one that was.
LEMMA RecordChain ==
  ASSUME TypeOK, ChainInv, WorkInv, NEW w \in Workers, Record(w),
         Insertable(job[w], coords[w].icv)
  PROVE  ChainInv'
<1> DEFINE i == job[w]
           n == coords[w].icv
<1>1. /\ i \in Invoices
      /\ n \in Nat
      /\ coords[w].prev \in Links
      /\ IsNext(coords[w])
  BY DEF Record, WorkInv, TypeOK
<1>2. /\ icv' = [icv EXCEPT ![i] = n]
      /\ prev' = [prev EXCEPT ![i] = coords[w].prev]
      /\ hash' = [hash EXCEPT ![i] = version[w]]
      /\ status' = [status EXCEPT ![i] = "PENDING"]
      /\ rehashed' = rehashed
  BY DEF Record
<1>3. icv[i] = 0 /\ \A j \in Invoices : icv[j] # n
  BY <1>1 DEF Insertable, ChainInv, TypeOK
<1>4. /\ icv \in [Invoices -> Nat] /\ prev \in [Invoices -> Links]
      /\ hash \in [Invoices -> Versions] /\ DOMAIN status = Invoices
  BY DEF TypeOK
<1>5. /\ n > 0
      /\ \A j \in Invoices : icv[j] < n
      /\ n = 1 => coords[w].prev = Genesis
      /\ n > 1 => \E j \in InChain :
             /\ icv[j] = n - 1 /\ coords[w].prev.invoice = j
             /\ coords[w].prev.version = hash[j] \/ j \in rehashed
  <2>1. CASE InChain = {} /\ coords[w] = Coords(1, Genesis)
    BY <1>4, <2>1 DEF InChain, Coords
  <2>2. ASSUME NEW j \in Last, n = icv[j] + 1, coords[w].prev.invoice = j,
               coords[w].prev.version = hash[j] \/ j \in rehashed
        PROVE  /\ n > 0
               /\ \A k \in Invoices : icv[k] < n
               /\ n = 1 => coords[w].prev = Genesis
               /\ n > 1 => \E k \in InChain :
                      /\ icv[k] = n - 1 /\ coords[w].prev.invoice = k
                      /\ coords[w].prev.version = hash[k] \/ k \in rehashed
    <3>1. /\ j \in InChain /\ icv[j] = n - 1 /\ n > 1
          /\ \A k \in Invoices : icv[k] < n
      BY <1>4, <2>2 DEF Last, InChain
    <3>2. n \in Nat /\ n > 0 /\ n # 1
      BY <1>1, <3>1
    <3>3. \E k \in InChain : /\ icv[k] = n - 1 /\ coords[w].prev.invoice = k
                             /\ coords[w].prev.version = hash[k] \/ k \in rehashed
      BY <2>2, <3>1
    <3>4. \A k \in Invoices : icv[k] < n
      BY <3>1
    <3> HIDE DEF n
    <3> QED
      BY <3>2, <3>3, <3>4
  <2> QED
    BY <1>1, <2>1, <2>2 DEF IsNext
<1> HIDE DEF n
<1>6. \A j \in Invoices : icv'[j] > 0 <=> status'[j] # "NONE"
  BY <1>1, <1>2, <1>4, <1>5 DEF ChainInv
<1>7. i \in Last'
  BY <1>1, <1>2, <1>4, <1>5 DEF Last
<1>8. Linked'
  <2> SUFFICES ASSUME NEW a \in InChain'
               PROVE  /\ \A b \in InChain' : icv'[a] = icv'[b] => a = b
                      /\ icv'[a] = 1 => prev'[a] = Genesis
                      /\ icv'[a] > 1 => \E j \in InChain' :
                           /\ icv'[j] = icv'[a] - 1 /\ prev'[a].invoice = j
                           /\ prev'[a].version = hash'[j] \/ j \in rehashed'
    BY DEF Linked
  <2>1. /\ InChain' = InChain \cup {i}
        /\ i \notin InChain
        /\ \A j \in InChain : icv'[j] = icv[j] /\ prev'[j] = prev[j] /\ hash'[j] = hash[j]
    BY <1>1, <1>2, <1>3, <1>4, <1>5 DEF InChain
  <2>2. icv'[i] = n /\ prev'[i] = coords[w].prev
    BY <1>1, <1>2, <1>4
  <2>3. InChain \subseteq Invoices
    BY DEF InChain
  <2> HIDE DEF i
  <2>4. CASE a = i
    BY <1>2, <1>4, <1>5, <2>1, <2>2, <2>3, <2>4
  <2>5. CASE a \in InChain
    <3>1. /\ \A b \in InChain : icv[a] = icv[b] => a = b
          /\ icv[a] = 1 => prev[a] = Genesis
          /\ icv[a] > 1 => \E j \in InChain :
                 /\ icv[j] = icv[a] - 1 /\ prev[a].invoice = j
                 /\ prev[a].version = hash[j] \/ j \in rehashed
      BY <2>5 DEF ChainInv, Linked
    <3> QED
      BY <1>2, <1>4, <1>5, <2>1, <2>2, <2>3, <2>5, <3>1
  <2> QED
    BY <2>1, <2>4, <2>5
<1> QED
  BY <1>6, <1>7, <1>8 DEF ChainInv

\* Reset and Settle write the status of a row that is there.
LEMMA StatusChain ==
  ASSUME TypeOK, ChainInv, NEW i \in Invoices, NEW v, icv[i] > 0, v # "NONE",
         status' = [status EXCEPT ![i] = v], UNCHANGED <<icv, hash, prev, rehashed>>
  PROVE  ChainInv'
<1>1. \A j \in Invoices : icv'[j] > 0 <=> status'[j] # "NONE"
  BY DEF TypeOK, ChainInv
<1> QED
  BY <1>1 DEF ChainInv, InChain, Last, Linked

\* Rehash leaves the places of the rows, and records the hash it changes.
LEMMA RehashChain ==
  ASSUME TypeOK, ChainInv, WorkInv, NEW w \in Workers, Rehash(w)
  PROVE  /\ ChainInv'
         /\ \A c : IsNext(c) => IsNext(c)'
<1>1. /\ job[w] \in Invoices
      /\ UNCHANGED <<icv, prev, status>>
      /\ InChain' = InChain /\ Last' = Last
  BY DEF Rehash, WorkInv, InChain, Last
<1>2. \A j \in Invoices : hash'[j] = hash[j] \/ j \in rehashed'
  BY <1>1 DEF Rehash, TypeOK
<1>3. rehashed \subseteq rehashed'
  BY DEF Rehash
<1>4. InChain \subseteq Invoices /\ Last \subseteq Invoices
  BY DEF InChain, Last
<1>5. Linked'
  BY <1>1, <1>2, <1>3, <1>4 DEF ChainInv, Linked
<1>6. \A c : IsNext(c) => IsNext(c)'
  BY <1>1, <1>2, <1>3, <1>4 DEF IsNext
<1> QED
  BY <1>1, <1>5, <1>6 DEF ChainInv

LEMMA OutcomeIsRow ==
  ASSUME TypeOK, ChainInv, WorkInv, NEW w \in Workers, Settle(w)
  PROVE  job[w] \in Invoices /\ icv[job[w]] > 0 /\ Outcome(w) # "NONE"
<1>1. job[w] \in Invoices /\ icv[job[w]] > 0
  BY DEF Settle, WorkInv
<1>2. status[job[w]] # "NONE"
  BY <1>1 DEF ChainInv
<1>3. answer[w] \in {"none", "ok", "refused"}
  BY DEF TypeOK
<1> QED
  BY <1>1, <1>2, <1>3 DEF Outcome

LEMMA ChainNext ==
  ASSUME TypeOK, ChainInv, WorkInv, [Next]_vars
  PROVE  ChainInv'
<1>1. CASE UNCHANGED <<rowVars, rehashed>>
  BY <1>1, RowsFrame
<1>2. ASSUME NEW w \in Workers, Record(w) PROVE ChainInv'
  <2>1. CASE Insertable(job[w], coords[w].icv)
    BY <1>2, <2>1, RecordChain
  <2>2. CASE ~Insertable(job[w], coords[w].icv)
    <3> UNCHANGED <<rowVars, rehashed>>
      BY <1>2, <2>2 DEF Record
    <3> QED
      BY <1>1
  <2> QED
    BY <2>1, <2>2
<1>3. ASSUME NEW w \in Workers, Reset(w) PROVE ChainInv'
  <2> job[w] \in Invoices /\ icv[job[w]] > 0
    BY <1>3 DEF Reset, WorkInv
  <2> QED
    BY <1>3, StatusChain DEF Reset
<1>4. ASSUME NEW w \in Workers, Rehash(w) PROVE ChainInv'
  BY <1>4, RehashChain
<1>5. ASSUME NEW w \in Workers, Settle(w) PROVE ChainInv'
  BY <1>5, OutcomeIsRow, StatusChain DEF Settle
<1>6. CASE \E w \in Workers : Lookup(w) \/ Allocate(w) \/ Accept(w) \/ Refuse(w) \/ Lose(w)
                              \/ Crash(w) \/ \E i \in Invoices : Load(w, i)
  BY <1>6, <1>1 DEF Lookup, Allocate, Accept, Refuse, Lose, Crash, Load
<1>7. CASE \E i \in Invoices : Edit(i)
  BY <1>7, <1>1 DEF Edit
<1>8. CASE UNCHANGED vars
  BY <1>8, <1>1 DEF vars
<1> QED
  BY <1>2, <1>3, <1>4, <1>5, <1>6, <1>7, <1>8 DEF Next, Submit
-----------------------------------------------------------------------------
(* What the workers hold. *)

\* An action of one worker that touches no row leaves the others what they had.
LEMMA OthersFrame ==
  ASSUME TypeOK, ChainInv, WorkInv, UNCHANGED <<rowVars, rehashed>>,
         NEW w \in Workers, NEW v \in Workers, v # w,
         pc'[v] = pc[v], job'[v] = job[v], coords'[v] = coords[v],
         lock' = v <=> lock = v
  PROVE  /\ lock' = v <=> pc'[v] = "numbered"
         /\ pc'[v] # "idle" => job'[v] \in Invoices
         /\ pc'[v] = "idle" => job'[v] = NoInvoice
         /\ pc'[v] = "numbered" => IsNext(coords[v])'
         /\ pc'[v] \in {"reset", "again", "ready", "answered"} => icv'[job'[v]] > 0
         /\ pc'[v] \in {"reset", "again", "ready"} => coords'[v] = RowCoords(job[v])'
<1>1. /\ icv' = icv /\ prev' = prev
      /\ RowCoords(job[v])' = RowCoords(job[v])
      /\ IsNext(coords[v]) => IsNext(coords[v])'
  BY RowsFrame DEF rowVars, RowCoords
<1> QED
  BY <1>1 DEF WorkInv

LEMMA WorkNext ==
  ASSUME TypeOK, ChainInv, WorkInv, [Next]_vars
  PROVE  WorkInv'
<1> DEFINE W(v) ==
      /\ lock = v <=> pc[v] = "numbered"
      /\ pc[v] # "idle" => job[v] \in Invoices
      /\ pc[v] = "idle" => job[v] = NoInvoice
      /\ pc[v] = "numbered" => IsNext(coords[v])
      /\ pc[v] \in {"reset", "again", "ready", "answered"} => icv[job[v]] > 0
      /\ pc[v] \in {"reset", "again", "ready"} => coords[v] = RowCoords(job[v])
<1> SUFFICES ASSUME NEW v \in Workers PROVE W(v)'
  BY DEF WorkInv
<1>a. W(v) /\ \A w \in Workers : W(w)
  BY DEF WorkInv
<1>t. /\ DOMAIN pc = Workers /\ DOMAIN job = Workers /\ DOMAIN coords = Workers
      /\ icv \in [Invoices -> Nat] /\ prev \in [Invoices -> Links]
      /\ lock \in Workers \cup {NoWorker} /\ NoWorker \notin Workers
  BY ZatcaAssumption DEF TypeOK
<1>b. ASSUME NEW w \in Workers, v # w, UNCHANGED <<rowVars, rehashed>>,
             pc'[v] = pc[v], job'[v] = job[v], coords'[v] = coords[v], lock' = v <=> lock = v
      PROVE  W(v)'
  BY <1>b, OthersFrame
<1>1. ASSUME NEW w \in Workers, NEW i \in Invoices, Load(w, i) PROVE W(v)'
  <2>1. CASE v = w
    BY <1>1, <1>a, <1>t, <2>1 DEF Load, Goto
  <2>2. CASE v # w
    BY <1>1, <1>b, <1>t, <2>2 DEF Load, Goto
  <2> QED
    BY <2>1, <2>2
<1>2. ASSUME NEW w \in Workers, Lookup(w) PROVE W(v)'
  <2>1. CASE v = w /\ Found(job[w]) = "idle"
    BY <1>2, <1>a, <1>t, <2>1 DEF Lookup, Stop
  <2>2. CASE v = w /\ Found(job[w]) # "idle"
    <3>1. job[w] \in Invoices
      BY <1>2, <1>a DEF Lookup
    <3>2. /\ pc'[w] = Found(job[w]) /\ job'[w] = job[w] /\ lock' = lock
          /\ Found(job[w]) # "first" => coords'[w] = RowCoords(job[w])
      BY <1>2, <1>t, <2>2 DEF Lookup, Goto
    <3>3. /\ Found(job[w]) \in {"first", "again", "reset"}
          /\ Found(job[w]) # "first" => icv[job[w]] > 0
      BY <2>2, <3>1 DEF Found, ChainInv, TypeOK
    <3>4. icv' = icv /\ RowCoords(job[w])' = RowCoords(job'[w])
      BY <1>2, <3>2 DEF Lookup, rowVars, RowCoords
    <3>5. lock # w
      BY <1>2, <1>a DEF Lookup
    <3> QED
      BY <2>2, <3>1, <3>2, <3>3, <3>4, <3>5
  <2>3. CASE v # w
    BY <1>2, <1>b, <1>t, <2>3 DEF Lookup, Stop, Goto
  <2> QED
    BY <2>1, <2>2, <2>3
<1>3. ASSUME NEW w \in Workers, Allocate(w) PROVE W(v)'
  <2>1. CASE v = w
    <3>1. /\ pc'[w] = "numbered" /\ lock' = w /\ job' = job /\ coords'[w] = NextEntry
          /\ job[w] \in Invoices
      BY <1>3, <1>a, <1>t DEF Allocate, Goto
    <3>2. IsNext(NextEntry)
      BY NextEntryIsNext
    <3>3. IsNext(coords[w])'
      BY <1>3, <3>1, <3>2 DEF Allocate, rowVars, IsNext, InChain, Last
    <3> QED
      BY <2>1, <3>1, <3>3
  <2>2. CASE v # w
    <3> lock' = v <=> lock = v
      BY <1>3, <1>t, <2>2 DEF Allocate
    <3> QED
      BY <1>3, <1>b, <1>t, <2>2 DEF Allocate, Goto
  <2> QED
    BY <2>1, <2>2
<1>4. ASSUME NEW w \in Workers, Record(w) PROVE W(v)'
  <2>1. /\ job[w] \in Invoices /\ lock = w /\ lock' = NoWorker
        /\ pc[w] = "numbered" /\ IsNext(coords[w])
    BY <1>4, <1>a DEF Record
  <2>2. CASE ~Insertable(job[w], coords[w].icv)
    <3>1. UNCHANGED <<rowVars, rehashed>> /\ Stop(w)
      BY <1>4, <2>2 DEF Record
    <3>2. CASE v = w
      BY <1>t, <2>1, <3>1, <3>2 DEF Stop
    <3>3. CASE v # w
      BY <1>b, <1>t, <2>1, <3>1, <3>3 DEF Stop
    <3> QED
      BY <3>2, <3>3
  <2>3. CASE Insertable(job[w], coords[w].icv)
    <3>1. /\ icv' = [icv EXCEPT ![job[w]] = coords[w].icv]
          /\ prev' = [prev EXCEPT ![job[w]] = coords[w].prev]
          /\ pc' = [pc EXCEPT ![w] = "ready"]
          /\ UNCHANGED <<job, coords>>
      BY <1>4, <2>3 DEF Record, Goto
    <3>2. icv[job[w]] = 0 /\ coords[w] \in [icv : Nat, prev : Links]
      BY <2>1, <2>3 DEF Insertable, ChainInv, TypeOK
    <3>3. CASE v = w
      <4>1. coords[w].icv > 0
        BY <1>t, <2>1 DEF IsNext, Coords, Last
      <4>2. RowCoords(job[w])' = coords[w]
        BY <1>t, <2>1, <3>1, <3>2 DEF RowCoords, Coords
      <4> QED
        BY <1>t, <2>1, <3>1, <3>3, <4>1, <4>2 DEF RowCoords
    <3>4. CASE v # w
      <4>1. pc[v] # "numbered"
        BY <1>a, <2>1, <3>4
      <4>2. CASE pc[v] \in {"reset", "again", "ready", "answered"}
        <5>1. job[v] \in Invoices /\ icv[job[v]] > 0 /\ job[v] # job[w]
          BY <1>a, <3>2, <4>2
        <5>2. RowCoords(job[v])' = RowCoords(job[v]) /\ icv'[job[v]] = icv[job[v]]
          BY <1>t, <2>1, <3>1, <5>1 DEF RowCoords
        <5> QED
          BY <1>a, <1>t, <2>1, <3>1, <3>4, <4>2, <5>1, <5>2 DEF RowCoords
      <4> QED
        BY <1>a, <1>t, <2>1, <3>1, <3>4, <4>1, <4>2
    <3> QED
      BY <3>3, <3>4
  <2> QED
    BY <2>2, <2>3
<1>5. ASSUME NEW w \in Workers, Reset(w) PROVE W(v)'
  <2>1. IsNext(coords[v])' <=> IsNext(coords[v])
    BY <1>5 DEF Reset, IsNext, InChain, Last
  <2> QED
    BY <1>5, <1>a, <1>t, <2>1 DEF Reset, Goto, RowCoords
<1>6. ASSUME NEW w \in Workers, Rehash(w) PROVE W(v)'
  <2>1. IsNext(coords[v]) => IsNext(coords[v])'
    BY <1>6, RehashChain DEF Rehash, IsNext
  <2> QED
    BY <1>6, <1>a, <1>t, <2>1 DEF Rehash, Goto, RowCoords
<1>7. ASSUME NEW w \in Workers, Accept(w) \/ Refuse(w) \/ Lose(w) PROVE W(v)'
  <2>1. /\ pc[w] = "ready" /\ pc' = [pc EXCEPT ![w] = "answered"]
        /\ coords' = [coords EXCEPT ![w] = NoCoords]
        /\ UNCHANGED <<rowVars, lock, job, rehashed>>
    BY <1>7 DEF Accept, Refuse, Lose, Answer, Goto
  <2>2. CASE v = w
    BY <1>a, <1>t, <2>1, <2>2 DEF rowVars
  <2>3. CASE v # w
    BY <1>b, <1>t, <2>1, <2>3
  <2> QED
    BY <2>2, <2>3
<1>8. ASSUME NEW w \in Workers, Settle(w) PROVE W(v)'
  <2>1. IsNext(coords[v])' <=> IsNext(coords'[v])
    BY <1>8 DEF Settle, IsNext, InChain, Last
  <2> QED
    BY <1>8, <1>a, <1>t, <2>1 DEF Settle, Stop, RowCoords
<1>9. ASSUME NEW w \in Workers, Crash(w) PROVE W(v)'
  <2>1. CASE v = w
    BY <1>9, <1>a, <1>t, <2>1 DEF Crash, Stop
  <2>2. CASE v # w
    <3> lock' = v <=> lock = v
      BY <1>9, <1>t, <2>2 DEF Crash
    <3> QED
      BY <1>9, <1>b, <1>t, <2>2 DEF Crash, Stop
  <2> QED
    BY <2>1, <2>2
<1>10. CASE UNCHANGED <<rowVars, lock, workVars, rehashed>>
  BY <1>10, <1>a, RowsFrame DEF workVars, rowVars, IsNext, InChain, Last, RowCoords
<1> QED
  BY <1>1, <1>2, <1>3, <1>4, <1>5, <1>6, <1>7, <1>8, <1>9, <1>10
  DEF Next, Submit, Edit, vars
-----------------------------------------------------------------------------
(* What ZATCA registered. *)

LEMMA RegNext ==
  ASSUME TypeOK, ChainInv, WorkInv, RegInv, [Next]_vars
  PROVE  RegInv'
<1> SUFFICES ASSUME NEW i \in Invoices, registered'[i] # Nothing
             PROVE  icv'[i] > 0 /\ registered'[i].icv = icv'[i] /\ registered'[i].prev = prev'[i]
  BY DEF RegInv
<1>t. /\ icv \in [Invoices -> Nat] /\ prev \in [Invoices -> Links]
      /\ DOMAIN registered = Invoices
  BY DEF TypeOK
<1>1. CASE UNCHANGED <<icv, prev, registered>>
  BY <1>1 DEF RegInv
<1>2. ASSUME NEW w \in Workers, Accept(w) \/ Lose(w), registered' # registered
      PROVE  icv'[i] > 0 /\ registered'[i].icv = icv'[i] /\ registered'[i].prev = prev'[i]
  <2>1. Register(w) /\ pc[w] = "ready" /\ UNCHANGED <<icv, prev>>
    BY <1>2 DEF Accept, Lose, rowVars
  <2>2. icv[job[w]] > 0 /\ coords[w] = RowCoords(job[w])
    BY <2>1 DEF WorkInv
  <2> QED
    BY <1>t, <2>1, <2>2 DEF Register, RegInv, RowCoords, Coords
<1>3. ASSUME NEW w \in Workers, Record(w), Insertable(job[w], coords[w].icv)
      PROVE  icv'[i] > 0 /\ registered'[i].icv = icv'[i] /\ registered'[i].prev = prev'[i]
  <2>1. job[w] \in Invoices /\ icv[job[w]] = 0
    BY <1>3, <1>t DEF Record, WorkInv, Insertable, ChainInv
  <2>2. /\ icv' = [icv EXCEPT ![job[w]] = coords[w].icv]
        /\ prev' = [prev EXCEPT ![job[w]] = coords[w].prev]
        /\ registered' = registered
    BY <1>3 DEF Record
  <2>3. icv[i] > 0 /\ registered[i].icv = icv[i] /\ registered[i].prev = prev[i]
    BY <2>2 DEF RegInv
  <2> QED
    BY <1>t, <2>1, <2>2, <2>3
<1>4. ASSUME NEW w \in Workers, Record(w) PROVE UNCHANGED <<icv, prev, registered>>
                                                \/ Insertable(job[w], coords[w].icv)
  BY <1>4 DEF Record, rowVars
<1>5. CASE \E w \in Workers : Lookup(w) \/ Allocate(w) \/ Reset(w) \/ Rehash(w) \/ Refuse(w)
                              \/ Settle(w) \/ Crash(w) \/ \E j \in Invoices : Load(w, j)
  BY <1>5, <1>1 DEF Lookup, Allocate, Reset, Rehash, Refuse, Settle, Crash, Load, rowVars
<1>6. ASSUME NEW w \in Workers, Accept(w) \/ Lose(w), registered' = registered
      PROVE  UNCHANGED <<icv, prev, registered>>
  BY <1>6 DEF Accept, Lose, rowVars
<1> QED
  BY <1>1, <1>2, <1>3, <1>4, <1>5, <1>6 DEF Next, Submit, Edit, vars, rowVars
-----------------------------------------------------------------------------
(* What the answers say. *)

\* The part of AnswerInv that is about one worker.
Told(w) ==
  /\ pc[w] = "answered" /\ answer[w] = "ok" => registered[job[w]] # Nothing
  /\ pc[w] = "answered" /\ answer[w] = "refused" /\ job[w] \notin crossed =>
        registered[job[w]] = Nothing
  /\ pc[w] \in {"again", "ready", "answered"} /\ job[w] \notin crossed =>
        status[job[w]] = "PENDING"

\* Two workers at one invoice have crossed it.
LEMMA CrossedNext ==
  ASSUME TypeOK, WorkInv, AnswerInv, [Next]_vars
  PROVE  /\ \A v, w \in Workers : v # w /\ pc'[v] # "idle" /\ job'[v] = job'[w] =>
               job'[v] \in crossed'
         /\ crossed \subseteq crossed'
<1>t. /\ DOMAIN pc = Workers /\ DOMAIN job = Workers
      /\ NoInvoice \notin Invoices
      /\ \A w \in Workers : pc[w] = "idle" => job[w] = NoInvoice
      /\ \A w \in Workers : pc[w] # "idle" => job[w] \in Invoices
      /\ \A v, w \in Workers : v # w /\ pc[v] # "idle" /\ job[v] = job[w] => job[v] \in crossed
  BY ZatcaAssumption DEF TypeOK, WorkInv, AnswerInv
<1>1. CASE \E w \in Workers, i \in Invoices : Load(w, i)
  <2>1. PICK w \in Workers, i \in Invoices : Load(w, i)
    BY <1>1
  <2>2. /\ pc' = [pc EXCEPT ![w] = "loaded"] /\ job' = [job EXCEPT ![w] = i]
        /\ crossed' = IF \E v \in Workers : job[v] = i THEN crossed \cup {i} ELSE crossed
        /\ pc[w] = "idle"
    BY <2>1 DEF Load, Goto
  <2> QED
    BY <1>t, <2>2
<1>2. ASSUME NEW w \in Workers, Stop(w), crossed' = crossed
      PROVE  /\ \A u, v \in Workers : u # v /\ pc'[u] # "idle" /\ job'[u] = job'[v] =>
                   job'[u] \in crossed'
             /\ crossed \subseteq crossed'
  BY <1>t, <1>2 DEF Stop
<1>3. ASSUME NEW w \in Workers, NEW l, Goto(w, l), pc[w] # "idle", UNCHANGED <<job, crossed>>
      PROVE  /\ \A u, v \in Workers : u # v /\ pc'[u] # "idle" /\ job'[u] = job'[v] =>
                   job'[u] \in crossed'
             /\ crossed \subseteq crossed'
  BY <1>t, <1>3 DEF Goto
<1>4. CASE UNCHANGED <<pc, job, crossed>>
  BY <1>t, <1>4
<1>5. ASSUME NEW w \in Workers, Submit(w) \/ Lose(w) \/ Crash(w)
      PROVE  \/ Stop(w) /\ crossed' = crossed
             \/ \E l : Goto(w, l) /\ pc[w] # "idle" /\ UNCHANGED <<job, crossed>>
  <2>1. CASE Lookup(w)
    BY <2>1 DEF Lookup
  <2>2. CASE Record(w)
    BY <2>2 DEF Record
  <2>3. CASE Allocate(w) \/ Reset(w) \/ Rehash(w)
    BY <2>3 DEF Allocate, Reset, Rehash
  <2>4. CASE Accept(w) \/ Refuse(w) \/ Lose(w)
    BY <2>4 DEF Accept, Refuse, Lose, Answer
  <2>5. CASE Settle(w) \/ Crash(w)
    BY <2>5 DEF Settle, Crash
  <2> QED
    BY <1>5, <2>1, <2>2, <2>3, <2>4, <2>5 DEF Submit
<1> QED
  BY <1>1, <1>2, <1>3, <1>4, <1>5 DEF Next, Edit, vars, workVars

\* A step of another worker says nothing else of an invoice that is not crossed.
LEMMA ToldNext ==
  ASSUME TypeOK, ChainInv, WorkInv, AnswerInv, [Next]_vars, NEW v \in Workers
  PROVE  Told(v)'
<1>t. /\ DOMAIN pc = Workers /\ DOMAIN job = Workers /\ DOMAIN answer = Workers
      /\ DOMAIN registered = Invoices /\ DOMAIN status = Invoices
      /\ coords[v] \in [icv : Nat, prev : Links]
  BY DEF TypeOK
<1>a. Told(v) /\ \A w \in Workers : Told(w)
  BY DEF AnswerInv, Told
<1>b. \A w \in Workers : w # v /\ pc[v] # "idle" /\ job[w] = job[v] => job[v] \in crossed
  BY DEF AnswerInv
<1>c. crossed \subseteq crossed'
  BY CrossedNext
<1>d. pc[v] # "idle" => job[v] \in Invoices
  BY DEF WorkInv
<1>1. ASSUME NEW w \in Workers, NEW i \in Invoices, Load(w, i) PROVE Told(v)'
  BY <1>1, <1>a, <1>c, <1>t DEF Load, Goto, Told, rowVars
<1>2. ASSUME NEW w \in Workers, Lookup(w) PROVE Told(v)'
  <2>1. CASE Found(job[w]) = "idle"
    BY <1>2, <1>a, <1>t, <2>1 DEF Lookup, Stop, Told, rowVars
  <2>2. CASE Found(job[w]) # "idle"
    <3>1. /\ pc' = [pc EXCEPT ![w] = Found(job[w])]
          /\ UNCHANGED <<job, answer, registered, status, crossed>>
      BY <1>2, <2>2 DEF Lookup, Goto, rowVars
    <3>2. \/ Found(job[w]) \in {"first", "reset"}
          \/ Found(job[w]) = "again" /\ status[job[w]] = "PENDING"
      <4>1. job[w] \in Invoices
        BY <1>2 DEF Lookup, WorkInv
      <4>2. status[job[w]] \in {"NONE", "PENDING", "SETTLED", "REJECTED"}
        BY <4>1 DEF TypeOK
      <4> QED
        BY <2>2, <4>2 DEF Found
    <3> QED
      BY <1>a, <1>t, <3>1, <3>2 DEF Told
  <2> QED
    BY <2>1, <2>2
<1>3. ASSUME NEW w \in Workers, Allocate(w) PROVE Told(v)'
  BY <1>3, <1>a, <1>t DEF Allocate, Goto, Told, rowVars
<1>4. ASSUME NEW w \in Workers, Record(w) PROVE Told(v)'
  <2>1. CASE ~Insertable(job[w], coords[w].icv)
    BY <1>4, <1>a, <1>t, <2>1 DEF Record, Stop, Told, rowVars
  <2>2. CASE Insertable(job[w], coords[w].icv)
    <3>1. /\ pc' = [pc EXCEPT ![w] = "ready"]
          /\ status' = [status EXCEPT ![job[w]] = "PENDING"]
          /\ UNCHANGED <<job, answer, registered, crossed>>
      BY <1>4, <2>2 DEF Record, Goto
    <3> QED
      BY <1>4, <1>a, <1>d, <1>t, <3>1 DEF Told, Record
  <2> QED
    BY <2>1, <2>2
<1>5. ASSUME NEW w \in Workers, Reset(w) PROVE Told(v)'
  BY <1>5, <1>a, <1>d, <1>t DEF Reset, Goto, Told
<1>6. ASSUME NEW w \in Workers, Rehash(w) PROVE Told(v)'
  BY <1>6, <1>a, <1>t DEF Rehash, Goto, Told
<1>7. ASSUME NEW w \in Workers, Accept(w) \/ Refuse(w) \/ Lose(w) PROVE Told(v)'
  <2>1. /\ pc[w] = "ready" /\ pc' = [pc EXCEPT ![w] = "answered"]
        /\ UNCHANGED <<job, status, crossed>>
    BY <1>7 DEF Accept, Refuse, Lose, Answer, Goto, rowVars
  <2>2. \A i \in Invoices : i # job[w] => registered'[i] = registered[i]
    BY <1>7, <1>t DEF Accept, Refuse, Lose, Register
  <2>3. \A i \in Invoices : registered[i] # Nothing => registered'[i] # Nothing
    BY <1>7, <1>t DEF Accept, Refuse, Lose, Register
  <2>4. CASE v # w
    <3>1. pc'[v] = pc[v] /\ answer'[v] = answer[v]
      BY <1>7, <1>t, <2>1, <2>4 DEF Accept, Refuse, Lose, Answer
    <3> QED
      BY <1>a, <1>b, <1>d, <2>1, <2>2, <2>3, <2>4, <3>1 DEF Told
  <2>5. CASE v = w
    <3>1. job[w] \in Invoices /\ icv[job[w]] > 0 /\ coords[w] = RowCoords(job[w])
      BY <2>1 DEF WorkInv
    <3>2. Accept(w) => registered'[job[w]] # Nothing
      BY <1>t, <3>1 DEF Accept, Register, Nothing, RowCoords, Coords, TypeOK
    <3>3. CASE Accept(w)
      BY <1>a, <1>t, <2>1, <2>5, <3>1, <3>2, <3>3 DEF Accept, Answer, Told
    <3>4. CASE Refuse(w)
      BY <1>a, <1>t, <2>1, <2>5, <3>1, <3>4 DEF Refuse, Answer, Told
    <3>5. CASE Lose(w)
      BY <1>a, <1>t, <2>1, <2>5, <3>1, <3>5 DEF Lose, Answer, Told
    <3> QED
      BY <1>7, <3>3, <3>4, <3>5
  <2> QED
    BY <2>4, <2>5
<1>8. ASSUME NEW w \in Workers, Settle(w) PROVE Told(v)'
  <2>1. CASE v = w
    BY <1>8, <1>t, <2>1 DEF Settle, Stop, Told
  <2>2. CASE v # w
    <3>1. /\ pc'[v] = pc[v] /\ job'[v] = job[v] /\ answer'[v] = answer[v]
          /\ UNCHANGED <<registered, crossed>>
          /\ \A i \in Invoices : i # job[w] => status'[i] = status[i]
      BY <1>8, <1>t, <2>2 DEF Settle, Stop
    <3> QED
      BY <1>a, <1>b, <1>d, <2>2, <3>1 DEF Told
  <2> QED
    BY <2>1, <2>2
<1>9. ASSUME NEW w \in Workers, Crash(w) PROVE Told(v)'
  BY <1>9, <1>a, <1>t DEF Crash, Stop, Told, rowVars
<1>10. CASE UNCHANGED <<rowVars, workVars, registered, crossed>>
  BY <1>10, <1>a DEF Told, rowVars, workVars
<1> QED
  BY <1>1, <1>2, <1>3, <1>4, <1>5, <1>6, <1>7, <1>8, <1>9, <1>10
  DEF Next, Submit, Edit, vars

LEMMA StatusNext ==
  ASSUME TypeOK, ChainInv, WorkInv, AnswerInv, [Next]_vars
  PROVE  StatusTellsZatca'
<1> SUFFICES ASSUME NEW i \in Invoices
             PROVE  /\ status'[i] = "SETTLED" => registered'[i] # Nothing
                    /\ status'[i] = "REJECTED" /\ i \notin crossed' => registered'[i] = Nothing
  BY DEF StatusTellsZatca
<1>t. DOMAIN registered = Invoices /\ DOMAIN status = Invoices
  BY DEF TypeOK
<1>a. /\ status[i] = "SETTLED" => registered[i] # Nothing
      /\ status[i] = "REJECTED" /\ i \notin crossed => registered[i] = Nothing
      /\ \A w \in Workers : Told(w)
  BY DEF AnswerInv, StatusTellsZatca, Told
<1>b. crossed \subseteq crossed'
  BY CrossedNext
<1>1. ASSUME registered' = registered, status'[i] \in {status[i], "PENDING"}
      PROVE  /\ status'[i] = "SETTLED" => registered'[i] # Nothing
             /\ status'[i] = "REJECTED" /\ i \notin crossed' => registered'[i] = Nothing
  BY <1>1, <1>a, <1>b
<1>2. ASSUME NEW w \in Workers, Accept(w) \/ Lose(w)
      PROVE  /\ status'[i] = "SETTLED" => registered'[i] # Nothing
             /\ status'[i] = "REJECTED" /\ i \notin crossed' => registered'[i] = Nothing
  <2>1. pc[w] = "ready" /\ status' = status
    BY <1>2 DEF Accept, Lose, rowVars
  <2>2. i # job[w] => registered'[i] = registered[i]
    BY <1>2, <1>t DEF Accept, Lose, Register
  <2>3. registered[i] # Nothing => registered'[i] # Nothing
    BY <1>2, <1>t DEF Accept, Lose, Register
  <2> QED
    BY <1>a, <1>b, <2>1, <2>2, <2>3 DEF Told
<1>3. ASSUME NEW w \in Workers, Settle(w)
      PROVE  /\ status'[i] = "SETTLED" => registered'[i] # Nothing
             /\ status'[i] = "REJECTED" /\ i \notin crossed' => registered'[i] = Nothing
  <2>1. /\ pc[w] = "answered" /\ registered' = registered
        /\ status' = [status EXCEPT ![job[w]] = Outcome(w)]
    BY <1>3 DEF Settle
  <2>2. answer[w] \in {"none", "ok", "refused"}
    BY DEF TypeOK
  <2>3. CASE i # job[w]
    BY <1>1, <1>t, <2>1, <2>3
  <2>4. CASE i = job[w]
    BY <1>a, <1>b, <1>t, <2>1, <2>2, <2>4 DEF Outcome, Told
  <2> QED
    BY <2>3, <2>4
<1>4. ASSUME NEW w \in Workers, Record(w) \/ Reset(w)
      PROVE  registered' = registered /\ status'[i] \in {status[i], "PENDING"}
  BY <1>4, <1>t DEF Record, Reset, rowVars
<1>5. ASSUME NEW w \in Workers, \/ Lookup(w) \/ Allocate(w) \/ Rehash(w) \/ Refuse(w) \/ Crash(w)
                               \/ \E j \in Invoices : Load(w, j)
      PROVE  registered' = registered /\ status'[i] = status[i]
  BY <1>5 DEF Lookup, Allocate, Rehash, Refuse, Crash, Load, rowVars
<1> QED
  BY <1>1, <1>2, <1>3, <1>4, <1>5 DEF Next, Submit, Edit, vars, rowVars

LEMMA ZatcaNext ==
  TypeOK /\ IInv /\ [Next]_vars => (TypeOK /\ IInv)'
<1> SUFFICES ASSUME TypeOK, ChainInv, WorkInv, RegInv, AnswerInv, [Next]_vars
             PROVE  TypeOK' /\ ChainInv' /\ WorkInv' /\ RegInv' /\ AnswerInv'
  BY DEF IInv
<1>1. TypeOK'
  BY ZatcaTypeNext
<1>2. ChainInv'
  BY ChainNext
<1>3. WorkInv'
  BY WorkNext
<1>4. RegInv'
  BY RegNext
<1>5. AnswerInv'
  BY CrossedNext, ToldNext, StatusNext DEF AnswerInv, Told
<1> QED
  BY <1>1, <1>2, <1>3, <1>4, <1>5

LEMMA ZatcaInductive == Spec => [](TypeOK /\ IInv)
<1>1. Init => TypeOK /\ IInv
  BY ZatcaInit
<1>2. TypeOK /\ IInv /\ [Next]_vars => (TypeOK /\ IInv)'
  BY ZatcaNext
<1> QED
  BY <1>1, <1>2, PTL DEF Spec
-----------------------------------------------------------------------------
(* Theorems. *)

\* The rows, the workers and the registrations have their types in every
\* behaviour: zatca-hash-chain.ts and zatca-submission.ts.
THEOREM ZatcaTypeCorrect == Spec => []TypeOK
BY ZatcaInductive, PTL

\* The chain has no gap and no fork: the transaction of submitToZatca that
\* reads the last row under the advisory lock and writes the next one makes each
\* row point at the one before it.
THEOREM ChainIsLinked == Spec => []Linked
<1>1. IInv => Linked
  BY DEF IInv, ChainInv
<1> QED
  BY <1>1, ZatcaInductive, PTL

\* What ZATCA registered is recorded at the place it was registered with, and no
\* two invoices share one, although submitToZatca looks for the row before it
\* takes the lock, and a row is sent more than once.
THEOREM RegisteredPlacesAreRecorded == Spec => []RegisteredIsRecorded
<1>1. TypeOK /\ IInv => RegisteredIsRecorded
  <2> SUFFICES ASSUME TypeOK, ChainInv, RegInv, NEW i \in Invoices, registered[i] # Nothing
               PROVE  /\ icv[i] = registered[i].icv /\ prev[i] = registered[i].prev
                      /\ \A j \in Invoices : registered[j].icv = registered[i].icv => i = j
    BY DEF IInv, RegisteredIsRecorded
  <2>1. icv[i] > 0 /\ icv[i] = registered[i].icv /\ prev[i] = registered[i].prev
    BY DEF RegInv
  <2>2. ASSUME NEW j \in Invoices, registered[j].icv = registered[i].icv PROVE i = j
    <3>1. icv[i] \in Nat /\ Nothing.icv = 0
      BY DEF TypeOK, Nothing
    <3>2. registered[j] # Nothing
      BY <2>1, <2>2, <3>1
    <3>3. icv[j] = icv[i] /\ i \in InChain /\ j \in InChain
      BY <2>1, <2>2, <3>2 DEF RegInv, InChain
    <3> QED
      BY <3>3 DEF ChainInv, Linked
  <2> QED
    BY <2>1, <2>2
<1> QED
  BY <1>1, ZatcaInductive, PTL

\* The status of a row agrees with what ZATCA registered, whatever answers are
\* lost: submitAndSettle writes what it was told and keeps the status otherwise.
THEOREM StatusAgreesWithZatca == Spec => []StatusTellsZatca
<1>1. IInv => StatusTellsZatca
  BY DEF IInv, AnswerInv
<1> QED
  BY <1>1, ZatcaInductive, PTL
-----------------------------------------------------------------------------
(* The chain is a register. *)

SettledRows == {i \in Invoices : status[i] = "SETTLED"}

LEMMA RegisterInit == Init => Promise!Init
BY DEF Init, Promise!Init, Promise!Start, Promise!Unknown, Genesis, Link, Nothing

\* A step that changes the status of one row settles it, reopens it, or neither.
LEMMA StatusStep ==
  ASSUME TypeOK, NEW i \in Invoices, NEW s, status' = [status EXCEPT ![i] = s],
         UNCHANGED <<icv, prev, registered>>, s = "SETTLED" => registered[i] # Nothing
  PROVE  [Promise!Next]_(Promise!avars)
<1>1. DOMAIN status = Invoices
  BY DEF TypeOK
<1>2. CASE s = "SETTLED"
  <2>1. SettledRows' = SettledRows \cup {i}
    BY <1>1, <1>2 DEF SettledRows
  <2>2. Promise!Settle(i)
    BY <1>2, <2>1 DEF Promise!Settle, Promise!Unknown, Promise!Start, SettledRows, Nothing, Genesis, Link
  <2> QED
    BY <2>2 DEF Promise!Next
<1>3. CASE s # "SETTLED"
  <2>1. SettledRows' = SettledRows \ {i}
    BY <1>1, <1>3 DEF SettledRows
  <2>2. Promise!Reopen(i)
    BY <2>1 DEF Promise!Reopen, SettledRows
  <2> QED
    BY <2>2 DEF Promise!Next
<1> QED
  BY <1>2, <1>3

\* ZATCA learns the place of a row, or nothing new.
LEMMA RegisterStep ==
  ASSUME TypeOK, WorkInv, NEW w \in Workers, pc[w] = "ready", Register(w), UNCHANGED rowVars
  PROVE  [Promise!Next]_(Promise!avars)
<1> DEFINE i == job[w]
           entry == [icv |-> icv[i], prev |-> prev[i], version |-> version[w]]
<1>1. i \in Invoices /\ icv[i] > 0 /\ coords[w] = RowCoords(i) /\ version[w] \in Versions
  BY DEF WorkInv, TypeOK
<1>2. DOMAIN registered = Invoices /\ SettledRows' = SettledRows
  BY DEF TypeOK, SettledRows, rowVars
<1>3. registered' = [registered EXCEPT ![i] = IF registered[i] = Nothing THEN entry ELSE registered[i]]
  BY <1>1 DEF Register, RowCoords, Coords
<1> HIDE DEF i, entry
<1>4. CASE registered[i] = Nothing
  <2>1. registered' = [registered EXCEPT ![i] = entry]
    BY <1>3, <1>4
  <2>2. Promise!Report(i, version[w])
    BY <1>1, <1>2, <1>4, <2>1 DEF Promise!Report, Promise!Entered, Promise!Unknown, Promise!Start,
       Nothing, Genesis, Link, rowVars, SettledRows, entry
  <2> QED
    BY <1>1, <2>2 DEF Promise!Next
<1>5. CASE registered[i] # Nothing
  <2>1. registered' = registered
    <3>1. registered' = [registered EXCEPT ![i] = registered[i]]
      BY <1>3, <1>5
    <3>2. registered = [j \in Invoices |-> registered[j]]
      BY DEF TypeOK
    <3> QED
      BY <1>1, <3>1, <3>2
  <2> QED
    BY <1>2, <2>1 DEF Promise!avars, rowVars, SettledRows
<1> QED
  BY <1>4, <1>5

\* The row that is recorded under the lock enters behind the last one.
LEMMA RecordStep ==
  ASSUME TypeOK, ChainInv, WorkInv, NEW w \in Workers, Record(w)
  PROVE  [Promise!Next]_(Promise!avars)
<1> DEFINE i == job[w]
<1>1. CASE ~Insertable(i, coords[w].icv)
  BY <1>1 DEF Record, rowVars, Promise!avars
<1>2. CASE Insertable(i, coords[w].icv)
  <2>1. /\ i \in Invoices /\ IsNext(coords[w]) /\ icv[i] = 0 /\ status[i] = "NONE"
        /\ coords[w].prev \in Links
    BY <1>2 DEF Record, WorkInv, Insertable, ChainInv, TypeOK
  <2>2. /\ icv' = [icv EXCEPT ![i] = coords[w].icv]
        /\ prev' = [prev EXCEPT ![i] = coords[w].prev]
        /\ status' = [status EXCEPT ![i] = "PENDING"]
        /\ registered' = registered
    BY <1>2 DEF Record
  <2> HIDE DEF i
  <2>3. SettledRows' = SettledRows
    BY <2>1, <2>2 DEF SettledRows, TypeOK
  <2>4. CASE InChain = {} /\ coords[w] = Coords(1, Genesis)
    <3>1. coords[w].icv = 1 /\ coords[w].prev = Genesis
      BY <2>4 DEF Coords
    <3>2. Promise!First(i)
      BY <2>2, <2>3, <2>4, <3>1 DEF Promise!First, Promise!Entered, Promise!Start, InChain,
         Genesis, Link, SettledRows
    <3> QED
      BY <2>1, <3>2 DEF Promise!Next
  <2>5. ASSUME NEW j \in Last, coords[w].icv = icv[j] + 1, coords[w].prev.invoice = j
        PROVE  [Promise!Next]_(Promise!avars)
    <3> DEFINE v == coords[w].prev.version
    <3>1. v \in Versions /\ coords[w].prev = [invoice |-> j, version |-> v]
      BY <2>1, <2>5 DEF Links
    <3>2. j \in Promise!Entered /\ \A k \in Promise!Entered : icv[k] <= icv[j]
      BY DEF Last, Promise!Entered
    <3> HIDE DEF v
    <3>3. Promise!Append(i, j, v)
      BY <2>1, <2>2, <2>3, <2>5, <3>1, <3>2 DEF Promise!Append, SettledRows
    <3>4. j \in Invoices
      BY DEF Last
    <3> QED
      BY <2>1, <3>1, <3>3, <3>4 DEF Promise!Next
  <2> QED
    BY <2>1, <2>4, <2>5 DEF IsNext
<1> QED
  BY <1>1, <1>2

\* What a worker writes of an answer rests on what ZATCA registered.
LEMMA SettleStep ==
  ASSUME TypeOK, WorkInv, AnswerInv, NEW w \in Workers, Settle(w)
  PROVE  [Promise!Next]_(Promise!avars)
<1>1. job[w] \in Invoices /\ answer[w] \in {"none", "ok", "refused"}
  BY DEF Settle, WorkInv, TypeOK
<1>2. /\ status' = [status EXCEPT ![job[w]] = Outcome(w)]
      /\ UNCHANGED <<icv, prev, registered>>
  BY DEF Settle
<1>3. Outcome(w) = "SETTLED" => registered[job[w]] # Nothing
  <2>1. CASE answer[w] = "ok"
    BY <2>1 DEF Settle, AnswerInv
  <2>2. CASE answer[w] = "refused"
    BY <2>2 DEF Outcome
  <2>3. CASE answer[w] = "none"
    BY <1>1, <2>3 DEF Outcome, AnswerInv, StatusTellsZatca
  <2> QED
    BY <1>1, <2>1, <2>2, <2>3
<1> QED
  BY <1>1, <1>2, <1>3, StatusStep

LEMMA RegisterNext ==
  ASSUME TypeOK, IInv, [Next]_vars
  PROVE  [Promise!Next]_(Promise!avars)
<1>0. ChainInv /\ WorkInv /\ AnswerInv
  BY DEF IInv
<1>q. ASSUME UNCHANGED <<icv, prev, status, registered>> PROVE UNCHANGED Promise!avars
  BY <1>q DEF Promise!avars
<1>1. ASSUME NEW w \in Workers, Accept(w) PROVE [Promise!Next]_(Promise!avars)
  BY <1>1, <1>0, RegisterStep DEF Accept
<1>2. ASSUME NEW w \in Workers, Lose(w) PROVE [Promise!Next]_(Promise!avars)
  <2>1. CASE Register(w)
    BY <1>2, <2>1, <1>0, RegisterStep DEF Lose
  <2>2. CASE UNCHANGED registered
    BY <1>2, <2>2, <1>q DEF Lose, rowVars
  <2> QED
    BY <1>2, <2>1, <2>2 DEF Lose
<1>3. ASSUME NEW w \in Workers, Record(w) PROVE [Promise!Next]_(Promise!avars)
  BY <1>3, <1>0, RecordStep
<1>4. ASSUME NEW w \in Workers, Settle(w) PROVE [Promise!Next]_(Promise!avars)
  BY <1>4, <1>0, SettleStep
<1>5. ASSUME NEW w \in Workers, Reset(w) PROVE [Promise!Next]_(Promise!avars)
  <2>1. job[w] \in Invoices
    BY <1>5, <1>0 DEF Reset, WorkInv
  <2>2. status' = [status EXCEPT ![job[w]] = "PENDING"] /\ UNCHANGED <<icv, prev, registered>>
    BY <1>5 DEF Reset
  <2> QED
    BY <2>1, <2>2, StatusStep
<1>6. ASSUME NEW w \in Workers,
             \/ Lookup(w) \/ Allocate(w) \/ Rehash(w) \/ Refuse(w) \/ Crash(w)
             \/ \E i \in Invoices : Load(w, i)
      PROVE  UNCHANGED Promise!avars
  BY <1>6, <1>q DEF Lookup, Allocate, Rehash, Refuse, Crash, Load, rowVars
<1>7. ASSUME NEW i \in Invoices, Edit(i) PROVE UNCHANGED Promise!avars
  BY <1>7, <1>q DEF Edit, rowVars
<1>8. CASE UNCHANGED vars
  BY <1>8, <1>q DEF vars, rowVars
<1> QED
  BY <1>1, <1>2, <1>3, <1>4, <1>5, <1>6, <1>7, <1>8 DEF Next, Submit

\* zatca-hash-chain.ts and zatca-submission.ts keep the register NumberedRegister
\* describes: rows are appended one behind the other and never move, what ZATCA
\* learns of a row is its place, once, and a row is settled only after that.
THEOREM ChainIsARegister == Spec => KeepsRegister
<1>1. Init => Promise!Init
  BY RegisterInit
<1>2. TypeOK /\ IInv /\ [Next]_vars => [Promise!Next]_(Promise!avars)
  BY RegisterNext
<1> QED
  BY <1>1, <1>2, ZatcaInductive, PTL DEF Spec, KeepsRegister, Promise!Spec
=============================================================================
