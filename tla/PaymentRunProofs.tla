-------------------------- MODULE PaymentRunProofs --------------------------
(***************************************************************************)
(* Proofs about payment runs, for any number of runs, invoices and         *)
(* requests.  Five invariants, each inductive together with those before   *)
(* it: TypeOK; LockInv, what a request that has written keeps from others; *)
(* SettleInv, what it still knows of its run although others commit;       *)
(* CloseInv, that closing a run leaves no other item in it to be paid; and *)
(* PlaceInv, that the status of an invoice tells its items and payments.   *)
(***************************************************************************)
EXTENDS PaymentRun, FiniteSetTheorems, TLAPS

LEMMA TypeInit == Init => TypeOK
BY DEF Init, TypeOK, Ops, PayOps, RunStatus

LEMMA AutoCompleteType ==
  ASSUME NEW r, NEW S, NEW s
  PROVE  AutoComplete(r, S, s) \in {"same", "FAILED", "COMPLETED"}
BY DEF AutoComplete

LEMMA ItemAfterType ==
  ASSUME NEW o, NEW old \in {"NONE", "PENDING", "PAID", "FAILED"}
  PROVE  /\ ItemAfter(o, old) \in {"NONE", "PENDING", "PAID", "FAILED"}
         /\ ItemAfter(o, old) = "PENDING" => o = "create" \/ old = "PENDING"
         /\ ItemAfter(o, old) # "NONE" => old # "NONE" \/ o \in PayOps \cup {"create", "markFailed"}
         /\ ItemAfter(o, old) = "PAID" => old = "PAID" \/ o \in PayOps
         /\ o \in PayOps \cup {"markFailed"} => ItemAfter(o, old) # "PENDING"
BY DEF ItemAfter, PayOps

LEMMA PayAfterType ==
  ASSUME NEW o, NEW old \in {"READY", "IN_RUN", "PAID"}
  PROVE  PayAfter(o, old) \in {"READY", "IN_RUN", "PAID"}
BY DEF PayAfter

\* A step of a request, by the kind of its statement.
Reads(u) ==
  \/ ReadCreate(u) \/ ReadExport(u) \/ ReadItem(u) \/ ReadMarkAll(u)
  \/ ReadConfirm(u) \/ ReadCancel(u)
Writes(u) ==
  \/ WriteCreate(u) \/ WriteExport(u) \/ WriteItem(u) \/ WriteMarkAll(u)
  \/ WriteConfirm(u) \/ WriteCancel(u)

LEMMA NextSplit ==
  ASSUME Next
  PROVE  \E u \in Users : Reads(u) \/ Writes(u) \/ WriteRemove(u) \/ Commit(u) \/ Rollback(u)
BY DEF Next, Reads, Writes

\* Whatever is read is read by Read.
LEMMA ReadsAre ==
  ASSUME TypeOK, NEW u \in Users, Reads(u)
  PROVE  \E o \in Ops \ {"none"}, r \in Runs, S \in SUBSET Invoices : Read(u, o, r, S)
<1>1. CASE ReadCreate(u)
  BY <1>1 DEF ReadCreate, Ops
<1>2. CASE ReadExport(u)
  BY <1>2 DEF ReadExport, Items, Ops
<1>3. CASE ReadItem(u)
  BY <1>3 DEF ReadItem, Pending, Ops, PayOps
<1>4. CASE ReadMarkAll(u)
  BY <1>4 DEF ReadMarkAll, Pending, Ops, PayOps
<1>5. CASE ReadConfirm(u)
  <2>1. PICK r \in Runs : \E S \in SUBSET Pending(r) : Read(u, "confirmStatementMatches", r, S)
    BY <1>5 DEF ReadConfirm
  <2> QED
    BY <2>1 DEF Pending, Ops, PayOps
<1>6. CASE ReadCancel(u)
  <2>1. PICK r \in Runs : Read(u, "cancel", r, {i \in Items(r) : item[r][i] # "PAID"})
    BY <1>6 DEF ReadCancel
  <2> QED
    BY <2>1 DEF Items, Ops
<1> QED
  BY <1>1, <1>2, <1>3, <1>4, <1>5, <1>6 DEF Reads

\* Whatever is written is written by Write, and so is the status of the run.
LEMMA WritesAre ==
  ASSUME NEW u \in Users, Writes(u)
  PROVE  \E o \in Ops \ {"none"}, s \in RunStatus \cup {"same"} :
            /\ Write(u, o, s)
            /\ o = "create" => s = "DRAFT" /\ run[target[u]] = "NONE"
            /\ o = "lockAndExport" => s \in {"EXPORTED", "same"}
            /\ s = "DRAFT" => o = "create"
            /\ s = "EXPORTED" => o = "lockAndExport" /\ run[target[u]] = "DRAFT"
            /\ o # "removeFromRun"
<1>1. CASE WriteCreate(u)
  BY <1>1 DEF WriteCreate, Ops, RunStatus
<1>2. CASE WriteExport(u)
  BY <1>2 DEF WriteExport, Ops, RunStatus
<1>3. CASE WriteItem(u)
  <2>1. PICK o \in {"markPaid", "markFailed"} :
          Write(u, o, AutoComplete(target[u], rows[u], ItemAfter(o, "PENDING")))
    BY <1>3 DEF WriteItem
  <2> QED
    BY <2>1, AutoCompleteType DEF Ops, PayOps, RunStatus
<1>4. CASE WriteMarkAll(u)
  BY <1>4 DEF WriteMarkAll, Ops, PayOps, RunStatus
<1>5. CASE WriteConfirm(u)
  BY <1>5, AutoCompleteType DEF WriteConfirm, Ops, PayOps, RunStatus
<1>6. CASE WriteCancel(u)
  BY <1>6 DEF WriteCancel, Ops, RunStatus
<1> QED
  BY <1>1, <1>2, <1>3, <1>4, <1>5, <1>6 DEF Writes
-----------------------------------------------------------------------------
(* Types. *)

LEMMA TypeNext == TypeOK /\ [Next]_vars => TypeOK'
<1> SUFFICES ASSUME TypeOK, [Next]_vars PROVE TypeOK'
  OBVIOUS
<1>1. ASSUME NEW u \in Users, Reads(u) PROVE TypeOK'
  <2>1. PICK o \in Ops \ {"none"}, r \in Runs, S \in SUBSET Invoices : Read(u, o, r, S)
    BY <1>1, ReadsAre
  <2> QED
    BY <2>1 DEF Read, dataVars, TypeOK
<1>2. ASSUME NEW u \in Users, Writes(u) PROVE TypeOK'
  <2>1. PICK o \in Ops \ {"none"}, s \in RunStatus \cup {"same"} : Write(u, o, s)
    BY <1>2, WritesAre
  <2> QED
    BY <2>1 DEF Write, dataVars, TypeOK
<1>3. ASSUME NEW u \in Users, WriteRemove(u) PROVE TypeOK'
  BY <1>3 DEF WriteRemove, Items, dataVars, TypeOK, Ops, RunStatus
<1>4. ASSUME NEW u \in Users, Commit(u) PROVE TypeOK'
  <2>1. Done(u)
    BY <1>4 DEF Commit
  <2>2. /\ phase' \in [Users -> {"idle", "read", "written"}]
        /\ op' \in [Users -> Ops]
        /\ target' \in [Users -> Runs \cup {NoRun}]
        /\ rows' \in [Users -> SUBSET Invoices]
        /\ verdict' \in [Users -> RunStatus \cup {"same"}]
    BY <2>1 DEF Done, TypeOK, Ops, RunStatus
  <2> DEFINE r == target[u]
             items == [i \in Invoices |-> IF i \in rows[u] THEN ItemAfter(op[u], item[r][i])
                                          ELSE item[r][i]]
             pays == [i \in Invoices |-> IF i \in rows[u] /\ op[u] \in PayOps
                                         THEN paid[r][i] + 1 ELSE paid[r][i]]
  <2>3. /\ run' \in [Runs -> RunStatus \cup {"NONE"}]
        /\ files' \in [Runs -> Nat]
    <3>1. run' = run \/ (verdict[u] # "same" /\ run' = [run EXCEPT ![r] = verdict[u]])
      BY <1>4 DEF Commit
    <3>2. files' = files \/ files' = [files EXCEPT ![r] = @ + 1]
      BY <1>4 DEF Commit
    <3>3. verdict[u] # "same" => verdict[u] \in RunStatus
      BY DEF TypeOK
    <3> HIDE DEF r
    <3>4. run' \in [Runs -> RunStatus \cup {"NONE"}]
      BY <3>1, <3>3 DEF TypeOK
    <3>5. files' \in [Runs -> Nat]
      BY <3>2 DEF TypeOK
    <3> QED
      BY <3>4, <3>5
  <2>4. sent' \in [Runs -> SUBSET Invoices] /\ stale' \subseteq Invoices
    <3>1. sent[r] \cup rows[u] \subseteq Invoices \/ r \notin Runs
      BY DEF TypeOK
    <3>2. Stale(u) \subseteq Invoices
      BY DEF Stale, TypeOK
    <3> QED
      BY <1>4, <3>1, <3>2 DEF Commit, TypeOK
  <2>5. pay' \in [Invoices -> {"READY", "IN_RUN", "PAID"}]
    BY <1>4, PayAfterType DEF Commit, TypeOK
  <2>6. item' \in [Runs -> [Invoices -> {"NONE", "PENDING", "PAID", "FAILED"}]]
    <3>1. item' = [item EXCEPT ![r] = items]
      BY <1>4 DEF Commit
    <3>2. r \in Runs => items \in [Invoices -> {"NONE", "PENDING", "PAID", "FAILED"}]
      BY ItemAfterType DEF TypeOK
    <3> HIDE DEF items, r
    <3> QED
      BY <3>1, <3>2 DEF TypeOK
  <2>7. paid' \in [Runs -> [Invoices -> Nat]]
    <3>1. paid' = [paid EXCEPT ![r] = pays]
      BY <1>4 DEF Commit
    <3>2. r \in Runs => pays \in [Invoices -> Nat]
      BY DEF TypeOK
    <3> HIDE DEF pays, r
    <3> QED
      BY <3>1, <3>2 DEF TypeOK
  <2> QED
    BY <2>2, <2>3, <2>4, <2>5, <2>6, <2>7 DEF TypeOK
<1>5. ASSUME NEW u \in Users, Rollback(u) PROVE TypeOK'
  BY <1>5 DEF Rollback, Done, dataVars, TypeOK, Ops, RunStatus
<1>6. CASE UNCHANGED vars
  BY <1>6 DEF vars, dataVars, reqVars, TypeOK
<1> QED
  BY <1>1, <1>2, <1>3, <1>4, <1>5, <1>6, NextSplit

\* Every variable of the payment runs stays in its type.
THEOREM PaymentTypeCorrect == Spec => []TypeOK
BY TypeInit, TypeNext, PTL DEF Spec
-----------------------------------------------------------------------------
(* What a request that has written keeps from the others. *)

Open(u) == phase[u] # "idle"
Written(u) == phase[u] = "written"

\* One file at most; none before the run leaves DRAFT.
FileInv ==
  \A r \in Runs : files[r] <= 1 /\ (run[r] \in {"NONE", "DRAFT"} => files[r] = 0)

\* What a request has locked: the status of the run it is going to write, and
\* the items and invoices of its rows.
HoldInv ==
  /\ \A u, v \in Users :
        /\ Written(u) /\ Written(v) /\ u # v
        /\ verdict[u] # "same" /\ verdict[v] # "same"
        => target[u] # target[v]
  /\ \A u, v \in Users :
        /\ Written(u) /\ Written(v) /\ u # v
        /\ op[u] # "lockAndExport" /\ op[v] # "lockAndExport"
        => rows[u] \cap rows[v] = {}

\* The status of the run a request is going to overwrite.
OverwriteInv ==
  /\ \A u \in Users : Open(u) => target[u] \in Runs
  /\ \A u \in Users : Written(u) =>
       /\ op[u] = "create" => verdict[u] = "DRAFT" /\ run[target[u]] = "NONE"
       /\ op[u] = "removeFromRun" =>
             verdict[u] \in {"DRAFT", "CANCELLED"} /\ run[target[u]] = "DRAFT"
       /\ op[u] = "lockAndExport" => verdict[u] \in {"EXPORTED", "same"}
       /\ verdict[u] = "DRAFT" => op[u] \in {"create", "removeFromRun"}
       /\ verdict[u] = "EXPORTED" => op[u] = "lockAndExport" /\ run[target[u]] = "DRAFT"

LockInv == FileInv /\ HoldInv /\ OverwriteInv

\* What is still to come of a run when a request on it commits.
SettledInv ==
  \A r \in Runs :
     /\ run[r] \in {"COMPLETED", "FAILED"} => Pending(r) = {}
     /\ run[r] = "NONE" => Items(r) = {}
     /\ run[r] \in {"EXPORTED", "COMPLETED"} => Items(r) \subseteq sent[r]
     /\ \A i \in Invoices : item[r][i] = "PAID" \/ paid[r][i] > 0 => i \in sent[r]

\* What a request read and may rely on until it commits.
PremiseInv ==
  \A u \in Users : Open(u) =>
     /\ op[u] # "create" => run[target[u]] # "NONE"
     /\ op[u] = "markAllPaid" => Pending(target[u]) \subseteq rows[u]
     /\ op[u] \in PayOps => /\ Items(target[u]) \cup rows[u] \subseteq sent[target[u]]
                            /\ rows[u] \subseteq Items(target[u])
                            /\ run[target[u]] # "DRAFT"
     /\ op[u] = "lockAndExport" => Items(target[u]) \subseteq rows[u]
     /\ op[u] = "markFailed" => rows[u] # {}

\* What the verdict of a request that has written rests on.
VerdictInv ==
  \A u \in Users : Written(u) =>
     /\ op[u] = "markFailed" => rows[u] \subseteq Items(target[u])
     /\ verdict[u] \in {"COMPLETED", "FAILED"} =>
           op[u] \in PayOps \cup {"markFailed"} /\ Pending(target[u]) \subseteq rows[u]
     /\ verdict[u] = "COMPLETED" => op[u] \in PayOps

SettleInv == SettledInv /\ PremiseInv /\ VerdictInv
-----------------------------------------------------------------------------
(* What a step of a request leaves and what it changes. *)

Same(v) ==
  /\ phase'[v] = phase[v] /\ op'[v] = op[v] /\ target'[v] = target[v]
  /\ rows'[v] = rows[v] /\ verdict'[v] = verdict[v]

LEMMA ReadFrame ==
  ASSUME TypeOK, NEW u \in Users, NEW o, NEW r, NEW S, Read(u, o, r, S)
  PROVE  /\ phase'[u] = "read" /\ op'[u] = o /\ target'[u] = r /\ rows'[u] = S
         /\ \A v \in Users \ {u} : Same(v)
         /\ UNCHANGED dataVars
BY DEF Read, TypeOK, Same

LEMMA WriteFrame ==
  ASSUME TypeOK, NEW u \in Users, NEW o, NEW s, Write(u, o, s)
  PROVE  /\ phase[u] = "read" /\ op[u] = o
         /\ phase'[u] = "written" /\ verdict'[u] = s
         /\ op'[u] = op[u] /\ target'[u] = target[u] /\ rows'[u] = rows[u]
         /\ \A v \in Users \ {u} : Same(v)
         /\ UNCHANGED dataVars
BY DEF Write, TypeOK, Same

LEMMA RemoveFrame ==
  ASSUME TypeOK, NEW u \in Users, WriteRemove(u)
  PROVE  \E r \in Runs : \E i \in Items(r) :
            /\ run[r] = "DRAFT"
            /\ \A v \in Users \ {u} : Written(v) =>
                  /\ target[v] # r \/ verdict[v] = "same"
                  /\ op[v] = "lockAndExport" \/ i \notin rows[v]
            /\ phase'[u] = "written" /\ op'[u] = "removeFromRun" /\ target'[u] = r
            /\ rows'[u] = {i} /\ verdict'[u] \in {"CANCELLED", "DRAFT"}
            /\ \A v \in Users \ {u} : Same(v)
            /\ UNCHANGED dataVars
<1>1. PICK r \in Runs : \E i \in Items(r) :
        /\ run[r] = "DRAFT"
        /\ \A v \in Users : phase[v] = "written" =>
             /\ target[v] # r \/ verdict[v] = "same"
             /\ op[v] = "lockAndExport" \/ i \notin rows[v]
        /\ target' = [target EXCEPT ![u] = r]
        /\ rows' = [rows EXCEPT ![u] = {i}]
        /\ verdict' = [verdict EXCEPT ![u] = IF Items(r) = {i} THEN "CANCELLED" ELSE "DRAFT"]
  BY DEF WriteRemove
<1>2. /\ phase' = [phase EXCEPT ![u] = "written"]
      /\ op' = [op EXCEPT ![u] = "removeFromRun"]
      /\ UNCHANGED dataVars
  BY DEF WriteRemove
<1> QED
  BY <1>1, <1>2 DEF TypeOK, Same, Written

LEMMA DoneFrame ==
  ASSUME TypeOK, NEW u \in Users, Done(u)
  PROVE  phase'[u] = "idle" /\ \A v \in Users \ {u} : Same(v)
BY DEF Done, TypeOK, Same

\* The rows of the run a request commits on, one by one.
LEMMA CommitRows ==
  ASSUME TypeOK, NEW u \in Users, Commit(u), target[u] \in Runs
  PROVE  LET r == target[u] IN
         /\ phase[u] = "written" /\ Done(u)
         /\ \A q \in Runs \ {r} : /\ run'[q] = run[q] /\ item'[q] = item[q]
                                  /\ paid'[q] = paid[q] /\ files'[q] = files[q]
                                  /\ sent'[q] = sent[q]
         /\ run'[r] = IF verdict[u] = "same" THEN run[r] ELSE verdict[u]
         /\ \A i \in Invoices :
              /\ item'[r][i] = IF i \in rows[u] THEN ItemAfter(op[u], item[r][i]) ELSE item[r][i]
              /\ paid'[r][i] = IF i \in rows[u] /\ op[u] \in PayOps
                               THEN paid[r][i] + 1 ELSE paid[r][i]
         /\ IF op[u] = "lockAndExport" /\ verdict[u] = "EXPORTED"
            THEN files'[r] = files[r] + 1 /\ sent'[r] = sent[r] \cup rows[u]
            ELSE files'[r] = files[r] /\ sent'[r] = sent[r]
<1> DEFINE r == target[u]
           won == op[u] = "lockAndExport" /\ verdict[u] = "EXPORTED"
<1>1. phase[u] = "written" /\ Done(u)
  BY DEF Commit
<1>2. run' = IF verdict[u] = "same" THEN run ELSE [run EXCEPT ![r] = verdict[u]]
  BY DEF Commit
<1>3. item' = [item EXCEPT ![r] = [i \in Invoices |->
                 IF i \in rows[u] THEN ItemAfter(op[u], item[r][i]) ELSE item[r][i]]]
  BY DEF Commit
<1>4. paid' = [paid EXCEPT ![r] = [i \in Invoices |->
                 IF i \in rows[u] /\ op[u] \in PayOps THEN paid[r][i] + 1 ELSE paid[r][i]]]
  BY DEF Commit
<1>5. /\ files' = IF won THEN [files EXCEPT ![r] = files[r] + 1] ELSE files
      /\ sent' = IF won THEN [sent EXCEPT ![r] = sent[r] \cup rows[u]] ELSE sent
  BY DEF Commit
<1>6. /\ \A q \in Runs \ {r} : run'[q] = run[q]
      /\ run'[r] = IF verdict[u] = "same" THEN run[r] ELSE verdict[u]
  BY <1>2 DEF TypeOK
<1>7. /\ \A q \in Runs \ {r} : item'[q] = item[q]
      /\ \A i \in Invoices : item'[r][i] = IF i \in rows[u] THEN ItemAfter(op[u], item[r][i])
                                           ELSE item[r][i]
  BY <1>3 DEF TypeOK
<1>8. /\ \A q \in Runs \ {r} : paid'[q] = paid[q]
      /\ \A i \in Invoices : paid'[r][i] = IF i \in rows[u] /\ op[u] \in PayOps
                                           THEN paid[r][i] + 1 ELSE paid[r][i]
  BY <1>4 DEF TypeOK
<1>9. /\ \A q \in Runs \ {r} : files'[q] = files[q] /\ sent'[q] = sent[q]
      /\ IF won THEN files'[r] = files[r] + 1 /\ sent'[r] = sent[r] \cup rows[u]
         ELSE files'[r] = files[r] /\ sent'[r] = sent[r]
  BY <1>5 DEF TypeOK
<1> QED
  BY <1>1, <1>6, <1>7, <1>8, <1>9
-----------------------------------------------------------------------------
(* The locks, and the file of a run. *)

LEMMA LockInit == Init => LockInv
BY DEF Init, LockInv, FileInv, HoldInv, OverwriteInv, Open, Written

LEMMA LockNext == TypeOK /\ LockInv /\ [Next]_vars => LockInv'
<1> SUFFICES ASSUME TypeOK, LockInv, [Next]_vars PROVE LockInv'
  OBVIOUS
<1> USE DEF LockInv
<1>1. ASSUME NEW u \in Users, Reads(u) PROVE LockInv'
  <2>1. PICK o \in Ops \ {"none"}, r \in Runs, S \in SUBSET Invoices : Read(u, o, r, S)
    BY <1>1, ReadsAre
  <2> QED
    BY <2>1, ReadFrame DEF FileInv, HoldInv, OverwriteInv, Open, Written, Same, dataVars
<1>2. ASSUME NEW u \in Users, Writes(u) PROVE LockInv'
  <2>1. PICK o \in Ops \ {"none"}, s \in RunStatus \cup {"same"} :
            /\ Write(u, o, s)
            /\ o = "create" => s = "DRAFT" /\ run[target[u]] = "NONE"
            /\ o = "lockAndExport" => s \in {"EXPORTED", "same"}
            /\ s = "DRAFT" => o = "create"
            /\ s = "EXPORTED" => o = "lockAndExport" /\ run[target[u]] = "DRAFT"
            /\ o # "removeFromRun"
    BY <1>2, WritesAre
  <2>2. ~Waits(u, s # "same")
    BY <2>1 DEF Write
  <2>3. /\ phase[u] = "read" /\ op[u] = o
        /\ phase'[u] = "written" /\ verdict'[u] = s
        /\ op'[u] = op[u] /\ target'[u] = target[u] /\ rows'[u] = rows[u]
        /\ \A v \in Users \ {u} : Same(v)
        /\ UNCHANGED dataVars
    BY <2>1, WriteFrame
  <2>4. FileInv'
    BY <2>3 DEF FileInv, dataVars
  <2>5. HoldInv'
    BY <2>2, <2>3 DEF HoldInv, Written, Same, Waits
  <2>6. OverwriteInv'
    BY <2>1, <2>3 DEF OverwriteInv, Open, Written, Same, dataVars
  <2> QED
    BY <2>4, <2>5, <2>6
<1>3. ASSUME NEW u \in Users, WriteRemove(u) PROVE LockInv'
  <2>1. PICK r \in Runs : \E i \in Items(r) :
            /\ run[r] = "DRAFT"
            /\ \A v \in Users \ {u} : Written(v) =>
                  /\ target[v] # r \/ verdict[v] = "same"
                  /\ op[v] = "lockAndExport" \/ i \notin rows[v]
            /\ phase'[u] = "written" /\ op'[u] = "removeFromRun" /\ target'[u] = r
            /\ rows'[u] = {i} /\ verdict'[u] \in {"CANCELLED", "DRAFT"}
            /\ \A v \in Users \ {u} : Same(v)
            /\ UNCHANGED dataVars
    BY <1>3, RemoveFrame
  <2>2. FileInv'
    BY <2>1 DEF FileInv, dataVars
  <2>3. HoldInv'
    BY <2>1 DEF HoldInv, Written, Same
  <2>4. OverwriteInv'
    BY <2>1 DEF OverwriteInv, Open, Written, Same, dataVars
  <2> QED
    BY <2>2, <2>3, <2>4
<1>4. ASSUME NEW u \in Users, Commit(u) PROVE LockInv'
  <2>1. Written(u) /\ target[u] \in Runs
    BY <1>4 DEF Commit, Written, OverwriteInv, Open
  <2>2. phase'[u] = "idle" /\ \A v \in Users \ {u} : Same(v)
    BY <1>4, <2>1, DoneFrame DEF Commit
  <2>3. /\ \A q \in Runs \ {target[u]} : run'[q] = run[q] /\ files'[q] = files[q]
        /\ run'[target[u]] = IF verdict[u] = "same" THEN run[target[u]] ELSE verdict[u]
        /\ files'[target[u]] = IF op[u] = "lockAndExport" /\ verdict[u] = "EXPORTED"
                               THEN files[target[u]] + 1 ELSE files[target[u]]
    BY <1>4, <2>1, CommitRows
  <2>4. FileInv'
    <3>1. /\ files[target[u]] \in Nat /\ files[target[u]] <= 1
          /\ run[target[u]] \in {"NONE", "DRAFT"} => files[target[u]] = 0
          /\ verdict[u] # "NONE"
      BY <2>1 DEF TypeOK, FileInv, RunStatus
    <3>2. verdict[u] \in {"DRAFT", "EXPORTED"} => run[target[u]] \in {"NONE", "DRAFT"}
      BY <2>1 DEF OverwriteInv
    <3>3. /\ files'[target[u]] <= 1
          /\ run'[target[u]] \in {"NONE", "DRAFT"} => files'[target[u]] = 0
      BY <2>3, <3>1, <3>2
    <3> QED
      BY <2>3, <3>3 DEF FileInv
  <2>5. HoldInv'
    BY <2>2 DEF HoldInv, Written, Same
  <2>6. OverwriteInv'
    BY <2>1, <2>2, <2>3 DEF OverwriteInv, HoldInv, Open, Written, Same
  <2> QED
    BY <2>4, <2>5, <2>6
<1>5. ASSUME NEW u \in Users, Rollback(u) PROVE LockInv'
  BY <1>5, DoneFrame DEF Rollback, dataVars, FileInv, HoldInv, OverwriteInv, Open, Written, Same
<1>6. CASE UNCHANGED vars
  BY <1>6 DEF vars, dataVars, reqVars, FileInv, HoldInv, OverwriteInv, Open, Written
<1> QED
  BY <1>1, <1>2, <1>3, <1>4, <1>5, <1>6, NextSplit

\* A run is handed out as a bank file at most once, with any number of requests.
THEOREM PaymentOneFilePerRun == Spec => []OneFilePerRun
<1>1. TypeOK /\ LockInv => OneFilePerRun
  BY DEF LockInv, FileInv, OneFilePerRun
<1> QED
  BY <1>1, TypeInit, TypeNext, LockInit, LockNext, PTL DEF Spec
-----------------------------------------------------------------------------
(* What a run settles. *)

\* The premises hold when they are read.
LEMMA ReadPremise ==
  ASSUME TypeOK, SettledInv, NEW u \in Users, Reads(u)
  PROVE  \E o \in Ops \ {"none"}, r \in Runs, S \in SUBSET Invoices :
            /\ Read(u, o, r, S)
            /\ o # "create" => run[r] # "NONE"
            /\ o = "markAllPaid" => Pending(r) \subseteq S
            /\ o \in PayOps => /\ Items(r) \cup S \subseteq sent[r]
                               /\ S \subseteq Items(r)
                               /\ run[r] # "DRAFT"
            /\ o = "lockAndExport" => Items(r) \subseteq S
            /\ o = "markFailed" => S # {}
<1>1. CASE ReadCreate(u)
  BY <1>1 DEF ReadCreate, Ops, PayOps
<1>2. CASE ReadExport(u)
  BY <1>2 DEF ReadExport, Items, Ops, PayOps
<1>3. CASE ReadItem(u)
  <2>1. PICK r \in Runs : \E i \in Pending(r) :
          \/ run[r] \in {"EXPORTED", "COMPLETED"} /\ Read(u, "markPaid", r, {i})
          \/ Read(u, "markFailed", r, {i})
    BY <1>3 DEF ReadItem
  <2>2. Pending(r) \subseteq Items(r) /\ Pending(r) \subseteq Invoices
    BY DEF Pending, Items
  <2> QED
    BY <2>1, <2>2 DEF SettledInv, Ops, PayOps
<1>4. CASE ReadMarkAll(u)
  <2>1. PICK r \in Runs : run[r] = "EXPORTED" /\ Read(u, "markAllPaid", r, Pending(r))
    BY <1>4 DEF ReadMarkAll
  <2>2. Pending(r) \subseteq Items(r) /\ Pending(r) \subseteq Invoices
    BY DEF Pending, Items
  <2> QED
    BY <2>1, <2>2 DEF SettledInv, Ops, PayOps
<1>5. CASE ReadConfirm(u)
  <2>1. PICK r \in Runs : \E S \in SUBSET Pending(r) :
          run[r] = "EXPORTED" /\ Read(u, "confirmStatementMatches", r, S)
    BY <1>5 DEF ReadConfirm
  <2>2. Pending(r) \subseteq Items(r) /\ Pending(r) \subseteq Invoices
    BY DEF Pending, Items
  <2> QED
    BY <2>1, <2>2 DEF SettledInv, Ops, PayOps
<1>6. CASE ReadCancel(u)
  <2>1. PICK r \in Runs : /\ run[r] \in Active
                          /\ Read(u, "cancel", r, {i \in Items(r) : item[r][i] # "PAID"})
    BY <1>6 DEF ReadCancel
  <2>2. {i \in Items(r) : item[r][i] # "PAID"} \subseteq Invoices
    BY DEF Items
  <2> QED
    BY <2>1, <2>2 DEF Ops, PayOps, Active
<1> QED
  BY <1>1, <1>2, <1>3, <1>4, <1>5, <1>6 DEF Reads

\* What autoCompleteRunIfTerminal has seen when it closes a run.
LEMMA AutoCompleteMeans ==
  ASSUME NEW r, NEW S, NEW s, AutoComplete(r, S, s) # "same"
  PROVE  /\ Pending(r) \subseteq S
         /\ AutoComplete(r, S, s) = "COMPLETED" => s # "FAILED" \/ S \cap Items(r) = {}
<1> DEFINE after == [i \in Items(r) |-> IF i \in S THEN s ELSE item[r][i]]
<1>1. ~\E i \in Items(r) : after[i] = "PENDING"
  BY DEF AutoComplete
<1>2. AutoComplete(r, S, s) = "COMPLETED" => ~\E i \in Items(r) : after[i] = "FAILED"
  BY <1>1 DEF AutoComplete
<1>3. Pending(r) \subseteq Items(r)
  BY DEF Pending, Items
<1>4. \A i \in Items(r) : after[i] = IF i \in S THEN s ELSE item[r][i]
  OBVIOUS
<1> HIDE DEF after
<1> QED
  BY <1>1, <1>2, <1>3, <1>4 DEF Pending

\* A request that writes the status of a run has a reason that still holds.
LEMMA WriteVerdict ==
  ASSUME TypeOK, LockInv, PremiseInv, NEW u \in Users, Writes(u)
  PROVE  /\ op[u] = "markFailed" => rows[u] \subseteq Items(target[u])
         /\ verdict'[u] \in {"COMPLETED", "FAILED"} =>
              op[u] \in PayOps \cup {"markFailed"} /\ Pending(target[u]) \subseteq rows[u]
         /\ verdict'[u] = "COMPLETED" => op[u] \in PayOps
<1>1. CASE WriteCreate(u)
  BY <1>1, WriteFrame DEF WriteCreate
<1>2. CASE WriteExport(u)
  BY <1>2, WriteFrame DEF WriteExport
<1>3. CASE WriteItem(u)
  <2>1. PICK o \in {"markPaid", "markFailed"} :
          /\ op[u] = o
          /\ rows[u] \subseteq Items(target[u])
          /\ Write(u, o, AutoComplete(target[u], rows[u], ItemAfter(o, "PENDING")))
    BY <1>3 DEF WriteItem
  <2>2. verdict'[u] = AutoComplete(target[u], rows[u], ItemAfter(o, "PENDING"))
        /\ phase[u] = "read"
    BY <2>1, WriteFrame
  <2>3. verdict'[u] # "same" => Pending(target[u]) \subseteq rows[u]
    BY <2>2, AutoCompleteMeans
  <2>4. o = "markFailed" => verdict'[u] # "COMPLETED"
    <3>1. o = "markFailed" => ItemAfter(o, "PENDING") = "FAILED" /\ rows[u] # {}
      BY <2>1, <2>2 DEF ItemAfter, PayOps, PremiseInv, Open
    <3> QED
      BY <2>1, <2>2, <3>1, AutoCompleteMeans
  <2> QED
    BY <2>1, <2>3, <2>4 DEF PayOps
<1>4. CASE WriteMarkAll(u)
  BY <1>4, WriteFrame DEF WriteMarkAll, PremiseInv, Open, PayOps
<1>5. CASE WriteConfirm(u)
  <2>1. /\ op[u] = "confirmStatementMatches"
        /\ verdict'[u] = AutoComplete(target[u], rows[u], "PAID")
    BY <1>5, WriteFrame DEF WriteConfirm
  <2> QED
    BY <2>1, AutoCompleteMeans DEF PayOps
<1>6. CASE WriteCancel(u)
  BY <1>6, WriteFrame DEF WriteCancel
<1> QED
  BY <1>1, <1>2, <1>3, <1>4, <1>5, <1>6 DEF Writes

\* A commit on a run leaves it at least as settled as before, a creation apart.
LEMMA CommitSettles ==
  ASSUME TypeOK, LockInv, SettleInv, NEW u \in Users, Commit(u),
         NEW r \in Runs, target[u] = r
  PROVE  /\ Written(u)
         /\ \A q \in Runs \ {r} : Items(q)' = Items(q) /\ Pending(q)' = Pending(q)
         /\ sent[r] \subseteq sent'[r]
         /\ op[u] = "create" => run[r] = "NONE" /\ run'[r] = "DRAFT"
         /\ op[u] # "create" => /\ Items(r)' \subseteq Items(r)
                                /\ Pending(r)' \subseteq Pending(r)
                                /\ run'[r] # "NONE"
                                /\ run[r] # "DRAFT" => run'[r] # "DRAFT"
         /\ op[u] # "removeFromRun" => Items(r) \subseteq Items(r)'
         /\ op[u] \in PayOps \cup {"markFailed"} => Pending(r)' \cap rows[u] = {}
<1>1. Written(u)
  BY DEF Commit, Written
<1>2. /\ \A q \in Runs \ {r} : item'[q] = item[q]
      /\ run'[r] = IF verdict[u] = "same" THEN run[r] ELSE verdict[u]
      /\ \A i \in Invoices :
            item'[r][i] = IF i \in rows[u] THEN ItemAfter(op[u], item[r][i]) ELSE item[r][i]
      /\ sent[r] \subseteq sent'[r]
  BY <1>1, CommitRows
<1>3. \A i \in Invoices : item[r][i] \in {"NONE", "PENDING", "PAID", "FAILED"}
  BY <1>1 DEF TypeOK
<1>4. op[u] \in PayOps \cup {"markFailed"} => rows[u] \subseteq Items(r)
  BY <1>1 DEF SettleInv, PremiseInv, VerdictInv, Open, Written
<1>5. op[u] = "create" => run[r] = "NONE" /\ run'[r] = "DRAFT"
  BY <1>1, <1>2 DEF LockInv, OverwriteInv
<1>6. op[u] # "create" => run'[r] # "NONE" /\ (run[r] # "DRAFT" => run'[r] # "DRAFT")
  <2>0. ASSUME op[u] # "create"
        PROVE  run[r] # "NONE" /\ (verdict[u] = "DRAFT" => run[r] = "DRAFT") /\ verdict[u] # "NONE"
    <3>1. run[r] # "NONE"
      BY <2>0, <1>1 DEF SettleInv, PremiseInv, Open, Written
    <3>2. verdict[u] # "NONE"
      BY DEF TypeOK, RunStatus
    <3>3. verdict[u] = "DRAFT" => op[u] = "removeFromRun"
      BY <2>0, <1>1 DEF LockInv, OverwriteInv
    <3>4. op[u] = "removeFromRun" => run[r] = "DRAFT"
      BY <1>1 DEF LockInv, OverwriteInv
    <3> QED
      BY <3>1, <3>2, <3>3, <3>4
  <2>1. run'[r] = run[r] \/ run'[r] = verdict[u]
    BY <1>2
  <2> QED
    BY <2>0, <2>1
<1>7. op[u] # "create" => Items(r)' \subseteq Items(r) /\ Pending(r)' \subseteq Pending(r)
  BY <1>2, <1>3, <1>4, ItemAfterType DEF Items, Pending
<1>8. op[u] # "removeFromRun" => Items(r) \subseteq Items(r)'
  BY <1>2, <1>3 DEF Items, ItemAfter
<1>9. op[u] \in PayOps \cup {"markFailed"} => Pending(r)' \cap rows[u] = {}
  BY <1>2, <1>3, ItemAfterType DEF Pending
<1>10. \A q \in Runs \ {r} : Items(q)' = Items(q) /\ Pending(q)' = Pending(q)
  BY <1>2 DEF Items, Pending
<1> QED
  BY <1>1, <1>2, <1>5, <1>6, <1>7, <1>8, <1>9, <1>10

LEMMA SettleInit == Init => SettleInv
BY DEF Init, SettleInv, SettledInv, PremiseInv, VerdictInv, Open, Written, Items, Pending

LEMMA SettleCommit ==
  ASSUME TypeOK, LockInv, SettleInv, NEW u \in Users, Commit(u)
  PROVE  SettleInv'
<1>1. PICK r \in Runs : target[u] = r
  BY DEF Commit, LockInv, OverwriteInv, Open
<1>2. /\ Written(u)
      /\ \A q \in Runs \ {r} : Items(q)' = Items(q) /\ Pending(q)' = Pending(q)
      /\ sent[r] \subseteq sent'[r]
      /\ op[u] = "create" => run[r] = "NONE" /\ run'[r] = "DRAFT"
      /\ op[u] # "create" => /\ Items(r)' \subseteq Items(r)
                             /\ Pending(r)' \subseteq Pending(r)
                             /\ run'[r] # "NONE"
                             /\ run[r] # "DRAFT" => run'[r] # "DRAFT"
      /\ op[u] # "removeFromRun" => Items(r) \subseteq Items(r)'
      /\ op[u] \in PayOps \cup {"markFailed"} => Pending(r)' \cap rows[u] = {}
  BY <1>1, CommitSettles
<1>3. /\ \A q \in Runs \ {r} : /\ run'[q] = run[q] /\ item'[q] = item[q]
                               /\ paid'[q] = paid[q] /\ sent'[q] = sent[q]
      /\ run'[r] = IF verdict[u] = "same" THEN run[r] ELSE verdict[u]
      /\ \A i \in Invoices :
           /\ item'[r][i] = IF i \in rows[u] THEN ItemAfter(op[u], item[r][i]) ELSE item[r][i]
           /\ paid'[r][i] = IF i \in rows[u] /\ op[u] \in PayOps
                            THEN paid[r][i] + 1 ELSE paid[r][i]
      /\ op[u] = "lockAndExport" /\ verdict[u] = "EXPORTED" => sent'[r] = sent[r] \cup rows[u]
  BY <1>1, CommitRows
<1>4. phase'[u] = "idle" /\ \A v \in Users \ {u} : Same(v)
  BY <1>1, <1>2, DoneFrame DEF Commit
<1>5. SettledInv'
  <2>1. run'[r] \in {"COMPLETED", "FAILED"} => Pending(r)' = {}
    BY <1>1, <1>2, <1>3 DEF SettleInv, SettledInv, VerdictInv
  <2>2. run'[r] = "NONE" => Items(r)' = {}
    BY <1>2
  <2>3. run'[r] \in {"EXPORTED", "COMPLETED"} => Items(r)' \subseteq sent'[r]
    <3>1. CASE op[u] = "create"
      BY <3>1, <1>2
    <3>2. CASE op[u] # "create" /\ verdict[u] = "same"
      BY <3>2, <1>2, <1>3 DEF SettleInv, SettledInv
    <3>3. CASE op[u] # "create" /\ verdict[u] = "EXPORTED"
      BY <3>3, <1>1, <1>2, <1>3 DEF SettleInv, PremiseInv, LockInv, OverwriteInv, Open, Written
    <3>4. CASE op[u] # "create" /\ verdict[u] = "COMPLETED"
      BY <3>4, <1>1, <1>2, <1>3 DEF SettleInv, PremiseInv, VerdictInv, Open, Written
    <3> QED
      BY <3>1, <3>2, <3>3, <3>4, <1>3
  <2>4. \A i \in Invoices : item'[r][i] = "PAID" \/ paid'[r][i] > 0 => i \in sent'[r]
    <3> SUFFICES ASSUME NEW i \in Invoices, item'[r][i] = "PAID" \/ paid'[r][i] > 0
                 PROVE  i \in sent'[r]
      OBVIOUS
    <3>1. item[r][i] \in {"NONE", "PENDING", "PAID", "FAILED"} /\ paid[r][i] \in Nat
      BY DEF TypeOK
    <3>2. item[r][i] = "PAID" \/ paid[r][i] > 0 \/ (i \in rows[u] /\ op[u] \in PayOps)
      BY <1>3, <3>1, ItemAfterType
    <3>3. i \in rows[u] /\ op[u] \in PayOps => i \in sent[r]
      BY <1>1, <1>2 DEF SettleInv, PremiseInv, Open, Written
    <3>4. item[r][i] = "PAID" \/ paid[r][i] > 0 => i \in sent[r]
      BY DEF SettleInv, SettledInv
    <3> QED
      BY <1>2, <3>2, <3>3, <3>4
  <2>5. \A q \in Runs \ {r} :
          /\ run'[q] \in {"COMPLETED", "FAILED"} => Pending(q)' = {}
          /\ run'[q] = "NONE" => Items(q)' = {}
          /\ run'[q] \in {"EXPORTED", "COMPLETED"} => Items(q)' \subseteq sent'[q]
          /\ \A i \in Invoices : item'[q][i] = "PAID" \/ paid'[q][i] > 0 => i \in sent'[q]
    BY <1>2, <1>3 DEF SettleInv, SettledInv
  <2>6. \A q \in Runs :
          /\ run'[q] \in {"COMPLETED", "FAILED"} => Pending(q)' = {}
          /\ run'[q] = "NONE" => Items(q)' = {}
          /\ run'[q] \in {"EXPORTED", "COMPLETED"} => Items(q)' \subseteq sent'[q]
          /\ \A i \in Invoices : item'[q][i] = "PAID" \/ paid'[q][i] > 0 => i \in sent'[q]
    BY <2>1, <2>2, <2>3, <2>4, <2>5
  <2> QED
    BY <2>6 DEF SettledInv
<1>6. ASSUME NEW v \in Users \ {u}, Open(v)
      PROVE  \E q \in Runs :
         /\ target[v] = q /\ target'[v] = q /\ op'[v] = op[v] /\ rows'[v] = rows[v]
         /\ verdict'[v] = verdict[v] /\ phase'[v] = phase[v]
         /\ op[v] # "create" => /\ run'[q] # "NONE"
                                /\ run[q] # "DRAFT" => run'[q] # "DRAFT"
                                /\ Items(q)' \subseteq Items(q)
                                /\ Pending(q)' \subseteq Pending(q)
                                /\ sent[q] \subseteq sent'[q]
  <2>1. PICK q \in Runs : target[v] = q
    BY <1>6 DEF LockInv, OverwriteInv, Open
  <2>2. op[v] # "create" => run[q] # "NONE"
    BY <1>6, <2>1 DEF SettleInv, PremiseInv
  <2>3. CASE q = r
    BY <2>1, <2>2, <2>3, <1>2, <1>4 DEF Same
  <2>4. CASE q # r
    BY <2>1, <2>2, <2>4, <1>2, <1>3, <1>4 DEF Same
  <2> QED
    BY <2>3, <2>4
<1>7. ASSUME NEW v \in Users \ {u}, NEW q \in Runs, Open(v), target[v] = q,
             \/ op[v] \in PayOps
             \/ Written(v) /\ op[v] = "markFailed",
             rows[v] \subseteq Items(q)
      PROVE  rows[v] \subseteq Items(q)'
  <2>1. CASE q # r
    BY <2>1, <1>2, <1>7
  <2>2. CASE q = r /\ op[u] # "removeFromRun"
    BY <2>2, <1>2, <1>7
  <2>3. CASE q = r /\ op[u] = "removeFromRun" /\ op[v] \in PayOps
    BY <2>3, <1>1, <1>2, <1>7 DEF LockInv, OverwriteInv, SettleInv, PremiseInv
  <2>4. CASE q = r /\ op[u] = "removeFromRun" /\ Written(v) /\ op[v] = "markFailed"
    <3>1. rows[u] \cap rows[v] = {}
      BY <2>4, <1>2 DEF LockInv, HoldInv
    <3> QED
      BY <2>4, <3>1, <1>3, <1>7 DEF Items
  <2> QED
    BY <1>7, <2>1, <2>2, <2>3, <2>4
<1>8. PremiseInv'
  <2> SUFFICES ASSUME NEW v \in Users, Open(v)'
               PROVE  /\ op'[v] # "create" => run'[target'[v]] # "NONE"
                      /\ op'[v] = "markAllPaid" => Pending(target[v])' \subseteq rows'[v]
                      /\ op'[v] \in PayOps =>
                           /\ Items(target[v])' \cup rows'[v] \subseteq sent'[target'[v]]
                           /\ rows'[v] \subseteq Items(target[v])'
                           /\ run'[target'[v]] # "DRAFT"
                      /\ op'[v] = "lockAndExport" => Items(target[v])' \subseteq rows'[v]
                      /\ op'[v] = "markFailed" => rows'[v] # {}
    BY DEF PremiseInv, PayOps
  <2>1. v # u /\ Open(v)
    BY <1>4 DEF Open, Same
  <2>2. PICK q \in Runs :
         /\ target[v] = q /\ target'[v] = q /\ op'[v] = op[v] /\ rows'[v] = rows[v]
         /\ op[v] # "create" => /\ run'[q] # "NONE"
                                /\ run[q] # "DRAFT" => run'[q] # "DRAFT"
                                /\ Items(q)' \subseteq Items(q)
                                /\ Pending(q)' \subseteq Pending(q)
                                /\ sent[q] \subseteq sent'[q]
    BY <2>1, <1>6
  <2>3. /\ op[v] = "markAllPaid" => Pending(q) \subseteq rows[v]
        /\ op[v] \in PayOps => /\ Items(q) \cup rows[v] \subseteq sent[q]
                               /\ rows[v] \subseteq Items(q)
                               /\ run[q] # "DRAFT"
        /\ op[v] = "lockAndExport" => Items(q) \subseteq rows[v]
        /\ op[v] = "markFailed" => rows[v] # {}
    BY <2>1, <2>2 DEF SettleInv, PremiseInv
  <2>4. op[v] \in PayOps => rows[v] \subseteq Items(q)' /\ op[v] # "create"
    BY <2>1, <2>2, <2>3, <1>7 DEF PayOps
  <2>5. Items(target[v])' = Items(q)' /\ Pending(target[v])' = Pending(q)'
    BY <2>2 DEF Items, Pending
  <2> QED
    BY <2>2, <2>3, <2>4, <2>5
<1>9. VerdictInv'
  <2> SUFFICES ASSUME NEW v \in Users, Written(v)'
               PROVE  /\ op'[v] = "markFailed" => rows'[v] \subseteq Items(target[v])'
                      /\ verdict'[v] \in {"COMPLETED", "FAILED"} =>
                           /\ op'[v] \in PayOps \cup {"markFailed"}
                           /\ Pending(target[v])' \subseteq rows'[v]
                      /\ verdict'[v] = "COMPLETED" => op'[v] \in PayOps
    BY DEF VerdictInv, PayOps
  <2>1. v # u /\ Open(v) /\ Written(v)
    BY <1>4 DEF Open, Written, Same
  <2>2. PICK q \in Runs :
         /\ target[v] = q /\ target'[v] = q /\ op'[v] = op[v] /\ rows'[v] = rows[v]
         /\ verdict'[v] = verdict[v]
         /\ op[v] # "create" => Pending(q)' \subseteq Pending(q)
    BY <2>1, <1>6
  <2>3. /\ op[v] = "markFailed" => rows[v] \subseteq Items(q)
        /\ verdict[v] \in {"COMPLETED", "FAILED"} =>
             op[v] \in PayOps \cup {"markFailed"} /\ Pending(q) \subseteq rows[v]
        /\ verdict[v] = "COMPLETED" => op[v] \in PayOps
    BY <2>1, <2>2 DEF SettleInv, VerdictInv
  <2>4. op[v] = "markFailed" => rows[v] \subseteq Items(q)'
    BY <2>1, <2>2, <2>3, <1>7
  <2>5. Items(target[v])' = Items(q)' /\ Pending(target[v])' = Pending(q)'
    BY <2>2 DEF Items, Pending
  <2>6. op[v] \in PayOps \cup {"markFailed"} => op[v] # "create"
    BY DEF PayOps
  <2> QED
    BY <2>2, <2>3, <2>4, <2>5, <2>6
<1> QED
  BY <1>5, <1>8, <1>9 DEF SettleInv

LEMMA SettleNext == TypeOK /\ LockInv /\ SettleInv /\ [Next]_vars => SettleInv'
<1> SUFFICES ASSUME TypeOK, LockInv, SettleInv, [Next]_vars PROVE SettleInv'
  OBVIOUS
<1> DEFINE Frame == UNCHANGED dataVars => /\ SettledInv'
                                          /\ \A r \in Runs : Items(r)' = Items(r)
                                          /\ \A r \in Runs : Pending(r)' = Pending(r)
<1>1. Frame
  BY DEF dataVars, SettleInv, SettledInv, Items, Pending
<1>2. ASSUME NEW u \in Users, Reads(u) PROVE SettleInv'
  <2>1. PICK o \in Ops \ {"none"}, r \in Runs, S \in SUBSET Invoices :
            /\ Read(u, o, r, S)
            /\ o # "create" => run[r] # "NONE"
            /\ o = "markAllPaid" => Pending(r) \subseteq S
            /\ o \in PayOps => /\ Items(r) \cup S \subseteq sent[r]
                               /\ S \subseteq Items(r)
                               /\ run[r] # "DRAFT"
            /\ o = "lockAndExport" => Items(r) \subseteq S
            /\ o = "markFailed" => S # {}
    BY <1>2, ReadPremise DEF SettleInv
  <2>2. /\ phase'[u] = "read" /\ op'[u] = o /\ target'[u] = r /\ rows'[u] = S
        /\ \A v \in Users \ {u} : Same(v)
        /\ UNCHANGED dataVars
    BY <2>1, ReadFrame
  <2>3. PremiseInv'
    BY <2>1, <2>2 DEF SettleInv, PremiseInv, Open, Same, dataVars, Items, Pending
  <2>4. VerdictInv'
    BY <2>2 DEF SettleInv, VerdictInv, Written, Same, dataVars, Items, Pending
  <2> QED
    BY <1>1, <2>2, <2>3, <2>4 DEF SettleInv
<1>3. ASSUME NEW u \in Users, Writes(u) PROVE SettleInv'
  <2>1. /\ phase[u] = "read" /\ phase'[u] = "written"
        /\ op'[u] = op[u] /\ target'[u] = target[u] /\ rows'[u] = rows[u]
        /\ \A v \in Users \ {u} : Same(v)
        /\ UNCHANGED dataVars
    BY <1>3, WritesAre, WriteFrame
  <2>2. PremiseInv'
    BY <2>1 DEF SettleInv, PremiseInv, Open, Same, dataVars, Items, Pending
  <2>3. VerdictInv'
    BY <1>3, <2>1, WriteVerdict
    DEF SettleInv, VerdictInv, Written, Same, dataVars, Items, Pending
  <2> QED
    BY <1>1, <2>1, <2>2, <2>3 DEF SettleInv
<1>4. ASSUME NEW u \in Users, WriteRemove(u) PROVE SettleInv'
  <2>1. PICK r \in Runs :
            /\ run[r] = "DRAFT"
            /\ phase'[u] = "written" /\ op'[u] = "removeFromRun" /\ target'[u] = r
            /\ verdict'[u] \in {"CANCELLED", "DRAFT"}
            /\ \A v \in Users \ {u} : Same(v)
            /\ UNCHANGED dataVars
    BY <1>4, RemoveFrame
  <2>2. PremiseInv'
    BY <2>1 DEF SettleInv, PremiseInv, Open, Same, dataVars, Items, Pending, PayOps
  <2>3. VerdictInv'
    BY <2>1 DEF SettleInv, VerdictInv, Written, Same, dataVars, Items, Pending
  <2> QED
    BY <1>1, <2>1, <2>2, <2>3 DEF SettleInv
<1>5. ASSUME NEW u \in Users, Rollback(u) PROVE SettleInv'
  <2>1. /\ phase'[u] = "idle" /\ \A v \in Users \ {u} : Same(v)
        /\ UNCHANGED dataVars
    BY <1>5, DoneFrame DEF Rollback
  <2> QED
    BY <1>1, <2>1
    DEF SettleInv, PremiseInv, VerdictInv, Open, Written, Same, dataVars, Items, Pending
<1>6. CASE UNCHANGED vars
  BY <1>1, <1>6
  DEF vars, reqVars, dataVars, SettleInv, PremiseInv, VerdictInv, Open, Written, Items, Pending
<1> QED
  BY <1>2, <1>3, <1>4, <1>5, <1>6, SettleCommit, NextSplit

LEMMA SettleInvariant == Spec => []SettleInv
<1>1. TypeOK /\ LockInv /\ SettleInv /\ [Next]_vars => TypeOK' /\ LockInv' /\ SettleInv'
  BY TypeNext, LockNext, SettleNext
<1> QED
  BY TypeInit, LockInit, SettleInit, <1>1, PTL DEF Spec

\* A closed run has nothing left to be paid, with any number of requests.
THEOREM PaymentCompletedIsSettled == Spec => []CompletedIsSettled
<1>1. SettleInv => CompletedIsSettled
  BY DEF SettleInv, SettledInv, CompletedIsSettled
<1> QED
  BY <1>1, SettleInvariant, PTL

\* Whatever is marked as paid was in the bank file of its run.
THEOREM PaymentPaidWasSent == Spec => []PaidWasSent
<1>1. SettleInv => PaidWasSent
  BY DEF SettleInv, SettledInv, PaidWasSent
<1> QED
  BY <1>1, SettleInvariant, PTL
-----------------------------------------------------------------------------
(* Where an invoice is.                                                       *)

\* What a request that closes a run, or confirms a statement, relies on.
CloseInv ==
  \A u \in Users :
     /\ Open(u) => op[u] # "none"
     /\ Open(u) /\ op[u] = "cancel" => Pending(target[u]) \subseteq rows[u]
     /\ Written(u) /\ op[u] = "cancel" => verdict[u] = "CANCELLED"
     /\ Written(u) /\ verdict[u] = "CANCELLED" =>
          op[u] \in {"cancel", "removeFromRun"} /\ Pending(target[u]) \subseteq rows[u]
     /\ Written(u) /\ op[u] = "confirmStatementMatches" => rows[u] \subseteq Pending(target[u])

Waiting(r, i) == run[r] \in Active /\ item[r][i] = "PENDING"

\* The payment status of an invoice tells its items, and so do its payments.
Place(i) ==
  /\ pay[i] # "IN_RUN" => \A r \in Runs : ~Waiting(r, i)
  /\ pay[i] # "PAID" => \A r \in Runs : item[r][i] # "PAID"
  /\ pay[i] = "IN_RUN" => \E r \in Runs : Waiting(r, i) /\ \A q \in Runs : Waiting(q, i) => q = r
  /\ pay[i] = "PAID" =>
       \E r \in Runs : item[r][i] = "PAID" /\ \A q \in Runs : item[q][i] = "PAID" => q = r
  /\ \A r \in Runs : paid[r][i] = IF item[r][i] = "PAID" THEN 1 ELSE 0

PlaceInv == \A i \in Invoices \ stale : Place(i)

LEMMA PlaceInit == Init => CloseInv /\ PlaceInv
BY DEF Init, CloseInv, PlaceInv, Place, Waiting, Open, Written, Active

\* A cancellation reads every item still to be paid.
LEMMA ReadCloses ==
  ASSUME TypeOK, NEW u \in Users, Reads(u)
  PROVE  /\ phase'[u] = "read" /\ op'[u] # "none" /\ UNCHANGED dataVars
         /\ \A v \in Users \ {u} : Same(v)
         /\ op'[u] = "cancel" => Pending(target'[u]) \subseteq rows'[u]
<1>1. CASE ReadCancel(u)
  <2>1. PICK r \in Runs : Read(u, "cancel", r, {i \in Items(r) : item[r][i] # "PAID"})
    BY <1>1 DEF ReadCancel
  <2>2. /\ phase'[u] = "read" /\ op'[u] = "cancel" /\ target'[u] = r
        /\ rows'[u] = {i \in Items(r) : item[r][i] # "PAID"}
        /\ \A v \in Users \ {u} : Same(v)
        /\ UNCHANGED dataVars
    BY <2>1, ReadFrame
  <2>3. Pending(r) \subseteq {i \in Items(r) : item[r][i] # "PAID"}
    BY DEF Pending, Items
  <2> QED
    BY <2>2, <2>3
<1>2. CASE ReadCreate(u) \/ ReadExport(u) \/ ReadItem(u) \/ ReadMarkAll(u) \/ ReadConfirm(u)
  <2>1. \E o \in Ops \ {"none", "cancel"}, r \in Runs : \E S : Read(u, o, r, S)
    BY <1>2 DEF ReadCreate, ReadExport, ReadItem, ReadMarkAll, ReadConfirm, Ops, PayOps
  <2> QED
    BY <2>1, ReadFrame
<1> QED
  BY <1>1, <1>2 DEF Reads

\* A statement is written on items still to be paid, CANCELLED by a cancellation.
LEMMA WriteCloses ==
  ASSUME TypeOK, NEW u \in Users, Writes(u)
  PROVE  /\ phase[u] = "read" /\ phase'[u] = "written"
         /\ op'[u] = op[u] /\ target'[u] = target[u] /\ rows'[u] = rows[u] /\ UNCHANGED dataVars
         /\ \A v \in Users \ {u} : Same(v)
         /\ op[u] = "cancel" <=> verdict'[u] = "CANCELLED"
         /\ op[u] = "confirmStatementMatches" => rows[u] \subseteq Pending(target[u])
<1>0. /\ phase[u] = "read" /\ phase'[u] = "written"
      /\ op'[u] = op[u] /\ target'[u] = target[u] /\ rows'[u] = rows[u] /\ UNCHANGED dataVars
      /\ \A v \in Users \ {u} : Same(v)
  BY WritesAre, WriteFrame
<1>1. CASE WriteCreate(u)
  BY <1>0, <1>1, WriteFrame DEF WriteCreate
<1>2. CASE WriteExport(u)
  <2>1. op[u] = "lockAndExport" /\ verdict'[u] \in {"EXPORTED", "same"}
    BY <1>2, WriteFrame DEF WriteExport
  <2> QED
    BY <1>0, <2>1
<1>3. CASE WriteItem(u)
  <2>1. PICK o \in {"markPaid", "markFailed"} :
          Write(u, o, AutoComplete(target[u], rows[u], ItemAfter(o, "PENDING")))
    BY <1>3 DEF WriteItem
  <2>2. op[u] = o /\ verdict'[u] \in {"same", "FAILED", "COMPLETED"}
    BY <2>1, WriteFrame, AutoCompleteType
  <2> QED
    BY <1>0, <2>2
<1>4. CASE WriteMarkAll(u)
  BY <1>0, <1>4, WriteFrame DEF WriteMarkAll
<1>5. CASE WriteConfirm(u)
  <2>1. /\ op[u] = "confirmStatementMatches" /\ rows[u] \subseteq Pending(target[u])
        /\ verdict'[u] \in {"same", "FAILED", "COMPLETED"}
    BY <1>5, WriteFrame, AutoCompleteType DEF WriteConfirm
  <2> QED
    BY <1>0, <2>1
<1>6. CASE WriteCancel(u)
  BY <1>0, <1>6, WriteFrame DEF WriteCancel
<1> QED
  BY <1>1, <1>2, <1>3, <1>4, <1>5, <1>6 DEF Writes

\* Removing the last item cancels the run.
LEMMA RemoveCloses ==
  ASSUME TypeOK, NEW u \in Users, WriteRemove(u)
  PROVE  /\ op'[u] = "removeFromRun" /\ UNCHANGED dataVars
         /\ \A v \in Users \ {u} : Same(v)
         /\ verdict'[u] = "CANCELLED" => Pending(target'[u]) \subseteq rows'[u]
<1>1. PICK r \in Runs : \E i \in Items(r) :
        /\ target' = [target EXCEPT ![u] = r]
        /\ rows' = [rows EXCEPT ![u] = {i}]
        /\ verdict' = [verdict EXCEPT ![u] = IF Items(r) = {i} THEN "CANCELLED" ELSE "DRAFT"]
  BY DEF WriteRemove
<1>i. PICK i \in Items(r) :
        /\ target' = [target EXCEPT ![u] = r]
        /\ rows' = [rows EXCEPT ![u] = {i}]
        /\ verdict' = [verdict EXCEPT ![u] = IF Items(r) = {i} THEN "CANCELLED" ELSE "DRAFT"]
  BY <1>1
<1>2. /\ target'[u] = r /\ rows'[u] = {i}
      /\ verdict'[u] = IF Items(r) = {i} THEN "CANCELLED" ELSE "DRAFT"
  BY <1>i DEF TypeOK
<1>3. Pending(r) \subseteq Items(r)
  BY DEF Pending, Items
<1>4. op'[u] = "removeFromRun" /\ UNCHANGED dataVars /\ \A v \in Users \ {u} : Same(v)
  BY RemoveFrame
<1> QED
  BY <1>2, <1>3, <1>4

\* A commit on a run neither adds an item to be paid under a request that closes
\* it, nor takes one away from a statement.
LEMMA CloseCommit ==
  ASSUME TypeOK, LockInv, SettleInv, CloseInv, NEW u \in Users, Commit(u)
  PROVE  CloseInv'
<1>1. PICK r \in Runs : target[u] = r
  BY DEF Commit, LockInv, OverwriteInv, Open
<1>2. /\ Written(u)
      /\ \A q \in Runs \ {r} : Pending(q)' = Pending(q)
      /\ op[u] = "create" => run[r] = "NONE"
      /\ op[u] # "create" => Pending(r)' \subseteq Pending(r)
  BY <1>1, CommitSettles
<1>3. \A i \in Invoices :
        item'[r][i] = IF i \in rows[u] THEN ItemAfter(op[u], item[r][i]) ELSE item[r][i]
  BY <1>1, CommitRows
<1>4. phase'[u] = "idle" /\ \A v \in Users \ {u} : Same(v)
  BY <1>1, <1>2, DoneFrame DEF Commit
<1>5. ASSUME NEW v \in Users \ {u}, Open(v), op[v] # "create"
      PROVE  Pending(target[v])' \subseteq Pending(target[v])
  <2>1. target[v] \in Runs /\ run[target[v]] # "NONE" /\ target'[v] = target[v]
    BY <1>4, <1>5 DEF LockInv, OverwriteInv, SettleInv, PremiseInv, Same
  <2>2. CASE target[v] = r
    <3>1. Pending(target[v])' = Pending(r)'
      BY <2>1, <2>2 DEF Pending
    <3> QED
      BY <1>2, <2>1, <2>2, <3>1
  <2>3. CASE target[v] # r
    <3>1. Pending(target[v])' = Pending(target[v])
      BY <1>2, <2>1, <2>3 DEF Pending
    <3> QED
      BY <3>1
  <2> QED
    BY <2>2, <2>3
<1>6. ASSUME NEW v \in Users \ {u}, Written(v), op[v] = "confirmStatementMatches"
      PROVE  rows'[v] \subseteq Pending(target[v])'
  <2>1. /\ target[v] \in Runs /\ target'[v] = target[v] /\ rows'[v] = rows[v]
        /\ rows[v] \subseteq Pending(target[v])
    BY <1>4, <1>6 DEF LockInv, OverwriteInv, CloseInv, Same, Open, Written
  <2>2. op[u] = "lockAndExport" \/ rows[u] \cap rows[v] = {}
    BY <1>2, <1>6 DEF LockInv, HoldInv
  <2>3. ASSUME NEW i \in rows[v] PROVE item'[target[v]][i] = "PENDING"
    <3>1. i \in Invoices /\ item[target[v]][i] = "PENDING"
      BY <2>1 DEF Pending
    <3>2. CASE target[v] = r
      BY <1>3, <2>2, <3>1, <3>2 DEF ItemAfter, PayOps
    <3>3. CASE target[v] # r
      BY <1>1, <2>1, <3>1, <3>3, CommitRows
    <3> QED
      BY <3>2, <3>3
  <2> QED
    BY <2>1, <2>3 DEF Pending
<1> QED
  <2>1. ~Open(u)' /\ ~Written(u)'
    BY <1>4 DEF Open, Written
  <2>2. ASSUME NEW v \in Users \ {u}
        PROVE  /\ Open(v)' => op'[v] # "none"
               /\ Open(v)' /\ op'[v] = "cancel" => Pending(target[v])' \subseteq rows'[v]
               /\ Written(v)' /\ op'[v] = "cancel" => verdict'[v] = "CANCELLED"
               /\ Written(v)' /\ verdict'[v] = "CANCELLED" =>
                    op'[v] \in {"cancel", "removeFromRun"} /\ Pending(target[v])' \subseteq rows'[v]
               /\ Written(v)' /\ op'[v] = "confirmStatementMatches" =>
                    rows'[v] \subseteq Pending(target[v])'
    <3>1. Same(v) /\ (Open(v)' => Open(v)) /\ (Written(v)' => Written(v) /\ Open(v))
      BY <1>4 DEF Same, Open, Written
    <3>2. /\ Open(v)' /\ op'[v] = "cancel" => Pending(target[v])' \subseteq rows'[v]
      BY <1>5, <3>1 DEF CloseInv, Same
    <3>3. /\ Written(v)' /\ verdict'[v] = "CANCELLED" =>
               op'[v] \in {"cancel", "removeFromRun"} /\ Pending(target[v])' \subseteq rows'[v]
      BY <1>5, <3>1 DEF CloseInv, Same
    <3> QED
      BY <1>6, <3>1, <3>2, <3>3 DEF CloseInv, Same
  <2> QED
    BY <2>1, <2>2 DEF CloseInv

LEMMA CloseNext == TypeOK /\ LockInv /\ SettleInv /\ CloseInv /\ [Next]_vars => CloseInv'
<1> SUFFICES ASSUME TypeOK, LockInv, SettleInv, CloseInv, [Next]_vars PROVE CloseInv'
  OBVIOUS
<1> USE DEF CloseInv, Open, Written, Same, dataVars, Pending
<1>1. ASSUME NEW u \in Users, Reads(u) PROVE CloseInv'
  BY <1>1, ReadCloses
<1>2. ASSUME NEW u \in Users, Writes(u) PROVE CloseInv'
  BY <1>2, WriteCloses
<1>3. ASSUME NEW u \in Users, WriteRemove(u) PROVE CloseInv'
  BY <1>3, RemoveCloses
<1>4. ASSUME NEW u \in Users, Rollback(u) PROVE CloseInv'
  BY <1>4, DoneFrame DEF Rollback
<1>5. CASE UNCHANGED vars
  BY <1>5 DEF vars, reqVars
<1> QED
  BY <1>1, <1>2, <1>3, <1>4, <1>5, CloseCommit, NextSplit

\* A commit moves no invoice but those of its rows: a run leaves the active ones
\* only when nothing else in it is to be paid.
LEMMA PlaceOthers ==
  ASSUME TypeOK, LockInv, SettleInv, CloseInv, NEW u \in Users, Commit(u),
         NEW i \in Invoices, i \notin rows[u], Place(i)
  PROVE  Place(i)'
<1>1. PICK r \in Runs : target[u] = r
  BY DEF Commit, LockInv, OverwriteInv, Open
<1>2. /\ Written(u) /\ Open(u)
      /\ \A q \in Runs \ {r} : run'[q] = run[q] /\ item'[q] = item[q] /\ paid'[q] = paid[q]
      /\ run'[r] = IF verdict[u] = "same" THEN run[r] ELSE verdict[u]
      /\ item'[r][i] = item[r][i] /\ paid'[r][i] = paid[r][i]
  <2>1. phase[u] = "written"
    BY DEF Commit
  <2> QED
    BY <1>1, <2>1, CommitRows DEF Written, Open
<1>3. pay'[i] = pay[i]
  BY DEF Commit
<1>4. ASSUME item[r][i] = "PENDING" PROVE run'[r] \in Active <=> run[r] \in Active
  <2>1. i \in Pending(r) /\ i \in Items(r) /\ run[r] # "NONE"
    BY <1>4 DEF Pending, Items, SettleInv, SettledInv
  <2>2. verdict[u] \notin {"COMPLETED", "FAILED", "CANCELLED"}
    BY <1>1, <1>2, <2>1 DEF SettleInv, VerdictInv, CloseInv
  <2>3. verdict[u] \in {"DRAFT", "EXPORTED"} => run[r] \in Active
    BY <1>1, <1>2, <2>1 DEF LockInv, OverwriteInv, Active
  <2>4. verdict[u] \in {"DRAFT", "EXPORTED", "same"}
    BY <2>2 DEF TypeOK, RunStatus
  <2> QED
    BY <1>2, <2>3, <2>4 DEF Active
<1>5. \A q \in Runs : /\ Waiting(q, i)' <=> Waiting(q, i)
                      /\ item'[q][i] = item[q][i] /\ paid'[q][i] = paid[q][i]
  BY <1>2, <1>4 DEF Waiting
<1> QED
  BY <1>3, <1>5 DEF Place

\* An invoice of its rows, on the premise the operation needs, goes where its
\* payment status says.
LEMMA PlaceRows ==
  ASSUME TypeOK, LockInv, SettleInv, CloseInv, NEW u \in Users, Commit(u),
         NEW i \in rows[u], i \notin Stale(u), Place(i)
  PROVE  Place(i)'
<1>1. PICK r \in Runs : target[u] = r
  BY DEF Commit, LockInv, OverwriteInv, Open
<1>2. i \in Invoices
  BY DEF TypeOK
<1>3. /\ Written(u) /\ Open(u) /\ op[u] # "none" /\ op[u] \in Ops
      /\ \A q \in Runs \ {r} : run'[q] = run[q] /\ item'[q] = item[q] /\ paid'[q] = paid[q]
      /\ run'[r] = IF verdict[u] = "same" THEN run[r] ELSE verdict[u]
      /\ item'[r][i] = ItemAfter(op[u], item[r][i])
      /\ paid'[r][i] = IF op[u] \in PayOps THEN paid[r][i] + 1 ELSE paid[r][i]
  <2>1. Written(u) /\ Open(u)
    BY DEF Commit, Written, Open
  <2>2. op[u] # "none" /\ op[u] \in Ops
    BY <2>1 DEF CloseInv, TypeOK
  <2> QED
    BY <2>1, <2>2, <1>1, <1>2, CommitRows
<1>4. pay'[i] = PayAfter(op[u], pay[i]) /\ pay[i] \in {"READY", "IN_RUN", "PAID"}
  BY <1>2 DEF Commit, TypeOK
<1>5. \A q \in Runs \ {r} : /\ Waiting(q, i)' <=> Waiting(q, i)
                            /\ item'[q][i] = item[q][i] /\ paid'[q][i] = paid[q][i]
  BY <1>3 DEF Waiting
<1>6. CASE op[u] = "lockAndExport"
  <2>1. run'[r] \in Active <=> run[r] \in Active
    BY <1>1, <1>3, <1>6 DEF LockInv, OverwriteInv, Active
  <2>2. item'[r][i] = item[r][i] /\ paid'[r][i] = paid[r][i] /\ pay'[i] = pay[i]
    BY <1>3, <1>4, <1>6 DEF ItemAfter, PayAfter, PayOps
  <2>3. \A q \in Runs : /\ Waiting(q, i)' <=> Waiting(q, i)
                        /\ item'[q][i] = item[q][i] /\ paid'[q][i] = paid[q][i]
    BY <1>5, <2>1, <2>2 DEF Waiting
  <2> QED
    BY <2>2, <2>3 DEF Place
<1>7. CASE op[u] = "create"
  <2>1. pay[i] = "READY"
    BY <1>7 DEF Stale
  <2>2. run'[r] = "DRAFT" /\ item'[r][i] = "PENDING" /\ pay'[i] = "IN_RUN" /\ paid'[r][i] = paid[r][i]
    BY <1>1, <1>3, <1>4, <1>7 DEF LockInv, OverwriteInv, ItemAfter, PayAfter, PayOps
  <2>3. \A q \in Runs : ~Waiting(q, i) /\ item[q][i] # "PAID" /\ paid[q][i] = 0
    BY <2>1 DEF Place
  <2>4. Waiting(r, i)' /\ \A q \in Runs \ {r} : ~Waiting(q, i)'
    BY <1>5, <2>2, <2>3 DEF Waiting, Active
  <2> QED
    BY <1>5, <2>2, <2>3, <2>4 DEF Place
<1>8. CASE op[u] \notin {"lockAndExport", "create"}
  <2>1. run[r] \in Active /\ item[r][i] = "PENDING"
    <3>1. CASE op[u] = "confirmStatementMatches"
      BY <1>1, <1>3, <3>1 DEF Stale, CloseInv, Pending
    <3>2. CASE op[u] # "confirmStatementMatches"
      BY <1>1, <1>8, <3>2 DEF Stale
    <3> QED
      BY <3>1, <3>2
  <2>2. pay[i] = "IN_RUN" /\ \A q \in Runs \ {r} : ~Waiting(q, i)
    BY <2>1 DEF Place, Waiting
  <2>3. \A q \in Runs : item[q][i] # "PAID" /\ paid[q][i] = 0
    BY <2>2 DEF Place
  <2>4. CASE op[u] \in PayOps
    <3>1. item'[r][i] = "PAID" /\ pay'[i] = "PAID" /\ paid'[r][i] = 1
      BY <1>3, <1>4, <2>3, <2>4 DEF ItemAfter, PayAfter
    <3>2. \A q \in Runs : ~Waiting(q, i)'
      BY <1>5, <2>2, <3>1 DEF Waiting
    <3> QED
      BY <1>5, <2>3, <3>1, <3>2 DEF Place
  <2>5. CASE op[u] \in {"markFailed", "cancel", "removeFromRun"}
    <3>1. item'[r][i] # "PAID" /\ pay'[i] = "READY" /\ paid'[r][i] = 0
      BY <1>3, <1>4, <2>1, <2>3, <2>5 DEF ItemAfter, PayAfter, PayOps
    <3>2. ~Waiting(r, i)'
      <4>1. CASE op[u] = "cancel"
        BY <1>3, <4>1 DEF CloseInv, Waiting, Active
      <4>2. CASE op[u] \in {"markFailed", "removeFromRun"}
        BY <1>3, <4>2 DEF ItemAfter, PayOps, Waiting
      <4> QED
        BY <2>5, <4>1, <4>2
    <3>3. \A q \in Runs : ~Waiting(q, i)'
      BY <1>5, <2>2, <3>2
    <3> QED
      BY <1>5, <2>3, <3>1, <3>3 DEF Place
  <2> QED
    BY <1>3, <1>8, <2>4, <2>5 DEF Ops
<1> QED
  BY <1>6, <1>7, <1>8

LEMMA PlaceNext ==
  TypeOK /\ LockInv /\ SettleInv /\ CloseInv /\ PlaceInv /\ [Next]_vars => PlaceInv'
<1> SUFFICES ASSUME TypeOK, LockInv, SettleInv, CloseInv, PlaceInv, [Next]_vars PROVE PlaceInv'
  OBVIOUS
<1>1. ASSUME NEW u \in Users, Commit(u) PROVE PlaceInv'
  <2> SUFFICES ASSUME NEW i \in Invoices, i \notin stale' PROVE Place(i)'
    BY DEF PlaceInv
  <2>1. i \notin stale /\ i \notin Stale(u)
    BY <1>1 DEF Commit
  <2> QED
    BY <1>1, <2>1, PlaceOthers, PlaceRows DEF PlaceInv
<1>2. CASE UNCHANGED dataVars
  BY <1>2 DEF dataVars, PlaceInv, Place, Waiting
<1>3. ASSUME NEW u \in Users, Reads(u) \/ Writes(u) \/ WriteRemove(u) \/ Rollback(u)
      PROVE  UNCHANGED dataVars
  BY <1>3, ReadCloses, WriteCloses DEF WriteRemove, Rollback
<1> QED
  BY <1>1, <1>2, <1>3, NextSplit DEF vars

LEMMA PlaceInvariant == Spec => [](TypeOK /\ PlaceInv)
<1> DEFINE Inv == TypeOK /\ LockInv /\ SettleInv /\ CloseInv /\ PlaceInv
<1>1. Init => Inv
  BY TypeInit, LockInit, SettleInit, PlaceInit
<1>2. Inv /\ [Next]_vars => Inv'
  BY TypeNext, LockNext, SettleNext, CloseNext, PlaceNext
<1>3. Inv => TypeOK /\ PlaceInv
  OBVIOUS
<1> HIDE DEF Inv
<1> QED
  BY <1>1, <1>2, <1>3, PTL DEF Spec

\* No invoice is paid twice, in one run or in two, by any number of requests,
\* unless one of them wrote it on a premise that no longer held.
THEOREM PaymentPaidOnce == Spec => []PaidOnce
<1>1. TypeOK /\ PlaceInv => PaidOnce
  <2> SUFFICES ASSUME PlaceInv, NEW i \in Invoices \ stale, NEW r \in Runs, NEW q \in Runs,
                      paid[r][i] > 0, paid[q][i] > 0
               PROVE  r = q /\ paid[r][i] = 1
    BY DEF PaidOnce
  <2>1. Place(i)
    BY DEF PlaceInv
  <2>2. item[r][i] = "PAID" /\ item[q][i] = "PAID" /\ paid[r][i] = 1
    BY <2>1 DEF Place
  <2> QED
    BY <2>1, <2>2 DEF Place
<1> QED
  BY <1>1, PlaceInvariant, PTL

\* The payment status of an invoice tells in how many items it waits and whether
\* one is paid, in any number of runs, up to writes on a stale premise.
THEOREM PaymentStatusTellsRun == Spec => []StatusTellsRun
<1>1. TypeOK /\ PlaceInv => StatusTellsRun
  <2> SUFFICES ASSUME TypeOK, PlaceInv, NEW i \in Invoices \ stale
               PROVE  LET waiting == {r \in Runs : run[r] \in Active /\ item[r][i] = "PENDING"}
                          settled == {r \in Runs : item[r][i] = "PAID"} IN
                      CASE pay[i] = "IN_RUN" -> Cardinality(waiting) = 1 /\ settled = {}
                        [] pay[i] = "PAID"   -> waiting = {} /\ Cardinality(settled) = 1
                        [] pay[i] = "READY"  -> waiting = {} /\ settled = {}
    BY DEF StatusTellsRun
  <2> DEFINE waiting == {r \in Runs : run[r] \in Active /\ item[r][i] = "PENDING"}
             settled == {r \in Runs : item[r][i] = "PAID"}
  <2>0. Place(i) /\ pay[i] \in {"READY", "IN_RUN", "PAID"}
    BY DEF PlaceInv, TypeOK
  <2>1. pay[i] # "IN_RUN" => waiting = {}
    BY <2>0 DEF Place, Waiting
  <2>2. pay[i] # "PAID" => settled = {}
    BY <2>0 DEF Place
  <2>3. pay[i] = "IN_RUN" => Cardinality(waiting) = 1
    <3>1. pay[i] = "IN_RUN" => \E r \in Runs : waiting = {r}
      BY <2>0 DEF Place, Waiting
    <3> HIDE DEF waiting
    <3> QED
      BY <3>1, FS_Singleton
  <2>4. pay[i] = "PAID" => Cardinality(settled) = 1
    <3>1. pay[i] = "PAID" => \E r \in Runs : settled = {r}
      BY <2>0 DEF Place
    <3> HIDE DEF settled
    <3> QED
      BY <3>1, FS_Singleton
  <2>5. CASE pay[i] = "IN_RUN"
    BY <2>2, <2>3, <2>5
  <2>6. CASE pay[i] = "PAID"
    BY <2>1, <2>4, <2>6
  <2>7. CASE pay[i] = "READY"
    BY <2>1, <2>2, <2>7
  <2> QED
    BY <2>0, <2>5, <2>6, <2>7
<1> QED
  BY <1>1, PlaceInvariant, PTL
-----------------------------------------------------------------------------
(* The runs keep the promise of OrderedPayments.                             *)

\* Nothing is ordered without a file.
OrderInv == \A r \in Runs : files[r] = 0 => sent[r] = {}

Recorded == [r \in Runs |-> {i \in Invoices : paid[r][i] > 0}]

LEMMA OrdersInit == Init => Promise!Init /\ OrderInv
BY DEF Init, Promise!Init, OrderInv

LEMMA OrdersUnchanged ==
  ASSUME UNCHANGED dataVars
  PROVE  UNCHANGED Promise!avars /\ (OrderInv => OrderInv')
BY DEF dataVars, Promise!avars, OrderInv

\* An export that wins the transition orders its payments; a payment is recorded
\* by a request that found its run past DRAFT, so with its file handed out.
LEMMA CommitKeepsOrders ==
  ASSUME TypeOK, LockInv, SettleInv, OrderInv, NEW u \in Users, Commit(u)
  PROVE  [Promise!Next]_(Promise!avars) /\ OrderInv'
<1>1. PICK r \in Runs : target[u] = r
  BY DEF Commit, LockInv, OverwriteInv, Open
<1>2. /\ Written(u) /\ Open(u) /\ rows[u] \in SUBSET Invoices
      /\ paid' = [paid EXCEPT ![r] = [i \in Invoices |->
                    IF i \in rows[u] /\ op[u] \in PayOps THEN paid[r][i] + 1 ELSE paid[r][i]]]
  BY <1>1 DEF Commit, Written, Open, TypeOK
<1>3. CASE op[u] = "lockAndExport" /\ verdict[u] = "EXPORTED"
  <2>1. files[r] = 0 /\ sent[r] = {}
    BY <1>1, <1>2, <1>3 DEF LockInv, FileInv, OverwriteInv, OrderInv
  <2>2. /\ files' = [files EXCEPT ![r] = 1]
        /\ sent' = [sent EXCEPT ![r] = rows[u]]
    <3>1. /\ files' = [files EXCEPT ![r] = files[r] + 1]
          /\ sent' = [sent EXCEPT ![r] = sent[r] \cup rows[u]]
      BY <1>1, <1>3 DEF Commit
    <3> QED
      BY <2>1, <3>1
  <2>3. \A q \in Runs, i \in Invoices : paid'[q][i] = paid[q][i]
    BY <1>2, <1>3 DEF PayOps, TypeOK
  <2>4. Recorded' = Recorded
    BY <2>3 DEF Recorded
  <2>5. Promise!Order(r, rows[u])
    BY <2>1, <2>2, <2>4 DEF Promise!Order, Recorded
  <2>6. OrderInv'
    BY <2>1, <2>2 DEF OrderInv, TypeOK
  <2> QED
    BY <1>2, <2>5, <2>6 DEF Promise!Next
<1>4. CASE ~(op[u] = "lockAndExport" /\ verdict[u] = "EXPORTED")
  <2>1. files' = files /\ sent' = sent
    BY <1>4 DEF Commit
  <2>2. OrderInv'
    BY <2>1 DEF OrderInv
  <2>3. CASE op[u] \in PayOps /\ rows[u] # {}
    <3>1. rows[u] \subseteq sent[r] /\ files[r] = 1
      <4>1. rows[u] \subseteq sent[r]
        BY <1>1, <1>2, <2>3 DEF SettleInv, PremiseInv
      <4>2. files[r] \in Nat /\ files[r] <= 1 /\ files[r] # 0
        BY <2>3, <4>1 DEF LockInv, FileInv, OrderInv, TypeOK
      <4> QED
        BY <4>1, <4>2
    <3>2. \A i \in Invoices :
            paid'[r][i] > 0 <=> i \in rows[u] \/ paid[r][i] > 0
      BY <1>2, <2>3 DEF TypeOK
    <3>3. \A q \in Runs \ {r} : paid'[q] = paid[q]
      BY <1>2 DEF TypeOK
    <3>4. Recorded' = [Recorded EXCEPT ![r] = Recorded[r] \cup rows[u]]
      BY <1>2, <3>2, <3>3 DEF Recorded
    <3>5. PICK S \in SUBSET Invoices : S = rows[u]
      BY <1>2
    <3>6. Promise!Record(r, S)
      BY <2>1, <3>1, <3>4, <3>5 DEF Promise!Record, Recorded
    <3>7. r \in Runs
      BY <1>1, <1>2 DEF LockInv, OverwriteInv
    <3> QED
      BY <2>2, <3>6, <3>7 DEF Promise!Next
  <2>4. CASE op[u] \notin PayOps \/ rows[u] = {}
    <3>1. \A q \in Runs, i \in Invoices : paid'[q][i] = paid[q][i]
      BY <1>2, <2>4 DEF TypeOK
    <3>2. Recorded' = Recorded
      BY <3>1 DEF Recorded
    <3> QED
      BY <2>1, <2>2, <3>2 DEF Promise!avars, Recorded
  <2> QED
    BY <2>3, <2>4
<1> QED
  BY <1>3, <1>4

\* Reading, writing and rolling back change nothing the others see.
LEMMA OnlyCommitsChange ==
  ASSUME TypeOK, Next
  PROVE  UNCHANGED dataVars \/ \E u \in Users : Commit(u)
<1>1. ASSUME NEW u \in Users, Reads(u) \/ Writes(u) \/ WriteRemove(u) \/ Rollback(u)
      PROVE  UNCHANGED dataVars
  BY <1>1, ReadCloses, WriteCloses DEF WriteRemove, Rollback
<1> QED
  BY <1>1, NextSplit

\* Whatever requests race on a run, in any number, it orders its payments once,
\* by a file that never changes, and records only payments it has ordered.
THEOREM PaymentKeepsOrders == Spec => KeepsOrders
<1> DEFINE Inv == TypeOK /\ LockInv /\ SettleInv /\ OrderInv
<1>1. Init => Inv /\ Promise!Init
  BY TypeInit, LockInit, SettleInit, OrdersInit
<1>2. Inv /\ [Next]_vars => OrderInv' /\ [Promise!Next]_(Promise!avars)
  BY OnlyCommitsChange, CommitKeepsOrders, OrdersUnchanged DEF vars
<1>3. Inv /\ [Next]_vars => Inv'
  BY <1>2, TypeNext, LockNext, SettleNext
<1> HIDE DEF Inv
<1> QED
  BY <1>1, <1>2, <1>3, PTL DEF Spec, KeepsOrders, Promise!Spec
-----------------------------------------------------------------------------
(* How the payment status of an invoice moves.                               *)

\* A commit moves the invoices of its rows, on the premise its operation needs.
LEMMA CommitMoves ==
  ASSUME TypeOK, LockInv, SettleInv, CloseInv, NEW u \in Users, Commit(u),
         NEW i \in Invoices, i \notin Stale(u), Place(i)
  PROVE  <<pay[i], pay'[i]>> \in {<<"READY", "IN_RUN">>, <<"IN_RUN", "PAID">>,
                                 <<"IN_RUN", "READY">>, <<pay[i], pay[i]>>}
<1>1. PICK r \in Runs : target[u] = r
  BY DEF Commit, LockInv, OverwriteInv, Open
<1>2. Written(u) /\ Open(u)
  BY DEF Commit, Written, Open
<1>3. pay'[i] = IF i \in rows[u] THEN PayAfter(op[u], pay[i]) ELSE pay[i]
  BY DEF Commit
<1>4. CASE i \notin rows[u] \/ op[u] = "lockAndExport"
  BY <1>3, <1>4 DEF PayAfter, PayOps
<1>5. CASE i \in rows[u] /\ op[u] = "create"
  <2>1. pay[i] = "READY"
    BY <1>5 DEF Stale
  <2> QED
    BY <1>3, <1>5, <2>1 DEF PayAfter, PayOps
<1>6. CASE i \in rows[u] /\ op[u] \notin {"lockAndExport", "create"}
  <2>1. run[r] \in Active /\ item[r][i] = "PENDING"
    <3>1. CASE op[u] = "confirmStatementMatches"
      BY <1>1, <1>2, <1>6, <3>1 DEF Stale, CloseInv, Pending
    <3>2. CASE op[u] # "confirmStatementMatches"
      BY <1>1, <1>6, <3>2 DEF Stale
    <3> QED
      BY <3>1, <3>2
  <2>2. pay[i] = "IN_RUN"
    BY <2>1 DEF Place, Waiting
  <2>3. PayAfter(op[u], pay[i]) \in {"PAID", "READY", pay[i]}
    BY <1>6 DEF PayAfter, PayOps
  <2> QED
    BY <1>3, <1>6, <2>2, <2>3
<1> QED
  BY <1>4, <1>5, <1>6

\* With any number of requests, an invoice enters a run from READY only and
\* leaves it as PAID or READY, unless a request wrote it on a stale premise.
THEOREM PaymentStatusMoves == Spec => PayStatusMoves
<1> DEFINE Inv == TypeOK /\ LockInv /\ SettleInv /\ CloseInv /\ PlaceInv
           Moves == \A i \in Invoices \ stale' :
              <<pay[i], pay'[i]>> \in {<<"READY", "IN_RUN">>, <<"IN_RUN", "PAID">>,
                                       <<"IN_RUN", "READY">>, <<pay[i], pay[i]>>}
<1>1. Init => Inv
  BY TypeInit, LockInit, SettleInit, PlaceInit
<1>2. Inv /\ [Next]_vars => Inv'
  BY TypeNext, LockNext, SettleNext, CloseNext, PlaceNext
<1>3. Inv /\ [Next]_vars => [Moves]_vars
  <2> SUFFICES ASSUME Inv, [Next]_vars, vars' # vars, NEW i \in Invoices \ stale'
               PROVE  <<pay[i], pay'[i]>> \in {<<"READY", "IN_RUN">>, <<"IN_RUN", "PAID">>,
                                              <<"IN_RUN", "READY">>, <<pay[i], pay[i]>>}
    OBVIOUS
  <2>1. CASE UNCHANGED dataVars
    BY <2>1 DEF dataVars
  <2>2. ASSUME NEW u \in Users, Commit(u)
        PROVE  <<pay[i], pay'[i]>> \in {<<"READY", "IN_RUN">>, <<"IN_RUN", "PAID">>,
                                       <<"IN_RUN", "READY">>, <<pay[i], pay[i]>>}
    <3>1. i \notin stale /\ i \notin Stale(u)
      BY <2>2 DEF Commit
    <3>2. Place(i)
      BY <3>1 DEF PlaceInv
    <3> QED
      BY <2>2, <3>1, <3>2, CommitMoves
  <2> QED
    BY <2>1, <2>2, OnlyCommitsChange
<1> HIDE DEF Inv
<1>4. Spec => [][Moves]_vars
  BY <1>1, <1>2, <1>3, PTL DEF Spec
<1> QED
  BY <1>4 DEF PayStatusMoves
=============================================================================
