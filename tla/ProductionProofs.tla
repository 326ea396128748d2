-------------------------- MODULE ProductionProofs --------------------------
(***************************************************************************)
(* However many requests interleave, and whatever is lost between them, no *)
(* record is counted twice: the totals a session loads are within the      *)
(* records, and records are only inserted.  The quantity ledger has every  *)
(* whole piece of them.  One request at a time, no record is lost and the  *)
(* machines show the batches that run on them.                             *)
(***************************************************************************)
EXTENDS MCProduction, FiniteFacts

(* Nothing was logged yet.                                                 *)
LEMMA NothingIsZero ==
  /\ Nothing \in [Kind -> Nat] /\ Nothing \in [Kind -> Int]
  /\ \A k \in Kind : Nothing[k] = 0
BY DEF Nothing

(* The idle session is well-typed and has read nothing.                    *)
LEMMA IdleSession == Idle \in Session /\ SessionInv(Idle) /\ SessionInv(Idle)'
BY NothingIsZero DEF Idle, Session, SessionInv

(* The sum of two records is a record.                                     *)
LEMMA PlusIsRecord ==
  ASSUME NEW f \in [Kind -> Int], NEW g \in [Kind -> Int]
  PROVE  /\ Plus(f, g) \in [Kind -> Int]
         /\ \A k \in Kind : Plus(f, g)[k] = f[k] + g[k]
BY DEF Plus

(* A quantity is what it adds less what it takes away.                     *)
LEMMA PositiveParts ==
  ASSUME NEW n \in Int
  PROVE  /\ Positive(n) \in Nat /\ Positive(-n) \in Nat
         /\ n = Positive(n) - Positive(-n)
BY DEF Positive

(* Cutting a quantity to whole pieces leaves a natural number, and takes   *)
(* less than a piece from it.                                              *)
LEMMA CutToPieces ==
  ASSUME NEW n \in Nat
  PROVE  /\ n \div Scale \in Nat
         /\ (n \div Scale) * Scale \in Nat
         /\ (n \div Scale) * Scale <= n
         /\ n - (Scale - 1) <= (n \div Scale) * Scale
<1>1. Scale \in Nat /\ Scale > 0
  BY ProductionAssumption
<1> QED
  BY <1>1

(* The initial state satisfies the invariant.                              *)
LEMMA InitIInv == Init => IInv
<1> SUFFICES ASSUME Init PROVE IInv
  OBVIOUS
<1>1. TypeOK
  BY IdleSession, NothingIsZero DEF Init, TypeOK, BatchRow, BatchStatus, Records
<1>2. BatchesHaveMachines
  BY DEF Init, BatchesHaveMachines
<1>3. TotalsWithinRecords
  BY NothingIsZero DEF Init, TotalsWithinRecords, Within
<1>4. \A r \in Request : SessionInv(req[r])
  BY IdleSession DEF Init
<1> QED
  BY <1>1, <1>2, <1>3, <1>4 DEF IInv

(* A step that writes no row keeps the invariant if the one session it     *)
(* changes is well-typed and agrees with the rows.                         *)
LEMMA ReadStep ==
  ASSUME IInv, NEW r \in Request, NEW q \in Session, SessionInv(q),
         req' = [req EXCEPT ![r] = q], UNCHANGED rows
  PROVE  IInv'
<1>1. TypeOK'
  BY DEF IInv, TypeOK, rows
<1>2. BatchesHaveMachines' /\ TotalsWithinRecords'
  BY DEF IInv, rows, BatchesHaveMachines, TotalsWithinRecords
<1>3. ASSUME NEW p \in Request PROVE SessionInv(req[p])'
  <2>1. req'[p] = IF p = r THEN q ELSE req[p]
    BY DEF IInv, TypeOK
  <2>2. SessionInv(req[p])
    BY DEF IInv
  <2> QED
    BY <2>1, <2>2 DEF SessionInv, rows
<1> QED
  BY <1>1, <1>2, <1>3 DEF IInv

LEMMA BeginCreateStep ==
  ASSUME IInv, NEW r \in Request, NEW b \in Batch, NEW m \in Machine, NEW n \in Input,
         BeginCreate(r, b, m, n)
  PROVE  IInv'
<1> DEFINE q == [Idle EXCEPT !.op = "create", !.batch = b, !.machine = m, !.input = n]
<1>1. q \in Session
  BY ProductionAssumption, IdleSession DEF Session
<1>2. /\ q.op = "create" /\ q.batch = b /\ q.machine = m /\ q.out = Nothing
      /\ q.release = None /\ q.mach = None
  BY DEF Idle
<1> HIDE DEF q
<1>3. SessionInv(q)
  BY <1>2 DEF SessionInv
<1> QED
  BY <1>1, <1>3, ReadStep DEF BeginCreate, Opens, q

LEMMA BeginLogStep ==
  ASSUME IInv, NEW r \in Request, NEW b \in Batch, NEW out \in Output, BeginLog(r, b, out)
  PROVE  IInv'
<1> DEFINE q == [Idle EXCEPT !.op = "log", !.batch = b, !.out = out, !.loaded = batch[b].total]
<1>1. batch[b].total \in [Kind -> Int] /\ out \in [Kind -> Int]
  BY ProductionAssumption DEF IInv, TypeOK, BatchRow
<1>2. q \in Session
  BY <1>1, IdleSession DEF Session
<1>3. /\ q.op = "log" /\ q.batch = b /\ q.loaded = batch[b].total
      /\ q.release = None /\ q.mach = None
  BY DEF Idle
<1> HIDE DEF q
<1>4. SessionInv(q)
  BY <1>3 DEF IInv, TotalsWithinRecords, SessionInv, BeginLog
<1> QED
  BY <1>2, <1>4, ReadStep DEF BeginLog, Opens, q

LEMMA BeginCompleteStep ==
  ASSUME IInv, NEW r \in Request, NEW b \in Batch, BeginComplete(r, b)
  PROVE  IInv'
<1> DEFINE q == [Idle EXCEPT !.op = "complete", !.batch = b, !.machine = batch[b].machine]
<1>1. batch[b].machine \in Machine
  BY DEF IInv, BatchesHaveMachines, BeginComplete
<1>2. q \in Session
  BY <1>1, IdleSession DEF Session
<1>3. /\ q.op = "complete" /\ q.batch = b /\ q.machine = batch[b].machine
      /\ q.release = None /\ q.mach = None /\ q.out = Nothing
  BY DEF Idle
<1> HIDE DEF q
<1>4. SessionInv(q)
  BY <1>1, <1>3 DEF BeginComplete, SessionInv
<1> QED
  BY <1>2, <1>4, ReadStep DEF BeginComplete, Opens, q

LEMMA CheckOthersStep == ASSUME IInv, NEW r \in Request, CheckOthers(r) PROVE IInv'
<1> DEFINE free == Running(req[r].machine) \subseteq {req[r].batch}
           q == [req[r] EXCEPT !.release = free]
<1>1. req[r] \in Session /\ SessionInv(req[r])
  BY DEF IInv, TypeOK
<1>2. free \in BOOLEAN
  OBVIOUS
<1>3. q \in Session
  BY <1>1, <1>2 DEF Session
<1>4. SessionInv(q)
  <2>1. /\ q.op = req[r].op /\ q.batch = req[r].batch /\ q.machine = req[r].machine
        /\ q.mach = req[r].mach /\ q.loaded = req[r].loaded /\ q.out = req[r].out
    BY <1>1 DEF Session
  <2> QED
    BY <1>1, <2>1 DEF SessionInv, CheckOthers
<1> QED
  BY <1>3, <1>4, ReadStep DEF CheckOthers, Reads

LEMMA LoadMachineStep == ASSUME IInv, NEW r \in Request, LoadMachine(r) PROVE IInv'
<1> DEFINE q == [req[r] EXCEPT !.mach = machine[req[r].machine]]
<1>1. req[r] \in Session /\ SessionInv(req[r])
  BY DEF IInv, TypeOK
<1>2. req[r].op \in {"create", "complete"} /\ req[r].machine \in Machine
  BY <1>1, ProductionAssumption DEF LoadMachine, SessionInv
<1>3. q \in Session /\ SessionInv(q)
  BY <1>1, <1>2 DEF IInv, TypeOK, Session, SessionInv
<1> QED
  BY <1>3, ReadStep DEF LoadMachine, Reads

LEMMA RollbackStep == ASSUME IInv, NEW r \in Request, Rollback(r) PROVE IInv'
BY IdleSession, ReadStep DEF Rollback, Reads

(* The sums of some records have grown; they have grown by the record out. *)
Grown(old, new) ==
    \A k \in Kind : old.added[k] <= new.added[k] /\ old.removed[k] <= new.removed[k]

GrownBy(old, new, out) ==
    \A k \in Kind : /\ new.added[k] = old.added[k] + Positive(out[k])
                    /\ new.removed[k] = old.removed[k] + Positive(-out[k])

(* Records are only inserted: the sums of a batch's records only grow, by  *)
(* what a session logs.                                                    *)
LEMMA RecordsGrow ==
  ASSUME IInv, NEW r \in Request, Commit(r), NEW b \in Batch
  PROVE  /\ logged[b] \in Records /\ logged'[b] \in Records
         /\ Grown(logged[b], logged'[b])
         /\ req[r].op = "log" /\ b = req[r].batch => GrownBy(logged[b], logged'[b], req[r].out)
<1> DEFINE q == req[r]
           more == [k \in Kind |-> logged[b].added[k] + Positive(q.out[k])]
           less == [k \in Kind |-> logged[b].removed[k] + Positive(-q.out[k])]
<1>1. /\ logged[b] \in Records /\ q.out \in [Kind -> Int]
      /\ logged[b].count \in Nat
      /\ logged[b].added \in [Kind -> Nat] /\ logged[b].removed \in [Kind -> Nat]
  BY DEF IInv, TypeOK, Session, Records
<1>2. logged'[b] = LoggedAfter(q, b)
  BY DEF Commit
<1>3. CASE ~(q.op = "log" /\ b = q.batch)
  <2>1. logged'[b] = logged[b]
    BY <1>2, <1>3 DEF LoggedAfter
  <2> QED
    BY <1>1, <1>3, <2>1 DEF Grown
<1>4. CASE q.op = "log" /\ b = q.batch
  <2>1. ASSUME NEW k \in Kind
        PROVE  Positive(q.out[k]) \in Nat /\ Positive(-q.out[k]) \in Nat
    BY <1>1, PositiveParts
  <2>2. more \in [Kind -> Nat] /\ less \in [Kind -> Nat]
    BY <1>1, <2>1
  <2>3. logged'[b] = [count |-> logged[b].count + 1, added |-> more, removed |-> less]
    BY <1>2, <1>4 DEF LoggedAfter
  <2>4. logged'[b] \in Records /\ logged'[b].added = more /\ logged'[b].removed = less
    BY <1>1, <2>2, <2>3 DEF Records
  <2> QED
    BY <1>1, <2>1, <2>4 DEF Grown, GrownBy
<1> QED
  BY <1>3, <1>4

(* Totals within the records stay within them as they grow ...             *)
LEMMA WithinMore ==
  ASSUME NEW total \in [Kind -> Int], NEW old \in Records, NEW new \in Records,
         Grown(old, new), Within(total, old)
  PROVE  Within(total, new)
<1> SUFFICES ASSUME NEW k \in Kind
             PROVE  -new.removed[k] <= total[k] /\ total[k] <= new.added[k]
  BY DEF Within
<1>1. /\ total[k] \in Int /\ old.added[k] \in Nat /\ new.added[k] \in Nat
      /\ old.removed[k] \in Nat /\ new.removed[k] \in Nat
  BY DEF Records
<1>2. -old.removed[k] <= total[k] /\ total[k] <= old.added[k]
  BY DEF Within
<1>3. old.added[k] <= new.added[k] /\ old.removed[k] <= new.removed[k]
  BY DEF Grown
<1> QED
  BY <1>1, <1>2, <1>3

(* ... also when they take in the record by which these grow.              *)
LEMMA WithinPlus ==
  ASSUME NEW total \in [Kind -> Int], NEW out \in [Kind -> Int],
         NEW old \in Records, NEW new \in Records, Within(total, old), GrownBy(old, new, out)
  PROVE  Plus(total, out) \in [Kind -> Int] /\ Within(Plus(total, out), new)
<1>1. ASSUME NEW k \in Kind
      PROVE  -new.removed[k] <= total[k] + out[k] /\ total[k] + out[k] <= new.added[k]
  <2>1. /\ total[k] \in Int /\ out[k] \in Int
        /\ old.added[k] \in Nat /\ old.removed[k] \in Nat
    BY DEF Records
  <2>2. -old.removed[k] <= total[k] /\ total[k] <= old.added[k]
    BY DEF Within
  <2>3. /\ new.added[k] = old.added[k] + Positive(out[k])
        /\ new.removed[k] = old.removed[k] + Positive(-out[k])
    BY DEF GrownBy
  <2>4. /\ Positive(out[k]) \in Nat /\ Positive(-out[k]) \in Nat
        /\ out[k] = Positive(out[k]) - Positive(-out[k])
    BY <2>1, PositiveParts
  <2> QED
    BY <2>1, <2>2, <2>3, <2>4
<1>2. /\ Plus(total, out) \in [Kind -> Int]
      /\ \A k \in Kind : Plus(total, out)[k] = total[k] + out[k]
  BY PlusIsRecord
<1> QED
  BY <1>1, <1>2 DEF Within

(* Records are only inserted, so what a session loaded stays within them.  *)
LEMMA CommitStep == ASSUME IInv, NEW r \in Request, Commit(r) PROVE IInv'
<1> DEFINE q == req[r]
<1>1. /\ q \in Session /\ SessionInv(q)
      /\ q.out \in [Kind -> Int] /\ q.loaded \in [Kind -> Int] /\ q.input \in Int
  BY DEF IInv, TypeOK, Session
<1>2. q.op # "idle" /\ q.batch \in Batch
  BY <1>1, ProductionAssumption DEF Commit, Loaded, SessionInv
<1>3. \A b \in Batch : batch[b] \in BatchRow /\ batch[b].total \in [Kind -> Int]
  BY DEF IInv, TypeOK, BatchRow
<1>4. ASSUME NEW b \in Batch
      PROVE  /\ batch'[b] \in BatchRow
             /\ batch'[b].status # "ABSENT" => batch'[b].machine \in Machine
             /\ Within(batch'[b].total, logged'[b])
  <2>1. batch'[b] = BatchAfter(q, b)
    BY DEF Commit
  <2>2. /\ batch[b] \in BatchRow /\ batch[b].total \in [Kind -> Int]
        /\ batch[b].status # "ABSENT" => batch[b].machine \in Machine
        /\ logged[b] \in Records /\ logged'[b] \in Records
    BY <1>3, RecordsGrow DEF IInv, BatchesHaveMachines
  <2>3. Within(batch[b].total, logged'[b])
    BY <1>3, RecordsGrow, WithinMore DEF IInv, TotalsWithinRecords
  <2>4. CASE b # q.batch
    BY <2>1, <2>2, <2>3, <2>4 DEF BatchAfter
  <2>5. CASE b = q.batch /\ q.op = "create"
    <3>1. batch'[b] = [ status |-> "IN_PROGRESS", machine |-> q.machine,
                        input |-> q.input, total |-> Nothing ]
      BY <2>1, <2>5 DEF BatchAfter
    <3>2. q.machine \in Machine
      BY <1>1, <2>5 DEF SessionInv
    <3>3. batch'[b] \in BatchRow /\ batch'[b].machine = q.machine /\ batch'[b].total = Nothing
      BY <1>1, <3>1, <3>2, NothingIsZero DEF BatchRow, BatchStatus
    <3>4. ASSUME NEW k \in Kind
          PROVE  -logged'[b].removed[k] <= Nothing[k] /\ Nothing[k] <= logged'[b].added[k]
      <4>1. logged'[b].removed[k] \in Nat /\ logged'[b].added[k] \in Nat /\ Nothing[k] = 0
        BY <2>2, NothingIsZero DEF Records
      <4> QED
        BY <4>1
    <3> QED
      BY <3>2, <3>3, <3>4 DEF Within
  <2>6. CASE b = q.batch /\ q.op = "log"
    <3> DEFINE t == [k \in Kind |-> IF q.out[k] = 0 THEN batch[b].total[k] ELSE TotalAfter(q)[k]]
    <3>1. batch'[b] = [batch[b] EXCEPT !.total = t]
      BY <2>1, <2>6 DEF BatchAfter
    <3>2. Within(q.loaded, logged[b])
      BY <1>1, <2>6 DEF SessionInv
    <3>3. TotalAfter(q) \in [Kind -> Int] /\ Within(TotalAfter(q), logged'[b])
      <4>1. GrownBy(logged[b], logged'[b], q.out)
        BY <2>6, RecordsGrow
      <4> HIDE DEF q
      <4> QED
        BY <1>1, <2>2, <3>2, <4>1, WithinPlus DEF TotalAfter
    <3>4. t \in [Kind -> Int] /\ Within(t, logged'[b])
      BY <2>2, <2>3, <3>3 DEF Within
    <3> HIDE DEF t
    <3>5. /\ batch'[b].total = t /\ batch'[b].status = batch[b].status
          /\ batch'[b].machine = batch[b].machine /\ batch'[b] \in BatchRow
      BY <2>2, <3>1, <3>4 DEF BatchRow
    <3> QED
      BY <2>2, <3>4, <3>5
  <2>7. CASE b = q.batch /\ q.op = "complete"
    <3>1. batch'[b] = [batch[b] EXCEPT !.status = "COMPLETED"]
      BY <2>1, <2>7 DEF BatchAfter
    <3>2. batch[b].status # "ABSENT"
      BY <1>1, <2>7 DEF SessionInv
    <3>3. /\ batch'[b].machine = batch[b].machine /\ batch'[b].total = batch[b].total
          /\ batch'[b] \in BatchRow
      BY <2>2, <3>1 DEF BatchRow, BatchStatus
    <3> QED
      BY <2>2, <2>3, <3>2, <3>3
  <2> QED
    BY <1>1, <1>2, <2>4, <2>5, <2>6, <2>7 DEF Session
<1>5. ASSUME NEW b \in Batch, batch[b].status # "ABSENT" PROVE batch'[b].status # "ABSENT"
  <2>1. batch'[b] = BatchAfter(q, b) /\ batch[b] \in BatchRow
    BY <1>3 DEF Commit
  <2> QED
    BY <1>5, <2>1 DEF BatchAfter, BatchRow
<1>6. TypeOK'
  <2>1. batch' = [b \in Batch |-> batch'[b]] /\ logged' = [b \in Batch |-> logged'[b]]
    BY DEF Commit
  <2>2. batch' \in [Batch -> BatchRow] /\ logged' \in [Batch -> Records]
    BY <1>4, <2>1, RecordsGrow
  <2>3. machine' \in [Machine -> MachineStatus]
    BY DEF IInv, TypeOK, Commit, MachineAfter, MachineStatus
  <2>4. ledger' \in [Booked -> Nat] /\ entered' \in [Booked -> Nat]
    <3>1. ASSUME NEW k \in Booked PROVE ledger[k] + Positive(q.out[k]) \div Scale \in Nat
      <4>1. k \in Kind /\ ledger[k] \in Nat
        BY DEF Kind, Booked, IInv, TypeOK
      <4>2. Positive(q.out[k]) \in Nat
        BY <1>1, <4>1, PositiveParts
      <4>3. Positive(q.out[k]) \div Scale \in Nat
        BY <4>2, CutToPieces
      <4> QED
        BY <4>1, <4>3
    <3> QED
      BY <3>1 DEF Commit, LedgerAfter, IInv, TypeOK
  <2>5. req' \in [Request -> Session]
    BY IdleSession DEF IInv, TypeOK, Commit
  <2> QED
    BY <2>2, <2>3, <2>4, <2>5 DEF TypeOK
<1>7. BatchesHaveMachines' /\ TotalsWithinRecords'
  BY <1>4 DEF BatchesHaveMachines, TotalsWithinRecords, Within
<1>8. ASSUME NEW p \in Request PROVE SessionInv(req[p])'
  <2>1. CASE p = r
    <3>1. req'[p] = Idle
      BY <2>1 DEF Commit, IInv, TypeOK
    <3> QED
      BY <3>1, IdleSession DEF SessionInv
  <2>2. CASE p # r
    <3>1. /\ req'[p] = req[p] /\ req[p] \in Session /\ SessionInv(req[p])
          /\ req[p].loaded \in [Kind -> Int]
      BY <2>2 DEF Commit, IInv, TypeOK, Session
    <3>2. ASSUME req[p].op = "log"
          PROVE  Within(req[p].loaded, logged'[req[p].batch])
      <4>1. req[p].batch \in Batch /\ Within(req[p].loaded, logged[req[p].batch])
        BY <3>1, <3>2 DEF SessionInv
      <4> QED
        BY <3>1, <4>1, RecordsGrow, WithinMore
    <3> QED
      BY <1>5, <3>1, <3>2 DEF SessionInv, Within
  <2> QED
    BY <2>1, <2>2
<1> QED
  BY <1>6, <1>7, <1>8 DEF IInv

(* The other entries touch the ledger only.                                *)
LEMMA EntersStep ==
  ASSUME IInv, NEW pieces \in [Booked -> Nat], Enters(pieces) PROVE IInv'
<1>1. ledger' \in [Booked -> Nat] /\ entered' \in [Booked -> Nat]
  <2>1. \A k \in Booked : ledger[k] \in Nat /\ entered[k] \in Nat /\ pieces[k] \in Nat
    BY DEF IInv, TypeOK
  <2> QED
    BY <2>1 DEF Enters
<1>2. UNCHANGED <<batch, machine, logged, req>>
  BY DEF Enters
<1> QED
  BY <1>1, <1>2 DEF IInv, TypeOK, BatchesHaveMachines, TotalsWithinRecords, SessionInv, Within

(* What the two routes enter are numbers of pieces.                        *)
LEMMA EntriesArePieces ==
  /\ \A out \in ByWorker : SubmitQuantities(out) =>
       \E pieces \in [Booked -> Nat] : Enters(pieces)
  /\ \A x \in Booked, n \in ByHand : BookByHand(x, n) =>
       \E pieces \in [Booked -> Nat] : Enters(pieces)
<1>1. ASSUME NEW out \in ByWorker, SubmitQuantities(out)
      PROVE  \E pieces \in [Booked -> Nat] : Enters(pieces)
  <2> DEFINE p == [k \in Booked |-> Positive(out[k])]
  <2>1. \A k \in Booked : out[k] \in Int
    BY ProductionAssumption
  <2>2. p \in [Booked -> Nat]
    BY <2>1, PositiveParts
  <2>3. Enters(p)
    BY <1>1 DEF SubmitQuantities
  <2> HIDE DEF p
  <2> QED
    BY <2>2, <2>3
<1>2. ASSUME NEW x \in Booked, NEW n \in ByHand, BookByHand(x, n)
      PROVE  \E pieces \in [Booked -> Nat] : Enters(pieces)
  <2> DEFINE p == [k \in Booked |-> IF k = x THEN n ELSE 0]
  <2>1. n \in Nat
    BY <1>2, ProductionAssumption DEF BookByHand
  <2>2. p \in [Booked -> Nat]
    BY <2>1
  <2>3. Enters(p)
    BY <1>2 DEF BookByHand
  <2> HIDE DEF p
  <2> QED
    BY <2>2, <2>3
<1> QED
  BY <1>1, <1>2

(* The disjuncts of Next, by what they write.                              *)
Step(r) ==
    \/ \E b \in Batch :
          \/ \E m \in Machine, q \in Input : BeginCreate(r, b, m, q)
          \/ \E out \in Output : BeginLog(r, b, out)
          \/ BeginComplete(r, b)
    \/ CheckOthers(r) \/ LoadMachine(r) \/ Commit(r) \/ Rollback(r)

LEMMA StepsOfNext ==
  ASSUME Next
  PROVE  \/ \E r \in Request : Step(r)
         \/ \E pieces \in [Booked -> Nat] : Enters(pieces)
BY EntriesArePieces DEF Next, Step

(* Every step keeps the invariant.                                         *)
LEMMA NextIInv == IInv /\ [Next]_vars => IInv'
<1> SUFFICES ASSUME IInv, [Next]_vars PROVE IInv'
  OBVIOUS
<1>1. CASE UNCHANGED vars
  BY <1>1 DEF vars, IInv, TypeOK, BatchesHaveMachines, TotalsWithinRecords, SessionInv, Within
<1>2. ASSUME NEW r \in Request, Step(r) PROVE IInv'
  BY <1>2, BeginCreateStep, BeginLogStep, BeginCompleteStep, CheckOthersStep, LoadMachineStep,
     CommitStep, RollbackStep DEF Step
<1>3. ASSUME NEW pieces \in [Booked -> Nat], Enters(pieces) PROVE IInv'
  BY <1>3, EntersStep
<1> QED
  BY <1>1, <1>2, <1>3, StepsOfNext

THEOREM InductiveInvariant == Spec => []IInv
BY InitIInv, NextIInv, PTL DEF Spec

(* Every row and every session keeps its type.                             *)
THEOREM TypeCorrect == Spec => []TypeOK
BY InductiveInvariant, PTL DEF IInv

(* For any number of batches, machines and interleaved requests, and for   *)
(* quantities of either sign, lost updates only ever lose records: the     *)
(* totals of a batch (production/service.py, log_production_record) never  *)
(* exceed what its records add, and never fall below what they take away.  *)
THEOREM TotalsStayWithinRecords == Spec => []TotalsWithinRecords
BY InductiveInvariant, PTL DEF IInv

-----------------------------------------------------------------------------
LEMMA Distributes ==
  ASSUME NEW x \in Int, NEW y \in Int, NEW s \in Int
  PROVE  (x + y) * s = x * s + y * s
OBVIOUS

(* The ledger. A session that does not log has nothing to book; what one   *)
(* logs is booked in whole pieces, which takes less than a piece from it.  *)
LEMMA CommitBooks ==
  ASSUME IInv, NEW r \in Request, Commit(r), NEW k \in Booked
  PROVE  \E d \in Nat, up \in Int, low \in Int :
            /\ d <= up /\ low <= d
            /\ (ledger'[k] - entered'[k]) * Scale = (ledger[k] - entered[k]) * Scale + d
            /\ Added(k) \in Int /\ Added(k)' = Added(k) + up
            /\ AddedPieces(k) \in Int /\ AddedPieces(k)' = AddedPieces(k) + low
<1> DEFINE q == req[r]
           n == Positive(q.out[k])
           f == [b \in Batch |-> logged[b].added[k]]
           g == [b \in Batch |-> logged'[b].added[k]]
           F == [b \in Batch |-> logged[b].added[k] - (Scale - 1) * logged[b].count]
           G == [b \in Batch |-> logged'[b].added[k] - (Scale - 1) * logged'[b].count]
           low == IF q.op = "log" THEN n - (Scale - 1) ELSE 0
<1>1. /\ q \in Session /\ SessionInv(q) /\ q.out \in [Kind -> Int] /\ k \in Kind
      /\ Scale \in Nat /\ Scale - 1 \in Nat /\ IsFiniteSet(Batch)
  BY ProductionAssumption DEF IInv, TypeOK, Session, Kind, Booked
<1>2. n \in Nat /\ (q.op # "log" => n = 0)
  <2>1. n \in Nat
    BY <1>1, PositiveParts
  <2>2. q.op # "log" => q.out[k] = 0
    BY <1>1, NothingIsZero DEF SessionInv
  <2> QED
    BY <2>1, <2>2 DEF Positive
<1>3. PICK i \in Nat : i = n \div Scale /\ i * Scale \in Nat
         /\ i * Scale <= n /\ n - (Scale - 1) <= i * Scale
  <2> HIDE DEF n
  <2> QED
    BY <1>2, CutToPieces
<1>4. q.op # "log" => i * Scale = 0
  <2>1. q.op # "log" => i * Scale <= 0
    BY <1>2, <1>3
  <2> HIDE DEF q, n
  <2> QED
    BY <1>3, <2>1
<1>5. (ledger'[k] - entered'[k]) * Scale = (ledger[k] - entered[k]) * Scale + i * Scale
  <2>1. ledger'[k] = ledger[k] + i /\ entered'[k] = entered[k]
    BY <1>3 DEF Commit, LedgerAfter
  <2>2. ledger[k] \in Nat /\ entered[k] \in Nat
    BY DEF IInv, TypeOK
  <2>3. ledger'[k] - entered'[k] = (ledger[k] - entered[k]) + i
    BY <1>3, <2>1, <2>2
  <2> DEFINE was == ledger[k] - entered[k]
  <2>4. was \in Int /\ i \in Int /\ Scale \in Int
    BY <1>1, <2>2
  <2> HIDE DEF q, n, was
  <2>5. (was + i) * Scale = was * Scale + i * Scale
    BY <2>4, Distributes
  <2> QED
    BY <2>3, <2>5 DEF was
<1>6. ASSUME NEW b \in Batch
      PROVE  /\ logged[b].added[k] \in Nat /\ logged[b].count \in Nat
             /\ logged'[b].added[k] =
                  IF q.op = "log" /\ b = q.batch THEN logged[b].added[k] + n ELSE logged[b].added[k]
             /\ logged'[b].count =
                  IF q.op = "log" /\ b = q.batch THEN logged[b].count + 1 ELSE logged[b].count
  BY <1>1 DEF Commit, LoggedAfter, IInv, TypeOK, Records
<1>7. ASSUME NEW b \in Batch
      PROVE  /\ f[b] \in Int /\ F[b] \in Int
             /\ q.op = "log" => g[b] = IF b = q.batch THEN f[b] + n ELSE f[b]
             /\ q.op = "log" => G[b] = IF b = q.batch THEN F[b] + (n - (Scale - 1)) ELSE F[b]
  <2> DEFINE a == logged[b].added[k]
             c == logged[b].count
             s == Scale - 1
  <2>1. a \in Nat /\ c \in Nat /\ s \in Nat /\ n \in Nat
    BY <1>1, <1>2, <1>6
  <2>2. s * (c + 1) = s * c + s /\ s * c \in Nat
    <3> HIDE DEF s, c
    <3> QED
      BY <2>1
  <2>3. (a + n) - s * (c + 1) = (a - s * c) + (n - s) /\ a - s * c \in Int
    <3> DEFINE u == s * c
               v == s * (c + 1)
    <3>1. u \in Nat /\ v = u + s
      BY <2>2
    <3> HIDE DEF u, v, s, c, a, n
    <3>2. (a + n) - v = (a - u) + (n - s) /\ a - u \in Int
      BY <2>1, <3>1
    <3> QED
      BY <3>2 DEF u, v
  <2>4. f[b] = a /\ F[b] = a - s * c
    OBVIOUS
  <2>5. CASE q.op = "log" /\ b = q.batch
    <3>1. g[b] = a + n /\ G[b] = (a + n) - s * (c + 1)
      BY <1>6, <2>5
    <3>2. /\ f[b] \in Int /\ F[b] \in Int /\ g[b] = f[b] + n
          /\ G[b] = F[b] + (n - s)
      <4> DEFINE u == a - s * c
                 v == (a + n) - s * (c + 1)
      <4>1. v = u + (n - s) /\ u \in Int /\ F[b] = u /\ G[b] = v /\ g[b] = a + n /\ f[b] = a
        BY <2>3, <2>4, <3>1
      <4> HIDE DEF u, v, f, F, g, G, n, s, a
      <4> QED
        BY <2>1, <4>1
    <3> QED
      BY <2>5, <3>2
  <2>6. CASE ~(q.op = "log" /\ b = q.batch)
    <3>1. g[b] = f[b] /\ G[b] = F[b]
      BY <1>6, <2>6
    <3> QED
      BY <2>1, <2>3, <2>4, <2>6, <3>1
  <2> QED
    BY <2>5, <2>6
<1>8. /\ Added(k) = SumFunction(f) /\ Added(k)' = SumFunction(g)
      /\ AddedPieces(k) = SumFunction(F) /\ AddedPieces(k)' = SumFunction(G)
  BY DEF Added, AddedPieces
<1>9. f \in [Batch -> Int] /\ F \in [Batch -> Int]
  BY <1>7
<1>10. /\ SumFunction(f) \in Int /\ SumFunction(g) = SumFunction(f) + n
       /\ SumFunction(F) \in Int /\ SumFunction(G) = SumFunction(F) + low
  <2>1. CASE q.op = "log"
    <3>1. q.batch \in Batch /\ low = n - (Scale - 1) /\ low \in Int
      BY <1>1, <1>2, <2>1 DEF SessionInv
    <3>2. /\ \A b \in Batch : g[b] = IF b = q.batch THEN f[b] + n ELSE f[b]
          /\ \A b \in Batch : G[b] = IF b = q.batch THEN F[b] + low ELSE F[b]
      BY <1>7, <2>1, <3>1
    <3>3. g \in [Batch -> Int] /\ G \in [Batch -> Int]
      <4>1. /\ g = [b \in Batch |-> g[b]] /\ G = [b \in Batch |-> G[b]]
        OBVIOUS
      <4>2. \A b \in Batch : g[b] \in Int /\ G[b] \in Int
        BY <1>2, <1>7, <3>1, <3>2
      <4> HIDE DEF g, G
      <4> QED
        BY <4>1, <4>2
    <3> DEFINE x == q.batch
    <3>4. n \in Int /\ low \in Int /\ x \in Batch /\ IsFiniteSet(Batch)
      BY <1>1, <1>2, <3>1
    <3>7. AddsAt(Batch, f, g, x, n) /\ AddsAt(Batch, F, G, x, low)
      BY <3>2 DEF AddsAt
    <3> HIDE DEF f, g, F, G, low, n, q, x
    <3>5. SumFunction(f) \in Int /\ SumFunction(g) = SumFunction(f) + n
      BY <1>9, <3>3, <3>4, <3>7, SumAdds
    <3>6. SumFunction(F) \in Int /\ SumFunction(G) = SumFunction(F) + low
      BY <1>9, <3>3, <3>4, <3>7, SumAdds
    <3> QED
      BY <3>5, <3>6
  <2>2. CASE q.op # "log"
    <3>1. g = f /\ G = F /\ n = 0 /\ low = 0
      BY <1>2, <1>6, <2>2
    <3> HIDE DEF f, g, F, G, low, n
    <3>2. SumFunction(f) \in Int /\ SumFunction(F) \in Int
      BY <1>1, <1>9, SumTyped
    <3> QED
      BY <3>1, <3>2
  <2> QED
    BY <2>1, <2>2
<1>11. n \in Int /\ low \in Int /\ low <= i * Scale
  <2>1. CASE q.op = "log"
    BY <1>1, <1>2, <1>3, <2>1
  <2>2. CASE q.op # "log"
    BY <1>2, <1>4, <2>2
  <2> QED
    BY <2>1, <2>2
<1>12. i * Scale \in Nat /\ i * Scale <= n
  BY <1>3
<1> DEFINE d == i * Scale
<1> HIDE DEF f, g, F, G, low, n, q
<1>13. /\ d \in Nat /\ n \in Int /\ low \in Int /\ d <= n /\ low <= d
       /\ (ledger'[k] - entered'[k]) * Scale = (ledger[k] - entered[k]) * Scale + d
       /\ Added(k) \in Int /\ Added(k)' = Added(k) + n
       /\ AddedPieces(k) \in Int /\ AddedPieces(k)' = AddedPieces(k) + low
  BY <1>5, <1>8, <1>10, <1>11, <1>12
<1> HIDE DEF d
<1> QED
  BY <1>13

LEMMA CommitKeepsLedger ==
  ASSUME IInv, LedgerMatchesRecords, NEW r \in Request, Commit(r)
  PROVE  LedgerMatchesRecords'
<1> SUFFICES ASSUME NEW k \in Booked
             PROVE  /\ AddedPieces(k)' <= (ledger'[k] - entered'[k]) * Scale
                    /\ (ledger'[k] - entered'[k]) * Scale <= Added(k)'
  BY DEF LedgerMatchesRecords
<1> DEFINE was == (ledger[k] - entered[k]) * Scale
           is == (ledger'[k] - entered'[k]) * Scale
<1>1. PICK d \in Nat, up \in Int, low \in Int :
            /\ d <= up /\ low <= d
            /\ is = was + d
            /\ Added(k) \in Int /\ Added(k)' = Added(k) + up
            /\ AddedPieces(k) \in Int /\ AddedPieces(k)' = AddedPieces(k) + low
  BY CommitBooks
<1>2. was \in Int /\ AddedPieces(k) <= was /\ was <= Added(k)
  <2>1. ledger[k] \in Nat /\ entered[k] \in Nat /\ Scale \in Nat
    BY ProductionAssumption DEF IInv, TypeOK
  <2> QED
    BY <2>1 DEF LedgerMatchesRecords
<1> HIDE DEF was, is
<1>3. AddedPieces(k)' <= is /\ is <= Added(k)'
  BY <1>1, <1>2
<1> QED
  BY <1>3 DEF is

LEMMA InitLedger == Init => LedgerMatchesRecords
<1> SUFFICES ASSUME Init, NEW k \in Booked
             PROVE  /\ AddedPieces(k) <= (ledger[k] - entered[k]) * Scale
                    /\ (ledger[k] - entered[k]) * Scale <= Added(k)
  BY DEF LedgerMatchesRecords
<1>1. Scale \in Nat /\ k \in Kind
  BY ProductionAssumption DEF Kind, Booked
<1>2. [b \in Batch |-> logged[b].added[k]] = [b \in Batch |-> 0]
  BY <1>1, NothingIsZero DEF Init
<1>3. [b \in Batch |-> logged[b].added[k] - (Scale - 1) * logged[b].count] = [b \in Batch |-> 0]
  BY <1>1, NothingIsZero DEF Init
<1>4. Added(k) = 0 /\ AddedPieces(k) = 0
  BY <1>2, <1>3, SumZero, ProductionAssumption DEF Added, AddedPieces
<1>5. ledger[k] = 0 /\ entered[k] = 0
  BY DEF Init
<1>6. (0 - 0) * Scale = 0
  BY <1>1
<1> QED
  BY <1>4, <1>5, <1>6

LEMMA NextLedger == IInv /\ LedgerMatchesRecords /\ [Next]_vars => LedgerMatchesRecords'
<1> SUFFICES ASSUME IInv, LedgerMatchesRecords, [Next]_vars PROVE LedgerMatchesRecords'
  OBVIOUS
<1>1. ASSUME UNCHANGED rows PROVE LedgerMatchesRecords'
  BY <1>1 DEF rows, LedgerMatchesRecords, Added, AddedPieces
<1>2. CASE UNCHANGED vars
  BY <1>1, <1>2 DEF vars, rows
<1>3. ASSUME NEW r \in Request, Step(r), ~Commit(r) PROVE LedgerMatchesRecords'
  <2>1. UNCHANGED rows
    BY <1>3 DEF Step, BeginCreate, BeginLog, BeginComplete, Opens, CheckOthers, LoadMachine,
         Rollback, Reads
  <2> QED
    BY <1>1, <2>1
<1>4. ASSUME NEW r \in Request, Commit(r) PROVE LedgerMatchesRecords'
  BY <1>4, CommitKeepsLedger
<1>5. ASSUME NEW pieces \in [Booked -> Nat], Enters(pieces) PROVE LedgerMatchesRecords'
  <2>1. ASSUME NEW k \in Booked PROVE ledger'[k] - entered'[k] = ledger[k] - entered[k]
    <3>1. /\ ledger[k] \in Nat /\ entered[k] \in Nat /\ pieces[k] \in Nat
          /\ ledger'[k] = ledger[k] + pieces[k] /\ entered'[k] = entered[k] + pieces[k]
      BY <1>5 DEF Enters, IInv, TypeOK
    <3> QED
      BY <3>1
  <2>2. logged' = logged
    BY <1>5 DEF Enters
  <2> QED
    BY <2>1, <2>2 DEF LedgerMatchesRecords, Added, AddedPieces
<1> QED
  BY <1>2, <1>3, <1>4, <1>5, StepsOfNext

(* However requests interleave, whatever is entered by other routes and    *)
(* whatever the sign and the fractions of what is logged, the quantity     *)
(* ledger has every whole piece of every record that adds                  *)
(* (production/service.py, log_production_record; docs/18).                *)
THEOREM LedgerKeepsRecords == Spec => []LedgerMatchesRecords
BY InitLedger, NextLedger, InductiveInvariant, PTL DEF Spec

-----------------------------------------------------------------------------
(* One request at a time. What the open session has read is still so: the  *)
(* totals of its batch, the machine's status, whether another batch runs   *)
(* on it, and that the batch to create is not there yet.  No batch that is *)
(* not there has records.                                                  *)
OneSession == \A p, r \in Request : req[p] # Idle /\ req[r] # Idle => p = r

Shows(b) ==
    batch[b].status # "ABSENT" =>
        (machine[batch[b].machine] = "RUNNING" <=> Running(batch[b].machine) # {})

MachinesShow == \A b \in Batch : Shows(b)

(* The sums of the records, and that they are the totals of a batch.       *)
Sums(total, records) ==
    \A k \in Kind : total[k] = records.added[k] - records.removed[k]

RecordsShow ==
    \A b \in Batch : /\ Sums(batch[b].total, logged[b])
                     /\ batch[b].status = "ABSENT" => batch[b].total = Nothing

FreshSession(q) ==
    /\ q.op = "create" => batch[q.batch].status = "ABSENT"
    /\ q.op = "log" => q.loaded = batch[q.batch].total
    /\ q.op = "complete" => q.machine = batch[q.batch].machine
    /\ q.op = "complete" /\ q.mach # None => q.release = TRUE
    /\ q.mach # None => q.mach = machine[q.machine]
    /\ q.release # None => q.release = (Running(q.machine) \subseteq {q.batch})

Fresh == MachinesShow /\ RecordsShow /\ \A p \in Request : FreshSession(req[p])

AloneInv == ~overlapped => OneSession /\ Fresh

LEMMA IdleIsFresh == FreshSession(Idle) /\ FreshSession(Idle)'
BY DEF FreshSession, Idle

(* While the history variable is FALSE, no two sessions are open.          *)
LEMMA OneSessionNext == ASSUME MCNext, ~overlapped' PROVE OneSession' /\ ~overlapped
<1> DEFINE open == {r \in Request : req'[r] # Idle}
<1>1. ~overlapped /\ ~(Cardinality(open) > 1)
  BY DEF MCNext
<1>2. IsFiniteSet(open)
  BY FS_Subset, ProductionAssumption
<1>3. ASSUME NEW p \in open, NEW r \in open PROVE p = r
  BY <1>1, <1>2, AtMostOne
<1> QED
  BY <1>1, <1>3 DEF OneSession, Idle, Nothing

(* A step that writes no row, and leaves its session fresh.                *)
LEMMA FreshRead ==
  ASSUME IInv, Fresh, NEW r \in Request, NEW q, FreshSession(q),
         req' = [req EXCEPT ![r] = q], UNCHANGED rows
  PROVE  Fresh'
<1>1. MachinesShow' /\ RecordsShow'
  BY DEF Fresh, MachinesShow, Shows, RecordsShow, Sums, Running, rows
<1>2. ASSUME NEW p \in Request PROVE FreshSession(req[p])'
  <2>1. req'[p] = IF p = r THEN q ELSE req[p]
    BY DEF IInv, TypeOK
  <2>2. FreshSession(req'[p])
    BY <2>1 DEF Fresh
  <2> QED
    BY <2>2 DEF FreshSession, Running, rows
<1> QED
  BY <1>1, <1>2 DEF Fresh

LEMMA FreshReads ==
  ASSUME IInv, Fresh, NEW r \in Request, Step(r), ~Commit(r)
  PROVE  Fresh'
<1>0. req[r] \in Session /\ FreshSession(req[r]) /\ SessionInv(req[r])
  BY DEF IInv, TypeOK, Fresh
<1>1. ASSUME NEW b \in Batch, NEW m \in Machine, NEW n \in Input, BeginCreate(r, b, m, n)
      PROVE  Fresh'
  <2>1. FreshSession([Idle EXCEPT !.op = "create", !.batch = b, !.machine = m, !.input = n])
    BY <1>1 DEF BeginCreate, FreshSession, Idle
  <2> QED
    BY <1>1, <2>1, FreshRead DEF BeginCreate, Opens
<1>2. ASSUME NEW b \in Batch, NEW out \in Output, BeginLog(r, b, out)
      PROVE  Fresh'
  <2>1. FreshSession([Idle EXCEPT !.op = "log", !.batch = b, !.out = out, !.loaded = batch[b].total])
    BY DEF FreshSession, Idle
  <2> QED
    BY <1>2, <2>1, FreshRead DEF BeginLog, Opens
<1>3. ASSUME NEW b \in Batch, BeginComplete(r, b)
      PROVE  Fresh'
  <2>1. FreshSession([Idle EXCEPT !.op = "complete", !.batch = b, !.machine = batch[b].machine])
    BY DEF FreshSession, Idle
  <2> QED
    BY <1>3, <2>1, FreshRead DEF BeginComplete, Opens
<1>4. CASE CheckOthers(r)
  <2> DEFINE q == [req[r] EXCEPT !.release = Running(req[r].machine) \subseteq {req[r].batch}]
  <2>1. /\ q.op = req[r].op /\ q.batch = req[r].batch /\ q.machine = req[r].machine
        /\ q.mach = req[r].mach /\ q.release = (Running(q.machine) \subseteq {q.batch})
        /\ q.loaded = req[r].loaded
    BY <1>0 DEF Session
  <2>2. req[r].op = "complete" /\ req[r].release # TRUE
    BY <1>4, ProductionAssumption DEF CheckOthers
  <2> HIDE DEF q
  <2>3. FreshSession(q)
    BY <1>0, <2>1, <2>2 DEF FreshSession
  <2> QED
    BY <1>4, <2>3, FreshRead DEF CheckOthers, Reads, q
<1>5. CASE LoadMachine(r)
  <2> DEFINE q == [req[r] EXCEPT !.mach = machine[req[r].machine]]
  <2>1. /\ q.op = req[r].op /\ q.batch = req[r].batch /\ q.machine = req[r].machine
        /\ q.mach = machine[q.machine] /\ q.release = req[r].release
        /\ q.loaded = req[r].loaded
    BY <1>0 DEF Session
  <2>2. req[r].op = "complete" => req[r].release = TRUE
    BY <1>5 DEF LoadMachine
  <2> HIDE DEF q
  <2>3. FreshSession(q)
    BY <1>0, <2>1, <2>2 DEF FreshSession
  <2> QED
    BY <1>5, <2>3, FreshRead DEF LoadMachine, Reads, q
<1>6. CASE Rollback(r)
  BY <1>6, IdleIsFresh, FreshRead DEF Rollback, Reads
<1> QED
  BY <1>1, <1>2, <1>3, <1>4, <1>5, <1>6 DEF Step

(* A commit closes the only session.                                       *)
LEMMA LastCommit ==
  ASSUME IInv, OneSession, Fresh, NEW r \in Request, Commit(r)
  PROVE  /\ req[r] \in Session /\ SessionInv(req[r]) /\ FreshSession(req[r])
         /\ Loaded(req[r]) /\ req[r].batch \in Batch
         /\ req[r].op \in {"create", "log", "complete"}
         /\ \A p \in Request : req'[p] = Idle
         /\ \A b \in Batch : batch[b] \in BatchRow /\ batch'[b] = BatchAfter(req[r], b)
<1> DEFINE q == req[r]
<1>1. q \in Session /\ SessionInv(q) /\ FreshSession(q) /\ Loaded(q)
  BY DEF IInv, TypeOK, Commit, Fresh
<1>2. q.op # "idle" /\ q.batch \in Batch
  BY <1>1, ProductionAssumption DEF Loaded, SessionInv
<1>3. \A p \in Request : req'[p] = Idle
  <2>1. q # Idle
    BY <1>2 DEF Idle
  <2>2. ASSUME NEW p \in Request, p # r PROVE req[p] = Idle
    BY <2>1, <2>2 DEF OneSession
  <2> QED
    BY <2>2 DEF Commit, IInv, TypeOK
<1>4. \A b \in Batch : batch[b] \in BatchRow /\ batch'[b] = BatchAfter(q, b)
  BY DEF IInv, TypeOK, Commit
<1> QED
  BY <1>1, <1>2, <1>3, <1>4 DEF Session

(* The machine of a batch moves as its batches do.                         *)
LEMMA CommitMoves ==
  ASSUME IInv, OneSession, Fresh, NEW r \in Request, Commit(r), NEW b \in Batch, NEW m,
         batch'[b].status # "ABSENT", batch'[b].machine = m
  PROVE  machine'[m] = "RUNNING" <=> Running(m)' # {}
<1> DEFINE q == req[r]
<1>1. /\ q \in Session /\ SessionInv(q) /\ FreshSession(q) /\ Loaded(q)
      /\ q.op \in {"create", "log", "complete"} /\ q.batch \in Batch
      /\ \A c \in Batch : batch[c] \in BatchRow /\ batch'[c] = BatchAfter(q, c)
  BY LastCommit
<1>2. Shows(b)
  BY DEF Fresh, MachinesShow
<1>3. /\ b # q.batch \/ q.op # "create" =>
           batch[b].status # "ABSENT" /\ batch[b].machine = m
      /\ b = q.batch /\ q.op = "create" => m = q.machine
  <2>1. batch[b] \in BatchRow /\ batch'[b] = BatchAfter(q, b)
    BY <1>1
  <2>2. CASE b # q.batch
    BY <2>1, <2>2 DEF BatchAfter
  <2>3. CASE b = q.batch /\ q.op = "create"
    <3>1. batch'[b] = [ status |-> "IN_PROGRESS", machine |-> q.machine,
                        input |-> q.input, total |-> Nothing ]
      BY <2>1, <2>3 DEF BatchAfter
    <3> QED
      BY <2>3, <3>1
  <2>4. CASE b = q.batch /\ q.op \in {"log", "complete"}
    <3>1. batch[b].status # "ABSENT"
      BY <1>1, <2>4 DEF SessionInv
    <3>2. batch'[b].machine = batch[b].machine
      BY <2>1, <2>4 DEF BatchAfter, BatchRow
    <3> QED
      BY <2>4, <3>1, <3>2
  <2> QED
    BY <1>1, <2>2, <2>3, <2>4
<1>4. m \in Machine
  BY <1>1, <1>3 DEF IInv, BatchesHaveMachines, SessionInv
<1>5. machine'[m] = MachineAfter(q, m) /\ machine[m] \in MachineStatus
  BY <1>4 DEF Commit, IInv, TypeOK
<1>6. b # q.batch \/ q.op # "create" => (machine[m] = "RUNNING" <=> Running(m) # {})
  <2>1. CASE b # q.batch \/ q.op # "create"
    <3>1. batch[b].status # "ABSENT" /\ batch[b].machine = m
      BY <1>3, <2>1
    <3> QED
      BY <1>2, <3>1 DEF Shows
  <2> QED
    BY <2>1
<1>7. CASE q.op = "log"
  <2>1. ASSUME NEW c \in Batch
        PROVE  batch'[c].status = batch[c].status /\ batch'[c].machine = batch[c].machine
    <3>1. batch[c] \in BatchRow /\ batch'[c] = BatchAfter(q, c)
      BY <1>1
    <3> QED
      BY <1>7, <3>1 DEF BatchAfter, BatchRow
  <2>2. Running(m)' = Running(m)
    BY <2>1 DEF Running
  <2>3. machine'[m] = machine[m]
    BY <1>1, <1>5, <1>7 DEF MachineAfter, SessionInv
  <2> QED
    BY <1>6, <1>7, <2>2, <2>3
<1>8. CASE q.op = "create"
  <2>1. /\ batch'[q.batch].status = "IN_PROGRESS" /\ batch'[q.batch].machine = q.machine
        /\ \A c \in Batch \ {q.batch} : batch'[c] = batch[c]
        /\ batch[q.batch].status # "IN_PROGRESS"
    BY <1>1, <1>8 DEF BatchAfter, FreshSession
  <2>2. Running(m)' = IF m = q.machine THEN Running(m) \cup {q.batch} ELSE Running(m)
    BY <1>1, <2>1 DEF Running
  <2>3. q.mach # None /\ q.mach = machine[q.machine]
    BY <1>1, <1>8, ProductionAssumption DEF Loaded, SessionInv, FreshSession
  <2>4. machine'[m] = IF m = q.machine THEN "RUNNING" ELSE machine[m]
    BY <1>5, <1>8, <2>3 DEF MachineAfter
  <2>5. CASE m = q.machine
    BY <2>2, <2>4, <2>5
  <2>6. CASE m # q.machine
    BY <1>3, <1>6, <1>8, <2>2, <2>4, <2>6
  <2> QED
    BY <2>5, <2>6
<1>9. CASE q.op = "complete"
  <2>1. /\ batch'[q.batch].status = "COMPLETED" /\ batch[q.batch].machine = q.machine
        /\ \A c \in Batch \ {q.batch} : batch'[c] = batch[c]
    BY <1>1, <1>9 DEF BatchAfter, FreshSession, BatchRow
  <2>2. Running(m)' = Running(m) \ {q.batch} /\ (m # q.machine => q.batch \notin Running(m))
    BY <1>1, <2>1 DEF Running
  <2>3. CASE m # q.machine
    BY <1>5, <1>6, <1>9, <2>2, <2>3 DEF MachineAfter
  <2>4. CASE m = q.machine /\ q.mach # None
    <3>1. q.release = TRUE /\ q.mach = machine[m]
      BY <1>1, <1>9, <2>4 DEF FreshSession
    <3>2. Running(m) \subseteq {q.batch}
      BY <1>1, <2>4, <3>1, ProductionAssumption DEF FreshSession
    <3>3. machine'[m] = "IDLE"
      BY <1>5, <1>9, <2>4, <3>1 DEF MachineAfter
    <3> QED
      BY <2>2, <3>2, <3>3
  <2>5. CASE m = q.machine /\ q.mach = None
    <3>1. q.release = FALSE
      BY <1>1, <1>9, <2>5 DEF Loaded
    <3>2. ~(Running(m) \subseteq {q.batch})
      BY <1>1, <2>5, <3>1, ProductionAssumption DEF FreshSession
    <3>3. machine'[m] = machine[m]
      BY <1>5, <2>5 DEF MachineAfter
    <3> QED
      BY <1>6, <1>9, <2>2, <3>2, <3>3
  <2> QED
    BY <2>3, <2>4, <2>5
<1> QED
  BY <1>1, <1>7, <1>8, <1>9

SumOf(total, out, more) == \A k \in Kind : more[k] = total[k] + out[k]

(* What a record adds to the totals it adds to the sums.                   *)
LEMMA SumsPlus ==
  ASSUME NEW total \in [Kind -> Int], NEW out \in [Kind -> Int], NEW more \in [Kind -> Int],
         NEW old \in Records, NEW new \in Records, Sums(total, old),
         SumOf(total, out, more), GrownBy(old, new, out)
  PROVE  Sums(more, new)
<1> SUFFICES ASSUME NEW k \in Kind PROVE more[k] = new.added[k] - new.removed[k]
  BY DEF Sums
<1>1. /\ total[k] \in Int /\ out[k] \in Int
      /\ old.added[k] \in Nat /\ old.removed[k] \in Nat
  BY DEF Records
<1>2. total[k] = old.added[k] - old.removed[k]
  BY DEF Sums
<1>3. /\ Positive(out[k]) \in Nat /\ Positive(-out[k]) \in Nat
      /\ out[k] = Positive(out[k]) - Positive(-out[k])
  BY <1>1, PositiveParts
<1>4. /\ more[k] = total[k] + out[k]
      /\ new.added[k] = old.added[k] + Positive(out[k])
      /\ new.removed[k] = old.removed[k] + Positive(-out[k])
  BY DEF SumOf, GrownBy
<1> QED
  BY <1>1, <1>2, <1>3, <1>4

LEMMA CommitSums ==
  ASSUME IInv, OneSession, Fresh, NEW r \in Request, Commit(r), NEW b \in Batch
  PROVE  /\ Sums(batch'[b].total, logged'[b])
         /\ batch'[b].status = "ABSENT" => batch'[b].total = Nothing
<1> DEFINE q == req[r]
           t == [k \in Kind |-> IF q.out[k] = 0 THEN batch[b].total[k] ELSE TotalAfter(q)[k]]
<1>1. /\ q \in Session /\ SessionInv(q) /\ FreshSession(q)
      /\ q.op \in {"create", "log", "complete"} /\ q.out \in [Kind -> Int]
      /\ batch[b] \in BatchRow /\ batch'[b] = BatchAfter(q, b)
      /\ batch[b].total \in [Kind -> Int] /\ logged[b] \in Records
  BY LastCommit DEF Session, BatchRow, IInv, TypeOK
<1>2. /\ Sums(batch[b].total, logged[b])
      /\ batch[b].status = "ABSENT" => batch[b].total = Nothing
  BY DEF Fresh, RecordsShow
<1>3. logged'[b] = LoggedAfter(q, b)
  BY DEF Commit
<1>4. CASE q.op # "log" \/ b # q.batch
  <2>1. logged'[b] = logged[b]
    BY <1>3, <1>4 DEF LoggedAfter
  <2>2. /\ batch'[b].total = batch[b].total
        /\ batch'[b].status = "ABSENT" => batch[b].status = "ABSENT"
    <3>1. CASE b # q.batch
      BY <1>1, <3>1 DEF BatchAfter
    <3>2. CASE b = q.batch /\ q.op = "create"
      <4>1. batch'[b] = [ status |-> "IN_PROGRESS", machine |-> q.machine,
                          input |-> q.input, total |-> Nothing ]
        BY <1>1, <3>2 DEF BatchAfter
      <4>2. batch[b].total = Nothing
        BY <1>1, <1>2, <3>2 DEF FreshSession
      <4> QED
        BY <4>1, <4>2
    <3>3. CASE b = q.batch /\ q.op = "complete"
      BY <1>1, <3>3 DEF BatchAfter, BatchRow
    <3> QED
      BY <1>1, <1>4, <3>1, <3>2, <3>3
  <2> QED
    BY <1>2, <2>1, <2>2
<1>5. CASE q.op = "log" /\ b = q.batch
  <2>1. batch'[b] = [batch[b] EXCEPT !.total = t]
    BY <1>1, <1>5 DEF BatchAfter
  <2>2. q.loaded = batch[b].total
    BY <1>1, <1>5 DEF FreshSession
  <2>3. \A k \in Kind : TotalAfter(q)[k] = batch[b].total[k] + q.out[k]
    BY <1>1, <2>2, PlusIsRecord DEF TotalAfter
  <2>4. SumOf(batch[b].total, q.out, t) /\ t \in [Kind -> Int]
    BY <1>1, <2>3 DEF SumOf
  <2> HIDE DEF t
  <2>5. batch'[b].total = t /\ batch'[b].status = batch[b].status
    BY <1>1, <2>1 DEF BatchRow
  <2>6. logged'[b] \in Records /\ GrownBy(logged[b], logged'[b], q.out)
    BY <1>5, RecordsGrow
  <2>7. batch[b].status # "ABSENT"
    BY <1>1, <1>5 DEF SessionInv
  <2> HIDE DEF q
  <2>8. Sums(t, logged'[b])
    BY <1>1, <1>2, <2>4, <2>6, SumsPlus
  <2> QED
    BY <2>5, <2>7, <2>8
<1> QED
  BY <1>4, <1>5

LEMMA CommitFresh ==
  ASSUME IInv, OneSession, Fresh, NEW r \in Request, Commit(r) PROVE Fresh'
<1>1. MachinesShow'
  BY CommitMoves DEF MachinesShow, Shows, Running
<1>2. RecordsShow'
  BY CommitSums DEF RecordsShow, Sums
<1>3. ASSUME NEW p \in Request PROVE FreshSession(req[p])'
  BY LastCommit, IdleIsFresh DEF FreshSession
<1> QED
  BY <1>1, <1>2, <1>3 DEF Fresh

LEMMA InitAlone == MCInit => AloneInv
<1> SUFFICES ASSUME MCInit PROVE AloneInv
  OBVIOUS
<1>1. OneSession /\ MachinesShow
  BY DEF MCInit, Init, OneSession, MachinesShow, Shows
<1>2. RecordsShow
  BY NothingIsZero DEF MCInit, Init, RecordsShow, Sums
<1>3. \A r \in Request : FreshSession(req[r])
  BY IdleIsFresh DEF MCInit, Init
<1> QED
  BY <1>1, <1>2, <1>3 DEF AloneInv, Fresh

LEMMA NextAlone == IInv /\ AloneInv /\ [MCNext]_MCvars => AloneInv'
<1> SUFFICES ASSUME IInv, AloneInv, [MCNext]_MCvars PROVE AloneInv'
  OBVIOUS
<1>1. CASE UNCHANGED MCvars
  BY <1>1 DEF MCvars, vars, AloneInv, OneSession, Fresh, MachinesShow, Shows, RecordsShow, Sums,
     Running, FreshSession
<1>2. CASE MCNext /\ ~overlapped'
  <2>1. OneSession' /\ ~overlapped
    BY <1>2, OneSessionNext
  <2>2. OneSession /\ Fresh
    BY <2>1 DEF AloneInv
  <2>3. ASSUME NEW r \in Request, Step(r) PROVE Fresh'
    BY <2>2, <2>3, CommitFresh, FreshReads
  <2>4. ASSUME NEW pieces \in [Booked -> Nat], Enters(pieces) PROVE Fresh'
    BY <2>2, <2>4 DEF Enters, Fresh, MachinesShow, Shows, RecordsShow, Sums, Running, FreshSession
  <2> QED
    BY <1>2, <2>1, <2>3, <2>4, StepsOfNext DEF AloneInv, MCNext
<1>3. CASE overlapped'
  BY <1>3 DEF AloneInv
<1> QED
  BY <1>1, <1>2, <1>3

LEMMA Alone == MCSpec => []AloneInv
<1>1. MCInit => IInv
  BY InitIInv DEF MCInit
<1>2. IInv /\ [MCNext]_MCvars => IInv'
  BY NextIInv DEF MCNext, MCvars
<1> QED
  BY <1>1, <1>2, InitAlone, NextAlone, PTL DEF MCSpec

(* While requests do not overlap, a machine that ever got a batch is       *)
(* RUNNING exactly when a batch runs on it (production/service.py,         *)
(* create_batch, complete_batch).                                          *)
THEOREM MachinesShowTheirBatchesAlone == MCSpec => []MachineShowsItsBatchesAlone
<1>1. AloneInv => MachineShowsItsBatchesAlone
  BY DEF AloneInv, Fresh, MachinesShow, Shows, MachineShowsItsBatchesAlone, MachineShowsItsBatches
<1> QED
  BY <1>1, Alone, PTL

(* While requests do not overlap, no record is lost, whatever its sign:    *)
(* the totals of a batch are the sums of its records (production/          *)
(* service.py, log_production_record).                                     *)
THEOREM TotalsMatchRecordsWhileAlone == MCSpec => []TotalsMatchRecordsAlone
<1>1. AloneInv => TotalsMatchRecordsAlone
  BY DEF AloneInv, Fresh, RecordsShow, Sums, TotalsMatchRecordsAlone, TotalsMatchRecords
<1> QED
  BY <1>1, Alone, PTL
=============================================================================
