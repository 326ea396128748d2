---------------------------- MODULE LabourProofs ----------------------------
(***************************************************************************)
(* However many requests interleave, no batch and no payment claims more   *)
(* accepted pieces than workers submitted: what a session loads of a batch *)
(* and what a payment finds due are within the submissions of either sign, *)
(* whose sums only grow.  One request at a time, a batch is paid once and  *)
(* in full, and the workers' credit is backed by issued material and what  *)
(* negative transfers took back.                                           *)
(***************************************************************************)
EXTENDS MCLabour, FiniteFacts

(* The idle session has read nothing.                                      *)
LEMMA IdleSession ==
  /\ Idle \in Session
  /\ Idle.op = "idle" /\ Idle.pc = "idle" /\ Idle.batch = None /\ Idle.due = NoDues
BY DEF Idle, Session, Nothing, NoRow, NoDues, BatchRow, BatchStatus

(* A number cut at zero is a natural number; the parts of a number above   *)
(* and below zero make up the number.                                      *)
LEMMA ClampedIsNat == \A n \in Int : Clamped(n) \in Nat
BY DEF Clamped

LEMMA PartsOf ==
  ASSUME NEW n \in Int
  PROVE  /\ Clamped(n) \in Nat /\ Clamped(-n) \in Nat
         /\ n = Clamped(n) - Clamped(-n)
         /\ n <= Clamped(n) /\ -Clamped(-n) <= n
BY DEF Clamped

(* Payments: paid pieces stay within the payments' number times the work   *)
(* when work is added, and when one more payment pays at most the work.    *)
LEMMA PaidWithinWork ==
  ASSUME NEW c \in Nat, NEW d \in Nat, NEW w \in Nat, NEW v \in Nat,
         d <= c * w, w <= v
  PROVE  /\ d <= c * v
         /\ \A n \in Nat : n <= w => d + n <= (c + 1) * v
<1>1. c * w <= c * v
  BY SMT
<1>2. c * w \in Nat /\ c * v \in Nat
  BY SMT
<1>3. (c + 1) * v = c * v + v
  BY SMT
<1> DEFINE x == c * w
           y == c * v
           z == (c + 1) * v
<1> HIDE DEF x, y, z
<1>4. x <= y /\ x \in Nat /\ y \in Nat /\ z = y + v /\ d <= x
  BY <1>1, <1>2, <1>3 DEF x, y, z
<1>5. d <= y /\ \A n \in Nat : n <= w => d + n <= z
  BY <1>4
<1> QED
  BY <1>5 DEF y, z

(* The initial state satisfies the invariant.                              *)
LEMMA InitIInv == Init => IInv
<1> SUFFICES ASSUME Init PROVE IInv
  OBVIOUS
<1>1. TypeOK
  BY IdleSession DEF Init, TypeOK, NoRow, BatchRow, BatchStatus
<1>2. BatchesHaveWorkers
  BY DEF Init, BatchesHaveWorkers, NoRow
<1>3. PayableWithinWork
  BY DEF Init, PayableWithinWork, NoRow
<1>4. ASSUME NEW r \in Request PROVE SessionInv(req[r])
  BY IdleSession DEF Init, SessionInv, NoDues
<1> QED
  BY <1>1, <1>2, <1>3, <1>4 DEF IInv

(* A step that writes no row keeps the invariant if the one session it     *)
(* changes is well-typed and agrees with the rows.                         *)
LEMMA ReadStep ==
  ASSUME IInv, NEW r \in Request, NEW q \in Session, SessionInv(q), Becomes(r, q)
  PROVE  IInv'
<1>1. TypeOK'
  BY DEF IInv, TypeOK, Becomes, rows
<1>2. BatchesHaveWorkers' /\ PayableWithinWork'
  BY DEF IInv, BatchesHaveWorkers, PayableWithinWork, Becomes, rows
<1>3. ASSUME NEW p \in Request PROVE SessionInv(req[p])'
  <2>1. req'[p] = IF p = r THEN q ELSE req[p]
    BY DEF IInv, TypeOK, Becomes
  <2>2. SessionInv(req[p])
    BY DEF IInv
  <2> QED
    BY <2>1, <2>2 DEF SessionInv, Becomes, rows
<1> QED
  BY <1>1, <1>2, <1>3 DEF IInv

(* A request that leaves nothing behind.                                   *)
LEMMA DropStep ==
  ASSUME IInv, NEW r \in Request, Becomes(r, Idle)
  PROVE  IInv'
<1>1. SessionInv(Idle)
  BY IdleSession DEF SessionInv, NoDues, IInv, TypeOK
<1> QED
  BY <1>1, IdleSession, ReadStep

(* The rows a first read finds.                                            *)
LEMMA RowsRead ==
  ASSUME IInv, NEW b \in Batch
  PROVE  /\ batch[b] \in BatchRow /\ batch[b].done \in Int
         /\ work[b].added \in Nat /\ work[b].removed \in Nat /\ Idle.due[b] = 0
         /\ batch[b].status # "ABSENT" => batch[b].of \in Labourer
         /\ -work[b].removed <= batch[b].done /\ batch[b].done <= work[b].added
BY DEF BatchRow, IInv, TypeOK, BatchesHaveWorkers, PayableWithinWork, Idle, NoDues

(* The first reads of the five operations.                                 *)
LEMMA BeginAllocateStep ==
  ASSUME IInv, NEW r \in Request, NEW b \in Batch, NEW l \in Labourer, NEW n \in Quantity,
         BeginAllocate(r, b, l, n)
  PROVE  IInv'
<1> DEFINE q == [Idle EXCEPT !.op = "allocate", !.pc = "commit", !.batch = b, !.who = l,
                               !.qty = n]
<1>1. q \in Session
  BY LabourAssumption, IdleSession, RowsRead DEF Session
<1>2. SessionInv(q)
  BY RowsRead DEF SessionInv, Idle
<1> QED
  BY <1>1, <1>2, ReadStep DEF BeginAllocate, Opens

LEMMA BeginIssueStep ==
  ASSUME IInv, NEW r \in Request, NEW l \in Labourer, NEW n \in Quantity,
         BeginIssue(r, l, n)
  PROVE  IInv'
<1> DEFINE q == [Idle EXCEPT !.op = "issue", !.pc = "plus", !.who = l, !.qty = n]
<1>1. q \in Session
  BY LabourAssumption, IdleSession, RowsRead DEF Session
<1>2. SessionInv(q)
  BY RowsRead DEF SessionInv, Idle
<1> QED
  BY <1>1, <1>2, ReadStep DEF BeginIssue, Opens

LEMMA BeginTransferStep ==
  ASSUME IInv, NEW r \in Request, NEW l \in Labourer, NEW to \in Labourer, NEW n \in Quantity,
         BeginTransfer(r, l, to, n)
  PROVE  IInv'
<1> DEFINE q == [Idle EXCEPT !.op = "transfer", !.pc = "plus", !.who = l, !.to = to,
                               !.qty = n]
<1>1. q \in Session
  BY LabourAssumption, IdleSession, RowsRead DEF Session
<1>2. SessionInv(q)
  BY RowsRead DEF SessionInv, Idle
<1> QED
  BY <1>1, <1>2, ReadStep DEF BeginTransfer, Opens

LEMMA BeginSubmitStep ==
  ASSUME IInv, NEW r \in Request, NEW b \in Batch, NEW out \in Work,
         BeginSubmit(r, b, out)
  PROVE  IInv'
<1> DEFINE q == [Idle EXCEPT !.op = "submit", !.pc = "item", !.batch = b, !.who = batch[b].of,
                               !.out = out, !.loaded = batch[b]]
<1>1. q \in Session
  BY LabourAssumption, IdleSession, RowsRead DEF BeginSubmit, Session
<1>2. SessionInv(q)
  BY RowsRead DEF BeginSubmit, SessionInv, Idle
<1> QED
  BY <1>1, <1>2, ReadStep DEF BeginSubmit, Opens

LEMMA BeginPayStep ==
  ASSUME IInv, NEW r \in Request, NEW l \in Labourer, BeginPay(r, l)
  PROVE  IInv'
<1> DEFINE due == [b \in Batch |->
              IF batch[b].of = l /\ batch[b].status = "SUBMITTED" THEN Clamped(batch[b].done)
              ELSE 0]
           q == [Idle EXCEPT !.op = "pay", !.pc = "ledger", !.who = l, !.due = due]
<1>1. /\ due \in [Batch -> Nat]
      /\ \A b \in Batch : due[b] <= work[b].added
  BY RowsRead DEF Clamped
<1>2. Becomes(r, q)
  BY DEF BeginPay, Opens
<1> HIDE DEF due
<1>3. q \in Session
  BY <1>1, IdleSession DEF Session
<1>4. SessionInv(q)
  BY <1>1 DEF SessionInv, Idle
<1> QED
  BY <1>2, <1>3, <1>4, ReadStep

(* A session that has read a balance.                                      *)
LEMMA BalanceRead ==
  ASSUME NEW q \in Session, NEW n \in Nat
  PROVE  [q EXCEPT !.pc = "commit", !.plus = 0, !.bal = n] \in Session
<1> DEFINE s == [q EXCEPT !.plus = 0]
<1>1. s \in Session
  BY DEF Session
<1>2. [q EXCEPT !.pc = "commit", !.plus = 0, !.bal = n] = [s EXCEPT !.pc = "commit", !.bal = n]
  BY DEF Session
<1> HIDE DEF s
<1>3. [s EXCEPT !.pc = "commit", !.bal = n] \in Session
  BY <1>1 DEF Session
<1> QED
  BY <1>2, <1>3

(* The further reads of an operation.                                      *)
LEMMA LaterReadStep ==
  ASSUME IInv, NEW r \in Request,
         FindItem(r) \/ ReadPlus(r) \/ ReadMinus(r) \/ ReadPaid(r)
  PROVE  IInv'
<1>1. req[r] \in Session /\ SessionInv(req[r])
  BY DEF IInv, TypeOK
<1>2. req[r].who \in Labourer
  BY <1>1 DEF SessionInv, FindItem, ReadPlus, ReadMinus, ReadPaid
<1>3. held[req[r].who] \in [issued : Nat, received : Nat, reversed : Nat, spent : Int]
  BY <1>2 DEF IInv, TypeOK
<1>4. CASE FindItem(r)
  <2> DEFINE q == IF held[req[r].who].issued > 0
                  THEN [req[r] EXCEPT !.pc = "commit", !.bal = 1]
                  ELSE [req[r] EXCEPT !.pc = "plus"]
  <2>1. q \in Session
    BY <1>1 DEF Session
  <2>2. SessionInv(q)
    BY <1>1, <1>2 DEF SessionInv, Session
  <2> QED
    BY <1>4, <2>1, <2>2, ReadStep DEF FindItem
<1>5. CASE ReadPlus(r)
  <2> DEFINE q == [req[r] EXCEPT !.pc = "minus", !.plus = Plus(req[r].who)]
  <2>1. Plus(req[r].who) \in Int
    BY <1>3 DEF Plus
  <2>2. q \in Session
    BY <1>1, <2>1 DEF Session
  <2>3. SessionInv(q)
    BY <1>1, <1>2 DEF SessionInv, Session
  <2> QED
    BY <1>5, <2>2, <2>3, ReadStep DEF ReadPlus
<1>6. CASE ReadMinus(r)
  <2> DEFINE bal == Clamped(req[r].plus - held[req[r].who].spent)
             q == [req[r] EXCEPT !.pc = "commit", !.plus = 0, !.bal = bal]
  <2>1. bal \in Nat
    <3>1. req[r].plus \in Int /\ held[req[r].who].spent \in Int
      BY <1>1, <1>3 DEF Session
    <3> QED
      BY <3>1, ClampedIsNat
  <2>2. Becomes(r, Idle) \/ Becomes(r, q)
    BY <1>6 DEF ReadMinus
  <2> HIDE DEF bal
  <2>3. q \in Session
    BY <1>1, <2>1, BalanceRead
  <2>4. SessionInv(q)
    BY <1>1, <1>2 DEF SessionInv, Session
  <2> QED
    BY <2>2, <2>3, <2>4, ReadStep, DropStep
<1>7. CASE ReadPaid(r)
  <2> DEFINE due == [b \in Batch |-> IF paid[b].count > 0 THEN 0 ELSE req[r].due[b]]
             q == [req[r] EXCEPT !.pc = "commit", !.due = due]
  <2>1. /\ due \in [Batch -> Nat]
        /\ \A b \in Batch : due[b] <= work[b].added
    BY <1>1 DEF Session, SessionInv, IInv, TypeOK
  <2>2. Becomes(r, Idle) \/ Becomes(r, q)
    BY <1>7 DEF ReadPaid
  <2> HIDE DEF due
  <2>3. q \in Session
    BY <1>1, <2>1 DEF Session
  <2>4. SessionInv(q)
    BY <1>1, <1>2, <2>1 DEF SessionInv, Session
  <2> QED
    BY <2>2, <2>3, <2>4, ReadStep, DropStep
<1> QED
  BY <1>4, <1>5, <1>6, <1>7

(* The commit: submissions are added, the new totals are the loaded ones   *)
(* and the submission, a payment pays what it found.                       *)
LEMMA CommitStep ==
  ASSUME IInv, NEW r \in Request, Commit(r)
  PROVE  IInv'
<1> DEFINE q == req[r]
<1>1. q \in Session /\ SessionInv(q) /\ q.pc = "commit" /\ q.who \in Labourer
  BY DEF IInv, TypeOK, Commit, SessionInv
<1>2. /\ q.out \in [done : Int, bad : Int, back : Int] /\ q.loaded \in BatchRow
      /\ q.qty \in Int /\ q.bal \in Nat /\ q.due \in [Batch -> Nat]
  BY <1>1 DEF Session
<1>3. ASSUME NEW b \in Batch
      PROVE  /\ batch[b] \in BatchRow
             /\ work[b] \in [added : Nat, removed : Nat, spoiled : Nat]
             /\ paid[b] \in [count : Nat, done : Nat]
             /\ -work[b].removed <= batch[b].done /\ batch[b].done <= work[b].added
             /\ paid[b].done <= paid[b].count * work[b].added
             /\ batch[b].status # "ABSENT" => batch[b].of \in Labourer
             /\ q.due[b] \in Nat /\ q.due[b] <= work[b].added
  BY <1>1, <1>2 DEF IInv, TypeOK, PayableWithinWork, BatchesHaveWorkers, SessionInv
<1>4. ASSUME NEW b \in Batch
      PROVE  /\ work'[b] \in [added : Nat, removed : Nat, spoiled : Nat]
             /\ work[b].added <= work'[b].added /\ work[b].removed <= work'[b].removed
             /\ q.op = "submit" /\ b = q.batch =>
                   /\ work'[b].added = work[b].added + Clamped(q.out.done)
                   /\ work'[b].removed = work[b].removed + Clamped(-q.out.done)
  <2>1. work'[b] = IF q.op = "submit" /\ b = q.batch
                   THEN [ added   |-> work[b].added + Clamped(q.out.done),
                          removed |-> work[b].removed + Clamped(-q.out.done),
                          spoiled |-> work[b].spoiled + Clamped(q.out.bad) ]
                   ELSE work[b]
    BY DEF Commit
  <2>2. /\ Clamped(q.out.done) \in Nat /\ Clamped(-q.out.done) \in Nat
        /\ Clamped(q.out.bad) \in Nat
    BY <1>2, PartsOf
  <2> QED
    BY <1>3, <2>1, <2>2
<1>5. ASSUME NEW b \in Batch
      PROVE  /\ paid'[b] \in [count : Nat, done : Nat]
             /\ paid'[b].done <= paid'[b].count * work'[b].added
  <2>1. paid'[b] = IF q.due[b] > 0
                   THEN [count |-> paid[b].count + 1, done |-> paid[b].done + q.due[b]]
                   ELSE paid[b]
    BY DEF Commit
  <2>2. /\ paid[b].done <= paid[b].count * work'[b].added
        /\ paid[b].done + q.due[b] <= (paid[b].count + 1) * work'[b].added
    BY <1>3, <1>4, PaidWithinWork
  <2>3. CASE q.due[b] > 0
    BY <1>3, <2>1, <2>2, <2>3
  <2>4. CASE ~(q.due[b] > 0)
    BY <1>3, <2>1, <2>2, <2>4
  <2> QED
    BY <2>3, <2>4
<1>6. ASSUME NEW b \in Batch
      PROVE  /\ batch'[b] \in BatchRow
             /\ batch[b].status # "ABSENT" => batch'[b].status # "ABSENT"
             /\ batch'[b].status # "ABSENT" => batch'[b].of \in Labourer
             /\ -work'[b].removed <= batch'[b].done /\ batch'[b].done <= work'[b].added
  <2>1. batch'[b] = BatchAfter(q, b)
    BY DEF Commit
  <2>2. CASE b # q.batch
    <3>1. batch'[b] = batch[b]
      BY <2>1, <2>2 DEF BatchAfter
    <3>2. /\ batch[b].done \in Int /\ work[b].added \in Nat /\ work'[b].added \in Nat
          /\ work[b].removed \in Nat /\ work'[b].removed \in Nat
      BY <1>3, <1>4 DEF BatchRow
    <3>3. -work'[b].removed <= batch[b].done /\ batch[b].done <= work'[b].added
      BY <1>3, <1>4, <3>2
    <3> QED
      BY <1>3, <3>1, <3>3
  <2>3. CASE b = q.batch /\ q.op = "allocate"
    <3>1. batch'[b] = [ status |-> "ASSIGNED", of |-> q.who, allocated |-> q.qty,
                        done |-> 0, bad |-> 0 ]
      BY <2>1, <2>3 DEF BatchAfter
    <3> QED
      BY <1>1, <1>2, <1>4, <3>1 DEF BatchRow, BatchStatus
  <2>4. CASE b = q.batch /\ q.op # "allocate"
    <3>1. /\ q.op = "submit" /\ batch[b].status # "ABSENT"
          /\ -work[b].removed <= q.loaded.done /\ q.loaded.done <= work[b].added
      BY <1>1, <2>4, LabourAssumption DEF SessionInv
    <3> DEFINE st == IF StatusAfter(q) # q.loaded.status THEN StatusAfter(q) ELSE batch[b].status
               dn == IF q.out.done # 0 THEN DoneAfter(q) ELSE batch[b].done
               bd == IF q.out.bad # 0 THEN BadAfter(q) ELSE batch[b].bad
    <3>2. StatusAfter(q) \in {"SUBMITTED", "IN_PROGRESS"}
      BY DEF StatusAfter
    <3>3. st \in BatchStatus /\ st # "ABSENT"
      BY <1>3, <3>1, <3>2 DEF BatchRow, BatchStatus
    <3>4. DoneAfter(q) = q.loaded.done + q.out.done /\ BadAfter(q) = q.loaded.bad + q.out.bad
      BY DEF DoneAfter, BadAfter
    <3>5. dn \in Int /\ bd \in Int
      BY <1>2, <1>3, <3>4 DEF BatchRow
    <3>6. -work'[b].removed <= dn /\ dn <= work'[b].added
      <4>1. /\ work'[b].added = work[b].added + Clamped(q.out.done)
            /\ work'[b].removed = work[b].removed + Clamped(-q.out.done)
        BY <1>4, <2>4, <3>1
      <4>2. /\ Clamped(q.out.done) \in Nat /\ Clamped(-q.out.done) \in Nat
            /\ q.out.done <= Clamped(q.out.done) /\ -Clamped(-q.out.done) <= q.out.done
        BY <1>2, PartsOf
      <4>3. /\ q.out.done \in Int /\ q.loaded.done \in Int /\ batch[b].done \in Int
            /\ work[b].added \in Nat /\ work[b].removed \in Nat
        BY <1>2, <1>3 DEF BatchRow
      <4>4. dn = q.loaded.done + q.out.done \/ dn = batch[b].done
        BY <3>4
      <4>5. -work[b].removed <= batch[b].done /\ batch[b].done <= work[b].added
        BY <1>3
      <4> HIDE DEF dn
      <4> QED
        BY <3>1, <4>1, <4>2, <4>3, <4>4, <4>5
    <3>7. batch'[b] = [batch[b] EXCEPT !.status = st, !.done = dn, !.bad = bd]
      BY <2>1, <2>4 DEF BatchAfter
    <3> HIDE DEF st, dn, bd
    <3> QED
      BY <1>3, <3>1, <3>3, <3>5, <3>6, <3>7 DEF BatchRow
  <2> QED
    BY <2>2, <2>3, <2>4
<1>7. ASSUME NEW l \in Labourer
      PROVE  held'[l] \in [issued : Nat, received : Nat, reversed : Nat, spent : Int]
  <2>1. held[l] \in [issued : Nat, received : Nat, reversed : Nat, spent : Int]
    BY DEF IInv, TypeOK
  <2>2. /\ Issues(q) \in Nat /\ Spends(q) \in Nat
        /\ Clamped(q.qty) \in Nat /\ Clamped(-q.qty) \in Nat
    BY <1>2, ClampedIsNat, PartsOf DEF Issues, Spends
  <2>3. held'[l] = HeldAfter(q, l)
    BY DEF Commit
  <2> QED
    BY <1>2, <2>1, <2>2, <2>3 DEF HeldAfter
<1>8. TypeOK'
  <2>1. /\ batch' \in [Batch -> BatchRow]
        /\ work' \in [Batch -> [added : Nat, removed : Nat, spoiled : Nat]]
        /\ paid' \in [Batch -> [count : Nat, done : Nat]]
    BY <1>4, <1>5, <1>6 DEF Commit
  <2>2. held' \in [Labourer -> [issued : Nat, received : Nat, reversed : Nat, spent : Int]]
    BY <1>7 DEF Commit
  <2>3. moves' \in Nat
    BY DEF Commit, IInv, TypeOK
  <2>4. req' \in [Request -> Session]
    BY IdleSession DEF Commit, IInv, TypeOK
  <2> QED
    BY <2>1, <2>2, <2>3, <2>4 DEF TypeOK
<1>9. BatchesHaveWorkers' /\ PayableWithinWork'
  BY <1>5, <1>6 DEF BatchesHaveWorkers, PayableWithinWork
<1>10. ASSUME NEW p \in Request PROVE SessionInv(req[p])'
  <2>1. req'[p] = IF p = r THEN Idle ELSE req[p]
    BY DEF Commit, IInv, TypeOK
  <2>2. SessionInv(req[p]) /\ req[p] \in Session
    BY DEF IInv, TypeOK
  <2>3. CASE p = r
    BY <1>4, <2>1, <2>3, IdleSession DEF SessionInv, Idle, NoDues
  <2>4. CASE p # r
    <3>1. req'[p] = req[p]
      BY <2>1, <2>4
    <3>2. \A b \in Batch : req[p].due[b] <= work'[b].added
      BY <1>3, <1>4, <2>2 DEF SessionInv, Session
    <3>3. req[p].op = "submit" =>
            /\ batch'[req[p].batch].status # "ABSENT"
            /\ -work'[req[p].batch].removed <= req[p].loaded.done
            /\ req[p].loaded.done <= work'[req[p].batch].added
      BY <1>3, <1>4, <1>6, <2>2 DEF SessionInv, Session, BatchRow
    <3> QED
      BY <2>2, <3>1, <3>2, <3>3 DEF SessionInv
  <2> QED
    BY <2>3, <2>4
<1> QED
  BY <1>8, <1>9, <1>10 DEF IInv

LEMMA NextIInv == IInv /\ [Next]_vars => IInv'
<1> SUFFICES ASSUME IInv, [Next]_vars PROVE IInv'
  OBVIOUS
<1>1. ASSUME NEW r \in Request, NEW b \in Batch, NEW l \in Labourer, NEW n \in Quantity,
             BeginAllocate(r, b, l, n)
      PROVE  IInv'
  BY <1>1, BeginAllocateStep
<1>2. ASSUME NEW r \in Request, NEW l \in Labourer, NEW to \in Labourer, NEW n \in Quantity,
             BeginIssue(r, l, n) \/ BeginTransfer(r, l, to, n)
      PROVE  IInv'
  BY <1>2, BeginIssueStep, BeginTransferStep
<1>3. ASSUME NEW r \in Request, NEW b \in Batch, NEW out \in Work, BeginSubmit(r, b, out)
      PROVE  IInv'
  BY <1>3, BeginSubmitStep
<1>4. ASSUME NEW r \in Request, NEW l \in Labourer, BeginPay(r, l) PROVE IInv'
  BY <1>4, BeginPayStep
<1>5. ASSUME NEW r \in Request, FindItem(r) \/ ReadPlus(r) \/ ReadMinus(r) \/ ReadPaid(r)
      PROVE  IInv'
  BY <1>5, LaterReadStep
<1>6. ASSUME NEW r \in Request, Commit(r) PROVE IInv'
  BY <1>6, CommitStep
<1>7. ASSUME NEW r \in Request, Rollback(r) PROVE IInv'
  BY <1>7, DropStep DEF Rollback
<1>8. CASE UNCHANGED vars
  BY <1>8 DEF vars, IInv, TypeOK, BatchesHaveWorkers, PayableWithinWork, SessionInv
<1> QED
  BY <1>1, <1>2, <1>3, <1>4, <1>5, <1>6, <1>7, <1>8 DEF Next

THEOREM InductiveInvariant == Spec => []IInv
BY InitIInv, NextIInv, PTL DEF Spec

(* Every row and every session of the labour engine keeps its type.        *)
THEOREM TypeCorrect == Spec => []TypeOK
<1>1. IInv => TypeOK
  BY DEF IInv
<1> QED
  BY <1>1, InductiveInvariant, PTL

(* No interleaving of submissions and payments lets a batch claim, or a    *)
(* payment pay, more accepted pieces than were submitted.                  *)
THEOREM PaymentsWithinWork == Spec => []PayableWithinWork
<1>1. IInv => PayableWithinWork
  BY DEF IInv
<1> QED
  BY <1>1, InductiveInvariant, PTL

-----------------------------------------------------------------------------
(* One request at a time. The rows of a batch agree: the totals are the    *)
(* submissions, a SUBMITTED batch has had its allocation handed in, and a  *)
(* payment has paid all of it unless more was submitted afterwards.        *)
OneSession == \A p, r \in Request : req[p] # Idle /\ req[r] # Idle => p = r

BatchAgrees(b) ==
    /\ batch[b].done = work[b].added - work[b].removed /\ batch[b].bad <= work[b].spoiled
    /\ batch[b].status = "ABSENT" =>
          work[b].added = 0 /\ work[b].removed = 0 /\ paid[b].count = 0
    /\ batch[b].status = "SUBMITTED" => batch[b].allocated <= work[b].added + work[b].spoiled
    /\ paid[b].count <= 1
    /\ paid[b].count = 0 => paid[b].done = 0
    /\ paid[b].count = 1 =>
          /\ paid[b].done <= work[b].added
          /\ \/ batch[b].allocated < work[b].added + work[b].spoiled
             \/ /\ batch[b].allocated = work[b].added + work[b].spoiled
                /\ work[b].added - work[b].removed <= paid[b].done

(* What the open session has read is still so.                             *)
FreshDue(q, b) ==
    q.due[b] > 0 =>
        /\ q.op = "pay" /\ batch[b].status = "SUBMITTED" /\ q.due[b] = batch[b].done
        /\ q.pc = "commit" => paid[b].count = 0

FreshSession(q) ==
    /\ q.op = "allocate" => batch[q.batch].status = "ABSENT"
    /\ q.op = "submit" => q.loaded = batch[q.batch]
    /\ q.op = "pay" => q.pc \in {"ledger", "commit"}
    /\ q.op # "transfer" => q.to = None
    /\ q.op = "transfer" =>
          /\ q.to \in Labourer /\ q.pc \in {"plus", "minus", "commit"}
          /\ q.pc = "minus" => q.plus = Plus(q.who)
          /\ q.pc = "commit" => q.qty <= Balance(q.who)
    /\ \A b \in Batch : FreshDue(q, b)

FreshInv ==
    /\ \A b \in Batch : BatchAgrees(b)
    /\ CreditIsBacked
    /\ \A r \in Request : FreshSession(req[r])

AloneInv == ~overlapped => OneSession /\ FreshInv

LEMMA IdleIsFresh == FreshSession(Idle) /\ FreshSession(Idle)'
BY DEF FreshSession, FreshDue, Idle, NoDues

(* While the history variable is FALSE, no two sessions are open.          *)
LEMMA OneSessionNext == ASSUME MCNext, ~overlapped' PROVE OneSession' /\ ~overlapped
<1> DEFINE open == {r \in Request : req'[r] # Idle}
<1>1. ~overlapped /\ ~(Cardinality(open) > 1)
  BY DEF MCNext
<1>2. IsFiniteSet(open)
  BY FS_Subset, LabourAssumption
<1>3. ASSUME NEW p \in open, NEW r \in open PROVE p = r
  BY <1>1, <1>2, AtMostOne
<1> QED
  BY <1>1, <1>3 DEF OneSession, Idle, Nothing, NoDues, NoRow

(* A step that writes no row, and leaves its session fresh.                *)
LEMMA FreshRead ==
  ASSUME IInv, FreshInv, NEW r \in Request, NEW q, FreshSession(q), Becomes(r, q)
  PROVE  FreshInv'
<1>1. \A b \in Batch : BatchAgrees(b)'
  BY DEF FreshInv, BatchAgrees, Becomes, rows
<1>2. CreditIsBacked'
  BY DEF FreshInv, CreditIsBacked, Balance, Plus, Becomes, rows
<1>3. ASSUME NEW p \in Request PROVE FreshSession(req[p])'
  <2>1. req'[p] = IF p = r THEN q ELSE req[p]
    BY DEF IInv, TypeOK, Becomes
  <2>2. FreshSession(req'[p])
    BY <2>1 DEF FreshInv
  <2> QED
    BY <2>2 DEF FreshSession, FreshDue, Balance, Plus, Becomes, rows
<1> QED
  BY <1>1, <1>2, <1>3 DEF FreshInv

(* The first reads.                                                        *)
LEMMA FreshBegins ==
  ASSUME IInv, FreshInv, NEW r \in Request
  PROVE  /\ \A b \in Batch, l \in Labourer, n \in Quantity : BeginAllocate(r, b, l, n) => FreshInv'
         /\ \A l, to \in Labourer, n \in Quantity :
               BeginIssue(r, l, n) \/ BeginTransfer(r, l, to, n) => FreshInv'
         /\ \A b \in Batch, out \in Work : BeginSubmit(r, b, out) => FreshInv'
         /\ \A l \in Labourer : BeginPay(r, l) => FreshInv'
<1>1. ASSUME NEW b \in Batch, NEW l \in Labourer, NEW n \in Quantity, BeginAllocate(r, b, l, n)
      PROVE  FreshInv'
  <2>1. FreshSession([Idle EXCEPT !.op = "allocate", !.pc = "commit", !.batch = b, !.who = l,
                                  !.qty = n])
    BY <1>1 DEF BeginAllocate, FreshSession, FreshDue, Idle, NoDues
  <2> QED
    BY <1>1, <2>1, FreshRead DEF BeginAllocate, Opens
<1>2. ASSUME NEW l \in Labourer, NEW n \in Quantity, BeginIssue(r, l, n) PROVE FreshInv'
  <2>1. FreshSession([Idle EXCEPT !.op = "issue", !.pc = "plus", !.who = l, !.qty = n])
    BY DEF FreshSession, FreshDue, Idle, NoDues
  <2> QED
    BY <1>2, <2>1, FreshRead DEF BeginIssue, Opens
<1>3. ASSUME NEW l \in Labourer, NEW to \in Labourer, NEW n \in Quantity,
             BeginTransfer(r, l, to, n)
      PROVE  FreshInv'
  <2>1. FreshSession([Idle EXCEPT !.op = "transfer", !.pc = "plus", !.who = l, !.to = to,
                                  !.qty = n])
    BY DEF FreshSession, FreshDue, Idle, NoDues
  <2> QED
    BY <1>3, <2>1, FreshRead DEF BeginTransfer, Opens
<1>4. ASSUME NEW b \in Batch, NEW out \in Work, BeginSubmit(r, b, out) PROVE FreshInv'
  <2>1. FreshSession([Idle EXCEPT !.op = "submit", !.pc = "item", !.batch = b,
                                  !.who = batch[b].of, !.out = out, !.loaded = batch[b]])
    BY DEF FreshSession, FreshDue, Idle, NoDues
  <2> QED
    BY <1>4, <2>1, FreshRead DEF BeginSubmit, Opens
<1>5. ASSUME NEW l \in Labourer, BeginPay(r, l) PROVE FreshInv'
  <2> DEFINE due == [b \in Batch |->
                IF batch[b].of = l /\ batch[b].status = "SUBMITTED" THEN Clamped(batch[b].done)
                ELSE 0]
             q == [Idle EXCEPT !.op = "pay", !.pc = "ledger", !.who = l, !.due = due]
  <2>1. \A b \in Batch : due[b] > 0 => batch[b].status = "SUBMITTED" /\ due[b] = batch[b].done
    BY RowsRead DEF Clamped
  <2>2. Becomes(r, q)
    BY <1>5 DEF BeginPay, Opens
  <2> HIDE DEF due
  <2>3. FreshSession(q)
    BY <2>1 DEF FreshSession, FreshDue, Idle
  <2> QED
    BY <2>2, <2>3, FreshRead
<1> QED
  BY <1>1, <1>2, <1>3, <1>4, <1>5

(* The further reads: what they read is what the rows say now.             *)
LEMMA FreshLaterReads ==
  ASSUME IInv, FreshInv, NEW r \in Request,
         FindItem(r) \/ ReadPlus(r) \/ ReadMinus(r) \/ ReadPaid(r)
  PROVE  FreshInv'
<1>1. req[r] \in Session /\ SessionInv(req[r]) /\ FreshSession(req[r])
  BY DEF IInv, TypeOK, FreshInv
<1>2. CASE FindItem(r)
  <2> DEFINE q == IF held[req[r].who].issued > 0
                  THEN [req[r] EXCEPT !.pc = "commit", !.bal = 1]
                  ELSE [req[r] EXCEPT !.pc = "plus"]
  <2>1. req[r].op \notin {"pay", "transfer"}
    BY <1>1, <1>2 DEF FindItem, FreshSession
  <2>2. /\ q.op = req[r].op /\ q.batch = req[r].batch /\ q.loaded = req[r].loaded
        /\ q.to = req[r].to /\ q.due = req[r].due
    BY <1>1 DEF Session
  <2>3. FreshSession(q)
    BY <1>1, <2>1, <2>2 DEF FreshSession, FreshDue
  <2> QED
    BY <1>2, <2>3, FreshRead DEF FindItem
<1>3. CASE ReadPlus(r)
  <2> DEFINE q == [req[r] EXCEPT !.pc = "minus", !.plus = Plus(req[r].who)]
  <2>1. req[r].op # "pay" /\ q.pc = "minus" /\ q.plus = Plus(q.who)
    BY <1>1, <1>3 DEF ReadPlus, FreshSession, Session
  <2>2. /\ q.op = req[r].op /\ q.batch = req[r].batch /\ q.loaded = req[r].loaded
        /\ q.to = req[r].to /\ q.due = req[r].due
    BY <1>1 DEF Session
  <2>3. FreshSession(q)
    BY <1>1, <2>1, <2>2 DEF FreshSession, FreshDue
  <2> QED
    BY <1>3, <2>3, FreshRead DEF ReadPlus
<1>4. CASE ReadMinus(r)
  <2> DEFINE bal == Clamped(req[r].plus - held[req[r].who].spent)
             q == [req[r] EXCEPT !.pc = "commit", !.plus = 0, !.bal = bal]
  <2>1. Becomes(r, Idle) \/ (Becomes(r, q) /\ (req[r].op = "transfer" => ~(bal < req[r].qty)))
    BY <1>4 DEF ReadMinus
  <2>2. /\ q.op = req[r].op /\ q.batch = req[r].batch /\ q.loaded = req[r].loaded
        /\ q.to = req[r].to /\ q.due = req[r].due /\ q.who = req[r].who
        /\ q.qty = req[r].qty /\ q.pc = "commit"
    BY <1>1 DEF Session
  <2>3. req[r].op # "pay" /\ (req[r].op = "transfer" => bal = Balance(req[r].who))
    BY <1>1, <1>4 DEF ReadMinus, FreshSession, Balance
  <2>4. bal \in Nat /\ req[r].qty \in Int
    <3>1. req[r].who \in Labourer
      BY <1>1, <1>4 DEF SessionInv, ReadMinus
    <3>2. req[r].plus \in Int /\ held[req[r].who].spent \in Int
      BY <1>1, <3>1 DEF Session, IInv, TypeOK
    <3> QED
      BY <1>1, <3>2, ClampedIsNat DEF Session
  <2> HIDE DEF bal
  <2>5. ASSUME req[r].op = "transfer" => ~(bal < req[r].qty) PROVE FreshSession(q)
    <3>1. req[r].op = "transfer" => q.qty <= Balance(q.who)
      BY <2>2, <2>3, <2>4, <2>5
    <3> QED
      BY <1>1, <2>2, <2>3, <3>1 DEF FreshSession, FreshDue
  <2> HIDE DEF q
  <2> QED
    BY <2>1, <2>5, IdleIsFresh, FreshRead
<1>5. CASE ReadPaid(r)
  <2> DEFINE due == [b \in Batch |-> IF paid[b].count > 0 THEN 0 ELSE req[r].due[b]]
             q == [req[r] EXCEPT !.pc = "commit", !.due = due]
  <2>1. \A b \in Batch : due[b] > 0 => due[b] = req[r].due[b] /\ paid[b].count = 0
    BY DEF IInv, TypeOK
  <2>2. Becomes(r, Idle) \/ Becomes(r, q)
    BY <1>5 DEF ReadPaid
  <2>3. req[r].op # "transfer"
    BY <1>1, <1>5 DEF ReadPaid, FreshSession
  <2> HIDE DEF due
  <2>4. /\ q.op = req[r].op /\ q.batch = req[r].batch /\ q.loaded = req[r].loaded
        /\ q.to = req[r].to /\ q.due = due /\ q.pc = "commit"
    BY <1>1 DEF Session
  <2>5. FreshSession(q)
    BY <1>1, <2>1, <2>3, <2>4 DEF FreshSession, FreshDue
  <2> HIDE DEF q
  <2> QED
    BY <2>2, <2>5, IdleIsFresh, FreshRead
<1> QED
  BY <1>2, <1>3, <1>4, <1>5

(* A commit keeps the rows of a batch in agreement.                        *)
LEMMA CommitAgrees ==
  ASSUME IInv, FreshInv, NEW r \in Request, Commit(r), NEW b \in Batch
  PROVE  BatchAgrees(b)'
<1> DEFINE q == req[r]
<1>1. q \in Session /\ SessionInv(q) /\ FreshSession(q) /\ q.pc = "commit"
  BY DEF IInv, TypeOK, FreshInv, Commit
<1>2. /\ BatchAgrees(b) /\ batch[b] \in BatchRow
      /\ work[b] \in [added : Nat, removed : Nat, spoiled : Nat]
      /\ paid[b] \in [count : Nat, done : Nat]
      /\ batch[b].allocated \in Int /\ batch[b].done \in Int /\ batch[b].bad \in Int
  BY DEF IInv, TypeOK, FreshInv, BatchRow
<1>3. /\ q.out.done \in Int /\ q.out.bad \in Int /\ q.qty \in Int /\ q.due[b] \in Nat
  BY <1>1 DEF Session
<1>4. batch'[b] = BatchAfter(q, b)
  BY DEF Commit
<1>5. work'[b] = IF q.op = "submit" /\ b = q.batch
                 THEN [ added   |-> work[b].added + Clamped(q.out.done),
                        removed |-> work[b].removed + Clamped(-q.out.done),
                        spoiled |-> work[b].spoiled + Clamped(q.out.bad) ]
                 ELSE work[b]
  BY DEF Commit
<1>6. paid'[b] = IF q.due[b] > 0
                 THEN [count |-> paid[b].count + 1, done |-> paid[b].done + q.due[b]]
                 ELSE paid[b]
  BY DEF Commit
<1>7. FreshDue(q, b)
  BY <1>1 DEF FreshSession
<1>8. CASE q.op = "allocate" /\ b = q.batch
  <2>1. batch'[b] = [status |-> "ASSIGNED", of |-> q.who, allocated |-> q.qty, done |-> 0, bad |-> 0]
    BY <1>4, <1>8 DEF BatchAfter
  <2>2. batch[b].status = "ABSENT" /\ work'[b] = work[b] /\ paid'[b] = paid[b]
    BY <1>1, <1>3, <1>5, <1>6, <1>7, <1>8 DEF FreshSession, FreshDue
  <2> QED
    BY <1>2, <1>3, <2>1, <2>2 DEF BatchAgrees
<1>9. CASE q.op = "submit" /\ b = q.batch
  <2> DEFINE c == Clamped(q.out.done)
             d == Clamped(-q.out.done)
             e == Clamped(q.out.bad)
  <2>1. /\ work'[b].added = work[b].added + c /\ work'[b].removed = work[b].removed + d
        /\ work'[b].spoiled = work[b].spoiled + e
    BY <1>5, <1>9
  <2>2. /\ c \in Nat /\ d \in Nat /\ e \in Nat
        /\ q.out.done = c - d /\ q.out.bad <= e
    BY <1>3, PartsOf
  <2>3. paid'[b] = paid[b] /\ batch[b].status # "ABSENT" /\ q.loaded = batch[b]
    BY <1>1, <1>3, <1>6, <1>7, <1>9 DEF FreshSession, FreshDue, SessionInv
  <2>4. /\ DoneAfter(q) = batch[b].done + q.out.done /\ BadAfter(q) = batch[b].bad + q.out.bad
        /\ StatusAfter(q) = IF DoneAfter(q) + BadAfter(q) >= batch[b].allocated
                            THEN "SUBMITTED" ELSE "IN_PROGRESS"
    BY <2>3 DEF DoneAfter, BadAfter, StatusAfter
  <2> DEFINE st == IF StatusAfter(q) # q.loaded.status THEN StatusAfter(q) ELSE batch[b].status
             dn == IF q.out.done # 0 THEN DoneAfter(q) ELSE batch[b].done
             bd == IF q.out.bad # 0 THEN BadAfter(q) ELSE batch[b].bad
  <2>5. batch'[b] = [batch[b] EXCEPT !.status = st, !.done = dn, !.bad = bd]
    BY <1>4, <1>9 DEF BatchAfter
  <2>6. st = StatusAfter(q) /\ dn = DoneAfter(q) /\ bd = BadAfter(q)
    BY <1>2, <1>3, <2>3, <2>4
  <2> HIDE DEF st, dn, bd, c, d, e
  <2>7. /\ batch'[b].status = StatusAfter(q) /\ batch'[b].done = DoneAfter(q)
        /\ batch'[b].bad = BadAfter(q) /\ batch'[b].allocated = batch[b].allocated
    BY <1>2, <2>5, <2>6 DEF BatchRow
  <2> QED
    BY <1>2, <1>3, <2>1, <2>2, <2>3, <2>4, <2>7 DEF BatchAgrees
<1>10. CASE b # q.batch \/ q.op \notin {"allocate", "submit"}
  <2>1. batch'[b] = batch[b] /\ work'[b] = work[b]
    BY <1>1, <1>4, <1>5, <1>10, LabourAssumption DEF BatchAfter, SessionInv
  <2>2. CASE q.due[b] > 0
    <3>1. /\ batch[b].status = "SUBMITTED" /\ q.due[b] = batch[b].done /\ paid[b].count = 0
      BY <1>1, <1>7, <2>2 DEF FreshDue
    <3>2. paid'[b].count = 1 /\ paid'[b].done = batch[b].done
      BY <1>2, <1>6, <2>2, <3>1 DEF BatchAgrees
    <3> QED
      BY <1>2, <2>1, <3>1, <3>2 DEF BatchAgrees
  <2>3. CASE ~(q.due[b] > 0)
    BY <1>2, <1>6, <2>1, <2>3 DEF BatchAgrees
  <2> QED
    BY <2>2, <2>3
<1> QED
  BY <1>8, <1>9, <1>10

(* What a worker's balance is cut from, and how it moves with it.          *)
Net(l) == Plus(l) - held[l].spent

LEMMA ClampMoves ==
  ASSUME NEW n \in Int, NEW k \in Int
  PROVE  /\ Clamped(n + k) <= Clamped(n) + Clamped(k)
         /\ k \in Nat => Clamped(n - k) <= Clamped(n)
         /\ k <= Clamped(n) => Clamped(n - k) <= Clamped(n) - k
BY DEF Clamped

LEMMA BalanceIsNat ==
  ASSUME IInv, NEW l \in Labourer
  PROVE  /\ Net(l) \in Int /\ Balance(l) = Clamped(Net(l)) /\ Balance(l) \in Nat
         /\ held[l].issued + held[l].reversed \in Nat
<1>1. held[l] \in [issued : Nat, received : Nat, reversed : Nat, spent : Int]
  BY DEF IInv, TypeOK
<1>2. Net(l) \in Int /\ Balance(l) = Clamped(Net(l))
  BY <1>1 DEF Net, Plus, Balance
<1>3. held[l].issued + held[l].reversed \in Nat
  BY <1>1
<1> QED
  BY <1>2, <1>3, ClampedIsNat

(* What a commit does to the material of a worker.                         *)
LEMMA CommitMoves ==
  ASSUME IInv, NEW r \in Request, Commit(r), NEW l \in Labourer,
         req[r].op # "transfer" => req[r].to = None
  PROVE  LET q == req[r]
             backed == held[l].issued + held[l].reversed
             after == held'[l].issued + held'[l].reversed
         IN
         /\ q.qty \in Int /\ Issues(q) \in Nat /\ Spends(q) \in Nat
         /\ q.op = "issue" =>
               /\ after = backed + (IF l = q.who THEN Issues(q) ELSE 0)
               /\ Net(l)' = Net(l) + (IF l = q.who THEN Issues(q) ELSE 0)
         /\ q.op = "transfer" =>
               /\ after = backed + (IF l = q.to THEN Clamped(-q.qty) ELSE 0)
               /\ Net(l)' = Net(l) + (IF l = q.to THEN q.qty ELSE 0)
                                  - (IF l = q.who THEN q.qty ELSE 0)
         /\ q.op \notin {"issue", "transfer"} =>
               /\ after = backed
               /\ Net(l)' = Net(l) \/ Net(l)' = Net(l) - Spends(q)
<1> DEFINE q == req[r]
           c == Clamped(q.qty)
           d == Clamped(-q.qty)
<1>1. /\ q \in Session /\ q.qty \in Int /\ q.bal \in Nat
      /\ q.out \in [done : Int, bad : Int, back : Int]
  BY DEF IInv, TypeOK, Session
<1>2. Issues(q) \in Nat /\ Spends(q) \in Nat
  BY <1>1, ClampedIsNat DEF Issues, Spends
<1>3. c \in Nat /\ d \in Nat /\ q.qty = c - d
  BY <1>1, PartsOf
<1>4. /\ held[l].issued \in Nat /\ held[l].received \in Nat /\ held[l].reversed \in Nat
      /\ held[l].spent \in Int
  BY DEF IInv, TypeOK
<1>5. held'[l] = HeldAfter(q, l)
  BY DEF Commit
<1>6. /\ held'[l].issued = held[l].issued + (IF q.op = "issue" /\ l = q.who THEN Issues(q) ELSE 0)
      /\ held'[l].received = held[l].received + (IF l = q.to THEN c ELSE 0)
      /\ held'[l].reversed = held[l].reversed + (IF l = q.to THEN d ELSE 0)
      /\ held'[l].spent = held[l].spent + (IF q.op = "transfer" /\ l = q.who THEN q.qty ELSE 0)
                                        + (IF q.op = "submit" /\ l = q.who THEN Spends(q) ELSE 0)
  BY <1>5 DEF HeldAfter
<1>7. Net(l)' = (held'[l].issued + held'[l].received - held'[l].reversed) - held'[l].spent
  BY DEF Net, Plus
<1>8. Net(l) = (held[l].issued + held[l].received - held[l].reversed) - held[l].spent
  BY DEF Net, Plus
<1>9. l # None
  BY LabourAssumption
<1> HIDE DEF c, d
<1>10. CASE q.op = "issue"
  BY <1>1, <1>2, <1>3, <1>4, <1>6, <1>7, <1>8, <1>9, <1>10
<1>11. CASE q.op = "transfer"
  <2>1. /\ held'[l].issued = held[l].issued
        /\ held'[l].spent = held[l].spent + (IF l = q.who THEN q.qty ELSE 0)
    BY <1>1, <1>4, <1>6, <1>11
  <2> DEFINE x == IF l = q.to THEN c ELSE 0
             y == IF l = q.to THEN d ELSE 0
             z == IF l = q.who THEN q.qty ELSE 0
  <2>2. /\ x \in Int /\ y \in Int /\ z \in Int
        /\ x - y = IF l = q.to THEN q.qty ELSE 0
    BY <1>1, <1>3
  <2>3. /\ held'[l].received = held[l].received + x /\ held'[l].reversed = held[l].reversed + y
        /\ held'[l].spent = held[l].spent + z
    BY <1>6, <2>1
  <2>4. y = (IF l = q.to THEN Clamped(-q.qty) ELSE 0) /\ z = (IF l = q.who THEN q.qty ELSE 0)
    BY DEF d
  <2> HIDE DEF x, y, z
  <2>5. /\ held'[l].issued + held'[l].reversed = held[l].issued + held[l].reversed + y
        /\ Net(l)' = Net(l) + (x - y) - z
    BY <1>4, <1>7, <1>8, <2>1, <2>2, <2>3
  <2> QED
    BY <1>1, <1>2, <1>11, <2>2, <2>4, <2>5
<1>12. CASE q.op \notin {"issue", "transfer"}
  BY <1>1, <1>2, <1>3, <1>4, <1>6, <1>7, <1>8, <1>9, <1>12
<1> QED
  BY <1>10, <1>11, <1>12

(* The credit C stays backed by J when it is at most the credit B, with d  *)
(* more for one worker and e more for another, and when what backs it      *)
(* grows as much.                                                          *)
LEMMA StaysBacked ==
  ASSUME NEW B \in [Labourer -> Int], NEW C \in [Labourer -> Int],
         NEW D \in [Labourer -> Int], NEW E \in [Labourer -> Int],
         NEW I \in [Labourer -> Int], NEW J \in [Labourer -> Int],
         NEW p \in Labourer, NEW t \in Labourer,
         NEW d \in Int, NEW e \in Int, NEW k \in Int, d + e <= k,
         AddsAt(Labourer, B, D, p, d), AddsAt(Labourer, D, E, t, e),
         AddsAt(Labourer, I, J, t, k),
         \A l \in Labourer : C[l] <= E[l],
         SumFunction(B) <= SumFunction(I)
  PROVE  SumFunction(C) <= SumFunction(J)
<1>1. SumFunction(B) \in Int /\ SumFunction(D) = SumFunction(B) + d
  BY SumAdds, LabourAssumption
<1>2. SumFunction(E) = SumFunction(D) + e
  BY SumAdds, LabourAssumption
<1>3. SumFunction(I) \in Int /\ SumFunction(J) = SumFunction(I) + k
  BY SumAdds, LabourAssumption
<1>4. SumFunction(C) <= SumFunction(E) /\ SumFunction(C) \in Int
  BY SumAtMost, SumTyped, LabourAssumption
<1> QED
  BY <1>1, <1>2, <1>3, <1>4

(* Material issued adds to both sums; a transfer takes from one balance    *)
(* what it gives to another, and one of a negative quantity is counted on  *)
(* the other side; every other commit can only take.                       *)
LEMMA CommitBacked ==
  ASSUME IInv, FreshInv, NEW r \in Request, Commit(r), IInv'
  PROVE  CreditIsBacked'
<1> DEFINE q == req[r]
           B == [l \in Labourer |-> Balance(l)]
           I == [l \in Labourer |-> held[l].issued + held[l].reversed]
           C == [l \in Labourer |-> Balance(l)']
           J == [l \in Labourer |-> held'[l].issued + held'[l].reversed]
<1>1. q \in Session /\ SessionInv(q) /\ FreshSession(q) /\ q.pc = "commit" /\ q.who \in Labourer
  BY DEF IInv, TypeOK, FreshInv, Commit, SessionInv
<1>2. /\ B \in [Labourer -> Int] /\ I \in [Labourer -> Int]
      /\ C \in [Labourer -> Int] /\ J \in [Labourer -> Int]
  <2>1. \A l \in Labourer : Balance(l) \in Int /\ held[l].issued + held[l].reversed \in Int
    BY BalanceIsNat
  <2>2. \A l \in Labourer : Balance(l)' \in Int /\ held'[l].issued + held'[l].reversed \in Int
    <3>1. ASSUME NEW l \in Labourer
          PROVE  held'[l] \in [issued : Nat, received : Nat, reversed : Nat, spent : Int]
      BY DEF IInv, TypeOK
    <3>2. ASSUME NEW l \in Labourer PROVE Balance(l)' \in Nat
      <4> DEFINE net == (held'[l].issued + held'[l].received - held'[l].reversed) - held'[l].spent
      <4>1. Balance(l)' = Clamped(net)
        BY DEF Balance, Plus, Clamped
      <4>2. net \in Int
        BY <3>1
      <4> HIDE DEF net
      <4> QED
        BY <4>1, <4>2, ClampedIsNat
    <3> QED
      BY <3>1, <3>2
  <2> QED
    BY <2>1, <2>2
<1>3. SumFunction(B) <= SumFunction(I)
  BY DEF FreshInv, CreditIsBacked
<1>4. SUFFICES SumFunction(C) <= SumFunction(J)
  BY DEF CreditIsBacked
<1>5. \A l \in Labourer : /\ B[l] = Clamped(Net(l)) /\ B[l] \in Nat /\ Net(l) \in Int
                          /\ C[l] = Clamped(Net(l)')
  <2>1. \A l \in Labourer : B[l] = Clamped(Net(l)) /\ B[l] \in Nat /\ Net(l) \in Int
    BY BalanceIsNat
  <2>2. \A l \in Labourer : Balance(l)' = Clamped(Net(l)')
    BY DEF Balance, Net, Clamped, Plus
  <2> QED
    BY <2>1, <2>2
<1>6. q.op # "transfer" => q.to = None
  BY <1>1 DEF FreshSession
<1>7. CASE q.op = "issue"
  <2> DEFINE n == Issues(q)
             D == [l \in Labourer |-> IF l = q.who THEN B[l] + n ELSE B[l]]
             E == [l \in Labourer |-> IF l = q.who THEN D[l] + 0 ELSE D[l]]
  <2>1. n \in Nat /\ n + 0 <= n
    BY <1>1, <1>6, CommitMoves
  <2>2. /\ D \in [Labourer -> Int] /\ E \in [Labourer -> Int]
        /\ AddsAt(Labourer, B, D, q.who, n) /\ AddsAt(Labourer, D, E, q.who, 0)
    <3> HIDE DEF B, n
    <3> QED
      BY <1>2, <2>1 DEF AddsAt
  <2>3. ASSUME NEW l \in Labourer PROVE C[l] <= E[l]
    <3>1. Net(l)' = Net(l) + (IF l = q.who THEN n ELSE 0)
      BY <1>6, <1>7, CommitMoves
    <3>2. B[l] = Clamped(Net(l)) /\ C[l] = Clamped(Net(l)') /\ B[l] \in Nat /\ Net(l) \in Int
      BY <1>5
    <3>3. Clamped(Net(l) + n) <= B[l] + n /\ Net(l) + 0 = Net(l)
      <4>1. Clamped(Net(l) + n) <= Clamped(Net(l)) + Clamped(n) /\ Clamped(n) = n
        <5> HIDE DEF n
        <5> QED
          BY <2>1, <3>2, ClampMoves DEF Clamped
      <4> HIDE DEF B, n
      <4> QED
        BY <3>2, <4>1
    <3>4. E[l] = IF l = q.who THEN B[l] + n ELSE B[l]
      <4> HIDE DEF B, n
      <4> QED
        BY <2>1, <3>2
    <3> HIDE DEF B, C, D, E, n
    <3> QED
      BY <3>1, <3>2, <3>3, <3>4
  <2>4. AddsAt(Labourer, I, J, q.who, n)
    <3>1. ASSUME NEW l \in Labourer PROVE J[l] = I[l] + (IF l = q.who THEN n ELSE 0)
      BY <1>6, <1>7, CommitMoves
    <3> HIDE DEF I, J, n
    <3> QED
      BY <1>2, <3>1 DEF AddsAt
  <2> DEFINE p == q.who
  <2>5. p \in Labourer /\ n \in Int /\ 0 \in Int
    BY <1>1, <2>1
  <2> HIDE DEF B, C, D, E, I, J, n, p
  <2>6. /\ AddsAt(Labourer, B, D, p, n) /\ AddsAt(Labourer, D, E, p, 0)
        /\ AddsAt(Labourer, I, J, p, n)
    BY <2>2, <2>4 DEF p
  <2> HIDE DEF q
  <2> QED
    BY <1>2, <1>3, <2>1, <2>2, <2>3, <2>5, <2>6, StaysBacked
<1>8. CASE q.op = "transfer"
  <2> DEFINE n == q.qty
             c == Clamped(n)
             k == Clamped(-n)
             D == [l \in Labourer |-> IF l = q.who THEN B[l] + -n ELSE B[l]]
             E == [l \in Labourer |-> IF l = q.to THEN D[l] + c ELSE D[l]]
  <2>1. n \in Int /\ q.to \in Labourer /\ n <= B[q.who]
    BY <1>1, <1>8 DEF FreshSession, Session
  <2>2. c \in Nat /\ k \in Nat /\ n = c - k /\ n <= c
    BY <2>1, PartsOf
  <2>3. -n \in Int /\ -n + c <= k
    <3> HIDE DEF c, k
    <3> QED
      BY <2>1, <2>2
  <2>4. /\ D \in [Labourer -> Int] /\ E \in [Labourer -> Int]
        /\ AddsAt(Labourer, B, D, q.who, -n) /\ AddsAt(Labourer, D, E, q.to, c)
    <3> HIDE DEF B, c
    <3> QED
      BY <1>2, <2>1, <2>2 DEF AddsAt
  <2>5. ASSUME NEW l \in Labourer PROVE C[l] <= E[l]
    <3>1. Net(l)' = Net(l) + (IF l = q.to THEN n ELSE 0) - (IF l = q.who THEN n ELSE 0)
      BY <1>6, <1>8, CommitMoves
    <3>2. E[l] = B[l] - (IF l = q.who THEN n ELSE 0) + (IF l = q.to THEN c ELSE 0)
      <4> HIDE DEF B, c
      <4> QED
        BY <1>2, <2>1, <2>2
    <3>3. /\ B[l] = Clamped(Net(l)) /\ C[l] = Clamped(Net(l)') /\ B[l] \in Nat
          /\ Net(l) \in Int
      BY <1>5
    <3>4. l = q.who => n <= B[l]
      BY <2>1
    <3>5. /\ Clamped(Net(l) + n) <= B[l] + c
          /\ n <= B[l] => Clamped(Net(l) - n) <= B[l] - n
      <4> HIDE DEF B
      <4> QED
        BY <2>1, <3>3, ClampMoves
    <3>6. /\ Net(l) + n - n = Net(l) /\ Net(l) + n - 0 = Net(l) + n
          /\ Net(l) + 0 - n = Net(l) - n /\ Net(l) + 0 - 0 = Net(l)
      BY <2>1, <3>3
    <3> HIDE DEF B, C, D, E, c, k, n
    <3> QED
      BY <2>1, <2>2, <3>1, <3>2, <3>3, <3>4, <3>5, <3>6
  <2>6. AddsAt(Labourer, I, J, q.to, k)
    <3>1. ASSUME NEW l \in Labourer PROVE J[l] = I[l] + (IF l = q.to THEN k ELSE 0)
      BY <1>6, <1>8, CommitMoves
    <3> HIDE DEF I, J, k
    <3> QED
      BY <1>2, <3>1 DEF AddsAt
  <2> DEFINE d == -n
             p == q.who
             t == q.to
  <2>7. p \in Labourer /\ t \in Labourer /\ d \in Int /\ c \in Int /\ k \in Int /\ d + c <= k
    BY <1>1, <2>1, <2>2, <2>3
  <2> HIDE DEF B, C, D, E, I, J, c, d, k, p, t
  <2>8. /\ AddsAt(Labourer, B, D, p, d) /\ AddsAt(Labourer, D, E, t, c)
        /\ AddsAt(Labourer, I, J, t, k)
    BY <2>4, <2>6 DEF d, p, t
  <2> HIDE DEF q
  <2> QED
    BY <1>2, <1>3, <2>4, <2>5, <2>7, <2>8, StaysBacked
<1>9. CASE q.op \notin {"issue", "transfer"}
  <2>1. J = I
    BY <1>6, <1>9, CommitMoves
  <2>2. ASSUME NEW l \in Labourer PROVE C[l] <= B[l]
    <3>1. Spends(q) \in Nat /\ (Net(l)' = Net(l) \/ Net(l)' = Net(l) - Spends(q))
      BY <1>6, <1>9, CommitMoves
    <3>2. /\ B[l] = Clamped(Net(l)) /\ C[l] = Clamped(Net(l)') /\ B[l] \in Nat
          /\ Net(l) \in Int
      BY <1>5
    <3>3. CASE Net(l)' = Net(l)
      BY <3>2, <3>3
    <3>4. CASE Net(l)' = Net(l) - Spends(q)
      <4>1. Clamped(Net(l) - Spends(q)) <= Clamped(Net(l))
        BY <3>1, <3>2, ClampMoves
      <4> HIDE DEF B, C
      <4> QED
        BY <3>2, <3>4, <4>1
    <3> QED
      BY <3>1, <3>3, <3>4
  <2> HIDE DEF B, C, I, J
  <2>3. /\ SumFunction(C) <= SumFunction(B) /\ SumFunction(C) \in Int
        /\ SumFunction(B) \in Int /\ SumFunction(I) \in Int
    BY <1>2, <2>2, SumAtMost, SumTyped, LabourAssumption
  <2> QED
    BY <1>3, <2>1, <2>3
<1> QED
  BY <1>7, <1>8, <1>9

LEMMA CommitFresh ==
  ASSUME IInv, IInv', OneSession, FreshInv, NEW r \in Request, Commit(r)
  PROVE  FreshInv'
<1>1. \A p \in Request : req'[p] = Idle
  <2>1. req[r] # Idle
    BY IdleSession DEF Commit
  <2>2. ASSUME NEW p \in Request, p # r PROVE req[p] = Idle
    BY <2>1, <2>2 DEF OneSession
  <2> QED
    BY <2>2 DEF Commit, IInv, TypeOK
<1>2. ASSUME NEW p \in Request PROVE FreshSession(req[p])'
  BY <1>1, IdleIsFresh DEF FreshSession, FreshDue
<1> QED
  BY <1>2, CommitAgrees, CommitBacked DEF FreshInv

LEMMA InitAlone == MCInit => AloneInv
<1> SUFFICES ASSUME MCInit PROVE AloneInv
  OBVIOUS
<1>1. OneSession /\ \A b \in Batch : BatchAgrees(b)
  BY DEF MCInit, Init, OneSession, BatchAgrees, NoRow
<1>2. CreditIsBacked
  <2>1. [l \in Labourer |-> Balance(l)] = [l \in Labourer |-> 0]
    BY DEF MCInit, Init, Balance, Plus, Clamped
  <2>2. [l \in Labourer |-> held[l].issued + held[l].reversed] = [l \in Labourer |-> 0]
    BY DEF MCInit, Init
  <2> QED
    BY <2>1, <2>2, SumZero, LabourAssumption DEF CreditIsBacked
<1>3. \A r \in Request : FreshSession(req[r])
  BY IdleIsFresh DEF MCInit, Init
<1> QED
  BY <1>1, <1>2, <1>3 DEF AloneInv, FreshInv

LEMMA NextFresh == ASSUME IInv, IInv', OneSession, FreshInv, Next PROVE FreshInv'
<1>1. ASSUME NEW r \in Request, NEW b \in Batch, NEW l \in Labourer, NEW n \in Quantity,
             BeginAllocate(r, b, l, n)
      PROVE  FreshInv'
  BY <1>1, FreshBegins
<1>2. ASSUME NEW r \in Request, NEW l \in Labourer, NEW to \in Labourer, NEW n \in Quantity,
             BeginIssue(r, l, n) \/ BeginTransfer(r, l, to, n)
      PROVE  FreshInv'
  BY <1>2, FreshBegins
<1>3. ASSUME NEW r \in Request, NEW b \in Batch, NEW out \in Work, BeginSubmit(r, b, out)
      PROVE  FreshInv'
  BY <1>3, FreshBegins
<1>4. ASSUME NEW r \in Request, NEW l \in Labourer, BeginPay(r, l) PROVE FreshInv'
  BY <1>4, FreshBegins
<1>5. ASSUME NEW r \in Request, FindItem(r) \/ ReadPlus(r) \/ ReadMinus(r) \/ ReadPaid(r)
      PROVE  FreshInv'
  BY <1>5, FreshLaterReads
<1>6. ASSUME NEW r \in Request, Commit(r) PROVE FreshInv'
  BY <1>6, CommitFresh
<1>7. ASSUME NEW r \in Request, Rollback(r) PROVE FreshInv'
  BY <1>7, IdleIsFresh, FreshRead DEF Rollback
<1> QED
  BY <1>1, <1>2, <1>3, <1>4, <1>5, <1>6, <1>7 DEF Next

LEMMA NextAlone == IInv /\ IInv' /\ AloneInv /\ [MCNext]_MCvars => AloneInv'
<1> SUFFICES ASSUME IInv, IInv', AloneInv, [MCNext]_MCvars PROVE AloneInv'
  OBVIOUS
<1>1. CASE UNCHANGED MCvars
  BY <1>1 DEF MCvars, vars, AloneInv, OneSession, FreshInv, BatchAgrees, CreditIsBacked, Balance,
              Plus, FreshSession, FreshDue
<1>2. CASE MCNext /\ ~overlapped'
  <2>1. OneSession' /\ ~overlapped
    BY <1>2, OneSessionNext
  <2>2. FreshInv'
    BY <1>2, <2>1, NextFresh DEF AloneInv, MCNext
  <2> QED
    BY <2>1, <2>2 DEF AloneInv
<1>3. CASE overlapped'
  BY <1>3 DEF AloneInv
<1> QED
  BY <1>1, <1>2, <1>3

LEMMA AloneInvariant == MCSpec => []AloneInv
<1>1. MCInit => IInv
  BY InitIInv DEF MCInit
<1>2. IInv /\ [MCNext]_MCvars => IInv'
  BY NextIInv DEF MCNext, MCvars
<1> QED
  BY <1>1, <1>2, InitAlone, NextAlone, PTL DEF MCSpec

(* While requests do not overlap, a batch is paid at most once, and then   *)
(* for all of its work, whatever is taken back, unless a worker hands in   *)
(* more than was allocated (labour/service.py, submit_work,                *)
(* generate_payment).                                                      *)
THEOREM PaidOnceInFullWhileAlone == MCSpec => []PaidOnceInFullAlone
<1>1. MCSpec => []TypeOK
  <2>1. MCInit => IInv
    BY InitIInv DEF MCInit
  <2>2. IInv /\ [MCNext]_MCvars => IInv'
    BY NextIInv DEF MCNext, MCvars
  <2>3. IInv => TypeOK
    BY DEF IInv
  <2> QED
    BY <2>1, <2>2, <2>3, PTL DEF MCSpec
<1>2. TypeOK /\ AloneInv => PaidOnceInFullAlone
  <2> SUFFICES ASSUME TypeOK, AloneInv, ~overlapped, NEW b \in Batch
               PROVE  /\ paid[b].count <= 1
                      /\ paid[b].count = 1 =>
                            /\ paid[b].done <= work[b].added
                            /\ work[b].added + work[b].spoiled <= batch[b].allocated
                                  => work[b].added - work[b].removed <= paid[b].done
    BY DEF PaidOnceInFullAlone, PaidOnceInFull
  <2>1. BatchAgrees(b)
    BY DEF AloneInv, FreshInv
  <2>2. work[b].added \in Nat /\ work[b].spoiled \in Nat /\ batch[b].allocated \in Int
    BY DEF TypeOK, BatchRow
  <2> QED
    BY <2>1, <2>2 DEF BatchAgrees
<1> QED
  BY <1>1, <1>2, AloneInvariant, PTL

(* While requests do not overlap, the workers' credit together is never    *)
(* more than what the store issued and negative transfers took back,       *)
(* whatever workers pass on to each other (labour/service.py,              *)
(* issue_material_with_credit, transfer_material).                         *)
THEOREM CreditIsBackedWhileAlone == MCSpec => []CreditIsBackedAlone
<1>1. AloneInv => CreditIsBackedAlone
  BY DEF AloneInv, FreshInv, CreditIsBackedAlone
<1> QED
  BY <1>1, AloneInvariant, PTL
=============================================================================
