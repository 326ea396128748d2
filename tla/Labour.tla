------------------------------- MODULE Labour -------------------------------
(***************************************************************************)
(* Outside workers of one order item: the batches allocated to them, the   *)
(* material they hold, the work they submit and what they are paid         *)
(* (labour/service.py), with one stock item.                               *)
(*                                                                         *)
(* A request reads one SELECT at a time and writes everything in its       *)
(* commit (the ORM session does not autoflush).                            *)
(***************************************************************************)
EXTENDS Integers, FiniteSetsExt

CONSTANTS
    Batch,     \* the batch rows that may be created
    Labourer,  \* the outside workers
    Request,   \* the request slots
    Ordered,   \* OrderItem.quantity
    Quantity,  \* the quantities planners allocate, issue and transfer, of either sign
    Work,      \* the submissions workers make: [done, bad, back], of either sign
    MaxMoves,  \* bound: stop issuing, transferring and submitting after this many
    None       \* no row

ASSUME LabourAssumption ==
    /\ Ordered \in Int /\ MaxMoves \in Nat
    /\ Quantity \subseteq Int
    /\ Work \subseteq [done : Int, bad : Int, back : Int]
    /\ None \notin Batch \cup Labourer
    /\ IsFiniteSet(Labourer) /\ IsFiniteSet(Request)

BatchStatus == {"ABSENT", "ASSIGNED", "IN_PROGRESS", "SUBMITTED"}

BatchRow ==
    [ status : BatchStatus, of : Labourer \cup {None}, allocated : Int, done : Int, bad : Int ]

VARIABLES
    batch,   \* the labour_batches rows
    work,    \* the labour_submissions: their sums per batch, by sign
    paid,    \* the labour_payment_ledger: its rows and accepted sum per batch
    held,    \* the labour_stock_ledger: each worker's sums per kind of row
    moves,   \* the number of issues, transfers and submissions, for the bound
    req      \* what each request has read

vars == <<batch, work, paid, held, moves, req>>
rows == <<batch, work, paid, held, moves>>

-----------------------------------------------------------------------------
(* A session.  who, to: the workers concerned.  out: what it submits.      *)
(* loaded: the batch row it read.  plus, bal: the balance as read so far.  *)
(* due: the accepted quantities a payment found.                           *)
Session ==
    [ op     : {"idle", "allocate", "issue", "submit", "transfer", "pay"},
      pc     : {"idle", "item", "plus", "minus", "ledger", "commit"},
      batch  : Batch \cup {None},
      who    : Labourer \cup {None},
      to     : Labourer \cup {None},
      qty    : Int,
      out    : [done : Int, bad : Int, back : Int],
      loaded : BatchRow,
      plus   : Int,
      bal    : Nat,
      due    : [Batch -> Nat] ]

Nothing == [done |-> 0, bad |-> 0, back |-> 0]
NoDues == [b \in Batch |-> 0]
NoRow == [status |-> "ABSENT", of |-> None, allocated |-> 0, done |-> 0, bad |-> 0]

Idle == [ op |-> "idle", pc |-> "idle", batch |-> None, who |-> None, to |-> None, qty |-> 0,
          out |-> Nothing, loaded |-> NoRow, plus |-> 0, bal |-> 0, due |-> NoDues ]

Becomes(r, q) ==
    /\ req' = [req EXCEPT ![r] = q]
    /\ UNCHANGED rows

Opens(r, q) == req[r] = Idle /\ Becomes(r, q)

(* received and reversed: the TRANSFERRED_IN rows above and below zero.    *)
Plus(l) == held[l].issued + held[l].received - held[l].reversed

(* get_labour_material_balance: never below zero.                          *)
Clamped(n) == IF n < 0 THEN 0 ELSE n
Balance(l) == Clamped(Plus(l) - held[l].spent)

(* coalesce(sum(allocated_quantity), 0); no code cancels a batch.          *)
Allocated == MapThenSumSet(LAMBDA b : batch[b].allocated, Batch)

Init ==
    /\ batch = [b \in Batch |-> NoRow]
    /\ work = [b \in Batch |-> [added |-> 0, removed |-> 0, spoiled |-> 0]]
    /\ paid = [b \in Batch |-> [count |-> 0, done |-> 0]]
    /\ held = [l \in Labourer |-> [issued |-> 0, received |-> 0, reversed |-> 0, spent |-> 0]]
    /\ moves = 0
    /\ req = [r \in Request |-> Idle]

-----------------------------------------------------------------------------
(* allocate_batch up to its commit.                                        *)
BeginAllocate(r, b, l, n) ==
    /\ batch[b].status = "ABSENT"
    /\ \A s \in Request : req[s].op = "allocate" => req[s].batch # b
    /\ Allocated + n <= Ordered
    /\ Opens(r, [Idle EXCEPT !.op = "allocate", !.pc = "commit", !.batch = b, !.who = l, !.qty = n])

(* issue_material_with_credit and transfer_material start with the balance.*)
BeginIssue(r, l, n) ==
    /\ moves < MaxMoves
    /\ Opens(r, [Idle EXCEPT !.op = "issue", !.pc = "plus", !.who = l, !.qty = n])

BeginTransfer(r, l, to, n) ==
    /\ moves < MaxMoves
    /\ Opens(r, [Idle EXCEPT !.op = "transfer", !.pc = "plus", !.who = l, !.to = to, !.qty = n])

(* submit_work accepts a batch in any status and any quantity.             *)
BeginSubmit(r, b, out) ==
    /\ batch[b].status # "ABSENT"
    /\ moves < MaxMoves
    /\ Opens(r, [Idle EXCEPT !.op = "submit", !.pc = "item", !.batch = b, !.who = batch[b].of,
                             !.out = out, !.loaded = batch[b]])

(* The stock items a submission consumes are those issued to the worker    *)
(* for the order item or order (bal is set to 1 then); failing that, those *)
(* the worker holds.                                                       *)
FindItem(r) ==
    /\ req[r].pc = "item"
    /\ Becomes(r, IF held[req[r].who].issued > 0
                  THEN [req[r] EXCEPT !.pc = "commit", !.bal = 1]
                  ELSE [req[r] EXCEPT !.pc = "plus"])

ReadPlus(r) ==
    /\ req[r].pc = "plus"
    /\ Becomes(r, [req[r] EXCEPT !.pc = "minus", !.plus = Plus(req[r].who)])

(* Mutant of ReadMinus: the balance is not compared with the quantity.     *)
ReadMinusAny(r) ==
    /\ req[r].pc = "minus"
    /\ LET bal == Clamped(req[r].plus - held[req[r].who].spent)
       IN  Becomes(r, [req[r] EXCEPT !.pc = "commit", !.plus = 0, !.bal = bal])

(* A transfer is rejected when the balance is too small.                   *)
ReadMinus(r) ==
    /\ req[r].pc = "minus"
    /\ LET bal == Clamped(req[r].plus - held[req[r].who].spent)
       IN  Becomes(r, IF req[r].op = "transfer" /\ bal < req[r].qty
                      THEN Idle
                      ELSE [req[r] EXCEPT !.pc = "commit", !.plus = 0, !.bal = bal])

(* Mutant of BeginPay: started batches are paid as well.                   *)
BeginPayStarted(r, l) ==
    Opens(r, [Idle EXCEPT !.op = "pay", !.pc = "ledger", !.who = l,
        !.due = [b \in Batch |-> IF batch[b].of = l THEN Clamped(batch[b].done) ELSE 0]])

(* generate_payment: the SUBMITTED batches (no code sets APPROVED) with    *)
(* accepted pieces ...                                                     *)
BeginPay(r, l) ==
    Opens(r, [Idle EXCEPT !.op = "pay", !.pc = "ledger", !.who = l,
        !.due = [b \in Batch |->
            IF batch[b].of = l /\ batch[b].status = "SUBMITTED" THEN Clamped(batch[b].done)
            ELSE 0]])

(* ... that no payment has yet; an error when there are none.              *)
ReadPaid(r) ==
    /\ req[r].pc = "ledger"
    /\ LET due == [b \in Batch |-> IF paid[b].count > 0 THEN 0 ELSE req[r].due[b]]
       IN  Becomes(r, IF due = NoDues THEN Idle ELSE [req[r] EXCEPT !.pc = "commit", !.due = due])

(* Mutant of DoneAfter: a submission is counted twice.                     *)
DoneTwice(q) == q.loaded.done + 2 * q.out.done

(* The totals are written as absolute values.                              *)
DoneAfter(q) == q.loaded.done + q.out.done
BadAfter(q) == q.loaded.bad + q.out.bad

StatusAfter(q) ==
    IF DoneAfter(q) + BadAfter(q) >= q.loaded.allocated THEN "SUBMITTED" ELSE "IN_PROGRESS"

(* Columns equal to the loaded ones are not written.                       *)
BatchAfter(q, b) ==
    IF b # q.batch THEN batch[b]
    ELSE IF q.op = "allocate"
    THEN [status |-> "ASSIGNED", of |-> q.who, allocated |-> q.qty, done |-> 0, bad |-> 0]
    ELSE [ batch[b] EXCEPT
           !.status = IF StatusAfter(q) # q.loaded.status THEN StatusAfter(q) ELSE batch[b].status,
           !.done = IF q.out.done # 0 THEN DoneAfter(q) ELSE batch[b].done,
           !.bad = IF q.out.bad # 0 THEN BadAfter(q) ELSE batch[b].bad ]

(* What an issue adds beyond the credit.                                   *)
Issues(q) == Clamped(q.qty - q.bal)

(* What a submission takes from the worker's material, if it found any:    *)
(* a quantity that is not above zero writes no row.                        *)
Spends(q) ==
    IF q.bal > 0 THEN Clamped(q.out.done) + Clamped(q.out.bad) + Clamped(q.out.back) ELSE 0

HeldAfter(q, l) ==
    [ issued   |-> held[l].issued + (IF q.op = "issue" /\ l = q.who THEN Issues(q) ELSE 0),
      received |-> held[l].received + (IF l = q.to THEN Clamped(q.qty) ELSE 0),
      reversed |-> held[l].reversed + (IF l = q.to THEN Clamped(-q.qty) ELSE 0),
      spent    |-> held[l].spent
                   + (IF q.op = "transfer" /\ l = q.who THEN q.qty ELSE 0)
                   + (IF q.op = "submit" /\ l = q.who THEN Spends(q) ELSE 0) ]

Commit(r) ==
    LET q == req[r] IN
    /\ q.pc = "commit"
    /\ batch' = [b \in Batch |-> BatchAfter(q, b)]
    /\ work' = [b \in Batch |->
          IF q.op = "submit" /\ b = q.batch
          THEN [ added   |-> work[b].added + Clamped(q.out.done),
                 removed |-> work[b].removed + Clamped(-q.out.done),
                 spoiled |-> work[b].spoiled + Clamped(q.out.bad) ]
          ELSE work[b]]
    /\ paid' = [b \in Batch |->
          IF q.due[b] > 0
          THEN [count |-> paid[b].count + 1, done |-> paid[b].done + q.due[b]]
          ELSE paid[b]]
    /\ held' = [l \in Labourer |-> HeldAfter(q, l)]
    /\ moves' = IF q.op \in {"issue", "transfer", "submit"} THEN moves + 1 ELSE moves
    /\ req' = [req EXCEPT ![r] = Idle]

Rollback(r) == req[r] # Idle /\ Becomes(r, Idle)

Next ==
    \E r \in Request :
        \/ \E b \in Batch, l \in Labourer, n \in Quantity : BeginAllocate(r, b, l, n)
        \/ \E l \in Labourer, n \in Quantity :
              BeginIssue(r, l, n) \/ \E to \in Labourer : BeginTransfer(r, l, to, n)
        \/ \E b \in Batch, out \in Work : BeginSubmit(r, b, out)
        \/ \E l \in Labourer : BeginPay(r, l)
        \/ FindItem(r) \/ ReadPlus(r) \/ ReadMinus(r) \/ ReadPaid(r)
        \/ Commit(r) \/ Rollback(r)

Spec == Init /\ [][Next]_vars

-----------------------------------------------------------------------------
(* Every row and every session has values of its columns' types.           *)
TypeOK ==
    /\ batch \in [Batch -> BatchRow]
    /\ work \in [Batch -> [added : Nat, removed : Nat, spoiled : Nat]]
    /\ paid \in [Batch -> [count : Nat, done : Nat]]
    /\ held \in [Labourer -> [issued : Nat, received : Nat, reversed : Nat, spent : Int]]
    /\ moves \in Nat
    /\ req \in [Request -> Session]

(* The accepted pieces a batch claims are within the submissions that add  *)
(* pieces and those that take some back, and no payment pays for more than *)
(* was ever submitted: docs/22, accepted good units only.                  *)
PayableWithinWork ==
    \A b \in Batch :
        /\ -work[b].removed <= batch[b].done /\ batch[b].done <= work[b].added
        /\ paid[b].done <= paid[b].count * work[b].added

(* The rows a session works on exist; what it loaded of a batch and what   *)
(* it found to be paid are within the work submitted by now.               *)
SessionInv(q) ==
    /\ q.op \notin {"allocate", "submit"} => q.batch = None
    /\ q.pc # "idle" => q.who \in Labourer
    /\ q.op = "submit" =>
          /\ q.batch \in Batch /\ batch[q.batch].status # "ABSENT"
          /\ -work[q.batch].removed <= q.loaded.done
          /\ q.loaded.done <= work[q.batch].added
    /\ \A b \in Batch : q.due[b] <= work[b].added

(* A batch has a worker from its allocation on.                            *)
BatchesHaveWorkers == \A b \in Batch : batch[b].status # "ABSENT" => batch[b].of \in Labourer

(* What a step needs to keep TypeOK and PayableWithinWork.                 *)
IInv ==
    /\ TypeOK
    /\ BatchesHaveWorkers
    /\ PayableWithinWork
    /\ \A r \in Request : SessionInv(req[r])

(* A batch is paid at most once (docs/22: preventing duplicate payouts),   *)
(* and then for every accepted piece: while no more pieces are handed in   *)
(* than were allocated, the payment is left with no work that no further   *)
(* payment will find, and only pieces taken back can make it too high.     *)
PaidOnceInFull ==
    \A b \in Batch :
        /\ paid[b].count <= 1
        /\ paid[b].count = 1 =>
              /\ paid[b].done <= work[b].added
              /\ work[b].added + work[b].spoiled <= batch[b].allocated
                    => work[b].added - work[b].removed <= paid[b].done

(* The credit workers are given is backed by material the store issued:    *)
(* transfers between workers create none (docs/21, company-owned property),*)
(* except those of a negative quantity, by no more than that quantity.     *)
CreditIsBacked ==
    SumFunction([l \in Labourer |-> Balance(l)])
        <= SumFunction([l \in Labourer |-> held[l].issued + held[l].reversed])

=============================================================================
