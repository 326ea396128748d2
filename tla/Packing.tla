------------------------------ MODULE Packing ------------------------------
(***************************************************************************)
(* The packing tasks of one order item and its PACKED sum in the quantity  *)
(* ledger (packing/service.py, quantities/service.py).                     *)
(*                                                                         *)
(* Quantities are counted in 1/Scale of a piece: a package's quantity is   *)
(* NUMERIC(12,4), of any sign, the ledger books whole pieces.              *)
(***************************************************************************)
EXTENDS Integers, FiniteSetsExt

CONSTANTS
    PackTask,   \* the packing task rows that may be created
    Request,    \* the request slots of the packing routes
    Quantity,   \* the quantities of one package
    TaskTarget, \* the target quantities tasks are created with
    ByHand,     \* PACKED quantities that are booked by hand
    Scale,      \* sub-units of a piece that quantities may have
    MaxBoxed,   \* bound: stop packing when a task has this much in boxes
    MaxTaken    \* bound: and when this much was taken out again

PackingStatus == {"ABSENT", "PENDING", "IN_PROGRESS", "COMPLETED", "VERIFIED"}

ASSUME PackingAssumption ==
    /\ Scale \in Nat \ {0}
    /\ Quantity \subseteq Int
    /\ TaskTarget \subseteq Int
    /\ ByHand \subseteq Int
    /\ MaxBoxed \in Nat /\ MaxTaken \in Nat
    /\ IsFiniteSet(PackTask)

VARIABLES
    pack,    \* the packing_tasks rows
    boxed,   \* the packages of each task
    packed,  \* the ledger: the PACKED sum of the order item
    manual,  \* the part of it that was booked by hand
    preq     \* what each packing request has loaded

packVars == <<pack, boxed, packed, manual, preq>>

-----------------------------------------------------------------------------
PackRow == [status : PackingStatus, target : Int, packed : Int]

(* The packages of a task: the sum and the number of those with a positive *)
(* quantity, and of those with a negative one, a correction.               *)
Packages == [put : Nat, puts : Nat, taken : Nat, takes : Nat]
Empty == [put |-> 0, puts |-> 0, taken |-> 0, takes |-> 0]

Positive(n) == IF n > 0 THEN n ELSE 0

PackagesWith(p, n) ==
    [ put   |-> p.put + Positive(n),    puts  |-> p.puts + (IF n > 0 THEN 1 ELSE 0),
      taken |-> p.taken + Positive(-n), takes |-> p.takes + (IF n < 0 THEN 1 ELSE 0) ]

PackSession ==
    [ op     : {"idle", "add", "verify"},
      task   : SUBSET PackTask,
      qty    : Int,
      status : PackingStatus,   \* the loaded status
      total  : Int,             \* the loaded packed_quantity
      target : Int ]

PackIdle ==
    [op |-> "idle", task |-> {}, qty |-> 0, status |-> "ABSENT", total |-> 0, target |-> 0]

Loads(r, op, t, q) ==
    /\ preq[r] = PackIdle
    /\ pack[t].status # "ABSENT"
    /\ preq' = [preq EXCEPT ![r] = [ op |-> op, task |-> {t}, qty |-> q, status |-> pack[t].status,
                                     total |-> pack[t].packed, target |-> pack[t].target ]]
    /\ UNCHANGED <<pack, boxed, packed, manual>>

PackInit ==
    /\ pack = [t \in PackTask |-> [status |-> "ABSENT", target |-> 0, packed |-> 0]]
    /\ boxed = [t \in PackTask |-> Empty]
    /\ packed = 0
    /\ manual = 0
    /\ preq = [r \in Request |-> PackIdle]

-----------------------------------------------------------------------------
(* create_packing_task, at any time, also of an order item that has one.   *)
CreatePackTask(t, n) ==
    /\ pack[t].status = "ABSENT"
    /\ pack' = [pack EXCEPT ![t] = [status |-> "PENDING", target |-> n, packed |-> 0]]
    /\ UNCHANGED <<boxed, packed, manual, preq>>

(* add_package: the task's total with the package must not pass its target.*)
BeginPack(r, t, q) ==
    /\ boxed[t].put + Positive(q) <= MaxBoxed
    /\ boxed[t].taken + Positive(-q) <= MaxTaken
    /\ pack[t].packed + q <= pack[t].target
    /\ Loads(r, "add", t, q)

(* verify_packing, of a task in any status.                                *)
BeginVerify(r, t) == Loads(r, "verify", t, 0)

(* Mutant of Assigned: the task completes only beyond its target.          *)
AssignedBeyond(q) ==
    IF q.op = "verify" THEN IF q.total >= q.target THEN "VERIFIED" ELSE q.status
    ELSE IF q.total + q.qty > q.target THEN "COMPLETED" ELSE "IN_PROGRESS"

(* The status a request leaves its task in.                                *)
Assigned(q) ==
    IF q.op = "verify" THEN IF q.total >= q.target THEN "VERIFIED" ELSE q.status
    ELSE IF q.total + q.qty >= q.target THEN "COMPLETED" ELSE "IN_PROGRESS"

(* Mutant of PackAfter: the loaded total is added to the stored one.       *)
PackAfterAdded(q, t) ==
    IF t \notin q.task THEN pack[t]
    ELSE [ status |-> IF Assigned(q) # q.status THEN Assigned(q) ELSE pack[t].status,
           target |-> pack[t].target,
           packed |-> IF q.qty # 0 THEN pack[t].packed + q.total + q.qty ELSE pack[t].packed ]

(* Columns whose new value is the loaded one are not written.              *)
PackAfter(q, t) ==
    IF t \notin q.task THEN pack[t]
    ELSE [ status |-> IF Assigned(q) # q.status THEN Assigned(q) ELSE pack[t].status,
           target |-> pack[t].target,
           packed |-> IF q.qty # 0 THEN q.total + q.qty ELSE pack[t].packed ]

(* Mutant of Booked: the ledger gets the task's total with every package.  *)
BookedTotal(q) == IF q.op = "add" THEN q.total + q.qty ELSE 0

(* int() cuts towards zero.                                                *)
Whole(n) == n - (n % Scale)
Booked(q) == Whole(Positive(q.qty)) - Whole(Positive(-q.qty))

CommitPack(r) ==
    LET q == preq[r] IN
    /\ q # PackIdle
    /\ pack' = [t \in PackTask |-> PackAfter(q, t)]
    /\ boxed' = [t \in PackTask |->
          IF t \in q.task THEN PackagesWith(boxed[t], q.qty) ELSE boxed[t]]
    /\ packed' = packed + Booked(q)
    /\ preq' = [preq EXCEPT ![r] = PackIdle]
    /\ UNCHANGED manual

RollbackPack(r) ==
    /\ preq[r] # PackIdle
    /\ preq' = [preq EXCEPT ![r] = PackIdle]
    /\ UNCHANGED <<pack, boxed, packed, manual>>

(* record_transaction: whoever may write the ledger books PACKED pieces.   *)
BookByHand(n) ==
    /\ n > 0
    /\ manual = 0
    /\ packed' = packed + n
    /\ manual' = manual + n
    /\ UNCHANGED <<pack, boxed, preq>>

PackNext ==
    \/ \E t \in PackTask, n \in TaskTarget : CreatePackTask(t, n)
    \/ \E r \in Request, t \in PackTask :
          BeginVerify(r, t) \/ \E q \in Quantity : BeginPack(r, t, q)
    \/ \E r \in Request : CommitPack(r) \/ RollbackPack(r)
    \/ \E n \in ByHand : BookByHand(n)

PackSpec == PackInit /\ [][PackNext]_packVars

-----------------------------------------------------------------------------
(* Every row and every session has values of its columns' types.           *)
PackTypeOK ==
    /\ pack \in [PackTask -> PackRow]
    /\ boxed \in [PackTask -> Packages]
    /\ packed \in Int
    /\ manual \in Nat
    /\ preq \in [Request -> PackSession]

(* However requests interleave, no package is counted twice: a task claims *)
(* no more than was put into its boxes, and has lost no more than was      *)
(* taken out.                                                              *)
Within(total, packages) == -packages.taken <= total /\ total <= packages.put

TaskNeverOverstates == \A t \in PackTask : Within(pack[t].packed, boxed[t])

(* The ledger has what is in the boxes and what was booked by hand, up to  *)
(* a fraction of a piece for each package.                                 *)
Least(p) == p.put - p.taken - (Scale - 1) * p.puts
Most(p) == p.put - p.taken + (Scale - 1) * p.takes

LedgerIsBacked ==
    /\ SumFunction([t \in PackTask |-> Least(boxed[t])]) <= packed - manual
    /\ packed - manual <= SumFunction([t \in PackTask |-> Most(boxed[t])])
=============================================================================
