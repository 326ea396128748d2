----------------------------- MODULE Production -----------------------------
(***************************************************************************)
(* The production batches of one order item, the machines they run on and  *)
(* what operators log (production/service.py, production/models.py), with  *)
(* the quantity ledger of the item and its other writers (worker/router.py,*)
(* quantities/service.py).  The artwork gate of create_batch is in         *)
(* ProofApproval.                                                          *)
(*                                                                         *)
(* Quantities are counted in 1/Scale of a piece: the columns of a batch    *)
(* are NUMERIC(12,4), those of the ledger are integers.  The schemas admit *)
(* any sign.                                                               *)
(***************************************************************************)
EXTENDS Integers, FiniteSetsExt

CONSTANTS
    Batch,      \* the batch rows that may be created
    Machine,    \* the machines
    Request,    \* the request slots
    Target,     \* OrderItem.quantity, in 1/Scale of a piece
    Input,      \* the input quantities planners ask for
    Output,     \* what operators log: [Kind -> quantity]
    ByWorker,   \* what workers report for a task: [Booked -> pieces]
    ByHand,     \* the pieces sent to the ledger's own route
    Scale,      \* sub-units of a piece that quantities may have
    MaxLogged,  \* bound: stop logging when there are this many records
    MaxEntered, \* bound: stop other entries when they make this many pieces
    None        \* no row, nothing loaded

Kind == {"good", "reject", "waste"}

(* The kinds the ledger has, as PRODUCED and REJECTED.                     *)
Booked == {"good", "reject"}

ASSUME ProductionAssumption ==
    /\ Target \in Int
    /\ Input \subseteq Int
    /\ Output \subseteq [Kind -> Int]
    /\ ByWorker \subseteq [Booked -> Int]
    /\ ByHand \subseteq Int
    /\ Scale \in Nat \ {0}
    /\ MaxLogged \in Nat /\ MaxEntered \in Nat
    /\ None \notin Batch \cup Machine \cup BOOLEAN
    /\ IsFiniteSet(Batch) /\ IsFiniteSet(Request)

BatchStatus == {"ABSENT", "IN_PROGRESS", "COMPLETED"}
MachineStatus == {"IDLE", "RUNNING", "MAINTENANCE", "OFFLINE"}
Nothing == [k \in Kind |-> 0]
BatchRow ==
    [ status : BatchStatus, machine : Machine \cup {None}, input : Int, total : [Kind -> Int] ]

(* The production_records of a batch: their number, the sums of what those *)
(* with a positive quantity add and those with a negative one take away.   *)
Records == [count : Nat, added : [Kind -> Nat], removed : [Kind -> Nat]]

VARIABLES
    batch,    \* the production_batches rows
    machine,  \* Machine.status
    logged,   \* the production_records of each batch
    ledger,   \* the quantity ledger: the item's PRODUCED and REJECTED sums
    entered,  \* the part of them that no production record made
    req       \* what each request has loaded

vars == <<batch, machine, logged, ledger, entered, req>>
rows == <<batch, machine, logged, ledger, entered>>

-----------------------------------------------------------------------------
(* A session.  release: no other batch was found running on the machine.   *)
(* mach: the machine status it loaded.                                     *)
Session ==
    [ op      : {"idle", "create", "log", "complete"},
      batch   : Batch \cup {None},
      machine : Machine \cup {None},
      input   : Int,
      out     : [Kind -> Int],
      loaded  : [Kind -> Int],
      release : BOOLEAN \cup {None},
      mach    : MachineStatus \cup {None} ]

Idle == [ op |-> "idle", batch |-> None, machine |-> None, input |-> 0, out |-> Nothing,
          loaded |-> Nothing, release |-> None, mach |-> None ]

Opens(r, q) ==
    /\ req[r] = Idle
    /\ req' = [req EXCEPT ![r] = q]
    /\ UNCHANGED rows

Reads(r, q) ==
    /\ req' = [req EXCEPT ![r] = q]
    /\ UNCHANGED rows

Plus(f, g) == [k \in Kind |-> f[k] + g[k]]

Running(m) == {b \in Batch : batch[b].status = "IN_PROGRESS" /\ batch[b].machine = m}

(* coalesce(sum(input_quantity), 0) over the batches not CANCELLED; no     *)
(* code cancels one.                                                       *)
Allocated == MapThenSumSet(LAMBDA b : batch[b].input, Batch)

Positive(n) == IF n > 0 THEN n ELSE 0

Init ==
    /\ batch = [b \in Batch |-> [status |-> "ABSENT", machine |-> None, input |-> 0, total |-> Nothing]]
    /\ machine \in [Machine -> MachineStatus]  \* create_machine admits any status
    /\ logged = [b \in Batch |-> [count |-> 0, added |-> Nothing, removed |-> Nothing]]
    /\ ledger = [k \in Booked |-> 0]
    /\ entered = [k \in Booked |-> 0]
    /\ req = [r \in Request |-> Idle]

-----------------------------------------------------------------------------
(* create_batch up to the quantity check.                                  *)
BeginCreate(r, b, m, q) ==
    /\ batch[b].status = "ABSENT"
    /\ \A s \in Request : req[s].op = "create" => req[s].batch # b
    /\ Allocated + q <= Target
    /\ Opens(r, [Idle EXCEPT !.op = "create", !.batch = b, !.machine = m, !.input = q])

(* log_production_record: the batch must be IN_PROGRESS (none is PLANNED). *)
BeginLog(r, b, out) ==
    /\ batch[b].status = "IN_PROGRESS"
    /\ SumFunction([x \in Batch |-> logged[x].count]) < MaxLogged
    /\ Opens(r, [Idle EXCEPT !.op = "log", !.batch = b, !.out = out, !.loaded = batch[b].total])

(* complete_batch accepts a batch in any status.                           *)
BeginComplete(r, b) ==
    /\ batch[b].status # "ABSENT"
    /\ Opens(r, [Idle EXCEPT !.op = "complete", !.batch = b, !.machine = batch[b].machine])

(* Mutant of CheckOthers: the machine is released whatever runs on it.     *)
CheckNothing(r) ==
    /\ req[r].op = "complete"
    /\ req[r].release = None
    /\ Reads(r, [req[r] EXCEPT !.release = TRUE])

CheckOthers(r) ==
    /\ req[r].op = "complete"
    /\ req[r].release = None
    /\ Reads(r, [req[r] EXCEPT !.release = Running(req[r].machine) \subseteq {req[r].batch}])

LoadMachine(r) ==
    /\ req[r].mach = None
    /\ req[r].op = "create" \/ req[r].release = TRUE
    /\ Reads(r, [req[r] EXCEPT !.mach = machine[req[r].machine]])

Loaded(q) ==
    \/ q.op = "log"
    \/ q.mach # None
    \/ q.release = FALSE

(* Mutant of TotalAfter: the record is added twice.                        *)
TotalTwice(q) == Plus(Plus(q.loaded, q.out), q.out)

(* Mutant of TotalAfter: like the ledger, it takes positive records only.  *)
TotalGained(q) == [k \in Kind |-> q.loaded[k] + Positive(q.out[k])]

TotalAfter(q) == Plus(q.loaded, q.out)

BatchAfter(q, b) ==
    IF b # q.batch THEN batch[b]
    ELSE CASE q.op = "create" -> [ status |-> "IN_PROGRESS", machine |-> q.machine,
                                   input |-> q.input, total |-> Nothing ]
           [] q.op = "log" -> [ batch[b] EXCEPT !.total =
                 [k \in Kind |-> IF q.out[k] = 0 THEN batch[b].total[k] ELSE TotalAfter(q)[k]] ]
           [] OTHER -> [batch[b] EXCEPT !.status = "COMPLETED"]

(* A machine status equal to the loaded one is not written.                *)
MachineAfter(q, m) ==
    LET assigned == IF q.op = "create" THEN "RUNNING" ELSE "IDLE"
    IN  IF m = q.machine /\ q.mach # None /\ assigned # q.mach THEN assigned ELSE machine[m]

(* Mutant of LedgerAfter: rejects are booked as produced.                  *)
LedgerAfterGross(q) ==
    [ledger EXCEPT !["good"] = @ + Positive(q.out["good"] + q.out["reject"]) \div Scale]

(* An entry for a positive quantity only, of its whole pieces (int()).     *)
LedgerAfter(q) == [k \in Booked |-> ledger[k] + Positive(q.out[k]) \div Scale]

(* The record is inserted as it is.                                        *)
LoggedAfter(q, b) ==
    IF q.op = "log" /\ b = q.batch
    THEN [ count   |-> logged[b].count + 1,
           added   |-> [k \in Kind |-> logged[b].added[k] + Positive(q.out[k])],
           removed |-> [k \in Kind |-> logged[b].removed[k] + Positive(-q.out[k])] ]
    ELSE logged[b]

Commit(r) ==
    LET q == req[r] IN
    /\ Loaded(q)
    /\ batch' = [b \in Batch |-> BatchAfter(q, b)]
    /\ machine' = [m \in Machine |-> MachineAfter(q, m)]
    /\ logged' = [b \in Batch |-> LoggedAfter(q, b)]
    /\ ledger' = LedgerAfter(q)
    /\ req' = [req EXCEPT ![r] = Idle]
    /\ UNCHANGED entered

Rollback(r) ==
    /\ req[r] # Idle
    /\ Reads(r, Idle)

(* The other entries for the item: pieces of each booked kind.             *)
Enters(pieces) ==
    /\ \A k \in Booked : entered[k] < MaxEntered
    /\ ledger' = [k \in Booked |-> ledger[k] + pieces[k]]
    /\ entered' = [k \in Booked |-> entered[k] + pieces[k]]
    /\ UNCHANGED <<batch, machine, logged, req>>

(* submit_worker_quantities: an entry for each positive quantity.          *)
SubmitQuantities(out) == Enters([k \in Booked |-> Positive(out[k])])

(* record_transaction rejects what is not positive.                        *)
BookByHand(k, n) == n > 0 /\ Enters([x \in Booked |-> IF x = k THEN n ELSE 0])

Next ==
    \/ \E r \in Request :
        \/ \E b \in Batch :
              \/ \E m \in Machine, q \in Input : BeginCreate(r, b, m, q)
              \/ \E out \in Output : BeginLog(r, b, out)
              \/ BeginComplete(r, b)
        \/ CheckOthers(r) \/ LoadMachine(r) \/ Commit(r) \/ Rollback(r)
    \/ \E out \in ByWorker : SubmitQuantities(out)
    \/ \E k \in Booked, n \in ByHand : BookByHand(k, n)

Spec == Init /\ [][Next]_vars

-----------------------------------------------------------------------------
(* Every row and every session has values of its columns' types.           *)
TypeOK ==
    /\ batch \in [Batch -> BatchRow]
    /\ machine \in [Machine -> MachineStatus]
    /\ logged \in [Batch -> Records]
    /\ ledger \in [Booked -> Nat]
    /\ entered \in [Booked -> Nat]
    /\ req \in [Request -> Session]

AtRest == \A r \in Request : req[r] = Idle

(* With no request in flight a machine that ever got a batch is RUNNING    *)
(* exactly when a batch runs on it: the planners' board shows the machines *)
(* as they are.                                                            *)
MachineShowsItsBatches ==
    AtRest => \A b \in Batch : batch[b].status # "ABSENT" =>
        (machine[batch[b].machine] = "RUNNING" <=> Running(batch[b].machine) # {})

(* However requests interleave, no record is counted twice: a batch claims *)
(* no more than the records that add, and has lost no more than those that *)
(* take away.  (Records that commit at the same time may be lost.)         *)
Within(total, records) ==
    \A k \in Kind : -records.removed[k] <= total[k] /\ total[k] <= records.added[k]

TotalsWithinRecords == \A b \in Batch : Within(batch[b].total, logged[b])

(* No record is lost.                                                      *)
TotalsMatchRecords ==
    \A b \in Batch, k \in Kind : batch[b].total[k] = logged[b].added[k] - logged[b].removed[k]

(* However requests interleave, the ledger has every good and rejected     *)
(* piece that was logged (docs/18, Real-Time Production Logging), up to a  *)
(* fraction of a piece for each record, besides the other entries.         *)
Added(k) == SumFunction([b \in Batch |-> logged[b].added[k]])
AddedPieces(k) ==
    SumFunction([b \in Batch |-> logged[b].added[k] - (Scale - 1) * logged[b].count])

LedgerMatchesRecords ==
    \A k \in Booked :
        /\ AddedPieces(k) <= (ledger[k] - entered[k]) * Scale
        /\ (ledger[k] - entered[k]) * Scale <= Added(k)

(* The batch and the machine a session works on exist, what it logs it     *)
(* logs as a record, and the totals it loaded are within the records.      *)
SessionInv(q) ==
    /\ q.op # "idle" => q.batch \in Batch
    /\ q.op \in {"create", "complete"} => q.machine \in Machine
    /\ q.op \in {"log", "complete"} => batch[q.batch].status # "ABSENT"
    /\ q.release # None => q.op = "complete"
    /\ q.mach # None => q.op \in {"create", "complete"}
    /\ q.op # "log" => q.out = Nothing
    /\ q.op = "log" => Within(q.loaded, logged[q.batch])

(* A batch runs on a machine from its creation on.                         *)
BatchesHaveMachines == \A b \in Batch : batch[b].status # "ABSENT" => batch[b].machine \in Machine

(* What a step needs to keep TypeOK and TotalsWithinRecords.               *)
IInv ==
    /\ TypeOK
    /\ BatchesHaveMachines
    /\ TotalsWithinRecords
    /\ \A r \in Request : SessionInv(req[r])

=============================================================================
