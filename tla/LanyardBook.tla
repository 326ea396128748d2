---------------------------- MODULE LanyardBook ----------------------------
(* The desktop client's lanyard queue and the fitting vouchers linked to   *)
(* it: lanyardOrdersStore.ts with the handlers and cells of                *)
(* LanyardWorkspaceView.tsx and the voucher table of                       *)
(* LabourLanyardWorkspaceView.tsx that move them. One window, one user:    *)
(* every handler runs to its end on the state last drawn, so a handler is  *)
(* an action; what interleaves are the pages, the dialogs that stay open   *)
(* between two clicks, and restarts, which reload what was persisted.      *)
EXTENDS Naturals, FiniteSets

CONSTANTS
    OrderId,          \* identities of orders
    SeedReady,        \* built-in orders that load as completed
    SeedInFitting,    \* built-in orders that load as out for fitting
    SeedContractor,   \* who fits the built-in orders
    Worker,           \* contractors among whom an order can be split
    InHouse,          \* the in-house desk: single assignments only
    MaxVouchers,      \* bound on the vouchers linked to orders
    NONE              \* no order, no contractor

ASSUME LanyardAssumption ==
    /\ SeedReady \subseteq OrderId /\ SeedInFitting \subseteq OrderId
    /\ SeedReady \cap SeedInFitting = {}
    /\ SeedContractor \in Worker \cup InHouse /\ IsFiniteSet(Worker)
    /\ {"wof", "mix", NONE} \cap (Worker \cup InHouse) = {}
    /\ NONE \notin OrderId \cup {"wof", "mix"}
    /\ MaxVouchers \in Nat

VARIABLES
    orders,     \* the queue: a record or NONE for every identity
    vouchers,   \* the vouchers registered for orders, in all ledgers
    dialog      \* the dialog that covers the page

vars == <<orders, vouchers, dialog>>

(* Who can be assigned, and whose ledger a voucher can be in: a split with *)
(* nobody ticked goes to a ledger called "mix".                            *)
Contractor == Worker \cup InHouse \cup {"wof"}
Ledger == Worker \cup InHouse \cup {"mix"}

Order ==
    [designDone : BOOLEAN, goneForPrint : BOOLEAN, isPrinted : BOOLEAN,
     fittingStatus : {"pending_assignment", "in_fitting", "ready"},
     fittingContractorId : Contractor \cup {"mix", NONE},
     orderReady : BOOLEAN]

ASSUME NoneIsNoOrder == NONE \notin Order

(* n tells the vouchers of one order in one ledger apart.                  *)
Voucher ==
    [orderId : OrderId, ledger : Ledger, n : Nat, status : {"in_fitting", "ready"}]

Dialog ==
    [kind : {"closed", "assign", "delete"}, order : OrderId \cup {NONE},
     pin : {"", "wrong", "right"}]

Closed == [kind |-> "closed", order |-> NONE, pin |-> ""]

InQueue(i) == orders[i] # NONE

(***************************************************************************)
(* The store: what is loaded, and how a mutator changes the book.          *)
(***************************************************************************)
SeedOrder(i) ==
    [designDone |-> TRUE, goneForPrint |-> TRUE, isPrinted |-> TRUE,
     fittingStatus |-> IF i \in SeedReady THEN "ready" ELSE "in_fitting",
     fittingContractorId |-> SeedContractor,
     orderReady |-> i \in SeedReady]

SeedBook ==
    [i \in OrderId |-> IF i \in SeedReady \cup SeedInFitting THEN SeedOrder(i) ELSE NONE]

Init ==
    /\ orders = SeedBook
    /\ vouchers = {}
    /\ dialog = Closed

(* Mutant of Restart: vouchers are reloaded from the built-in lists, the   *)
(* orders are always the built-in ones.                                    *)
RestartFromSeeds ==
    /\ orders' = SeedBook
    /\ dialog' = Closed
    /\ UNCHANGED vouchers

(* The window is reloaded or the program restarted: every mutator has      *)
(* persisted the whole book, but an empty list of orders is taken for a    *)
(* missing one and replaced by the built-in orders.                        *)
Restart ==
    /\ orders' = IF \E i \in OrderId : InQueue(i) THEN orders ELSE SeedBook
    /\ dialog' = Closed
    /\ UNCHANGED vouchers

NewOrder ==
    [designDone |-> FALSE, goneForPrint |-> FALSE, isPrinted |-> FALSE,
     fittingStatus |-> "pending_assignment", fittingContractorId |-> NONE,
     orderReady |-> FALSE]

(* markVoucherComplete: the linked order's fitting is done with it.        *)
Fitted(o) == [o EXCEPT !.fittingStatus = "ready"]

(* assignLabourAndRegisterVoucher: the order's half.                       *)
Assigned(o, to) ==
    [o EXCEPT !.fittingContractorId = to,
              !.fittingStatus = IF to = "wof" THEN "ready" ELSE "in_fitting"]

(* assignLabourAndRegisterVoucher: one more voucher in each ledger; the    *)
(* order's earlier vouchers stay.                                          *)
Registered(i, ledgers) ==
    {[orderId |-> i, ledger |-> c, status |-> "in_fitting",
      n |-> Cardinality({v \in vouchers : v.orderId = i /\ v.ledger = c}) + 1] : c \in ledgers}

(* Mutant of VouchersWithout: only the assigned contractor's ledger is     *)
(* searched.                                                               *)
VouchersWithoutAssigned(i) ==
    {v \in vouchers : ~(v.orderId = i /\ v.ledger = orders[i].fittingContractorId)}

(* deleteOrder: the order's vouchers leave every ledger.                   *)
VouchersWithout(i) == {v \in vouchers : v.orderId # i}

(***************************************************************************)
(* The handlers of LanyardWorkspaceView: the order a click leaves behind.  *)
(***************************************************************************)

(* Mutant of DesignToggled: revoking the design leaves the later steps.    *)
DesignToggledAlone(o) == [o EXCEPT !.designDone = ~@]

DesignToggled(o) ==
    IF o.designDone
    THEN [o EXCEPT !.designDone = FALSE, !.goneForPrint = FALSE, !.isPrinted = FALSE,
                   !.fittingStatus = "pending_assignment"]
    ELSE [o EXCEPT !.designDone = TRUE]

(* Mutant of PrintToggled: returning an order to the print queue keeps its *)
(* printed mark.                                                           *)
PrintToggledAlone(o) == [o EXCEPT !.goneForPrint = ~@]

PrintToggled(o) ==
    IF o.goneForPrint
    THEN [o EXCEPT !.goneForPrint = FALSE, !.isPrinted = FALSE,
                   !.fittingStatus = "pending_assignment"]
    ELSE [o EXCEPT !.goneForPrint = TRUE]

(* Mutant of PrintedToggled: an order whose print failed stays fitted.     *)
PrintedToggledAlone(o) == [o EXCEPT !.isPrinted = ~@]

PrintedToggled(o) ==
    IF o.isPrinted
    THEN [o EXCEPT !.isPrinted = FALSE, !.fittingStatus = "pending_assignment"]
    ELSE [o EXCEPT !.isPrinted = TRUE]

WithoutFitting(o) == [o EXCEPT !.fittingContractorId = "wof", !.fittingStatus = "ready"]

FittingToggled(o) ==
    [o EXCEPT !.fittingStatus = IF @ = "ready" THEN "in_fitting" ELSE "ready"]

FittingReset(o) ==
    [o EXCEPT !.fittingContractorId = NONE, !.fittingStatus = "pending_assignment"]

StatusCycled(o) ==
    IF o.orderReady
    THEN [o EXCEPT !.orderReady = FALSE]
    ELSE [designDone |-> TRUE, goneForPrint |-> TRUE, isPrinted |-> TRUE,
          fittingStatus |-> "ready",
          fittingContractorId |->
              IF o.fittingContractorId = NONE THEN "wof" ELSE o.fittingContractorId,
          orderReady |-> TRUE]

(***************************************************************************)
(* What the page offers: the queue's cells while no dialog covers it, the  *)
(* buttons of the open dialog while one does.                              *)
(***************************************************************************)
NoDialog == dialog = Closed /\ UNCHANGED dialog

Become(i, o) == orders' = [orders EXCEPT ![i] = o]

(* An order arrives from the intake page.                                  *)
Place(i) ==
    /\ NoDialog
    /\ ~InQueue(i)
    /\ Become(i, NewOrder)
    /\ UNCHANGED vouchers

(* Step 1, the design cell.                                                *)
ToggleDesign(i) ==
    /\ NoDialog
    /\ InQueue(i)
    /\ Become(i, DesignToggled(orders[i]))
    /\ UNCHANGED vouchers

(* Step 2, gone for print: locked until the design is approved.            *)
ToggleGoneForPrint(i) ==
    /\ NoDialog
    /\ InQueue(i) /\ orders[i].designDone
    /\ Become(i, PrintToggled(orders[i]))
    /\ UNCHANGED vouchers

(* Step 3, printed: locked until the order is gone for print.              *)
TogglePrinted(i) ==
    /\ NoDialog
    /\ InQueue(i) /\ orders[i].goneForPrint
    /\ Become(i, PrintedToggled(orders[i]))
    /\ UNCHANGED vouchers

(* Step 4, without fitting: offered while nobody fits the printed order.   *)
SetWithoutFitting(i) ==
    /\ NoDialog
    /\ InQueue(i) /\ orders[i].isPrinted /\ orders[i].fittingContractorId = NONE
    /\ Become(i, WithoutFitting(orders[i]))
    /\ UNCHANGED vouchers

(* Step 4, the assigned contractor is done, or is not after all.           *)
ToggleFittingDone(i) ==
    /\ NoDialog
    /\ InQueue(i) /\ orders[i].isPrinted
    /\ orders[i].fittingContractorId \notin {NONE, "wof"}
    /\ Become(i, FittingToggled(orders[i]))
    /\ UNCHANGED vouchers

ResetFitting(i) ==
    /\ NoDialog
    /\ InQueue(i) /\ orders[i].isPrinted /\ orders[i].fittingContractorId = "wof"
    /\ Become(i, FittingReset(orders[i]))
    /\ UNCHANGED vouchers

(* The status cell: complete, with every step skipped, or reopened.        *)
CycleOrderStatus(i) ==
    /\ NoDialog
    /\ InQueue(i)
    /\ Become(i, StatusCycled(orders[i]))
    /\ UNCHANGED vouchers

OpenLabourAssignment(i) ==
    /\ dialog = Closed
    /\ dialog' = [Closed EXCEPT !.kind = "assign", !.order = i]
    /\ UNCHANGED <<orders, vouchers>>

(* The fitting cell of a printed order opens the assignment dialog ...     *)
GiveToLabour(i) ==
    /\ InQueue(i) /\ orders[i].isPrinted /\ orders[i].fittingContractorId = NONE
    /\ OpenLabourAssignment(i)

(* ... also by its contractor's pill, or from the list of a split, to      *)
(* reassign an order that somebody fits already.                           *)
ReassignLabour(i) ==
    /\ InQueue(i) /\ orders[i].isPrinted
    /\ orders[i].fittingContractorId \notin {NONE, "wof"}
    /\ OpenLabourAssignment(i)

(* assignLabourAndRegisterVoucher, as the dialog's confirm button calls it *)
(* for one contractor ...                                                  *)
Assign(i, to, ledgers) ==
    /\ Cardinality(vouchers) + Cardinality(ledgers) <= MaxVouchers
    /\ IF InQueue(i)
       THEN /\ Become(i, Assigned(orders[i], to))
            /\ vouchers' = vouchers \cup Registered(i, ledgers)
       ELSE UNCHANGED <<orders, vouchers>>
    /\ dialog' = Closed

ConfirmSingle(c) ==
    /\ dialog.kind = "assign"
    /\ Assign(dialog.order, c, {c} \ {"wof"})

(* ... and for the contractors ticked in a split, who may be none.         *)
ConfirmMix(split) ==
    /\ dialog.kind = "assign"
    /\ Assign(dialog.order, "mix", IF split = {} THEN {"mix"} ELSE split)

(* The completed orders' delete button is replaced by a lock.              *)
OpenDelete(i) ==
    /\ dialog = Closed
    /\ InQueue(i) /\ ~orders[i].orderReady
    /\ dialog' = [Closed EXCEPT !.kind = "delete", !.order = i]
    /\ UNCHANGED <<orders, vouchers>>

EnterPin(pin) ==
    /\ dialog.kind = "delete"
    /\ dialog' = [dialog EXCEPT !.pin = pin]
    /\ UNCHANGED <<orders, vouchers>>

ConfirmDelete ==
    /\ dialog.kind = "delete" /\ dialog.pin = "right"
    /\ IF InQueue(dialog.order) /\ orders[dialog.order].orderReady
       THEN UNCHANGED <<orders, vouchers>>
       ELSE /\ Become(dialog.order, NONE)
            /\ vouchers' = VouchersWithout(dialog.order)
    /\ dialog' = Closed

Cancel ==
    /\ dialog # Closed
    /\ dialog' = Closed
    /\ UNCHANGED <<orders, vouchers>>

(* The labour page's complete button, on a voucher in fitting in a ledger  *)
(* that has a tab; the page's dialogs are closed when it is shown.         *)
MarkVoucherComplete(v) ==
    /\ NoDialog
    /\ v \in vouchers /\ v.status = "in_fitting" /\ v.ledger # "mix"
    /\ vouchers' = (vouchers \ {v}) \cup {[v EXCEPT !.status = "ready"]}
    /\ orders' = [orders EXCEPT ![v.orderId] = IF @ = NONE THEN @ ELSE Fitted(@)]

Next ==
    \/ \E i \in OrderId :
           \/ Place(i)
           \/ ToggleDesign(i)
           \/ ToggleGoneForPrint(i)
           \/ TogglePrinted(i)
           \/ SetWithoutFitting(i)
           \/ ToggleFittingDone(i)
           \/ ResetFitting(i)
           \/ CycleOrderStatus(i)
           \/ GiveToLabour(i)
           \/ ReassignLabour(i)
           \/ OpenDelete(i)
    \/ \E c \in Contractor : ConfirmSingle(c)
    \/ \E split \in SUBSET Worker : ConfirmMix(split)
    \/ \E pin \in {"wrong", "right"} : EnterPin(pin)
    \/ ConfirmDelete
    \/ Cancel
    \/ \E v \in vouchers : MarkVoucherComplete(v)
    \/ Restart

Spec == Init /\ [][Next]_vars

(***************************************************************************)
(* Properties.                                                             *)
(***************************************************************************)

(* The queue holds well-formed orders, the ledgers well-formed vouchers,   *)
(* and a dialog is open for an order exactly when one is open.             *)
TypeOK ==
    /\ orders \in [OrderId -> Order \cup {NONE}]
    /\ vouchers \subseteq Voucher /\ IsFiniteSet(vouchers)
    /\ dialog \in Dialog
    /\ dialog.kind = "closed" => dialog = Closed
    /\ dialog.kind # "closed" => dialog.order # NONE

(* However an order is moved, reset, reopened or reloaded, no step of it   *)
(* is done whose predecessor is not: revoking one revokes all after it.    *)
StepsInOrder ==
    \A i \in OrderId : InQueue(i) =>
        /\ orders[i].isPrinted => orders[i].goneForPrint
        /\ orders[i].goneForPrint => orders[i].designDone

(* Deleting an order leaves no voucher of it in any ledger, whoever it was *)
(* assigned and reassigned to before, so nobody is paid for an order that  *)
(* is gone.                                                                *)
VouchersHaveOrders == \A v \in vouchers : InQueue(v.orderId)

(* An order that shows its fitting done although its print was revoked has *)
(* a completed voucher that says so: no click on the queue alone leaves an *)
(* unprinted order fitted.                                                 *)
FittingBacked ==
    \A i \in OrderId :
        InQueue(i) /\ orders[i].fittingStatus = "ready" /\ ~orders[i].isPrinted =>
            \E v \in vouchers : v.orderId = i /\ v.status = "ready"

(* The assignment dialog covers an order of the queue that is printed.     *)
DialogInv ==
    dialog.kind = "assign" => InQueue(dialog.order) /\ orders[dialog.order].isPrinted

(* What a step needs to keep the invariants.                               *)
IInv == TypeOK /\ StepsInOrder /\ VouchersHaveOrders /\ FittingBacked /\ DialogInv

(* A completed order stays in the queue and completed through every step,  *)
(* a restart included, until its status cell reopens it: nothing deletes   *)
(* it, although an order can be completed, reopened and deleted.           *)
CompletedIsKept ==
    [][\A i \in OrderId :
           InQueue(i) /\ orders[i].orderReady =>
               InQueue(i)' /\ (orders'[i].orderReady \/ CycleOrderStatus(i))]_vars

(* The rung an order has reached, and the orders marked complete.          *)
Rung(i) ==
    IF ~InQueue(i) THEN 4
    ELSE IF ~orders[i].designDone THEN 0
    ELSE IF ~orders[i].goneForPrint THEN 1
    ELSE IF ~orders[i].isPrinted THEN 2 ELSE 3

Complete == {i \in OrderId : InQueue(i) /\ orders[i].orderReady}

Ladder == INSTANCE StepLadder WITH
              Order <- OrderId, rung <- [i \in OrderId |-> Rung(i)], complete <- Complete

(* The queue implements the ladder its page promises: steps are climbed    *)
(* one by one, only marking an order complete skips any, and a completed   *)
(* order does not leave.                                                   *)
ClimbsLadder == Ladder!Spec
=============================================================================
