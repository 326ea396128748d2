---------------------------- MODULE ClientProofs ----------------------------
(***************************************************************************)
(* The clients, for any number of orders, contractors, vouchers, items,    *)
(* tasks and presses. The books of the desktop that contractors work from: *)
(* the lanyard queue, the vouchers by contractor and the material handed   *)
(* out. The session: nobody signed in means no token is kept, and a user   *)
(* the server has not accepted works offline. The floor apps: the ledger   *)
(* never holds scrap or a completion without its production. The other     *)
(* queues: printed cards have an approved design, serials descend and      *)
(* options belong to their order.                                          *)
(***************************************************************************)
EXTENDS LanyardBook, VoucherLedger, MaterialDesk, DesktopSession, FloorApp, CardBook,
        OrderIntake, FiniteFacts, SequenceTheorems

(***************************************************************************)
(* The lanyard queue. The steps of an order stay in order, vouchers go     *)
(* when their order goes, and an order that is fitted without being        *)
(* printed has a completed voucher. The one fact a click depends on and no *)
(* cell checks is that the assignment dialog still covers a printed order  *)
(* when it is confirmed: the page under it does not move. From the same    *)
(* invariant follow that completed orders are kept and that the queue      *)
(* implements the ladder.                                                  *)
(***************************************************************************)

(* The steps of an order are done in their order.                          *)
Climbed(o) ==
    /\ o.isPrinted => o.goneForPrint
    /\ o.goneForPrint => o.designDone

(* It is fitted without being printed.                                     *)
Unbacked(o) == o.fittingStatus = "ready" /\ ~o.isPrinted

(* What the store and the page's handlers make of an order is an order.    *)
LEMMA SeedOrders == \A i \in OrderId : SeedOrder(i) \in Order /\ Climbed(SeedOrder(i)) /\ SeedOrder(i).isPrinted
BY LanyardAssumption DEF SeedOrder, Order, Contractor, Climbed

LEMMA NewOrders == NewOrder \in Order /\ Climbed(NewOrder) /\ ~Unbacked(NewOrder)
BY DEF NewOrder, Order, Climbed, Unbacked

LEMMA Handled ==
  ASSUME NEW o \in Order, Climbed(o)
  PROVE  /\ DesignToggled(o) \in Order /\ Climbed(DesignToggled(o))
         /\ Unbacked(DesignToggled(o)) => Unbacked(o)
         /\ o.designDone => /\ PrintToggled(o) \in Order /\ Climbed(PrintToggled(o))
                            /\ Unbacked(PrintToggled(o)) => Unbacked(o)
         /\ o.goneForPrint => /\ PrintedToggled(o) \in Order /\ Climbed(PrintedToggled(o))
                              /\ Unbacked(PrintedToggled(o)) => Unbacked(o)
BY DEF DesignToggled, PrintToggled, PrintedToggled, Order, Climbed, Unbacked

LEMMA HandledFitting ==
  ASSUME NEW o \in Order, Climbed(o)
  PROVE  /\ o.isPrinted => /\ WithoutFitting(o) \in Order /\ Climbed(WithoutFitting(o))
                           /\ ~Unbacked(WithoutFitting(o))
         /\ o.isPrinted => /\ FittingToggled(o) \in Order /\ Climbed(FittingToggled(o))
                           /\ ~Unbacked(FittingToggled(o))
         /\ FittingReset(o) \in Order /\ Climbed(FittingReset(o)) /\ ~Unbacked(FittingReset(o))
         /\ StatusCycled(o) \in Order /\ Climbed(StatusCycled(o))
         /\ Unbacked(StatusCycled(o)) => Unbacked(o)
<1>1. o.isPrinted => /\ WithoutFitting(o) \in Order /\ Climbed(WithoutFitting(o))
                     /\ ~Unbacked(WithoutFitting(o))
  BY DEF WithoutFitting, Order, Contractor, Climbed, Unbacked
<1>2. o.isPrinted => /\ FittingToggled(o) \in Order /\ Climbed(FittingToggled(o))
                     /\ ~Unbacked(FittingToggled(o))
  BY DEF FittingToggled, Order, Climbed, Unbacked
<1>3. FittingReset(o) \in Order /\ Climbed(FittingReset(o)) /\ ~Unbacked(FittingReset(o))
  BY DEF FittingReset, Order, Climbed, Unbacked
<1>4. /\ StatusCycled(o) \in Order /\ Climbed(StatusCycled(o))
      /\ Unbacked(StatusCycled(o)) => Unbacked(o)
  BY LanyardAssumption DEF StatusCycled, Order, Contractor, Climbed, Unbacked
<1> QED
  BY <1>1, <1>2, <1>3, <1>4

(* What assigning, and completing a voucher, make of an order.             *)
LEMMA HandledAssign ==
  ASSUME NEW o \in Order, Climbed(o), NEW to \in Contractor \cup {"mix"}
  PROVE  /\ Assigned(o, to) \in Order /\ Climbed(Assigned(o, to))
         /\ o.isPrinted => Assigned(o, to).isPrinted
         /\ Assigned(o, to).orderReady = o.orderReady
         /\ Fitted(o) \in Order /\ Climbed(Fitted(o))
BY DEF Assigned, Fitted, Order, Climbed

(* The steps of every order in the queue are in order.                     *)
LEMMA AllClimbed ==
  ASSUME TypeOK PROVE StepsInOrder <=> \A i \in OrderId : InQueue(i) => orders[i] \in Order /\ Climbed(orders[i])
BY DEF TypeOK, InQueue, StepsInOrder, Climbed

LEMMA InitIInv == Init => IInv
<1> SUFFICES ASSUME Init PROVE IInv
  OBVIOUS
<1>1. \A i \in OrderId : InQueue(i) => orders[i] = SeedOrder(i)
  BY DEF Init, SeedBook, InQueue
<1>2. orders \in [OrderId -> Order \cup {NONE}]
  BY SeedOrders DEF Init, SeedBook
<1>3. TypeOK
  BY <1>2, FS_EmptySet DEF TypeOK, Init, Closed, Dialog
<1>4. StepsInOrder /\ FittingBacked
  BY <1>1, SeedOrders DEF StepsInOrder, FittingBacked, Climbed
<1>5. VouchersHaveOrders /\ DialogInv
  BY DEF Init, VouchersHaveOrders, DialogInv, Closed
<1> QED
  BY <1>3, <1>4, <1>5 DEF IInv

(* A cell rewrites one order of the queue, while no dialog is open.        *)
LEMMA CellStep ==
  ASSUME IInv, NEW i \in OrderId, InQueue(i), NEW o \in Order, Climbed(o),
         Unbacked(o) => Unbacked(orders[i]),
         NoDialog, Become(i, o), UNCHANGED vouchers
  PROVE  IInv'
<1>1. \A j \in OrderId : orders'[j] = IF j = i THEN o ELSE orders[j]
  BY DEF IInv, TypeOK, Become
<1>2. o # NONE
  BY NoneIsNoOrder
<1>3. TypeOK'
  BY DEF IInv, TypeOK, Become, NoDialog
<1>4. StepsInOrder'
  BY <1>1 DEF IInv, StepsInOrder, InQueue, Climbed
<1>5. VouchersHaveOrders'
  BY <1>1, <1>2 DEF IInv, TypeOK, VouchersHaveOrders, InQueue, Voucher
<1>6. FittingBacked'
  BY <1>1 DEF IInv, FittingBacked, InQueue, Unbacked
<1>7. DialogInv'
  BY DEF NoDialog, DialogInv, Closed
<1> QED
  BY <1>3, <1>4, <1>5, <1>6, <1>7 DEF IInv

LEMMA CellSteps ==
  ASSUME IInv, NEW i \in OrderId,
         \/ ToggleDesign(i) \/ ToggleGoneForPrint(i) \/ TogglePrinted(i)
         \/ SetWithoutFitting(i) \/ ToggleFittingDone(i) \/ ResetFitting(i)
         \/ CycleOrderStatus(i)
  PROVE  IInv'
<1>1. InQueue(i) /\ NoDialog /\ UNCHANGED vouchers
  BY DEF ToggleDesign, ToggleGoneForPrint, TogglePrinted, SetWithoutFitting,
         ToggleFittingDone, ResetFitting, CycleOrderStatus
<1>2. orders[i] \in Order /\ Climbed(orders[i])
  BY <1>1, AllClimbed DEF IInv
<1>3. CASE ToggleDesign(i) \/ ToggleGoneForPrint(i) \/ TogglePrinted(i)
  BY <1>1, <1>2, <1>3, Handled, CellStep DEF ToggleDesign, ToggleGoneForPrint, TogglePrinted
<1>4. CASE SetWithoutFitting(i) \/ ToggleFittingDone(i) \/ ResetFitting(i) \/ CycleOrderStatus(i)
  BY <1>1, <1>2, <1>4, HandledFitting, CellStep
     DEF SetWithoutFitting, ToggleFittingDone, ResetFitting, CycleOrderStatus
<1> QED
  BY <1>3, <1>4

LEMMA PlaceStep ==
  ASSUME IInv, NEW i \in OrderId, Place(i) PROVE IInv'
<1>1. \A j \in OrderId : orders'[j] = IF j = i THEN NewOrder ELSE orders[j]
  BY DEF IInv, TypeOK, Place, Become
<1>2. NewOrder # NONE
  BY NewOrders, NoneIsNoOrder
<1>3. TypeOK'
  BY NewOrders DEF IInv, TypeOK, Place, Become, NoDialog
<1>4. StepsInOrder'
  BY <1>1, NewOrders DEF IInv, StepsInOrder, InQueue, Climbed
<1>5. VouchersHaveOrders'
  BY <1>1, <1>2 DEF IInv, TypeOK, Place, VouchersHaveOrders, InQueue, Voucher
<1>6. FittingBacked'
  BY <1>1, NewOrders DEF IInv, Place, FittingBacked, InQueue, Unbacked
<1>7. DialogInv'
  BY DEF Place, NoDialog, DialogInv, Closed
<1> QED
  BY <1>3, <1>4, <1>5, <1>6, <1>7 DEF IInv

(* A dialog opens, changes or closes; the page under it stays.             *)
LEMMA DialogStep ==
  ASSUME IInv, UNCHANGED <<orders, vouchers>>, dialog' \in Dialog,
         dialog'.kind = "closed" => dialog' = Closed,
         dialog'.kind # "closed" => dialog'.order # NONE, DialogInv'
  PROVE  IInv'
<1>1. TypeOK'
  BY DEF IInv, TypeOK
<1>2. StepsInOrder' /\ VouchersHaveOrders' /\ FittingBacked'
  BY DEF IInv, StepsInOrder, VouchersHaveOrders, FittingBacked, InQueue
<1> QED
  BY <1>1, <1>2 DEF IInv

LEMMA DialogCloses ==
  ASSUME IInv, UNCHANGED <<orders, vouchers>>, dialog' = Closed
  PROVE  IInv'
BY DialogStep DEF Closed, Dialog, DialogInv

LEMMA DialogSteps ==
  ASSUME IInv, NEW i \in OrderId, NEW pin \in {"wrong", "right"},
         GiveToLabour(i) \/ ReassignLabour(i) \/ OpenDelete(i) \/ EnterPin(pin) \/ Cancel
  PROVE  IInv'
<1>1. CASE GiveToLabour(i) \/ ReassignLabour(i)
  <2>1. /\ dialog' = [kind |-> "assign", order |-> i, pin |-> ""]
        /\ UNCHANGED <<orders, vouchers>>
        /\ InQueue(i) /\ orders[i].isPrinted
    BY <1>1 DEF GiveToLabour, ReassignLabour, OpenLabourAssignment, Closed
  <2> QED
    BY <2>1, LanyardAssumption, DialogStep DEF Dialog, DialogInv, InQueue
<1>2. CASE OpenDelete(i)
  <2>1. dialog' = [kind |-> "delete", order |-> i, pin |-> ""] /\ UNCHANGED <<orders, vouchers>>
    BY <1>2 DEF OpenDelete, Closed
  <2> QED
    BY <2>1, LanyardAssumption, DialogStep DEF Dialog, DialogInv
<1>3. CASE EnterPin(pin)
  <2>1. /\ dialog' = [dialog EXCEPT !.pin = pin] /\ dialog \in Dialog /\ dialog.kind = "delete"
        /\ dialog.order # NONE /\ UNCHANGED <<orders, vouchers>>
    BY <1>3 DEF EnterPin, IInv, TypeOK
  <2>2. dialog' \in Dialog /\ dialog'.kind = "delete" /\ dialog'.order # NONE
    BY <2>1 DEF Dialog
  <2> QED
    BY <2>1, <2>2, DialogStep DEF DialogInv
<1>4. CASE Cancel
  BY <1>4, DialogCloses DEF Cancel
<1> QED
  BY <1>1, <1>2, <1>3, <1>4

(* New vouchers are vouchers in fitting of the order, and finitely many.   *)
LEMMA RegisteredVouchers ==
  ASSUME TypeOK, NEW i \in OrderId, NEW ledgers \in SUBSET Ledger, IsFiniteSet(ledgers)
  PROVE  /\ Registered(i, ledgers) \subseteq Voucher
         /\ IsFiniteSet(Registered(i, ledgers))
         /\ \A v \in Registered(i, ledgers) : v.orderId = i
<1> DEFINE Same(c) == {v \in vouchers : v.orderId = i /\ v.ledger = c}
           nr == [c \in ledgers |-> Cardinality(Same(c)) + 1]
           new == [c \in ledgers |->
                      [orderId |-> i, ledger |-> c, status |-> "in_fitting", n |-> nr[c]]]
<1>1. ASSUME NEW c \in ledgers PROVE Cardinality(Same(c)) \in Nat
  <2>1. Same(c) \in SUBSET vouchers /\ IsFiniteSet(vouchers)
    BY DEF TypeOK
  <2>2. IsFiniteSet(Same(c))
    BY <2>1, FS_Subset
  <2> QED
    BY <2>2, FS_CardinalityType
<1>2. nr \in [ledgers -> Nat]
  <2> HIDE DEF Same
  <2> QED
    BY <1>1
<1>3. Registered(i, ledgers) = {[orderId |-> i, ledger |-> c, status |-> "in_fitting", n |-> nr[c]] : c \in ledgers}
  BY DEF Registered
<1> HIDE DEF nr
<1>4. Registered(i, ledgers) \subseteq Voucher
  BY <1>2, <1>3 DEF Voucher
<1>5. \A v \in Registered(i, ledgers) : v.orderId = i
  BY <1>3
<1>6. Registered(i, ledgers) = {new[c] : c \in ledgers}
  BY <1>3
<1>7. new = [c \in ledgers |-> new[c]]
  OBVIOUS
<1> HIDE DEF new
<1>8. new \in Surjection(ledgers, Registered(i, ledgers))
  BY <1>6, <1>7 DEF Surjection
<1>9. IsFiniteSet(Registered(i, ledgers))
  BY <1>8, FS_Surjection
<1> QED
  BY <1>4, <1>5, <1>9

LEMMA AssignStep ==
  ASSUME IInv, dialog.kind = "assign", NEW to \in Contractor \cup {"mix"},
         NEW ledgers \in SUBSET Ledger, IsFiniteSet(ledgers),
         Assign(dialog.order, to, ledgers)
  PROVE  IInv'
<1> DEFINE i == dialog.order
           o == Assigned(orders[i], to)
<1>1. i \in OrderId /\ InQueue(i) /\ orders[i].isPrinted
  BY DEF IInv, TypeOK, DialogInv, Dialog
<1>2. orders[i] \in Order /\ Climbed(orders[i])
  BY <1>1, AllClimbed DEF IInv
<1>3. o \in Order /\ Climbed(o) /\ o.isPrinted /\ o # NONE
  BY <1>1, <1>2, HandledAssign, NoneIsNoOrder
<1>4. /\ Become(i, o)
      /\ vouchers' = vouchers \cup Registered(i, ledgers)
      /\ dialog' = Closed
  BY <1>1 DEF Assign
<1>5. /\ Registered(i, ledgers) \subseteq Voucher
      /\ IsFiniteSet(Registered(i, ledgers))
      /\ \A v \in Registered(i, ledgers) : v.orderId = i
  BY <1>1, RegisteredVouchers DEF IInv
<1> HIDE DEF o, i
<1>6. \A j \in OrderId : orders'[j] = IF j = i THEN o ELSE orders[j]
  BY <1>1, <1>4 DEF IInv, TypeOK, Become
<1>7. TypeOK'
  <2>1. IsFiniteSet(vouchers')
    BY <1>4, <1>5, FS_Union DEF IInv, TypeOK
  <2> QED
    BY <1>1, <1>3, <1>4, <1>5, <2>1 DEF IInv, TypeOK, Become, Dialog, Closed
<1>8. StepsInOrder'
  BY <1>3, <1>6 DEF IInv, StepsInOrder, InQueue, Climbed
<1>9. VouchersHaveOrders'
  BY <1>1, <1>3, <1>4, <1>5, <1>6 DEF IInv, TypeOK, VouchersHaveOrders, InQueue, Voucher
<1>10. FittingBacked'
  BY <1>3, <1>4, <1>6 DEF IInv, FittingBacked, InQueue
<1>11. DialogInv'
  BY <1>4 DEF DialogInv, Closed
<1> QED
  BY <1>7, <1>8, <1>9, <1>10, <1>11 DEF IInv

LEMMA ConfirmSingleStep ==
  ASSUME IInv, NEW c \in Contractor, ConfirmSingle(c) PROVE IInv'
<1>1. {c} \ {"wof"} \in SUBSET Ledger
  BY DEF Contractor, Ledger
<1>2. IsFiniteSet({c} \ {"wof"})
  BY FS_Singleton, FS_RemoveElement
<1> QED
  BY <1>1, <1>2, AssignStep DEF ConfirmSingle

LEMMA ConfirmMixStep ==
  ASSUME IInv, NEW split \in SUBSET Worker, ConfirmMix(split) PROVE IInv'
<1> DEFINE ledgers == IF split = {} THEN {"mix"} ELSE split
<1>1. ledgers \in SUBSET Ledger
  BY DEF Ledger
<1>2. IsFiniteSet(ledgers)
  <2>1. IsFiniteSet(split)
    BY LanyardAssumption, FS_Subset
  <2> QED
    BY <2>1, FS_Singleton
<1> QED
  BY <1>1, <1>2, AssignStep DEF ConfirmMix

LEMMA ConfirmDeleteStep ==
  ASSUME IInv, ConfirmDelete PROVE IInv'
<1> DEFINE i == dialog.order
<1>1. i \in OrderId /\ dialog' = Closed
  BY DEF ConfirmDelete, IInv, TypeOK, Dialog
<1>2. CASE UNCHANGED <<orders, vouchers>>
  BY <1>1, <1>2, DialogCloses
<1>3. CASE Become(i, NONE) /\ vouchers' = VouchersWithout(i)
  <2>1. \A j \in OrderId : orders'[j] = IF j = i THEN NONE ELSE orders[j]
    BY <1>3 DEF IInv, TypeOK, Become
  <2>2. IsFiniteSet(vouchers')
    BY <1>3, FS_Subset DEF IInv, TypeOK, VouchersWithout
  <2>3. TypeOK'
    BY <1>1, <1>3, <2>2 DEF IInv, TypeOK, Become, VouchersWithout, Dialog, Closed
  <2>4. StepsInOrder' /\ DialogInv'
    BY <1>1, <2>1 DEF IInv, StepsInOrder, InQueue, DialogInv, Closed
  <2>5. VouchersHaveOrders'
    BY <1>3, <2>1 DEF IInv, TypeOK, VouchersHaveOrders, VouchersWithout, InQueue, Voucher
  <2>6. FittingBacked'
    BY <1>3, <2>1 DEF IInv, FittingBacked, VouchersWithout, InQueue
  <2> QED
    BY <2>3, <2>4, <2>5, <2>6 DEF IInv
<1> QED
  BY <1>2, <1>3 DEF ConfirmDelete

LEMMA MarkVoucherCompleteStep ==
  ASSUME IInv, NEW v \in vouchers, MarkVoucherComplete(v) PROVE IInv'
<1> DEFINE w == [v EXCEPT !.status = "ready"]
           i == v.orderId
           o == Fitted(orders[i])
<1>1. /\ v \in Voucher /\ i \in OrderId /\ v.status = "in_fitting"
      /\ w \in Voucher /\ w.orderId = i /\ w.status = "ready"
  BY DEF MarkVoucherComplete, IInv, TypeOK, Voucher
<1>2. InQueue(i)
  BY DEF IInv, VouchersHaveOrders
<1>3. orders[i] \in Order /\ Climbed(orders[i])
  BY <1>1, <1>2, AllClimbed DEF IInv
<1>4. o \in Order /\ Climbed(o) /\ o # NONE
  BY <1>3, HandledAssign, NoneIsNoOrder DEF Contractor
<1>5. \A j \in OrderId : orders'[j] = IF j = i THEN o ELSE orders[j]
  BY <1>1, <1>2 DEF MarkVoucherComplete, IInv, TypeOK, InQueue
<1>6. vouchers' = (vouchers \ {v}) \cup {w} /\ dialog = Closed /\ dialog' = Closed
  BY DEF MarkVoucherComplete, NoDialog
<1>7. orders' \in [OrderId -> Order \cup {NONE}]
  BY <1>1, <1>2, <1>4 DEF MarkVoucherComplete, IInv, TypeOK, InQueue
<1> HIDE DEF w, o, i
<1>8. TypeOK'
  <2>1. IsFiniteSet(vouchers \ {v})
    BY FS_RemoveElement DEF IInv, TypeOK
  <2>2. IsFiniteSet(vouchers')
    BY <1>6, <2>1, FS_AddElement
  <2> QED
    BY <1>1, <1>6, <1>7, <2>2 DEF IInv, TypeOK, Dialog, Closed
<1>9. StepsInOrder' /\ DialogInv'
  BY <1>4, <1>5, <1>6 DEF IInv, StepsInOrder, InQueue, Climbed, DialogInv, Closed
<1>10. VouchersHaveOrders'
  BY <1>1, <1>4, <1>5, <1>6 DEF IInv, TypeOK, VouchersHaveOrders, InQueue, Voucher
<1>11. FittingBacked'
  BY <1>1, <1>5, <1>6 DEF IInv, FittingBacked, InQueue
<1> QED
  BY <1>8, <1>9, <1>10, <1>11 DEF IInv

(* An empty queue has no vouchers: refilled, it has printed orders only.   *)
LEMMA RestartStep ==
  ASSUME IInv, Restart PROVE IInv'
<1>1. dialog' = Closed /\ UNCHANGED vouchers
  BY DEF Restart
<1>2. CASE \E i \in OrderId : InQueue(i)
  <2>1. UNCHANGED <<orders, vouchers>>
    BY <1>1, <1>2 DEF Restart
  <2> QED
    BY <1>1, <2>1, DialogCloses
<1>3. CASE ~\E i \in OrderId : InQueue(i)
  <2>1. orders' = SeedBook
    BY <1>3 DEF Restart
  <2>2. vouchers = {}
    BY <1>3 DEF IInv, TypeOK, VouchersHaveOrders, Voucher
  <2>3. \A i \in OrderId : orders'[i] = SeedOrder(i) \/ orders'[i] = NONE
    BY <2>1 DEF SeedBook
  <2>4. TypeOK'
    BY <1>1, <2>1, SeedOrders DEF IInv, TypeOK, SeedBook, Dialog, Closed
  <2>5. StepsInOrder' /\ FittingBacked'
    BY <2>3, SeedOrders DEF StepsInOrder, FittingBacked, InQueue, Climbed
  <2>6. VouchersHaveOrders' /\ DialogInv'
    BY <1>1, <2>2 DEF VouchersHaveOrders, DialogInv, Closed
  <2> QED
    BY <2>4, <2>5, <2>6 DEF IInv
<1> QED
  BY <1>2, <1>3

LEMMA NextIInv == IInv /\ [Next]_vars => IInv'
<1> SUFFICES ASSUME IInv, [Next]_vars PROVE IInv'
  OBVIOUS
<1>1. ASSUME NEW i \in OrderId, GiveToLabour(i) \/ ReassignLabour(i) \/ OpenDelete(i) PROVE IInv'
  BY <1>1, DialogSteps
<1>2. ASSUME NEW pin \in {"wrong", "right"}, EnterPin(pin) \/ Cancel PROVE IInv'
  <2>1. dialog.order \in OrderId
    BY <1>2 DEF EnterPin, Cancel, IInv, TypeOK, Dialog
  <2> QED
    BY <1>2, <2>1, DialogSteps
<1>3. CASE UNCHANGED vars
  BY <1>3 DEF vars, IInv, TypeOK, StepsInOrder, VouchersHaveOrders, FittingBacked, DialogInv, InQueue
<1> QED
  BY <1>1, <1>2, <1>3, CellSteps, PlaceStep, ConfirmSingleStep, ConfirmMixStep, ConfirmDeleteStep,
     MarkVoucherCompleteStep, RestartStep DEF Next

THEOREM InductiveInvariant == Spec => []IInv
BY InitIInv, NextIInv, PTL DEF Spec

(* The queue, the vouchers and the dialog keep their types.                *)
THEOREM TypeCorrect == Spec => []TypeOK
<1>1. IInv => TypeOK
  BY DEF IInv
<1> QED
  BY <1>1, InductiveInvariant, PTL

(* Whatever is clicked, reset or reloaded, for any number of orders and    *)
(* contractors, no step of an order is done before its predecessor.        *)
THEOREM StepsStayInOrder == Spec => []StepsInOrder
<1>1. IInv => StepsInOrder
  BY DEF IInv
<1> QED
  BY <1>1, InductiveInvariant, PTL

(* No voucher of a deleted order is left in any ledger.                    *)
THEOREM VouchersKeepOrders == Spec => []VouchersHaveOrders
<1>1. IInv => VouchersHaveOrders
  BY DEF IInv
<1> QED
  BY <1>1, InductiveInvariant, PTL

(* An order that is fitted but not printed has a completed voucher.        *)
THEOREM FittingStaysBacked == Spec => []FittingBacked
<1>1. IInv => FittingBacked
  BY DEF IInv
<1> QED
  BY <1>1, InductiveInvariant, PTL

(***************************************************************************)
(* Completed orders are kept.                                              *)
(***************************************************************************)

(* Writing one order leaves the others alone.                              *)
LEMMA Written ==
  ASSUME TypeOK, NEW i \in OrderId, NEW o, Become(i, o)
  PROVE  \A j \in OrderId : orders'[j] = IF j = i THEN o ELSE orders[j]
BY DEF TypeOK, Become

(* No handler but the status cell's touches the completion mark.           *)
LEMMA MarkUntouched ==
  ASSUME NEW o \in Order
  PROVE  /\ DesignToggled(o).orderReady = o.orderReady
         /\ PrintToggled(o).orderReady = o.orderReady
         /\ PrintedToggled(o).orderReady = o.orderReady
         /\ WithoutFitting(o).orderReady = o.orderReady
         /\ FittingToggled(o).orderReady = o.orderReady
         /\ FittingReset(o).orderReady = o.orderReady
         /\ Fitted(o).orderReady = o.orderReady
BY DEF DesignToggled, PrintToggled, PrintedToggled, WithoutFitting, FittingToggled, FittingReset,
       Fitted, Order

(* Order j is kept by a step that rewrites order i and keeps its mark.     *)
LEMMA KeptByCells ==
  ASSUME IInv, IInv', NEW j \in OrderId, InQueue(j), orders[j].orderReady,
         NEW i \in OrderId,
         \/ ToggleDesign(i) \/ ToggleGoneForPrint(i) \/ TogglePrinted(i)
         \/ SetWithoutFitting(i) \/ ToggleFittingDone(i) \/ ResetFitting(i)
  PROVE  InQueue(j)' /\ orders'[j].orderReady
<1>1. InQueue(i)
  BY DEF ToggleDesign, ToggleGoneForPrint, TogglePrinted, SetWithoutFitting,
         ToggleFittingDone, ResetFitting
<1>2. orders[i] \in Order /\ Climbed(orders[i])
  BY <1>1, AllClimbed DEF IInv
<1>3. PICK o \in Order : Become(i, o) /\ o.orderReady = orders[i].orderReady
  <2>1. CASE ToggleDesign(i) \/ ToggleGoneForPrint(i) \/ TogglePrinted(i)
    BY <1>2, <2>1, Handled, MarkUntouched DEF ToggleDesign, ToggleGoneForPrint, TogglePrinted
  <2>2. CASE SetWithoutFitting(i) \/ ToggleFittingDone(i) \/ ResetFitting(i)
    BY <1>2, <2>2, HandledFitting, MarkUntouched
       DEF SetWithoutFitting, ToggleFittingDone, ResetFitting
  <2> QED
    BY <2>1, <2>2
<1>4. orders'[j] = IF j = i THEN o ELSE orders[j]
  BY <1>3, Written DEF IInv
<1> QED
  BY <1>3, <1>4, NoneIsNoOrder DEF InQueue

LEMMA KeptByAssign ==
  ASSUME IInv, dialog.kind = "assign", NEW to \in Contractor \cup {"mix"}, NEW ledgers,
         Assign(dialog.order, to, ledgers),
         NEW j \in OrderId, InQueue(j), orders[j].orderReady
  PROVE  InQueue(j)' /\ orders'[j].orderReady
<1> DEFINE i == dialog.order
<1>1. i \in OrderId /\ InQueue(i)
  BY DEF IInv, TypeOK, DialogInv, Dialog
<1>2. orders[i] \in Order /\ Climbed(orders[i])
  BY <1>1, AllClimbed DEF IInv
<1>3. Assigned(orders[i], to) \in Order /\ Assigned(orders[i], to).orderReady = orders[i].orderReady
  BY <1>2, HandledAssign
<1>4. orders'[j] = IF j = i THEN Assigned(orders[i], to) ELSE orders[j]
  BY <1>1, Written DEF Assign, IInv
<1> QED
  BY <1>3, <1>4, NoneIsNoOrder DEF InQueue

LEMMA KeptStep ==
  ASSUME IInv, IInv', Next, NEW j \in OrderId, InQueue(j), orders[j].orderReady
  PROVE  InQueue(j)' /\ (orders'[j].orderReady \/ CycleOrderStatus(j))
<1>1. ASSUME NEW i \in OrderId, Place(i) PROVE InQueue(j)' /\ orders'[j].orderReady
  BY <1>1, Written DEF Place, IInv, InQueue
<1>2. ASSUME NEW i \in OrderId, CycleOrderStatus(i)
      PROVE  InQueue(j)' /\ (orders'[j].orderReady \/ CycleOrderStatus(j))
  <2>1. orders[i] \in Order /\ Climbed(orders[i])
    BY <1>2, AllClimbed DEF IInv, CycleOrderStatus
  <2>2. StatusCycled(orders[i]) \in Order
    BY <2>1, HandledFitting
  <2>3. orders'[j] = IF j = i THEN StatusCycled(orders[i]) ELSE orders[j]
    BY <1>2, Written DEF CycleOrderStatus, IInv
  <2> QED
    BY <1>2, <2>2, <2>3, NoneIsNoOrder DEF InQueue
<1>3. ASSUME NEW i \in OrderId, NEW pin \in {"wrong", "right"},
             GiveToLabour(i) \/ ReassignLabour(i) \/ OpenDelete(i) \/ EnterPin(pin) \/ Cancel
      PROVE  InQueue(j)' /\ orders'[j].orderReady
  BY <1>3 DEF GiveToLabour, ReassignLabour, OpenLabourAssignment, OpenDelete, EnterPin, Cancel, InQueue
<1>4. ASSUME NEW c \in Contractor, ConfirmSingle(c) PROVE InQueue(j)' /\ orders'[j].orderReady
  BY <1>4, KeptByAssign DEF ConfirmSingle
<1>5. ASSUME NEW split \in SUBSET Worker, ConfirmMix(split) PROVE InQueue(j)' /\ orders'[j].orderReady
  BY <1>5, KeptByAssign DEF ConfirmMix
<1>6. CASE ConfirmDelete
  <2>1. CASE InQueue(dialog.order) /\ orders[dialog.order].orderReady
    BY <1>6, <2>1 DEF ConfirmDelete, InQueue
  <2>2. CASE ~(InQueue(dialog.order) /\ orders[dialog.order].orderReady)
    <3>1. Become(dialog.order, NONE) /\ j # dialog.order
      BY <1>6, <2>2 DEF ConfirmDelete
    <3>2. orders'[j] = orders[j]
      BY <3>1 DEF Become, IInv, TypeOK
    <3> QED
      BY <3>2 DEF InQueue
  <2> QED
    BY <2>1, <2>2
<1>7. ASSUME NEW v \in vouchers, MarkVoucherComplete(v) PROVE InQueue(j)' /\ orders'[j].orderReady
  <2>1. orders[j] \in Order /\ Climbed(orders[j])
    BY AllClimbed DEF IInv
  <2>2. Fitted(orders[j]) \in Order /\ Fitted(orders[j]).orderReady
    BY <2>1, HandledAssign, MarkUntouched DEF Contractor
  <2>3. orders'[j] = IF j = v.orderId THEN Fitted(orders[j]) ELSE orders[j]
    BY <1>7 DEF MarkVoucherComplete, IInv, TypeOK, InQueue
  <2> QED
    BY <2>2, <2>3, NoneIsNoOrder DEF InQueue
<1>8. CASE Restart
  BY <1>8 DEF Restart, InQueue
<1> QED
  BY <1>1, <1>2, <1>3, <1>4, <1>5, <1>6, <1>7, <1>8, KeptByCells DEF Next

(* A completed order leaves neither the queue nor its status but by the    *)
(* status cell: no deletion, no restart, no voucher.                       *)
THEOREM CompletedStaysKept == Spec => CompletedIsKept
<1>1. IInv /\ IInv' /\ [Next]_vars =>
        [\A i \in OrderId :
            InQueue(i) /\ orders[i].orderReady =>
               InQueue(i)' /\ (orders'[i].orderReady \/ CycleOrderStatus(i))]_vars
  BY KeptStep
<1> QED
  BY <1>1, InductiveInvariant, PTL DEF Spec, CompletedIsKept

(***************************************************************************)
(* The queue implements the ladder.                                        *)
(***************************************************************************)
rungs == [i \in OrderId |-> Rung(i)]

(* The rung of an order by its record.                                     *)
RungOf(o) ==
    IF ~o.designDone THEN 0
    ELSE IF ~o.goneForPrint THEN 1
    ELSE IF ~o.isPrinted THEN 2 ELSE 3

(* A step that rewrites order i moves it on the ladder alone.              *)
LEMMA Moved ==
  ASSUME TypeOK, NEW i \in OrderId, NEW o \in Order, Become(i, o)
  PROVE  /\ InQueue(i)' /\ Rung(i)' = RungOf(o)
         /\ rungs' = [rungs EXCEPT ![i] = RungOf(o)]
         /\ Complete' = IF o.orderReady THEN Complete \cup {i} ELSE Complete \ {i}
<1>1. \A j \in OrderId : orders'[j] = IF j = i THEN o ELSE orders[j]
  BY Written
<1>2. o # NONE
  BY NoneIsNoOrder
<1>3. InQueue(i)' /\ Rung(i)' = RungOf(o)
  BY <1>1, <1>2 DEF InQueue, Rung, RungOf
<1>4. \A j \in OrderId : j # i => Rung(j)' = Rung(j)
  BY <1>1 DEF InQueue, Rung
<1>5. rungs' = [rungs EXCEPT ![i] = RungOf(o)]
  <2>1. /\ rungs' = [j \in OrderId |-> Rung(j)'] /\ rungs = [j \in OrderId |-> Rung(j)]
    BY DEF rungs
  <2> HIDE DEF rungs
  <2> QED
    BY <1>3, <1>4, <2>1
<1>6. Complete' = IF o.orderReady THEN Complete \cup {i} ELSE Complete \ {i}
  BY <1>1, <1>2 DEF Complete, InQueue
<1> QED
  BY <1>3, <1>5, <1>6

(* Where the handlers take an order on the ladder.                         *)
LEMMA HandledRungs ==
  ASSUME NEW o \in Order, Climbed(o)
  PROVE  /\ o.designDone => RungOf(DesignToggled(o)) = 0 /\ RungOf(o) \in 1 .. 3
         /\ ~o.designDone => RungOf(DesignToggled(o)) = 1 /\ RungOf(o) = 0
         /\ o.designDone /\ o.goneForPrint => RungOf(PrintToggled(o)) = 1 /\ RungOf(o) \in 2 .. 3
         /\ o.designDone /\ ~o.goneForPrint => RungOf(PrintToggled(o)) = 2 /\ RungOf(o) = 1
         /\ o.goneForPrint /\ o.isPrinted => RungOf(PrintedToggled(o)) = 2 /\ RungOf(o) = 3
         /\ o.goneForPrint /\ ~o.isPrinted => RungOf(PrintedToggled(o)) = 3 /\ RungOf(o) = 2
BY DEF DesignToggled, PrintToggled, PrintedToggled, Order, Climbed, RungOf

LEMMA HandledFittingRungs ==
  ASSUME NEW o \in Order, NEW to
  PROVE  /\ RungOf(WithoutFitting(o)) = RungOf(o)
         /\ RungOf(FittingToggled(o)) = RungOf(o)
         /\ RungOf(FittingReset(o)) = RungOf(o)
         /\ RungOf(Fitted(o)) = RungOf(o)
         /\ RungOf(Assigned(o, to)) = RungOf(o)
         /\ Assigned(o, to).orderReady = o.orderReady
BY DEF WithoutFitting, FittingToggled, FittingReset, Fitted, Assigned, Order, RungOf

LEMMA HandledStatus ==
  ASSUME NEW o \in Order
  PROVE  IF o.orderReady THEN RungOf(StatusCycled(o)) = RungOf(o) /\ ~StatusCycled(o).orderReady
         ELSE RungOf(StatusCycled(o)) = 3 /\ StatusCycled(o).orderReady
BY DEF StatusCycled, Order, RungOf

(* An order in the queue is on the ladder.                                 *)
LEMMA OnLadder ==
  ASSUME IInv, NEW i \in OrderId, InQueue(i)
  PROVE  /\ orders[i] \in Order /\ Climbed(orders[i])
         /\ rungs[i] = RungOf(orders[i]) /\ rungs[i] \in 0 .. 3
         /\ i \in Complete <=> orders[i].orderReady
<1>1. orders[i] \in Order /\ Climbed(orders[i])
  BY AllClimbed DEF IInv
<1> QED
  BY <1>1 DEF rungs, Rung, RungOf, Complete

(* The ladder's step of the queue's steps, in this module's terms.         *)
Moves(i, to) == rungs' = [rungs EXCEPT ![i] = to] /\ Complete' = Complete

LEMMA ClimbMoves ==
  ASSUME NEW i \in OrderId, rungs[i] \in 0 .. 2, Moves(i, rungs[i] + 1)
  PROVE  Ladder!Next
BY DEF Moves, rungs, Ladder!Next, Ladder!Climb

LEMMA FallMoves ==
  ASSUME NEW i \in OrderId, NEW lower \in 0 .. 2, rungs[i] \in lower + 1 .. 3, Moves(i, lower)
  PROVE  Ladder!Next
BY DEF Moves, rungs, Ladder!Next, Ladder!Fall

(* A step that leaves every order where it is stutters on the ladder.      *)
LEMMA Stutters ==
  ASSUME rungs' = rungs, Complete' = Complete PROVE [Ladder!Next]_Ladder!vars
BY DEF rungs, Ladder!vars

(* A handler that keeps the completion mark moves its order, and no other. *)
LEMMA MovesOrder ==
  ASSUME IInv, NEW i \in OrderId, InQueue(i), NEW o \in Order, Become(i, o),
         o.orderReady = orders[i].orderReady
  PROVE  Moves(i, RungOf(o))
<1>1. /\ rungs' = [rungs EXCEPT ![i] = RungOf(o)]
      /\ Complete' = IF o.orderReady THEN Complete \cup {i} ELSE Complete \ {i}
  BY Moved DEF IInv
<1>2. i \in Complete <=> o.orderReady
  BY OnLadder
<1> QED
  BY <1>1, <1>2 DEF Moves

LEMMA MovesNowhere ==
  ASSUME NEW i \in OrderId, Moves(i, rungs[i]) PROVE [Ladder!Next]_Ladder!vars
<1>1. rungs' = rungs
  BY DEF Moves, rungs
<1> QED
  BY <1>1, Stutters DEF Moves

LEMMA DesignOnLadder ==
  ASSUME IInv, NEW i \in OrderId, ToggleDesign(i) PROVE [Ladder!Next]_Ladder!vars
<1> DEFINE o == orders[i]
<1>1. InQueue(i) /\ Become(i, DesignToggled(o))
  BY DEF ToggleDesign
<1>2. o \in Order /\ Climbed(o) /\ rungs[i] = RungOf(o)
  BY <1>1, OnLadder
<1>3. Moves(i, RungOf(DesignToggled(o)))
  BY <1>1, <1>2, MovesOrder, Handled, MarkUntouched
<1>4. CASE o.designDone
  <2>1. RungOf(DesignToggled(o)) = 0 /\ rungs[i] \in 0 + 1 .. 3
    BY <1>2, <1>4, HandledRungs
  <2> QED
    BY <1>3, <2>1, FallMoves
<1>5. CASE ~o.designDone
  <2>1. RungOf(DesignToggled(o)) = rungs[i] + 1 /\ rungs[i] \in 0 .. 2
    BY <1>2, <1>5, HandledRungs
  <2> QED
    BY <1>3, <2>1, ClimbMoves
<1> QED
  BY <1>4, <1>5

LEMMA PrintOnLadder ==
  ASSUME IInv, NEW i \in OrderId, ToggleGoneForPrint(i) PROVE [Ladder!Next]_Ladder!vars
<1> DEFINE o == orders[i]
<1>1. InQueue(i) /\ o.designDone /\ Become(i, PrintToggled(o))
  BY DEF ToggleGoneForPrint
<1>2. o \in Order /\ Climbed(o) /\ rungs[i] = RungOf(o)
  BY <1>1, OnLadder
<1>3. Moves(i, RungOf(PrintToggled(o)))
  BY <1>1, <1>2, MovesOrder, Handled, MarkUntouched
<1>4. CASE o.goneForPrint
  <2>1. RungOf(PrintToggled(o)) = 1 /\ rungs[i] \in 1 + 1 .. 3
    BY <1>1, <1>2, <1>4, HandledRungs
  <2> QED
    BY <1>3, <2>1, FallMoves
<1>5. CASE ~o.goneForPrint
  <2>1. RungOf(PrintToggled(o)) = rungs[i] + 1 /\ rungs[i] \in 0 .. 2
    BY <1>1, <1>2, <1>5, HandledRungs
  <2> QED
    BY <1>3, <2>1, ClimbMoves
<1> QED
  BY <1>4, <1>5

LEMMA PrintedOnLadder ==
  ASSUME IInv, NEW i \in OrderId, TogglePrinted(i) PROVE [Ladder!Next]_Ladder!vars
<1> DEFINE o == orders[i]
<1>1. InQueue(i) /\ o.goneForPrint /\ Become(i, PrintedToggled(o))
  BY DEF TogglePrinted
<1>2. o \in Order /\ Climbed(o) /\ rungs[i] = RungOf(o)
  BY <1>1, OnLadder
<1>3. Moves(i, RungOf(PrintedToggled(o)))
  BY <1>1, <1>2, MovesOrder, Handled, MarkUntouched
<1>4. CASE o.isPrinted
  <2>1. RungOf(PrintedToggled(o)) = 2 /\ rungs[i] \in 2 + 1 .. 3
    BY <1>1, <1>2, <1>4, HandledRungs
  <2> QED
    BY <1>3, <2>1, FallMoves
<1>5. CASE ~o.isPrinted
  <2>1. RungOf(PrintedToggled(o)) = rungs[i] + 1 /\ rungs[i] \in 0 .. 2
    BY <1>1, <1>2, <1>5, HandledRungs
  <2> QED
    BY <1>3, <2>1, ClimbMoves
<1> QED
  BY <1>4, <1>5

(* Fitting is no rung: its cells, the assignment and the vouchers stutter. *)
LEMMA FittingOnLadder ==
  ASSUME IInv, NEW i \in OrderId, SetWithoutFitting(i) \/ ToggleFittingDone(i) \/ ResetFitting(i)
  PROVE  [Ladder!Next]_Ladder!vars
<1> DEFINE o == orders[i]
<1>1. InQueue(i)
  BY DEF SetWithoutFitting, ToggleFittingDone, ResetFitting
<1>2. o \in Order /\ Climbed(o) /\ rungs[i] = RungOf(o)
  BY <1>1, OnLadder
<1>3. PICK p \in Order : /\ Become(i, p) /\ p.orderReady = o.orderReady
                         /\ RungOf(p) = RungOf(o)
  BY <1>2, HandledFitting, MarkUntouched, HandledFittingRungs
     DEF SetWithoutFitting, ToggleFittingDone, ResetFitting
<1> QED
  BY <1>1, <1>2, <1>3, MovesOrder, MovesNowhere

LEMMA AssignOnLadder ==
  ASSUME IInv, dialog.kind = "assign", NEW to \in Contractor \cup {"mix"}, NEW ledgers,
         Assign(dialog.order, to, ledgers)
  PROVE  [Ladder!Next]_Ladder!vars
<1> DEFINE i == dialog.order
           o == orders[i]
           p == Assigned(o, to)
<1>1. i \in OrderId /\ InQueue(i)
  BY DEF IInv, TypeOK, DialogInv, Dialog
<1>2. o \in Order /\ Climbed(o) /\ rungs[i] = RungOf(o)
  BY <1>1, OnLadder
<1>3. p \in Order /\ p.orderReady = o.orderReady /\ RungOf(p) = RungOf(o)
  BY <1>2, HandledAssign, HandledFittingRungs
<1>4. Become(i, p)
  BY <1>1 DEF Assign
<1> QED
  BY <1>1, <1>2, <1>3, <1>4, MovesOrder, MovesNowhere

LEMMA VoucherOnLadder ==
  ASSUME IInv, NEW v \in vouchers, MarkVoucherComplete(v) PROVE [Ladder!Next]_Ladder!vars
<1> DEFINE i == v.orderId
           o == orders[i]
<1>1. i \in OrderId /\ InQueue(i)
  BY DEF IInv, TypeOK, VouchersHaveOrders, Voucher
<1>2. o \in Order /\ Climbed(o) /\ rungs[i] = RungOf(o)
  BY <1>1, OnLadder
<1>3. /\ Fitted(o) \in Order /\ Fitted(o).orderReady = o.orderReady
      /\ RungOf(Fitted(o)) = RungOf(o)
  BY <1>2, HandledAssign, MarkUntouched, HandledFittingRungs DEF Contractor
<1>4. Become(i, Fitted(o))
  BY <1>1 DEF MarkVoucherComplete, Become, InQueue
<1> QED
  BY <1>1, <1>2, <1>3, <1>4, MovesOrder, MovesNowhere

(* The status cell marks an order complete or reopens it.                  *)
LEMMA StatusOnLadder ==
  ASSUME IInv, NEW i \in OrderId, CycleOrderStatus(i) PROVE [Ladder!Next]_Ladder!vars
<1> DEFINE o == orders[i]
           p == StatusCycled(o)
<1>1. InQueue(i) /\ Become(i, p)
  BY DEF CycleOrderStatus
<1>2. o \in Order /\ Climbed(o) /\ rungs[i] = RungOf(o) /\ rungs[i] \in 0 .. 3
  BY <1>1, OnLadder
<1>3. p \in Order
  BY <1>2, HandledFitting
<1>4. /\ rungs' = [rungs EXCEPT ![i] = RungOf(p)]
      /\ Complete' = IF p.orderReady THEN Complete \cup {i} ELSE Complete \ {i}
  BY <1>1, <1>3, Moved DEF IInv
<1>5. CASE o.orderReady
  <2>1. rungs' = rungs /\ Complete' = Complete \ {i}
    BY <1>2, <1>4, <1>5, HandledStatus DEF rungs
  <2> QED
    BY <2>1 DEF rungs, Ladder!Next, Ladder!Reopen
<1>6. CASE ~o.orderReady
  <2>1. rungs' = [rungs EXCEPT ![i] = 3] /\ Complete' = Complete \cup {i}
    BY <1>2, <1>4, <1>6, HandledStatus
  <2>2. i \in Ladder!Queue
    BY <1>2 DEF rungs, Ladder!Queue, Ladder!Absent
  <2> QED
    BY <2>1, <2>2 DEF rungs, Ladder!Next, Ladder!MarkComplete
<1> QED
  BY <1>5, <1>6

(* An order enters on the lowest rung, and leaves unless it is complete.   *)
LEMMA PlaceOnLadder ==
  ASSUME IInv, NEW i \in OrderId, Place(i) PROVE [Ladder!Next]_Ladder!vars
<1>1. ~InQueue(i) /\ Become(i, NewOrder) /\ NewOrder \in Order
  BY NewOrders DEF Place
<1>2. RungOf(NewOrder) = 0 /\ ~NewOrder.orderReady
  BY DEF NewOrder, RungOf
<1>3. rungs' = [rungs EXCEPT ![i] = 0] /\ Complete' = Complete \ {i}
  BY <1>1, <1>2, Moved DEF IInv
<1>4. i \notin Complete /\ rungs[i] = 4
  BY <1>1 DEF Complete, rungs, Rung
<1> QED
  BY <1>3, <1>4 DEF rungs, Ladder!Next, Ladder!Enter, Ladder!Absent

LEMMA DeleteOnLadder ==
  ASSUME IInv, ConfirmDelete PROVE [Ladder!Next]_Ladder!vars
<1> DEFINE i == dialog.order
<1>1. i \in OrderId
  BY DEF ConfirmDelete, IInv, TypeOK, Dialog
<1>2. CASE UNCHANGED orders
  BY <1>2, Stutters DEF rungs, Rung, Complete, InQueue
<1>3. CASE Become(i, NONE) /\ ~(InQueue(i) /\ orders[i].orderReady)
  <2>1. \A j \in OrderId : orders'[j] = IF j = i THEN NONE ELSE orders[j]
    BY <1>1, <1>3, Written DEF IInv
  <2>2. \A j \in OrderId : Rung(j)' = IF j = i THEN 4 ELSE Rung(j)
    BY <2>1 DEF Rung, InQueue
  <2>3. rungs' = [rungs EXCEPT ![i] = 4]
    <3>1. rungs' = [j \in OrderId |-> Rung(j)'] /\ rungs = [j \in OrderId |-> Rung(j)]
      BY DEF rungs
    <3> HIDE DEF rungs
    <3> QED
      BY <2>2, <3>1
  <2>4. i \notin Complete /\ Complete' = Complete
    BY <1>3, <2>1 DEF Complete, InQueue
  <2>5. CASE InQueue(i)
    <3>1. i \in Ladder!Queue
      BY <1>1, <2>5, OnLadder DEF rungs, Ladder!Queue, Ladder!Absent
    <3> QED
      BY <1>1, <2>3, <2>4, <3>1 DEF rungs, Ladder!Next, Ladder!Leave, Ladder!Absent
  <2>6. CASE ~InQueue(i)
    <3>1. rungs' = rungs
      BY <1>1, <2>3, <2>6 DEF rungs, Rung
    <3> QED
      BY <2>4, <3>1, Stutters
  <2> QED
    BY <2>5, <2>6
<1> QED
  BY <1>2, <1>3 DEF ConfirmDelete

(* The built-in orders are printed, and a queue is refilled when empty.    *)
LEMMA SeedsOnLadder ==
  ASSUME NEW b, b = SeedBook
  PROVE  \A i \in OrderId : b[i] # NONE => RungOf(b[i]) = 3
BY DEF SeedBook, SeedOrder, RungOf

LEMMA RestartOnLadder ==
  ASSUME IInv, Restart PROVE [Ladder!Next]_Ladder!vars
<1>1. CASE UNCHANGED orders
  BY <1>1, Stutters DEF rungs, Rung, Complete, InQueue
<1>2. CASE orders' = SeedBook /\ ~\E i \in OrderId : InQueue(i)
  <2>1. \A i \in OrderId : Rung(i)' \in {3, 4}
    BY <1>2, SeedsOnLadder DEF Rung, RungOf, InQueue
  <2>2. rungs' \in [OrderId -> {3, 4}]
    BY <2>1 DEF rungs
  <2>3. Complete' \subseteq {i \in OrderId : rungs'[i] # 4}
    BY <1>2, <2>1 DEF Complete, rungs, Rung, InQueue
  <2>4. Ladder!Queue = {}
    BY <1>2 DEF Ladder!Queue, Ladder!Absent, Rung
  <2> QED
    BY <2>2, <2>3, <2>4 DEF rungs, Ladder!Next, Ladder!Refill, Ladder!Absent
<1> QED
  BY <1>1, <1>2 DEF Restart

LEMMA InitOnLadder == Init => Ladder!Init
<1> SUFFICES ASSUME Init PROVE Ladder!Init
  OBVIOUS
<1>1. orders = SeedBook
  BY DEF Init
<1>2. \A i \in OrderId : Rung(i) \in {3, 4} /\ (InQueue(i) => Rung(i) = 3)
  BY <1>1, SeedsOnLadder DEF Rung, RungOf, InQueue
<1> QED
  BY <1>2 DEF Complete, Ladder!Init, Ladder!Queue, Ladder!Absent

LEMMA StepOnLadder == IInv /\ [Next]_vars => [Ladder!Next]_Ladder!vars
<1> SUFFICES ASSUME IInv, [Next]_vars PROVE [Ladder!Next]_Ladder!vars
  OBVIOUS
<1>1. ASSUME UNCHANGED orders PROVE [Ladder!Next]_Ladder!vars
  BY <1>1, Stutters DEF rungs, Rung, Complete, InQueue
<1>2. ASSUME NEW i \in OrderId, GiveToLabour(i) \/ ReassignLabour(i) \/ OpenDelete(i)
      PROVE  [Ladder!Next]_Ladder!vars
  BY <1>1, <1>2 DEF GiveToLabour, ReassignLabour, OpenLabourAssignment, OpenDelete
<1>3. ASSUME NEW pin \in {"wrong", "right"}, EnterPin(pin) \/ Cancel
      PROVE  [Ladder!Next]_Ladder!vars
  BY <1>1, <1>3 DEF EnterPin, Cancel
<1>4. ASSUME NEW c \in Contractor, ConfirmSingle(c) PROVE [Ladder!Next]_Ladder!vars
  BY <1>4, AssignOnLadder DEF ConfirmSingle
<1>5. ASSUME NEW split \in SUBSET Worker, ConfirmMix(split) PROVE [Ladder!Next]_Ladder!vars
  BY <1>5, AssignOnLadder DEF ConfirmMix
<1>6. CASE UNCHANGED vars
  BY <1>1, <1>6 DEF vars
<1> QED
  BY <1>2, <1>3, <1>4, <1>5, <1>6, DesignOnLadder, PrintOnLadder, PrintedOnLadder, FittingOnLadder,
     StatusOnLadder, PlaceOnLadder, DeleteOnLadder, VoucherOnLadder, RestartOnLadder DEF Next

(* The queue implements the ladder of steps: whatever is clicked, an order *)
(* climbs one step at a time, skips steps only when it is marked complete, *)
(* and does not leave while it is.                                         *)
THEOREM QueueClimbsLadder == Spec => ClimbsLadder
BY InitOnLadder, StepOnLadder, InductiveInvariant, PTL DEF Spec, ClimbsLadder, Ladder!Spec

(***************************************************************************)
(* Stock. The drawer's copy starts as the item's figures and is changed by *)
(* the same amounts; no other dialog or cell is reachable while it is open.*)
(***************************************************************************)
DeskInv == StockTypeOK /\ issuing \in BOOLEAN /\ DrawerShowsStock /\ (issuing => desk.kind = "none")

LEMMA NoDeskIsDesk == NoDesk \in Desk /\ NoDesk.kind = "none"
BY StockAssumption DEF NoDesk, Desk, Initial, Stock

LEMMA DeskInit == MaterialInit => DeskInv
<1> SUFFICES ASSUME MaterialInit PROVE DeskInv
  OBVIOUS
<1>1. items \in Seq(Item) /\ moves \in 0 .. MaxMoves
  BY StockAssumption DEF MaterialInit, StockInit
<1>2. Initial \in Stock /\ [added |-> 0, taken |-> 0] \in Log
  BY DEF Initial, Stock, Log
<1>3. stock \in [Item -> Stock] /\ moved \in [Item -> Log]
  BY <1>2 DEF MaterialInit, StockInit
<1>4. desk \in Desk /\ desk.kind = "none"
  BY NoDeskIsDesk DEF MaterialInit, StockInit
<1> QED
  BY <1>1, <1>3, <1>4 DEF MaterialInit, DeskInv, StockTypeOK, DrawerShowsStock

(* An adjustment moves integers; to the drawer's copy a usage is the same. *)
LEMMA Adjusting ==
  ASSUME NEW s \in Stock, NEW delta \in Int
  PROVE  /\ Adjusted(s, delta) \in Stock
         /\ \A q \in Int : q >= 1 /\ delta = -q =>
               Adjusted(s, delta) = [available |-> AtLeastZero(s.available - q), used |-> s.used + q]
BY DEF Adjusted, AtLeastZero, Stock

LEMMA AdjustStep ==
  ASSUME StockTypeOK, NEW i \in Item, NEW delta \in Int, AdjustStock(i, delta),
         UNCHANGED items, desk' \in Desk
  PROVE  StockTypeOK' /\ stock'[i] = Adjusted(stock[i], delta)
<1>1. stock[i] \in Stock /\ moved[i] \in Log
  BY DEF StockTypeOK
<1>2. Adjusted(stock[i], delta) \in Stock
  BY <1>1, Adjusting
<1>3. stock' = [stock EXCEPT ![i] = Adjusted(stock[i], delta)]
  BY DEF AdjustStock
<1>4. stock' \in [Item -> Stock] /\ stock'[i] = Adjusted(stock[i], delta)
  BY <1>2, <1>3 DEF StockTypeOK
<1>5. moved' \in [Item -> Log]
  <2>1. Logged(moved[i], delta) \in Log
    BY <1>1 DEF Logged, Log
  <2>2. moved' = [moved EXCEPT ![i] = Logged(moved[i], delta)]
    BY DEF AdjustStock
  <2> QED
    BY <2>1, <2>2 DEF StockTypeOK
<1>6. moves' \in 0 .. MaxMoves
  BY StockAssumption DEF AdjustStock, StockTypeOK
<1> QED
  BY <1>4, <1>5, <1>6 DEF StockTypeOK

LEMMA StockStep ==
  ASSUME DeskInv, StockNext, ~issuing, UNCHANGED issuing PROVE DeskInv'
<1>1. Listed \subseteq Item /\ Quantity \subseteq Int
  BY StockAssumption DEF DeskInv, StockTypeOK, Listed
<1>2. ASSUME NEW i \in Item, NEW kind \in {"add", "usage", "new"}, OpenDesk(kind, i) PROVE DeskInv'
  BY <1>2 DEF OpenDesk, DeskInv, StockTypeOK, DrawerShowsStock, Desk
<1>3. ASSUME NEW i \in Item, CreateNewItem(i) PROVE DeskInv'
  BY <1>3, NoDeskIsDesk DEF CreateNewItem, DeskInv, StockTypeOK, DrawerShowsStock
<1>4. ASSUME NEW i \in Item, NEW field \in {"available", "used"}, NEW n \in Quantity,
             SaveEdit(i, field, n)
      PROVE  DeskInv'
  <2>1. stock' \in [Item -> Stock]
    BY <1>1, <1>4 DEF SaveEdit, DeskInv, StockTypeOK, Stock
  <2>2. moves' \in 0 .. MaxMoves
    BY <1>4, StockAssumption DEF SaveEdit, DeskInv, StockTypeOK
  <2> QED
    BY <1>4, <2>1, <2>2 DEF SaveEdit, DeskInv, StockTypeOK, DrawerShowsStock
<1>5. CASE CloseDesk \/ ReloadStock
  BY <1>5, NoDeskIsDesk DEF CloseDesk, ReloadStock, DeskInv, StockTypeOK, DrawerShowsStock
<1>6. ASSUME NEW q \in Quantity, ConfirmAddStock(q) PROVE DeskInv'
  <2>1. desk.item \in Item /\ q \in Int /\ AdjustStock(desk.item, q) /\ UNCHANGED items /\ desk' = NoDesk
    BY <1>1, <1>6 DEF ConfirmAddStock, DeskInv, StockTypeOK, Desk
  <2>2. StockTypeOK'
    BY <2>1, NoDeskIsDesk, AdjustStep DEF DeskInv
  <2> QED
    BY <2>1, <2>2, NoDeskIsDesk DEF DeskInv, DrawerShowsStock
<1>7. ASSUME NEW q \in Quantity, ConfirmLogUsage(q) PROVE DeskInv'
  <2> DEFINE i == desk.item
  <2>1. /\ i \in Item /\ q \in Int /\ -q \in Int /\ q >= 1 /\ AdjustStock(i, -q)
        /\ UNCHANGED items
        /\ desk' = [desk EXCEPT !.card = CardAfterUsage(q)] /\ desk.kind = "usage" /\ desk \in Desk
    BY <1>1, <1>7 DEF ConfirmLogUsage, DeskInv, StockTypeOK, Desk
  <2>2. desk.card = stock[i] /\ stock[i] \in Stock
    BY <2>1 DEF DeskInv, DrawerShowsStock, StockTypeOK
  <2>3. CardAfterUsage(q) = Adjusted(stock[i], -q)
    BY <2>1, <2>2, Adjusting DEF CardAfterUsage
  <2>4. Adjusted(stock[i], -q) \in Stock
    BY <2>1, <2>2, Adjusting
  <2>5. desk' \in Desk /\ desk'.item = i /\ desk'.card = Adjusted(stock[i], -q)
    BY <2>1, <2>3, <2>4 DEF Desk
  <2>6. StockTypeOK' /\ stock'[i] = Adjusted(stock[i], -q)
    BY <2>1, <2>5, AdjustStep DEF DeskInv
  <2> QED
    BY <2>5, <2>6 DEF DeskInv, DrawerShowsStock
<1> QED
  BY <1>2, <1>3, <1>4, <1>5, <1>6, <1>7 DEF StockNext

LEMMA IssueStep ==
  ASSUME DeskInv, NEW code \in Code, NEW q \in Quantity, ConfirmIssue(code, q) PROVE DeskInv'
<1>1. q \in Int /\ -q \in Int /\ desk.kind = "none" /\ desk \in Desk /\ issuing' = FALSE
  BY StockAssumption DEF ConfirmIssue, DeskInv, StockTypeOK
<1>2. CASE FirstMatch(code) # {}
  <2>1. PICK i \in FirstMatch(code) : AdjustStock(i, -q)
    BY <1>2 DEF ConfirmIssue, Deduct
  <2>2. UNCHANGED <<items, desk>>
    BY <1>2 DEF ConfirmIssue, Deduct
  <2>3. i \in Item
    <3>1. \A k \in DOMAIN items : items[k] \in Item
      BY DEF DeskInv, StockTypeOK
    <3>2. \A c \in DOMAIN Fallback : Fallback[c] \in Item
      BY StockAssumption
    <3> QED
      BY <3>1, <3>2 DEF FirstMatch
  <2> QED
    BY <1>1, <2>1, <2>2, <2>3, AdjustStep DEF DeskInv, DrawerShowsStock
<1>3. CASE FirstMatch(code) = {}
  <2>1. moves' = moves + 1 /\ moves < MaxMoves /\ UNCHANGED <<items, stock, moved, desk>>
    BY <1>3 DEF ConfirmIssue, Deduct
  <2>2. moves' \in 0 .. MaxMoves
    BY <2>1, StockAssumption DEF DeskInv, StockTypeOK
  <2>3. StockTypeOK'
    BY <2>1, <2>2 DEF DeskInv, StockTypeOK
  <2> QED
    BY <1>1, <2>1, <2>3 DEF DeskInv, DrawerShowsStock
<1> QED
  BY <1>2, <1>3

LEMMA DeskNext == DeskInv /\ [MaterialNext]_materialVars => DeskInv'
<1> SUFFICES ASSUME DeskInv, [MaterialNext]_materialVars PROVE DeskInv'
  OBVIOUS
<1>1. ASSUME UNCHANGED stockVars, issuing' \in BOOLEAN, issuing' => desk.kind = "none" PROVE DeskInv'
  BY <1>1 DEF stockVars, DeskInv, StockTypeOK, DrawerShowsStock
<1>2. ASSUME NEW c \in Labourer, SelectContractor(c) PROVE DeskInv'
  BY <1>1, <1>2 DEF SelectContractor, DeskInv
<1>3. CASE OpenIssue \/ CloseIssue
  BY <1>1, <1>3 DEF OpenIssue, CloseIssue, DeskClear
<1>4. CASE UNCHANGED materialVars
  BY <1>1, <1>4 DEF materialVars, DeskInv
<1> QED
  BY <1>2, <1>3, <1>4, StockStep, IssueStep DEF MaterialNext

(* Whatever is typed into forms and cells and issued to contractors, the   *)
(* card of an open usage drawer shows what the stock book holds.           *)
THEOREM DrawerKeepsStep == MaterialSpec => []DrawerShowsStock
<1>1. DeskInv => DrawerShowsStock
  BY DEF DeskInv
<1> QED
  BY <1>1, DeskInit, DeskNext, PTL DEF MaterialSpec

(***************************************************************************)
(* Material. What is issued of a stocked code is deducted from an item,    *)
(* because the built-in items never leave the list: one of them answers    *)
(* for the code, or is its fallback. The log is never taken back, so it    *)
(* keeps covering the lists of all contractors.                            *)
(***************************************************************************)
SentTyped == sent \in [Labourer -> [Code -> Nat]] /\ selected \in Labourer

BuiltInStay == \A k \in DOMAIN BuiltIn : BuiltIn[k] \in Listed

SentInv == SentTyped /\ BuiltInStay /\ SentIsLogged

TakenIn(m) == [i \in Item |-> m[i].taken]
SentIn(s) == [c \in Labourer |-> SumFunctionOnSet(s[c], Stocked)]

Taken == TakenIn(moved)
SentSums == SentIn(sent)

LEMMA StockedCodes == Stocked \subseteq Code
BY StockAssumption DEF Stocked

LEMMA FirstMatches ==
  ASSUME StockTypeOK, BuiltInStay, NEW code \in Stocked
  PROVE  FirstMatch(code) # {}
<1> DEFINE matches == {n \in DOMAIN items : code \in Answers[items[n]]}
<1>1. CASE matches # {}
  <2>1. matches \subseteq Nat
    BY DEF StockTypeOK
  <2>2. PICK n \in matches : \A m \in matches : n <= m
    BY <1>1, <2>1, LeastNatural
  <2> QED
    BY <1>1, <2>2 DEF FirstMatch
<1>2. CASE matches = {}
  <2>1. \A k \in DOMAIN BuiltIn : code \notin Answers[BuiltIn[k]]
    BY <1>2 DEF BuiltInStay, Listed
  <2>2. code \in DOMAIN Fallback
    BY <2>1 DEF Stocked
  <2> QED
    BY <1>2, <2>2 DEF FirstMatch
<1> QED
  BY <1>1, <1>2

(* The sums that are compared are sums of integers.                        *)
LEMMA SumsTyped ==
  ASSUME NEW m \in [Item -> Log], NEW s \in [Labourer -> [Code -> Nat]]
  PROVE  /\ TakenIn(m) \in [Item -> Int] /\ SentIn(s) \in [Labourer -> Int]
         /\ SumFunction(TakenIn(m)) \in Int /\ SumFunction(SentIn(s)) \in Int
<1>1. \A i \in Item : m[i].taken \in Int
  BY DEF Log
<1>2. TakenIn(m) \in [Item -> Int]
  BY <1>1 DEF TakenIn
<1>3. ASSUME NEW c \in Labourer PROVE SumFunctionOnSet(s[c], Stocked) \in Int
  <2>1. s[c] \in [Code -> Int] /\ IsFiniteSet(Code)
    BY MaterialAssumption
  <2> QED
    BY <2>1, StockedCodes, SumType
<1>4. SentIn(s) \in [Labourer -> Int]
  BY <1>3 DEF SentIn
<1> QED
  BY <1>2, <1>4, SumTyped, MaterialAssumption

LEMMA SentIsLess == SentIsLogged <=> SumFunction(SentSums) <= SumFunction(Taken)
BY DEF SentIsLogged, SentSums, SentIn, SentTo, Taken, TakenIn

LEMMA SentIsLessNext == SumFunction(SentSums)' <= SumFunction(Taken)' => SentIsLogged'
BY DEF SentIsLogged, SentSums, SentIn, SentTo, Taken, TakenIn

(* Whatever the stock page does, no usage leaves the log, and no item the  *)
(* list.                                                                   *)
LEMMA LoggingGrows ==
  ASSUME NEW l \in Log, NEW delta \in Int
  PROVE  /\ Logged(l, delta).taken \in Int /\ l.taken \in Int
         /\ l.taken <= Logged(l, delta).taken
         /\ delta < 0 => Logged(l, delta).taken = l.taken - delta
BY DEF Logged, Log

LEMMA StockGrows ==
  ASSUME StockTypeOK, StockNext
  PROVE  /\ \A i \in Item : moved[i].taken <= moved'[i].taken
         /\ \A i \in Listed : i \in Listed'
<1> DEFINE Goal == /\ \A i \in Item : moved[i].taken <= moved'[i].taken
                   /\ \A i \in Listed : i \in Listed'
<1>1. \A i \in Item : moved[i] \in Log /\ moved[i].taken \in Int
  BY DEF StockTypeOK, Log
<1>2. ASSUME UNCHANGED <<items, moved>> PROVE Goal
  BY <1>1, <1>2 DEF Listed
<1>3. ASSUME NEW i \in Item, NEW delta \in Int, AdjustStock(i, delta), UNCHANGED items PROVE Goal
  <2>1. moved[i].taken <= Logged(moved[i], delta).taken
    BY <1>1, LoggingGrows
  <2>2. \A j \in Item : moved'[j] = IF j = i THEN Logged(moved[i], delta) ELSE moved[j]
    BY <1>3 DEF AdjustStock, StockTypeOK
  <2>3. \A j \in Item : moved[j].taken <= moved'[j].taken
    BY <1>1, <2>1, <2>2
  <2> QED
    BY <1>3, <2>3 DEF Listed
<1>4. ASSUME NEW i \in Item, CreateNewItem(i) PROVE Goal
  <2>1. items \in Seq(Item) /\ items' = <<i>> \o items /\ UNCHANGED moved
    BY <1>4 DEF CreateNewItem, StockTypeOK
  <2>2. \A k \in DOMAIN items : k + 1 \in DOMAIN items' /\ items'[k + 1] = items[k]
    BY <2>1
  <2>3. \A j \in Listed : j \in Listed'
    BY <2>2 DEF Listed
  <2> QED
    BY <1>1, <2>1, <2>3
<1>5. Quantity \subseteq Int /\ desk.item \in Item
  BY StockAssumption DEF StockTypeOK, Desk
<1>6. ASSUME NEW q \in Quantity, ConfirmAddStock(q) \/ ConfirmLogUsage(q) PROVE Goal
  <2>1. q \in Int /\ -q \in Int
    BY <1>5
  <2> HIDE DEF Goal
  <2> QED
    BY <1>3, <1>5, <1>6, <2>1 DEF ConfirmAddStock, ConfirmLogUsage
<1>7. ASSUME NEW i \in Item, NEW kind, OpenDesk(kind, i) PROVE Goal
  BY <1>2, <1>7 DEF OpenDesk
<1>8. ASSUME NEW i \in Item, NEW field, NEW n, SaveEdit(i, field, n) PROVE Goal
  BY <1>2, <1>8 DEF SaveEdit
<1>9. ASSUME CloseDesk \/ ReloadStock PROVE Goal
  BY <1>2, <1>9 DEF CloseDesk, ReloadStock
<1> HIDE DEF Goal
<1>10. Goal
  BY <1>4, <1>6, <1>7, <1>8, <1>9 DEF StockNext
<1> QED
  BY <1>10 DEF Goal

LEMMA SentStarts == MaterialInit => SentInv
<1> SUFFICES ASSUME MaterialInit PROVE SentInv
  OBVIOUS
<1>1. SentTyped /\ StockTypeOK
  <2>1. SentTyped
    BY MaterialAssumption DEF MaterialInit, SentTyped
  <2> QED
    BY <2>1, DeskInit DEF DeskInv
<1>2. BuiltInStay
  BY DEF MaterialInit, StockInit, BuiltInStay, Listed
<1>3. SumFunction(Taken) = 0
  <2>1. Taken = [i \in Item |-> 0]
    BY DEF MaterialInit, StockInit, Taken, TakenIn
  <2> QED
    BY <2>1, SumZero, MaterialAssumption
<1>4. SumFunction(SentSums) <= 0
  <2> DEFINE none == [code \in Code |-> 0]
  <2>1. none \in [Code -> Int] /\ IsFiniteSet(Code) /\ \A c \in Labourer : sent[c] = none
    BY MaterialAssumption DEF MaterialInit
  <2>2. SumFunctionOnSet(none, Stocked) = 0
    <3>1. Stocked \in SUBSET Code /\ IsFiniteSet(Stocked)
      BY <2>1, StockedCodes, FS_Subset
    <3> QED
      BY <2>1, <3>1, SumZeroOn
  <2>3. SentSums = [c \in Labourer |-> 0]
    BY <2>1, <2>2 DEF SentSums, SentIn
  <2> QED
    BY <2>3, SumZero, MaterialAssumption
<1> QED
  BY <1>1, <1>2, <1>3, <1>4, SentIsLess DEF SentInv

LEMMA SentIssue ==
  ASSUME StockTypeOK, SentInv, NEW code \in Code, NEW q \in Quantity, ConfirmIssue(code, q),
         StockTypeOK'
  PROVE  SentInv'
<1>1. q \in Int /\ q > 0 /\ -q \in Int /\ -q < 0 /\ IsFiniteSet(Code) /\ IsFiniteSet(Item)
      /\ IsFiniteSet(Labourer)
  BY StockAssumption, MaterialAssumption DEF ConfirmIssue
<1>2. /\ sent \in [Labourer -> [Code -> Nat]] /\ selected \in Labourer /\ selected' = selected
      /\ sent' = [sent EXCEPT ![selected][code] = @ + q] /\ UNCHANGED items
  BY DEF SentInv, SentTyped, ConfirmIssue, Deduct
<1>3. sent[selected][code] + q \in Nat
  BY <1>1, <1>2
<1>4. SentTyped' /\ BuiltInStay'
  BY <1>2, <1>3 DEF SentTyped, SentInv, BuiltInStay, Listed
<1>5. /\ Taken \in [Item -> Int] /\ SentSums \in [Labourer -> Int]
      /\ SumFunction(Taken) \in Int /\ SumFunction(SentSums) \in Int
      /\ SumFunction(SentSums) <= SumFunction(Taken)
  BY SumsTyped, SentIsLess DEF SentInv, SentTyped, StockTypeOK, Taken, SentSums
<1>6. /\ Taken' \in [Item -> Int] /\ SentSums' \in [Labourer -> Int]
      /\ SumFunction(Taken)' \in Int /\ SumFunction(SentSums)' \in Int
  BY <1>4, SumsTyped DEF SentTyped, StockTypeOK, Taken, SentSums
<1> DEFINE f == sent[selected]
           g == sent'[selected]
           more == IF code \in Stocked THEN q ELSE 0
<1>7. /\ f \in [Code -> Int] /\ g \in [Code -> Int] /\ g[code] = f[code] + q
      /\ \A d \in Code \ {code} : g[d] = f[d]
      /\ \A c \in Labourer \ {selected} : sent'[c] = sent[c]
  BY <1>2, <1>3
<1>8. SentTo(selected)' = SentTo(selected) + more
  <2>0. SentTo(selected)' = SumFunctionOnSet(g, Stocked) /\ SentTo(selected) = SumFunctionOnSet(f, Stocked)
    BY <1>2 DEF SentTo
  <2> HIDE DEF f, g
  <2>1. /\ code \in Stocked => SumFunctionOnSet(g, Stocked) = SumFunctionOnSet(f, Stocked) + g[code] - f[code]
        /\ code \notin Stocked => SumFunctionOnSet(g, Stocked) = SumFunctionOnSet(f, Stocked)
    BY <1>1, <1>7, StockedCodes, SumUpdateOn
  <2>2. SumFunctionOnSet(f, Stocked) \in Int /\ f[code] \in Int
    BY <1>1, <1>7, StockedCodes, SumType
  <2> QED
    BY <1>1, <1>7, <2>0, <2>1, <2>2
<1>9. SumFunction(SentSums)' = SumFunction(SentSums) + more
  <2> DEFINE a == SentSums
             b == SentSums'
  <2>1. /\ a \in [Labourer -> Int] /\ b \in [Labourer -> Int]
        /\ b[selected] = a[selected] + more /\ \A c \in Labourer \ {selected} : b[c] = a[c]
    BY <1>2, <1>5, <1>6, <1>7, <1>8 DEF SentSums, SentIn, SentTo
  <2>0. selected \in Labourer /\ IsFiniteSet(Labourer)
    BY <1>1, <1>2
  <2> HIDE DEF a, b, f, g, more
  <2>2. SumFunction(b) = SumFunction(a) + b[selected] - a[selected]
    BY <2>0, <2>1, SumUpdate
  <2>3. SumFunction(a) \in Int /\ a[selected] \in Int /\ more \in Int
    BY <1>1, <1>5, <2>0, <2>1 DEF a, more
  <2>4. SumFunction(b) = SumFunction(a) + more
    BY <2>1, <2>2, <2>3
  <2> QED
    BY <2>4 DEF a, b
<1>10. SumFunction(Taken) + more <= SumFunction(Taken)'
  <2>1. CASE FirstMatch(code) # {}
    <3>1. PICK i \in FirstMatch(code) : AdjustStock(i, -q)
      BY <2>1 DEF ConfirmIssue, Deduct
    <3>2. i \in Item
      <4>1. \A k \in DOMAIN items : items[k] \in Item
        BY DEF StockTypeOK
      <4>2. \A c \in DOMAIN Fallback : Fallback[c] \in Item
        BY StockAssumption
      <4> QED
        BY <4>1, <4>2 DEF FirstMatch
    <3>3. moved[i] \in Log /\ moved'[i] = Logged(moved[i], -q)
          /\ \A j \in Item \ {i} : moved'[j] = moved[j]
      BY <3>1, <3>2 DEF AdjustStock, StockTypeOK
    <3> DEFINE a == Taken
               b == Taken'
    <3>4. /\ a \in [Item -> Int] /\ b \in [Item -> Int]
          /\ b[i] = a[i] - (-q) /\ \A j \in Item \ {i} : b[j] = a[j]
      BY <1>1, <1>5, <1>6, <3>2, <3>3, LoggingGrows DEF Taken, TakenIn
    <3> HIDE DEF a, b
    <3>5. SumFunction(b) = SumFunction(a) + b[i] - a[i]
      BY <1>1, <3>2, <3>4, SumUpdate
    <3>6. SumFunction(a) \in Int /\ a[i] \in Int
      BY <1>5, <3>2, <3>4 DEF a
    <3>7. SumFunction(a) + more <= SumFunction(b)
      BY <1>1, <3>4, <3>5, <3>6
    <3> QED
      BY <3>7 DEF a, b
  <2>2. CASE FirstMatch(code) = {}
    <3>1. Taken' = Taken
      BY <2>2 DEF ConfirmIssue, Deduct, Taken, TakenIn
    <3>2. code \notin Stocked
      BY <2>2, FirstMatches DEF SentInv
    <3> QED
      BY <1>5, <3>1, <3>2
  <2> QED
    BY <2>1, <2>2
<1>11. SumFunction(SentSums)' <= SumFunction(Taken)'
  <2>1. more \in Int
    BY <1>1
  <2> HIDE DEF more
  <2> QED
    BY <1>5, <1>6, <1>9, <1>10, <2>1
<1> QED
  BY <1>4, <1>11, SentIsLessNext DEF SentInv

(* A step that issues nothing.                                             *)
LEMMA SentKept ==
  ASSUME StockTypeOK, SentInv, StockTypeOK', sent' = sent, selected' \in Labourer,
         StockNext \/ UNCHANGED stockVars
  PROVE  SentInv'
<1>1. /\ \A i \in Item : moved[i].taken <= moved'[i].taken
      /\ \A i \in Listed : i \in Listed'
  <2>1. CASE StockNext
    BY <2>1, StockGrows
  <2>2. CASE UNCHANGED stockVars
    <3>1. \A i \in Item : moved[i].taken \in Int
      BY DEF StockTypeOK, Log
    <3> QED
      BY <2>2, <3>1 DEF stockVars, Listed
  <2> QED
    BY <2>1, <2>2
<1>2. SentTyped' /\ BuiltInStay'
  BY <1>1 DEF SentInv, SentTyped, BuiltInStay
<1>3. SentSums' = SentSums
  BY DEF SentSums, SentIn
<1>4. /\ Taken \in [Item -> Int] /\ SumFunction(Taken) \in Int /\ SumFunction(SentSums) \in Int
      /\ Taken' \in [Item -> Int] /\ SumFunction(Taken)' \in Int
      /\ SumFunction(SentSums) <= SumFunction(Taken)
  BY <1>2, SumsTyped, SentIsLess DEF SentInv, SentTyped, StockTypeOK, Taken, SentSums
<1>5. SumFunction(Taken) <= SumFunction(Taken')
  <2> DEFINE a == Taken
             b == Taken'
  <2>1. a \in [Item -> Int] /\ b \in [Item -> Int] /\ \A i \in Item : a[i] <= b[i]
    BY <1>1, <1>4 DEF Taken, TakenIn
  <2> HIDE DEF a, b
  <2>2. SumFunction(a) <= SumFunction(b)
    BY <2>1, SumAtMost, MaterialAssumption
  <2> QED
    BY <2>2 DEF a, b
<1>6. SumFunction(SentSums)' <= SumFunction(Taken)'
  BY <1>3, <1>4, <1>5
<1> QED
  BY <1>2, <1>6, SentIsLessNext DEF SentInv

LEMMA SentNext == DeskInv /\ SentInv /\ [MaterialNext]_materialVars => SentInv'
<1> SUFFICES ASSUME DeskInv, SentInv, [MaterialNext]_materialVars PROVE SentInv'
  OBVIOUS
<1>1. StockTypeOK /\ StockTypeOK'
  BY DeskNext DEF DeskInv
<1>2. ASSUME NEW code \in Code, NEW q \in Quantity, ConfirmIssue(code, q) PROVE SentInv'
  BY <1>1, <1>2, SentIssue
<1>3. CASE StockNext /\ UNCHANGED <<sent, selected, issuing>>
  BY <1>1, <1>3, SentKept DEF SentInv, SentTyped
<1>4. ASSUME NEW c \in Labourer, SelectContractor(c) PROVE SentInv'
  BY <1>1, <1>4, SentKept DEF SelectContractor
<1>5. CASE OpenIssue \/ CloseIssue
  BY <1>1, <1>5, SentKept DEF OpenIssue, CloseIssue, SentInv, SentTyped
<1>6. CASE UNCHANGED materialVars
  BY <1>1, <1>6, SentKept DEF materialVars, SentInv, SentTyped
<1> QED
  BY <1>2, <1>3, <1>4, <1>5, <1>6 DEF MaterialNext

(* Whatever is in stock and whichever items are added or edited, what the  *)
(* ledgers say contractors were sent of stocked codes is in the movement   *)
(* log as taken.                                                           *)
THEOREM SentStaysLogged == MaterialSpec => []SentIsLogged
<1>1. SentInv => SentIsLogged
  BY DEF SentInv
<1> QED
  BY <1>1, DeskInit, DeskNext, SentStarts, SentNext, PTL DEF MaterialSpec

(***************************************************************************)
(* Vouchers. A registered voucher is numbered above every voucher of its   *)
(* ledger, typed or registered, and what an order's deletion leaves of a   *)
(* ledger are vouchers that were there, each of them once.                 *)
(***************************************************************************)
Differ(list) ==
    \A j, k \in DOMAIN list :
        list[j].orders # {} /\ list[k].orders # {} /\ list[j].no = list[k].no => j = k

LedgerInv == LedgerTypeOK /\ \A c \in Fitter : Differ(ledger[c])

LEMMA VouchersTyped ==
  ASSUME NEW list \in Seq(LedgerVoucher)
  PROVE  /\ Len(list) \in Nat /\ DOMAIN list = 1 .. Len(list)
         /\ \A k \in DOMAIN list : list[k] \in LedgerVoucher /\ list[k].no \in Nat
<1>1. \A k \in DOMAIN list : list[k] \in LedgerVoucher
  OBVIOUS
<1>2. \A v \in LedgerVoucher : v.no \in Nat
  BY DEF LedgerVoucher
<1> QED
  BY <1>1, <1>2

(* The number a registered voucher gets is above all others.               *)
LEMMA NumberIsNew ==
  ASSUME LedgerTypeOK, NEW c \in Fitter
  PROVE  /\ NextVoucherNo(c) \in Nat
         /\ \A k \in DOMAIN ledger[c] : ledger[c][k].no < NextVoucherNo(c)
<1> DEFINE list == ledger[c]
           numbers == {list[k].no : k \in DOMAIN list}
<1>1. list \in Seq(LedgerVoucher)
  BY DEF LedgerTypeOK
<1>2. numbers \in SUBSET Nat /\ IsFiniteSet(numbers)
  <2>1. IsFiniteSet(DOMAIN list)
    BY <1>1, VouchersTyped, FS_Interval
  <2> QED
    <3> DEFINE no == [k \in DOMAIN list |-> list[k].no]
    <3>1. no \in Surjection(DOMAIN list, numbers)
      BY DEF Surjection
    <3>2. IsFiniteSet(numbers)
      <4> HIDE DEF no, numbers
      <4> QED
        BY <2>1, <3>1, FS_Surjection
    <3> QED
      BY <1>1, <3>2, VouchersTyped
<1>3. CASE list = <<>>
  BY <1>3 DEF NextVoucherNo
<1>4. CASE list # <<>>
  <2>1. numbers # {}
    <3>1. 1 \in DOMAIN list
      BY <1>1, <1>4
    <3>2. list[1].no \in numbers
      BY <3>1
    <3> QED
      BY <3>2
  <2>2. \E m \in numbers : \A x \in numbers : x <= m
    BY <1>2, <2>1, GreatestNatural
  <2>3. Max(numbers) \in numbers /\ \A x \in numbers : x <= Max(numbers)
    <3>1. \E m \in numbers : \A x \in numbers : m >= x
      BY <1>2, <2>2
    <3>2. Max(numbers) \in numbers /\ \A x \in numbers : Max(numbers) >= x
      BY <3>1 DEF Max
    <3> QED
      BY <1>2, <3>2
  <2>4. NextVoucherNo(c) = Max(numbers) + 1
    BY <1>4 DEF NextVoucherNo
  <2>5. \A k \in DOMAIN list : list[k].no \in numbers
    OBVIOUS
  <2> DEFINE m == Max(numbers)
  <2>6. m \in Nat /\ \A k \in DOMAIN list : list[k].no \in Nat /\ list[k].no <= m
    BY <1>2, <2>3, <2>5
  <2> HIDE DEF m, numbers
  <2>7. NextVoucherNo(c) = m + 1
    BY <2>4 DEF m
  <2> QED
    BY <2>6, <2>7
<1> QED
  BY <1>3, <1>4

LEMMA VoucherWritten ==
  ASSUME NEW list \in Seq(LedgerVoucher), Differ(list), NEW v \in LedgerVoucher,
         v.orders # {} => \A k \in DOMAIN list : list[k].no < v.no
  PROVE  <<v>> \o list \in Seq(LedgerVoucher) /\ Differ(<<v>> \o list)
<1> DEFINE new == <<v>> \o list
<1>1. /\ new \in Seq(LedgerVoucher) /\ DOMAIN new = 1 .. Len(list) + 1
      /\ \A k \in 1 .. Len(list) + 1 : new[k] = IF k = 1 THEN v ELSE list[k - 1]
  OBVIOUS
<1> HIDE DEF new
<1>2. v.no \in Nat
  BY DEF LedgerVoucher
<1>3. ASSUME NEW j \in DOMAIN new, NEW k \in DOMAIN new,
             new[j].orders # {}, new[k].orders # {}, new[j].no = new[k].no
      PROVE  j = k
  <2>1. j # 1 => new[j] = list[j - 1] /\ j - 1 \in DOMAIN list /\ list[j - 1].no \in Nat
    BY <1>1, VouchersTyped
  <2>2. k # 1 => new[k] = list[k - 1] /\ k - 1 \in DOMAIN list /\ list[k - 1].no \in Nat
    BY <1>1, VouchersTyped
  <2>3. new[1] = v /\ j \in Int /\ k \in Int
    BY <1>1
  <2>4. ~(j = 1 /\ k # 1) /\ ~(j # 1 /\ k = 1)
    BY <1>2, <1>3, <2>1, <2>2, <2>3
  <2>5. CASE j # 1 /\ k # 1
    <3>1. j - 1 = k - 1
      BY <1>3, <2>1, <2>2, <2>5 DEF Differ
    <3> QED
      BY <2>3, <3>1
  <2> QED
    BY <2>4, <2>5
<1>4. Differ(new)
  BY <1>3 DEF Differ
<1> QED
  BY <1>1, <1>4 DEF new

(* The recursion of Without has a solution, step by step ...               *)
KeptOneMore(list, o, g, k) ==
    IF k = 0 THEN <<>>
    ELSE IF o \in list[k].orders THEN g[k - 1] ELSE Append(g[k - 1], list[k])

KeptUpto(list, o, g, n) == \A k \in 0 .. n : g[k] = KeptOneMore(list, o, g, k)

LEMMA KeptTyped ==
  ASSUME NEW list \in Seq(LedgerVoucher), NEW o,
         NEW g \in [0 .. Len(list) -> Seq(LedgerVoucher)], NEW k \in 0 .. Len(list)
  PROVE  KeptOneMore(list, o, g, k) \in Seq(LedgerVoucher)
<1>1. CASE k = 0
  BY <1>1 DEF KeptOneMore
<1>2. CASE k # 0
  <2>1. list[k] \in LedgerVoucher /\ g[k - 1] \in Seq(LedgerVoucher)
    BY <1>2
  <2> QED
    BY <1>2, <2>1 DEF KeptOneMore
<1> QED
  BY <1>1, <1>2

LEMMA KeptExists ==
  ASSUME NEW list \in Seq(LedgerVoucher), NEW o
  PROVE  \E g \in [0 .. Len(list) -> Seq(LedgerVoucher)] : KeptUpto(list, o, g, Len(list))
<1> DEFINE G == [0 .. Len(list) -> Seq(LedgerVoucher)]
           Good(n) == \E g \in G : KeptUpto(list, o, g, n)
           Bad == {n \in Nat : n <= Len(list) /\ ~Good(n)}
<1>0. Len(list) \in Nat
  OBVIOUS
<1>1. Good(0)
  <2> DEFINE g == [k \in 0 .. Len(list) |-> <<>>]
  <2>1. g \in G
    OBVIOUS
  <2>2. KeptUpto(list, o, g, 0)
    BY <1>0 DEF KeptUpto, KeptOneMore
  <2> QED
    BY <2>1, <2>2
<1>2. ASSUME NEW n \in Nat, n + 1 <= Len(list), Good(n)
      PROVE  Good(n + 1)
  <2>1. PICK g \in G : KeptUpto(list, o, g, n)
    BY <1>2
  <2> DEFINE h == [k \in 0 .. Len(list) |-> KeptOneMore(list, o, g, k)]
  <2>2. h \in G
    BY <2>1, KeptTyped
  <2>3. \A k \in 0 .. n : h[k] = g[k]
    BY <1>0, <1>2, <2>1 DEF KeptUpto
  <2>4. ASSUME NEW k \in 0 .. n + 1
        PROVE  h[k] = KeptOneMore(list, o, h, k)
    <3>1. k # 0 => h[k - 1] = g[k - 1]
      <4>1. k # 0 => k - 1 \in 0 .. n
        BY <1>2
      <4> HIDE DEF h
      <4> QED
        BY <2>3, <4>1
    <3>2. h[k] = KeptOneMore(list, o, g, k)
      BY <1>0, <1>2
    <3> HIDE DEF h
    <3> QED
      BY <3>1, <3>2 DEF KeptOneMore
  <2> HIDE DEF h
  <2> QED
    BY <2>2, <2>4 DEF KeptUpto
<1>3. Bad = {}
  <2> HIDE DEF Good
  <2> SUFFICES ASSUME Bad # {} PROVE FALSE
    OBVIOUS
  <2>1. PICK m \in Bad : \A k \in Bad : m <= k
    BY LeastNatural
  <2>2. m # 0
    BY <1>1, <2>1
  <2>3. m - 1 \in Nat /\ m - 1 <= Len(list) /\ m - 1 + 1 = m /\ m <= Len(list)
    BY <1>0, <2>1, <2>2
  <2>4. Good(m - 1)
    BY <2>1, <2>3
  <2> QED
    BY <1>2, <2>1, <2>3, <2>4
<1> QED
  BY <1>0, <1>3

(* ... and each of its values lists, once each, vouchers seen so far.      *)
KeptBelow(list, n, kept) ==
    /\ Differ(kept)
    /\ \A j \in DOMAIN kept : \E m \in 1 .. n : kept[j] = list[m]

LEMMA KeptDiffers ==
  ASSUME NEW list \in Seq(LedgerVoucher), NEW o, Differ(list),
         NEW g \in [0 .. Len(list) -> Seq(LedgerVoucher)], KeptUpto(list, o, g, Len(list))
  PROVE  Differ(g[Len(list)])
<1> DEFINE Good(n) == KeptBelow(list, n, g[n])
           Bad == {n \in Nat : n <= Len(list) /\ ~Good(n)}
<1>0. Len(list) \in Nat
  OBVIOUS
<1>1. Good(0)
  <2>1. g[0] = <<>>
    BY <1>0 DEF KeptUpto, KeptOneMore
  <2> QED
    BY <2>1 DEF KeptBelow, Differ
<1>2. ASSUME NEW n \in Nat, n + 1 <= Len(list), Good(n)
      PROVE  Good(n + 1)
  <2>1. /\ n + 1 \in 1 .. Len(list) /\ n \in 0 .. Len(list) /\ n + 1 \in 0 .. Len(list)
        /\ n + 1 - 1 = n /\ n + 1 # 0
    BY <1>0, <1>2
  <2>2. g[n + 1] = IF o \in list[n + 1].orders THEN g[n] ELSE Append(g[n], list[n + 1])
    <3>1. g[n + 1] = KeptOneMore(list, o, g, n + 1)
      BY <2>1 DEF KeptUpto
    <3>2. KeptOneMore(list, o, g, n + 1) =
             IF o \in list[n + 1].orders THEN g[n + 1 - 1] ELSE Append(g[n + 1 - 1], list[n + 1])
      BY <2>1 DEF KeptOneMore
    <3> HIDE DEF Good, Bad
    <3> QED
      BY <2>1, <3>1, <3>2, Zenon
  <2> DEFINE old == g[n]
             new == g[n + 1]
  <2>3. old \in Seq(LedgerVoucher) /\ Len(old) \in Nat /\ DOMAIN old = 1 .. Len(old)
    BY <2>1
  <2>4. Differ(old) /\ \A j \in DOMAIN old : \E m \in 1 .. n : old[j] = list[m]
    BY <1>2 DEF KeptBelow
  <2>5. CASE o \in list[n + 1].orders
    <3>1. new = old /\ \A m \in 1 .. n : m \in 1 .. n + 1
      BY <2>2, <2>5
    <3> HIDE DEF old, new
    <3>2. KeptBelow(list, n + 1, new)
      BY <2>4, <3>1 DEF KeptBelow
    <3> QED
      BY <3>2 DEF new
  <2>6. CASE o \notin list[n + 1].orders
    <3>1. new = Append(old, list[n + 1])
      BY <2>2, <2>6
    <3>2. list[n + 1] \in LedgerVoucher
      BY <2>1
    <3> HIDE DEF old, new
    <3>3. /\ DOMAIN new = 1 .. Len(old) + 1 /\ new[Len(old) + 1] = list[n + 1]
          /\ \A j \in DOMAIN old : new[j] = old[j]
      BY <2>3, <3>1, <3>2
    <3>4. \A j \in DOMAIN new : j = Len(old) + 1 \/ j \in DOMAIN old
      BY <2>3, <3>3
    <3>5. ASSUME NEW j \in DOMAIN old, old[j].orders # {}, list[n + 1].orders # {}
          PROVE  old[j].no # list[n + 1].no
      <4>1. PICK m \in 1 .. n : old[j] = list[m]
        BY <2>4
      <4>2. m \in DOMAIN list /\ n + 1 \in DOMAIN list /\ m # n + 1
        BY <1>0, <2>1
      <4> QED
        BY <3>5, <4>1, <4>2 DEF Differ
    <3>6. Differ(new)
      BY <2>4, <3>3, <3>4, <3>5 DEF Differ
    <3>7. ASSUME NEW j \in DOMAIN new
          PROVE  \E m \in 1 .. n + 1 : new[j] = list[m]
      <4>1. n + 1 \in 1 .. n + 1 /\ \A m \in 1 .. n : m \in 1 .. n + 1
        BY <1>2
      <4> QED
        BY <2>4, <3>3, <3>4, <4>1
    <3>8. KeptBelow(list, n + 1, new)
      BY <3>6, <3>7 DEF KeptBelow
    <3> QED
      BY <3>8 DEF new
  <2> QED
    BY <2>5, <2>6
<1>3. Bad = {}
  <2> HIDE DEF Good
  <2> SUFFICES ASSUME Bad # {} PROVE FALSE
    OBVIOUS
  <2>1. PICK m \in Bad : \A k \in Bad : m <= k
    BY LeastNatural
  <2>2. m # 0
    BY <1>1, <2>1
  <2>3. m - 1 \in Nat /\ m - 1 <= Len(list) /\ m - 1 + 1 = m /\ m <= Len(list)
    BY <1>0, <2>1, <2>2
  <2>4. Good(m - 1)
    BY <2>1, <2>3
  <2> QED
    BY <1>2, <2>1, <2>3, <2>4
<1>4. Good(Len(list))
  BY <1>0, <1>3
<1> QED
  BY <1>4 DEF KeptBelow

LEMMA WithoutDiffers ==
  ASSUME NEW list \in Seq(LedgerVoucher), NEW o, Differ(list)
  PROVE  Without(list, o) \in Seq(LedgerVoucher) /\ Differ(Without(list, o))
<1> DEFINE F(f) == [k \in 0 .. Len(list) |->
                IF k = 0 THEN <<>>
                ELSE IF o \in list[k].orders THEN f[k - 1]
                ELSE Append(f[k - 1], list[k])]
           kept == CHOOSE f : f = F(f)
<1>0. Len(list) \in Nat /\ Len(list) \in 0 .. Len(list)
  OBVIOUS
<1>1. PICK g \in [0 .. Len(list) -> Seq(LedgerVoucher)] : KeptUpto(list, o, g, Len(list))
  BY KeptExists
<1>2. g = F(g)
  BY <1>1 DEF KeptUpto, KeptOneMore
<1>3. kept = F(kept)
  BY <1>2
<1>4. Without(list, o) = kept[Len(list)]
  BY DEF Without
<1> HIDE DEF kept
<1>5. \A k \in 0 .. Len(list) : kept[k] = KeptOneMore(list, o, kept, k)
  BY <1>3 DEF KeptOneMore
<1>6. KeptUpto(list, o, kept, Len(list)) /\ DOMAIN kept = 0 .. Len(list)
  BY <1>3, <1>5 DEF KeptUpto
<1> HIDE DEF F
<1>7. \A k \in 0 .. Len(list) : kept[k] = g[k]
  <2> DEFINE Bad == {k \in Nat : k <= Len(list) /\ kept[k] # g[k]}
  <2> SUFFICES ASSUME Bad # {} PROVE FALSE
    BY <1>0
  <2>1. PICK m \in Bad : \A k \in Bad : m <= k
    BY LeastNatural
  <2>2. m \in 0 .. Len(list) /\ kept[m] # g[m]
    BY <1>0, <2>1
  <2>3. m # 0
    BY <1>1, <1>5, <2>2 DEF KeptUpto, KeptOneMore
  <2>4. m - 1 \in 0 .. Len(list) /\ kept[m - 1] = g[m - 1]
    BY <1>0, <2>1, <2>2, <2>3
  <2> QED
    BY <1>1, <1>5, <2>2, <2>3, <2>4 DEF KeptUpto, KeptOneMore
<1>8. kept[Len(list)] = g[Len(list)]
  BY <1>0, <1>7
<1> QED
  BY <1>0, <1>1, <1>4, <1>8, KeptDiffers

LEMMA LedgerStarts == LedgerInit => LedgerInv
<1> SUFFICES ASSUME LedgerInit PROVE LedgerInv
  OBVIOUS
<1> DEFINE Plain == [no : Nat, orders : {{}}, status : {"in_fitting", "ready"}]
<1>1. Plain \subseteq LedgerVoucher
  BY DEF LedgerVoucher
<1>2. \A c \in Fitter : ledger[c] \in Seq(Plain)
  BY LedgerAssumption DEF LedgerInit
<1>3. \A c \in Fitter : ledger[c] \in Seq(LedgerVoucher)
  <2> SUFFICES ASSUME NEW c \in Fitter PROVE ledger[c] \in Seq(LedgerVoucher)
    OBVIOUS
  <2>1. /\ Len(ledger[c]) \in Nat /\ ledger[c] = [k \in 1 .. Len(ledger[c]) |-> ledger[c][k]]
        /\ \A k \in 1 .. Len(ledger[c]) : ledger[c][k] \in Plain
    <3> HIDE DEF Plain
    <3> QED
      BY <1>2
  <2>2. \A k \in 1 .. Len(ledger[c]) : ledger[c][k] \in LedgerVoucher
    BY <1>1, <2>1
  <2> HIDE DEF Plain
  <2> QED
    BY <2>1, <2>2
<1>4. ledger \in [Fitter -> Seq(LedgerVoucher)]
  BY <1>3, LedgerAssumption DEF LedgerInit
<1>5. ASSUME NEW c \in Fitter PROVE Differ(ledger[c])
  <2>1. \A k \in DOMAIN ledger[c] : ledger[c][k].orders = {}
    <3>1. \A v \in Plain : v.orders = {}
      OBVIOUS
    <3> HIDE DEF Plain
    <3>2. \A k \in DOMAIN ledger[c] : ledger[c][k] \in Plain
      BY <1>2
    <3> QED
      BY <3>1, <3>2
  <2> QED
    BY <2>1 DEF Differ
<1> QED
  BY <1>4, <1>5, LedgerAssumption DEF LedgerInit, LedgerInv, LedgerTypeOK

(* A ledger that is replaced, the dialogs and tabs staying typed.          *)
LEMMA Rewritten ==
  ASSUME LedgerInv, NEW c \in Fitter, NEW list \in Seq(LedgerVoucher), Differ(list),
         ledger' = [ledger EXCEPT ![c] = list],
         tab' \in Fitter, filter' \in {"ALL", "IN_FITTING", "READY"}, entering' \in BOOLEAN
  PROVE  LedgerInv'
BY DEF LedgerInv, LedgerTypeOK

LEMMA LedgerKeeps == LedgerInv /\ [LedgerNext]_ledgerVars => LedgerInv'
<1> SUFFICES ASSUME LedgerInv, [LedgerNext]_ledgerVars PROVE LedgerInv'
  OBVIOUS
<1>1. /\ ledger \in [Fitter -> Seq(LedgerVoucher)] /\ tab \in Fitter
      /\ filter \in {"ALL", "IN_FITTING", "READY"} /\ entering \in BOOLEAN
      /\ \A c \in Fitter : ledger[c] \in Seq(LedgerVoucher) /\ Differ(ledger[c])
  BY DEF LedgerInv, LedgerTypeOK
<1>2. ASSUME UNCHANGED ledger, tab' \in Fitter, filter' \in {"ALL", "IN_FITTING", "READY"},
             entering' \in BOOLEAN
      PROVE  LedgerInv'
  BY <1>1, <1>2 DEF LedgerInv, LedgerTypeOK
<1>3. ASSUME NEW c \in Fitter, ShowLedger(c) \/ JumpToLedger(c) PROVE LedgerInv'
  BY <1>1, <1>2, <1>3 DEF ShowLedger, JumpToLedger
<1>4. ASSUME NEW f \in {"ALL", "IN_FITTING", "READY"}, ChooseFilter(f) PROVE LedgerInv'
  BY <1>1, <1>2, <1>4 DEF ChooseFilter
<1>5. CASE OpenVoucherForm \/ CloseVoucherForm \/ ReloadLedger \/ UNCHANGED ledgerVars
  BY <1>1, <1>2, <1>5 DEF OpenVoucherForm, CloseVoucherForm, ReloadLedger, ledgerVars
<1>6. ASSUME NEW c \in Fitter, NEW v \in LedgerVoucher, Write(c, v),
             v.orders # {} => \A k \in DOMAIN ledger[c] : ledger[c][k].no < v.no,
             tab' \in Fitter, filter' \in {"ALL", "IN_FITTING", "READY"}, entering' \in BOOLEAN
      PROVE  LedgerInv'
  <2>1. <<v>> \o ledger[c] \in Seq(LedgerVoucher) /\ Differ(<<v>> \o ledger[c])
    BY <1>1, <1>6, VoucherWritten
  <2>2. ledger' = [ledger EXCEPT ![c] = <<v>> \o ledger[c]]
    BY <1>6 DEF Write
  <2> QED
    BY <1>6, <2>1, <2>2, Rewritten
<1>7. ASSUME NEW c \in Fitter, NEW o \in LinkedOrder, RegisterVoucher(c, o) PROVE LedgerInv'
  <2> DEFINE v == [no |-> NextVoucherNo(c), orders |-> {o}, status |-> "in_fitting"]
  <2>1. NextVoucherNo(c) \in Nat /\ \A k \in DOMAIN ledger[c] : ledger[c][k].no < NextVoucherNo(c)
    BY NumberIsNew DEF LedgerInv
  <2>2. v \in LedgerVoucher /\ v.no = NextVoucherNo(c)
    BY <2>1 DEF LedgerVoucher
  <2>3. Write(c, v) /\ tab' = tab /\ filter' = "IN_FITTING" /\ entering' = entering
    BY <1>7 DEF RegisterVoucher
  <2> HIDE DEF v
  <2> QED
    BY <1>1, <1>6, <2>1, <2>2, <2>3
<1>8. ASSUME NEW no \in TypedNo, ConfirmAddVoucher(no) PROVE LedgerInv'
  <2> DEFINE v == [no |-> no, orders |-> {}, status |-> "in_fitting"]
  <2>1. v \in LedgerVoucher /\ v.orders = {}
    BY LedgerAssumption DEF LedgerVoucher
  <2>2. Write(tab, v) /\ tab' = tab /\ filter' = filter /\ entering' = FALSE
    BY <1>8 DEF ConfirmAddVoucher
  <2> HIDE DEF v
  <2> QED
    BY <1>1, <1>6, <2>1, <2>2
<1>9. ASSUME NEW k \in DOMAIN ledger[tab], MarkComplete(k) PROVE LedgerInv'
  <2> DEFINE list == ledger[tab]
             new == [list EXCEPT ![k].status = "ready"]
  <2>1. list \in Seq(LedgerVoucher) /\ Differ(list) /\ k \in DOMAIN list
    BY <1>1
  <2>2. ledger' = [ledger EXCEPT ![tab] = new]
    BY <1>9 DEF MarkComplete
  <2>3. [list[k] EXCEPT !.status = "ready"] \in LedgerVoucher
    <3>1. list[k] \in LedgerVoucher
      BY <2>1
    <3> HIDE DEF list
    <3> QED
      BY <3>1 DEF LedgerVoucher
  <2>4. /\ new \in Seq(LedgerVoucher) /\ DOMAIN new = DOMAIN list
        /\ \A j \in DOMAIN list : new[j] = IF j = k THEN [list[k] EXCEPT !.status = "ready"] ELSE list[j]
    <3> HIDE DEF list
    <3> QED
      BY <2>1, <2>3
  <2>5. \A j \in DOMAIN list : new[j].no = list[j].no /\ new[j].orders = list[j].orders
    <3>1. list[k] \in LedgerVoucher
      BY <2>1
    <3> HIDE DEF list, new
    <3> QED
      BY <2>4, <3>1 DEF LedgerVoucher
  <2> HIDE DEF list, new
  <2>6. Differ(new)
    BY <2>1, <2>4, <2>5 DEF Differ
  <2>7. tab' = tab /\ filter' = filter /\ entering' = entering
    BY <1>9 DEF MarkComplete
  <2> QED
    BY <1>1, <2>2, <2>4, <2>6, <2>7, Rewritten
<1>10. ASSUME NEW o \in LinkedOrder, DropOrder(o) PROVE LedgerInv'
  <2>1. \A c \in Fitter : Without(ledger[c], o) \in Seq(LedgerVoucher) /\ Differ(Without(ledger[c], o))
    BY <1>1, WithoutDiffers
  <2>2. ledger' = [c \in Fitter |-> Without(ledger[c], o)]
    BY <1>10 DEF DropOrder
  <2>3. tab' = tab /\ filter' = "IN_FITTING" /\ entering' = entering
    BY <1>10 DEF DropOrder
  <2> QED
    BY <1>1, <2>1, <2>2, <2>3 DEF LedgerInv, LedgerTypeOK
<1> QED
  BY <1>3, <1>4, <1>5, <1>7, <1>8, <1>9, <1>10 DEF LedgerNext

(* Whatever numbers are typed in and whichever orders are deleted, no two  *)
(* vouchers that assignments registered in one ledger have one number.     *)
THEOREM AssignedNumbersStayDifferent == LedgerSpec => []AssignedNumbersDiffer
<1>1. LedgerInv => AssignedNumbersDiffer
  BY DEF LedgerInv, Differ, AssignedNumbersDiffer
<1> QED
  BY <1>1, LedgerStarts, LedgerKeeps, PTL DEF LedgerSpec

(***************************************************************************)
(* The session. What is in local storage must agree with itself: a token   *)
(* has its user, and the made-up token of a seed account has the offline   *)
(* flag. While the server is asked about a token the stored user is shown; *)
(* while it is asked to log in, nobody is.                                 *)
(***************************************************************************)
StoreAgrees ==
    /\ token # "none" => stored # "nobody"
    /\ token = "server" /\ ~offlineMode => stored = "server"
    /\ token = "local" => stored = "local" /\ offlineMode
    /\ stored = "local" => token = "local" \/ offlineMode

CallAgrees ==
    /\ call = "getMe" => token = "server" /\ ~offlineMode /\ user = stored
    /\ call \in {"login", "login as seed"} => user = "nobody"
    /\ call = "logout" => user # "nobody"

MemoryAgrees ==
    /\ user = "nobody" => token = "none"
    /\ user # "nobody" /\ ~offlineMode => user = "server" /\ token = "server"

SessionInv == SessionTypeOK /\ StoreAgrees /\ CallAgrees /\ MemoryAgrees

LEMMA SessionStarts == SessionInit => SessionInv
BY DEF SessionInit, SessionInv, SessionTypeOK, StoreAgrees, CallAgrees, MemoryAgrees, Who

LEMMA SessionKeeps == SessionInv /\ [SessionNext]_sessionVars => SessionInv'
<1> SUFFICES ASSUME SessionInv, [SessionNext]_sessionVars PROVE SessionInv'
  OBVIOUS
<1> USE DEF SessionInv, SessionTypeOK, StoreAgrees, CallAgrees, MemoryAgrees, Who
<1>1. CASE UNCHANGED sessionVars
  BY <1>1 DEF sessionVars
<1>2. CASE LoginAccepted
  BY <1>2 DEF LoginAccepted
<1>3. CASE MeAccepted
  BY <1>3 DEF MeAccepted
<1>4. ASSUME NEW refused \in BOOLEAN, LoginFailed(refused) PROVE SessionInv'
  BY <1>4 DEF LoginFailed, SignInLocally
<1>5. ASSUME NEW refused \in BOOLEAN, MeFailed(refused) PROVE SessionInv'
  BY <1>5 DEF MeFailed, KeepStoredUser
<1>6. ASSUME NEW ok \in BOOLEAN, LogoutAnswered(ok) PROVE SessionInv'
  BY <1>6 DEF LogoutAnswered, Clear
<1>7. CASE RestartSession
  BY <1>7 DEF RestartSession, Start
<1>8. ASSUME NEW seed \in BOOLEAN, SubmitLogin(seed) PROVE SessionInv'
  BY <1>8 DEF SubmitLogin
<1>9. CASE SearchRefused
  BY <1>9 DEF SearchRefused
<1>10. CASE Logout
  BY <1>10 DEF Logout, Clear
<1> QED
  BY <1>1, <1>2, <1>3, <1>4, <1>5, <1>6, <1>7, <1>8, <1>9, <1>10 DEF SessionNext, Answer

(* The session's variables keep their types.                               *)
THEOREM SessionStaysTyped == SessionSpec => []SessionTypeOK
<1>1. SessionInv => SessionTypeOK
  BY DEF SessionInv
<1> QED
  BY <1>1, SessionStarts, SessionKeeps, PTL DEF SessionSpec

(* No restart brings a user back who was signed out.                       *)
THEOREM SignedOutRemains == SessionSpec => []SignedOutStaysOut
<1>1. SessionInv => SignedOutStaysOut
  BY DEF SessionInv, MemoryAgrees, SignedOutStaysOut
<1> QED
  BY <1>1, SessionStarts, SessionKeeps, PTL DEF SessionSpec

(* A user whom the server has not accepted is shown in offline mode only.  *)
THEOREM UncheckedStaysOffline == SessionSpec => []UncheckedIsOffline
<1>1. SessionInv => UncheckedIsOffline
  BY DEF SessionInv, MemoryAgrees, UncheckedIsOffline
<1> QED
  BY <1>1, SessionStarts, SessionKeeps, PTL DEF SessionSpec

(***************************************************************************)
(* The floor apps. A run that is about to post what was rejected has its   *)
(* production posted, but many runs may be there at once: so the rejected  *)
(* entries and the runs that are about to add one are, together, never     *)
(* more than the produced entries of the task.                             *)
(***************************************************************************)
Rejecting(t) == {k \in DOMAIN presses : presses[k].task = t /\ presses[k].next = "rejected"}

Promised(t) == rejected[t] + Cardinality(Rejecting(t)) <= produced[t]

Backed == \A k \in DOMAIN presses :
    presses[k].next \in {"rejected", "complete"} => produced[presses[k].task] >= 1

FloorInv ==
    /\ FloorTypeOK
    /\ Backed
    /\ CompletedWasRecorded
    /\ \A t \in FloorTask : Promised(t)

LEMMA RejectingFinite ==
  ASSUME FloorTypeOK, NEW t
  PROVE  IsFiniteSet(Rejecting(t)) /\ Cardinality(Rejecting(t)) \in Nat
<1>1. DOMAIN presses = 1 .. Len(presses) /\ Len(presses) \in Nat
  BY DEF FloorTypeOK
<1>2. IsFiniteSet(1 .. Len(presses))
  BY <1>1, FS_Interval
<1>3. Rejecting(t) \subseteq 1 .. Len(presses)
  BY <1>1 DEF Rejecting
<1> QED
  BY <1>2, <1>3, FS_Subset, FS_CardinalityType

LEMMA RunsTyped ==
  ASSUME FloorTypeOK, NEW k \in DOMAIN presses
  PROVE  /\ presses[k] \in Run /\ presses[k].task \in FloorTask
         /\ presses[k].rejects \in BOOLEAN
         /\ presses[k].next \in {"produced", "rejected", "complete", "list", "done", "failed"}
<1>1. presses[k] \in Run
  BY DEF FloorTypeOK
<1> QED
  BY <1>1 DEF Run

(* A step after which no more runs are about to reject, and that changes   *)
(* no ledger, keeps the balance.                                           *)
LEMMA NoneMoreRejecting ==
  ASSUME FloorTypeOK, \A t \in FloorTask : Promised(t), UNCHANGED <<produced, rejected>>,
         \A t \in FloorTask : Rejecting(t)' \subseteq Rejecting(t)
  PROVE  \A t \in FloorTask : Promised(t)'
<1> SUFFICES ASSUME NEW t \in FloorTask PROVE Promised(t)'
  OBVIOUS
<1> DEFINE before == Rejecting(t)
           after == Rejecting(t)'
<1>1. IsFiniteSet(before) /\ Cardinality(before) \in Nat /\ after \subseteq before
  BY RejectingFinite
<1> HIDE DEF before, after
<1>2. Cardinality(after) <= Cardinality(before) /\ Cardinality(after) \in Nat
  BY <1>1, FS_Subset, FS_CardinalityType
<1>3. produced[t] \in Nat /\ rejected[t] \in Nat
  BY DEF FloorTypeOK
<1>4. rejected[t] + Cardinality(before) <= produced[t]
  BY DEF Promised, before
<1>5. rejected[t] + Cardinality(after) <= produced[t]
  BY <1>1, <1>2, <1>3, <1>4
<1> QED
  BY <1>5 DEF Promised, after

LEMMA FloorStarts == FloorInit => FloorInv
<1> SUFFICES ASSUME FloorInit PROVE FloorInv
  OBVIOUS
<1>1. FloorTypeOK /\ Backed /\ CompletedWasRecorded
  BY DEF FloorInit, FloorTypeOK, Backed, CompletedWasRecorded
<1>2. ASSUME NEW t \in FloorTask PROVE Promised(t)
  <2>1. Rejecting(t) = {}
    BY DEF FloorInit, Rejecting
  <2>2. Cardinality(Rejecting(t)) = 0
    BY <2>1, FS_EmptySet
  <2> QED
    BY <2>2 DEF FloorInit, Promised
<1> QED
  BY <1>1, <1>2 DEF FloorInv

(* Steps of the form and of a run that ends without a call.                *)
LEMMA StartAppStep == ASSUME FloorInv, StartApp PROVE FloorInv'
<1>1. FloorTypeOK
  BY DEF FloorInv
<1>2. ASSUME NEW k \in DOMAIN presses
      PROVE  /\ k \in DOMAIN presses' /\ presses'[k] \in Run
             /\ presses'[k].next \in {"done", "failed"} /\ presses'[k].task = presses[k].task
  BY <1>1, RunsTyped DEF StartApp, Run
<1>3. DOMAIN presses' = DOMAIN presses /\ DOMAIN presses = 1 .. Len(presses) /\ Len(presses) \in Nat
  BY <1>1 DEF StartApp, FloorTypeOK
<1>4. presses' \in Seq(Run)
  <2>1. presses' = [k \in 1 .. Len(presses) |-> presses'[k]]
    BY <1>3 DEF StartApp
  <2> QED
    BY <1>2, <1>3, <2>1
<1>5. FloorTypeOK'
  BY <1>1, <1>4 DEF FloorTypeOK, StartApp, Fetch
<1>6. Backed' /\ CompletedWasRecorded'
  BY <1>2, <1>3 DEF FloorInv, Backed, CompletedWasRecorded, StartApp
<1>7. \A t \in FloorTask : Rejecting(t)' \subseteq Rejecting(t)
  BY <1>2, <1>3 DEF Rejecting
<1>8. \A t \in FloorTask : Promised(t)'
  BY <1>1, <1>7, NoneMoreRejecting DEF FloorInv, StartApp
<1> QED
  BY <1>5, <1>6, <1>8 DEF FloorInv

LEMMA SelectTaskStep == ASSUME FloorInv, NEW t \in FloorTask, SelectTask(t) PROVE FloorInv'
BY DEF FloorInv, SelectTask, FloorTypeOK, Backed, CompletedWasRecorded, Promised, Rejecting

LEMMA CancelTaskStep == ASSUME FloorInv, CancelTask PROVE FloorInv'
BY DEF FloorInv, CancelTask, FloorTypeOK, Backed, CompletedWasRecorded, Promised, Rejecting

LEMMA PressStep == ASSUME FloorInv, NEW rejects \in BOOLEAN, Press(rejects) PROVE FloorInv'
<1>1. PICK t \in chosen :
         presses' = Append(presses, [task |-> t, rejects |-> rejects, next |-> "produced"])
  BY DEF Press
<1> DEFINE r == [task |-> t, rejects |-> rejects, next |-> "produced"]
<1>2. FloorTypeOK /\ r \in Run
  BY DEF FloorInv, FloorTypeOK, Run
<1>3. UNCHANGED <<listed, chosen, produced, rejected, finished>>
  BY DEF Press
<1>4. presses' = Append(presses, r) /\ r.next = "produced"
  BY <1>1
<1> HIDE DEF r
<1>5. /\ presses' \in Seq(Run) /\ DOMAIN presses' = 1 .. Len(presses) + 1
      /\ DOMAIN presses = 1 .. Len(presses) /\ Len(presses) \in Nat
      /\ \A k \in DOMAIN presses : presses'[k] = presses[k]
      /\ presses'[Len(presses) + 1] = r
  BY <1>2, <1>4 DEF FloorTypeOK
<1>6. \A k \in DOMAIN presses' :
         (k \in DOMAIN presses /\ presses'[k] = presses[k]) \/ presses'[k].next = "produced"
  BY <1>4, <1>5
<1>7. FloorTypeOK'
  BY <1>2, <1>3, <1>5 DEF FloorTypeOK
<1>8. Backed' /\ CompletedWasRecorded'
  BY <1>3, <1>6 DEF FloorInv, Backed, CompletedWasRecorded
<1>9. \A u \in FloorTask : Rejecting(u)' \subseteq Rejecting(u)
  BY <1>6 DEF Rejecting
<1>10. \A u \in FloorTask : Promised(u)'
  BY <1>2, <1>3, <1>9, NoneMoreRejecting DEF FloorInv
<1> QED
  BY <1>7, <1>8, <1>10 DEF FloorInv

(* A run goes on, or ends, and no ledger is written: it goes on to no call *)
(* that needs one.                                                         *)
LEMMA QuietMove ==
  ASSUME FloorInv, NEW k \in DOMAIN presses, NEW next \in {"list", "done", "failed"},
         presses' = [presses EXCEPT ![k].next = next],
         listed' \subseteq FloorTask, UNCHANGED <<chosen, produced, rejected, finished>>
  PROVE  FloorInv'
<1>1. FloorTypeOK
  BY DEF FloorInv
<1>2. presses[k] \in Run /\ [presses[k] EXCEPT !.next = next] \in Run
  BY <1>1, RunsTyped DEF Run
<1>3. /\ presses' \in Seq(Run) /\ DOMAIN presses' = DOMAIN presses
      /\ \A j \in DOMAIN presses : j # k => presses'[j] = presses[j]
      /\ presses'[k].next = next
  BY <1>1, <1>2 DEF FloorTypeOK, Run
<1>4. FloorTypeOK'
  BY <1>1, <1>3 DEF FloorTypeOK
<1>5. Backed' /\ CompletedWasRecorded'
  BY <1>3 DEF FloorInv, Backed, CompletedWasRecorded
<1>6. \A t \in FloorTask : Rejecting(t)' \subseteq Rejecting(t)
  BY <1>3 DEF Rejecting
<1>7. \A t \in FloorTask : Promised(t)'
  BY <1>1, <1>6, NoneMoreRejecting DEF FloorInv
<1> QED
  BY <1>4, <1>5, <1>7 DEF FloorInv

LEMMA StepRefusedStep ==
  ASSUME FloorInv, NEW k \in DOMAIN presses, StepRefused(k) PROVE FloorInv'
BY QuietMove DEF StepRefused, FloorInv, FloorTypeOK

LEMMA RefreshStep ==
  ASSUME FloorInv, NEW k \in DOMAIN presses, Refresh(k) PROVE FloorInv'
BY QuietMove DEF Refresh, Fetch, FloorInv, FloorTypeOK

(* A call is carried out, and its run goes on to some next step that the   *)
(* ledger allows.                                                          *)
LEMMA CarryingMove ==
  ASSUME FloorInv, NEW k \in DOMAIN presses, CarriedOut(presses[k]), Calling(k),
         NEW next \in {"rejected", "complete", "list", "failed"},
         presses' = [presses EXCEPT ![k].next = next],
         next = "rejected" => presses[k].next = "produced",
         next = "complete" => presses[k].next \in {"produced", "rejected"},
         chosen' \subseteq FloorTask, UNCHANGED listed
  PROVE  FloorInv'
<1> DEFINE task == presses[k].task
           now == presses[k].next
<1>1. FloorTypeOK
  BY DEF FloorInv
<1>2. /\ task \in FloorTask /\ now \in {"produced", "rejected", "complete"}
      /\ [presses[k] EXCEPT !.next = next] \in Run
  BY <1>1, RunsTyped DEF Run, Calling
<1>3. /\ presses' \in Seq(Run) /\ DOMAIN presses' = DOMAIN presses
      /\ \A j \in DOMAIN presses : presses'[j].task = presses[j].task
      /\ \A j \in DOMAIN presses : j # k => presses'[j].next = presses[j].next
      /\ presses'[k].next = next
  BY <1>1, <1>2, RunsTyped DEF FloorTypeOK, Run
<1>4. /\ produced \in [FloorTask -> Nat] /\ rejected \in [FloorTask -> Nat]
      /\ \A t \in FloorTask :
            /\ produced'[t] = IF t = task /\ now = "produced" THEN produced[t] + 1 ELSE produced[t]
            /\ rejected'[t] = IF t = task /\ now = "rejected" THEN rejected[t] + 1 ELSE rejected[t]
      /\ produced' \in [FloorTask -> Nat] /\ rejected' \in [FloorTask -> Nat]
      /\ finished' = IF now = "complete" THEN finished \cup {task} ELSE finished
  BY <1>1, <1>2 DEF CarriedOut, FloorTypeOK
<1>5. /\ next = "rejected" => now = "produced"
      /\ next = "complete" => now \in {"produced", "rejected"}
  OBVIOUS
<1>6. now \in {"rejected", "complete"} => produced[task] >= 1
  BY DEF FloorInv, Backed
<1> HIDE DEF task, now
<1>7. FloorTypeOK'
  BY <1>1, <1>2, <1>3, <1>4 DEF FloorTypeOK
<1>8. \A t \in FloorTask : produced'[t] >= produced[t] /\ produced[t] \in Nat /\ produced'[t] \in Nat
  BY <1>4
<1>9. Backed'
  <2> SUFFICES ASSUME NEW j \in DOMAIN presses, presses'[j].next \in {"rejected", "complete"}
               PROVE  produced'[presses'[j].task] >= 1
    BY <1>3 DEF Backed
  <2>1. CASE j = k
    <3>1. now = "produced" \/ now = "rejected"
      BY <1>3, <1>5, <2>1
    <3>2. presses'[j].task = task
      BY <1>3, <2>1 DEF task
    <3> QED
      BY <1>2, <1>4, <1>6, <3>1, <3>2
  <2>2. CASE j # k
    <3>1. presses[j].task \in FloorTask /\ produced[presses[j].task] >= 1
      BY <1>1, <1>3, <2>2, RunsTyped DEF FloorInv, Backed
    <3> QED
      BY <1>3, <1>8, <3>1
  <2> QED
    BY <2>1, <2>2
<1>10. CompletedWasRecorded'
  <2>1. \A t \in finished' : t \in FloorTask /\ produced[t] >= 1
    BY <1>1, <1>2, <1>4, <1>6 DEF FloorInv, FloorTypeOK, CompletedWasRecorded
  <2> QED
    BY <1>8, <2>1 DEF CompletedWasRecorded
<1>11. ASSUME NEW t \in FloorTask PROVE Promised(t)'
  <2> DEFINE before == Rejecting(t)
             after == Rejecting(t)'
  <2>1. /\ IsFiniteSet(before) /\ Cardinality(before) \in Nat
        /\ rejected[t] + Cardinality(before) <= produced[t]
    BY <1>1, RejectingFinite DEF FloorInv, Promised
  <2>2. after \subseteq before \cup {k} /\ (k \in after => t = task /\ next = "rejected")
        /\ (k \in before <=> t = task /\ now = "rejected")
    BY <1>3 DEF Rejecting, task, now
  <2> HIDE DEF before, after
  <2>3. IsFiniteSet(after) /\ Cardinality(after) \in Nat
    BY <2>1, <2>2, FS_AddElement, FS_Subset, FS_CardinalityType
  <2>4. /\ rejected[t] \in Nat /\ produced[t] \in Nat
        /\ produced'[t] = IF t = task /\ now = "produced" THEN produced[t] + 1 ELSE produced[t]
        /\ rejected'[t] = IF t = task /\ now = "rejected" THEN rejected[t] + 1 ELSE rejected[t]
    BY <1>4
  <2>5. rejected'[t] + Cardinality(after) <= produced'[t]
    <3>1. CASE t = task /\ now = "rejected"
      <4>1. after \subseteq before \ {k} /\ k \in before
        BY <1>5, <2>2, <3>1
      <4>2. Cardinality(before \ {k}) = Cardinality(before) - 1 /\ IsFiniteSet(before \ {k})
        BY <2>1, <4>1, FS_RemoveElement
      <4>3. Cardinality(after) <= Cardinality(before) - 1
        BY <4>1, <4>2, FS_Subset
      <4> QED
        BY <2>1, <2>3, <2>4, <3>1, <4>3
    <3>2. CASE t = task /\ now = "produced"
      <4>1. k \notin before
        BY <2>2, <3>2
      <4>2. /\ Cardinality(before \cup {k}) = Cardinality(before) + 1
            /\ IsFiniteSet(before \cup {k})
        BY <2>1, <4>1, FS_AddElement
      <4>3. Cardinality(after) <= Cardinality(before) + 1
        BY <2>2, <4>2, FS_Subset
      <4> QED
        BY <2>1, <2>3, <2>4, <3>2, <4>3
    <3>3. CASE ~(t = task /\ now \in {"produced", "rejected"})
      <4>1. after \subseteq before
        BY <1>5, <2>2, <3>3
      <4>2. Cardinality(after) <= Cardinality(before)
        BY <2>1, <4>1, FS_Subset
      <4> QED
        BY <2>1, <2>3, <2>4, <3>3, <4>2
    <3> QED
      BY <3>1, <3>2, <3>3
  <2> QED
    BY <2>5 DEF Promised, after
<1> QED
  BY <1>7, <1>9, <1>10, <1>11 DEF FloorInv

LEMMA StepUnheardStep ==
  ASSUME FloorInv, NEW k \in DOMAIN presses, StepUnheard(k) PROVE FloorInv'
BY CarryingMove DEF StepUnheard, FloorInv, FloorTypeOK

LEMMA StepAnsweredStep ==
  ASSUME FloorInv, NEW k \in DOMAIN presses, StepAnswered(k) PROVE FloorInv'
<1> DEFINE next == Following(presses[k])
<1>1. FloorTypeOK
  BY DEF FloorInv
<1>2. presses[k].next \in {"produced", "rejected", "complete"} /\ presses[k].rejects \in BOOLEAN
  BY <1>1, RunsTyped DEF StepAnswered, Calling
<1>3. /\ next \in {"rejected", "complete", "list", "failed"}
      /\ next = "rejected" => presses[k].next = "produced"
      /\ next = "complete" => presses[k].next \in {"produced", "rejected"}
  BY <1>2 DEF Following
<1>4. chosen' \subseteq FloorTask
  BY <1>1 DEF StepAnswered, FloorTypeOK
<1>5. /\ CarriedOut(presses[k]) /\ Calling(k) /\ UNCHANGED listed
      /\ presses' = [presses EXCEPT ![k].next = next]
  BY DEF StepAnswered
<1> HIDE DEF next
<1> QED
  BY <1>3, <1>4, <1>5, CarryingMove

LEMMA FloorKeeps == FloorInv /\ [FloorNext]_floorVars => FloorInv'
<1> SUFFICES ASSUME FloorInv, [FloorNext]_floorVars PROVE FloorInv'
  OBVIOUS
<1>1. CASE UNCHANGED floorVars
  BY <1>1 DEF floorVars, FloorInv, FloorTypeOK, Backed, CompletedWasRecorded, Promised, Rejecting
<1>2. CASE StartApp
  BY <1>2, StartAppStep
<1>3. CASE \E t \in FloorTask : SelectTask(t)
  BY <1>3, SelectTaskStep
<1>4. CASE CancelTask
  BY <1>4, CancelTaskStep
<1>5. CASE \E rejects \in BOOLEAN : Press(rejects)
  BY <1>5, PressStep
<1>6. CASE \E k \in DOMAIN presses :
              StepAnswered(k) \/ StepUnheard(k) \/ StepRefused(k) \/ Refresh(k)
  BY <1>6, StepAnsweredStep, StepUnheardStep, StepRefusedStep, RefreshStep
<1> QED
  BY <1>1, <1>2, <1>3, <1>4, <1>5, <1>6 DEF FloorNext

(* The floor apps' variables keep their types.                             *)
THEOREM FloorStaysTyped == FloorSpec => []FloorTypeOK
<1>1. FloorInv => FloorTypeOK
  BY DEF FloorInv
<1> QED
  BY <1>1, FloorStarts, FloorKeeps, PTL DEF FloorSpec

(* A task an app completed has its production in the ledger.               *)
THEOREM CompletedStaysRecorded == FloorSpec => []CompletedWasRecorded
<1>1. FloorInv => CompletedWasRecorded
  BY DEF FloorInv
<1> QED
  BY <1>1, FloorStarts, FloorKeeps, PTL DEF FloorSpec

(* Scrap is never in the ledger without the production it came with.       *)
THEOREM ScrapKeepsProduction == FloorSpec => []ScrapHasProduction
<1>1. FloorInv => ScrapHasProduction
  <2> SUFFICES ASSUME FloorInv, NEW t \in FloorTask PROVE rejected[t] <= produced[t]
    BY DEF ScrapHasProduction
  <2>1. /\ rejected[t] \in Nat /\ produced[t] \in Nat /\ Cardinality(Rejecting(t)) \in Nat
        /\ rejected[t] + Cardinality(Rejecting(t)) <= produced[t]
    BY RejectingFinite DEF FloorInv, FloorTypeOK, Promised
  <2> QED
    BY <2>1
<1> QED
  BY <1>1, FloorStarts, FloorKeeps, PTL DEF FloorSpec

(***************************************************************************)
(* Cards. A print is possible with an approved design only, and revoking   *)
(* the design undoes the print, so the invariant carries itself.           *)
(***************************************************************************)
CardInv == CardTypeOK /\ PrintedIsApproved

LEMMA SeedCards ==
  ASSUME NEW c \in CardId
  PROVE  SeedCard(c) \in Card /\ (SeedCard(c).status = "ready" => SeedCard(c).designDone)
<1>1. CASE c \in DOMAIN SeedStatus
  <2>1. PICK st \in CardStatus : SeedStatus[c] = st
    BY <1>1, CardAssumption DEF CardStatus
  <2>2. CASE st \in {"ready", "done"}
    <3>1. SeedCard(c) = [designDone |-> TRUE, status |-> st]
      BY <1>1, <2>1, <2>2 DEF SeedCard
    <3> QED
      BY <3>1 DEF Card
  <2>3. CASE st \notin {"ready", "done"}
    <3>1. SeedCard(c) = [designDone |-> FALSE, status |-> st]
      <4>1. (st \in {"ready", "done"}) = FALSE
        BY <2>3
      <4>2. SeedCard(c) = [designDone |-> st \in {"ready", "done"}, status |-> st]
        BY <1>1, <2>1 DEF SeedCard
      <4> QED
        BY <4>1, <4>2, Zenon
    <3> QED
      BY <2>3, <3>1 DEF Card
  <2> QED
    BY <2>2, <2>3
<1>2. CASE c \notin DOMAIN SeedStatus
  BY <1>2 DEF SeedCard, Card, CardStatus
<1> QED
  BY <1>1, <1>2

LEMMA CardInitInv == CardInit => CardInv
BY SeedCards DEF CardInit, CardInv, CardTypeOK, PrintedIsApproved, Tab

(* What a rewritten order must be.                                         *)
LEMMA RewriteStep ==
  ASSUME CardInv, NEW c \in CardId, NEW o \in Card, o.status = "ready" => o.designDone,
         Rewrite(c, o)
  PROVE  CardInv'
BY DEF CardInv, CardTypeOK, PrintedIsApproved, Rewrite

LEMMA CardHandlers ==
  ASSUME NEW o \in Card, o.status = "ready" => o.designDone, NEW new \in CardStatus
  PROVE  /\ StatusUpdated(o, new) \in Card
         /\ StatusUpdated(o, new).status = "ready" => StatusUpdated(o, new).designDone
         /\ CardDesignToggled(o) \in Card
         /\ CardDesignToggled(o).status = "ready" => CardDesignToggled(o).designDone
BY DEF StatusUpdated, CardDesignToggled, Card, CardStatus, Printed

LEMMA CardNextInv == CardInv /\ [CardNext]_cardVars => CardInv'
<1> SUFFICES ASSUME CardInv, [CardNext]_cardVars PROVE CardInv'
  OBVIOUS
<1>1. \A c \in CardId : cards[c] \in Card /\ (cards[c].status = "ready" => cards[c].designDone)
  BY DEF CardInv, CardTypeOK, PrintedIsApproved
<1>2. ASSUME NEW c \in CardId, AddCard(c) PROVE CardInv'
  BY <1>2, RewriteStep DEF AddCard, Card, CardStatus
<1>3. ASSUME NEW c \in CardId,
             ToggleCardDesign(c) \/ TogglePrintedCard(c) \/ MarkDispatched(c) \/ ReopenOrder(c)
      PROVE  CardInv'
  <2>1. {"kamal", "ready", "done"} \subseteq CardStatus
    BY DEF CardStatus
  <2> QED
    BY <1>1, <1>3, <2>1, CardHandlers, RewriteStep
       DEF ToggleCardDesign, TogglePrintedCard, MarkDispatched, ReopenOrder
<1>4. ASSUME NEW t \in Tab, SelectTab(t) \/ ReloadCards PROVE CardInv'
  BY <1>4 DEF SelectTab, ReloadCards, CardInv, CardTypeOK, PrintedIsApproved, Tab
<1>5. CASE UNCHANGED cardVars
  BY <1>5 DEF cardVars, CardInv, CardTypeOK, PrintedIsApproved
<1> QED
  BY <1>2, <1>3, <1>4, <1>5 DEF CardNext, Tab

(* However designs are revoked and orders reopened, an order that shows as *)
(* printed has an approved design.                                         *)
THEOREM PrintedStaysApproved == CardSpec => []PrintedIsApproved
<1>1. CardInv => PrintedIsApproved
  BY DEF CardInv
<1> QED
  BY <1>1, CardInitInv, CardNextInv, PTL DEF CardSpec

(***************************************************************************)
(* Intake. A list keeps the order of its serials when its head is taken    *)
(* for the next one and when any entry is removed; the options of an entry *)
(* were applied while its number was the next.                             *)
(***************************************************************************)
Descends(list) ==
    \A j, k \in DOMAIN list : j < k /\ list[k].draft # 0 => list[j].sn > list[k].sn

Applied(list, past) ==
    \A k \in DOMAIN list : \A opt \in list[k].options : <<list[k].draft, opt>> \in past

DraftsWithin(list, n) == \A k \in DOMAIN list : list[k].draft <= n

ListInv(list, past, n) ==
    list \in Seq(Entry) /\ Descends(list) /\ Applied(list, past) /\ DraftsWithin(list, n)

IntakeInv ==
    /\ form \in Form /\ created \in 0 .. MaxDrafts
    /\ lists \in [Book -> Seq(Entry)]
    /\ \A b \in Book : ListInv(lists[b], applied, created)
    /\ \A opt \in form.configured : <<created + 1, opt>> \in applied

LEMMA SeedListInv == ListInv(SeedList, {}, 0)
<1>1. \A k \in 1 .. Len(SeedSerials) : [sn |-> SeedSerials[k], options |-> {}, draft |-> 0] \in Entry
  BY IntakeAssumption DEF Entry
<1>2. SeedList \in Seq(Entry) /\ DOMAIN SeedList = 1 .. Len(SeedSerials)
  BY <1>1, IntakeAssumption DEF SeedList
<1>3. \A k \in DOMAIN SeedList : SeedList[k].draft = 0 /\ SeedList[k].options = {}
  BY DEF SeedList
<1> QED
  BY <1>2, <1>3 DEF ListInv, Descends, Applied, DraftsWithin

LEMMA EntriesTyped ==
  ASSUME NEW list \in Seq(Entry)
  PROVE  \A k \in DOMAIN list : list[k] \in Entry /\ list[k].draft \in Nat /\ list[k].sn \in Nat
<1>1. \A k \in DOMAIN list : list[k] \in Entry
  OBVIOUS
<1>2. \A e \in Entry : e.draft \in Nat /\ e.sn \in Nat
  BY IntakeAssumption DEF Entry
<1> QED
  BY <1>1, <1>2

(* More may have been applied, and more drafts created.                    *)
LEMMA ListGrows ==
  ASSUME NEW list, NEW past, NEW more, NEW n \in Nat, NEW m \in Nat, ListInv(list, past, n),
         past \subseteq more, n <= m
  PROVE  ListInv(list, more, m)
<1>1. Applied(list, more)
  BY DEF ListInv, Applied
<1>2. \A k \in DOMAIN list : list[k].draft \in Nat /\ list[k].draft <= n
  BY EntriesTyped DEF ListInv, DraftsWithin
<1>3. DraftsWithin(list, m)
  BY <1>2 DEF DraftsWithin
<1> QED
  BY <1>1, <1>3 DEF ListInv

(* What was applied for drafts that were not created may be forgotten.     *)
LEMMA ListForgets ==
  ASSUME NEW list, NEW past, NEW n \in Nat, ListInv(list, past, n)
  PROVE  ListInv(list, {a \in past : a[1] <= n}, n)
BY DEF ListInv, Applied, DraftsWithin

(* The seed list may be put in place of a list at any time.                *)
LEMMA SeedListAlways == \A past : \A n \in Nat : ListInv(SeedList, past, n)
BY SeedListInv, ListGrows

LEMMA Prepending ==
  ASSUME NEW list, NEW past, NEW n \in Nat, ListInv(list, past, n), NEW e \in Entry,
         list # <<>> => e.sn > Head(list).sn,
         e.draft = n + 1, \A opt \in e.options : <<n + 1, opt>> \in past
  PROVE  ListInv(<<e>> \o list, past, n + 1)
<1> DEFINE new == <<e>> \o list
<1>1. /\ list \in Seq(Entry) /\ new \in Seq(Entry) /\ DOMAIN new = 1 .. Len(list) + 1
      /\ \A k \in 1 .. Len(list) + 1 : new[k] = IF k = 1 THEN e ELSE list[k - 1]
  BY DEF ListInv
<1> HIDE DEF new
<1>2. ASSUME NEW k \in DOMAIN list, list[k].draft # 0 PROVE e.sn > list[k].sn
  <2>1. list # <<>> /\ Head(list) = list[1] /\ 1 \in DOMAIN list
    BY <1>1
  <2>2. /\ list[1].sn \in Nat /\ list[k].sn \in Nat /\ e.sn \in Nat
        /\ k \in Nat /\ 1 <= k
    <3>1. e.sn \in Nat
      BY DEF Entry
    <3> QED
      BY <1>1, <2>1, <3>1, EntriesTyped
  <2>3. k # 1 => list[1].sn > list[k].sn
    BY <1>2, <2>1, <2>2 DEF ListInv, Descends
  <2> QED
    BY <2>1, <2>2, <2>3
<1>3. Descends(new)
  <2> SUFFICES ASSUME NEW j \in DOMAIN new, NEW k \in DOMAIN new, j < k, new[k].draft # 0
               PROVE  new[j].sn > new[k].sn
    BY DEF Descends
  <2>1. k # 1 /\ new[k] = list[k - 1] /\ k - 1 \in DOMAIN list
    BY <1>1
  <2>2. CASE j = 1
    BY <1>1, <1>2, <2>1, <2>2
  <2>3. CASE j # 1
    <3>1. new[j] = list[j - 1] /\ j - 1 \in DOMAIN list /\ j - 1 < k - 1
      BY <1>1, <2>1, <2>3
    <3> QED
      BY <2>1, <3>1 DEF ListInv, Descends
  <2> QED
    BY <2>2, <2>3
<1>4. \A k \in DOMAIN new : new[k] = e \/ \E m \in DOMAIN list : new[k] = list[m]
  BY <1>1
<1>5. Applied(new, past)
  BY <1>4 DEF ListInv, Applied
<1>6. DraftsWithin(new, n + 1)
  <2>1. \A m \in DOMAIN list : list[m].draft \in Nat /\ list[m].draft <= n
    BY <1>1, EntriesTyped DEF ListInv, DraftsWithin
  <2>2. \A k \in DOMAIN new : new[k].draft <= n + 1
    BY <1>4, <2>1
  <2> QED
    BY <2>2 DEF DraftsWithin
<1>7. ListInv(new, past, n + 1)
  BY <1>1, <1>3, <1>5, <1>6 DEF ListInv
<1> QED
  BY <1>7 DEF new

LEMMA Removing ==
  ASSUME NEW list, NEW past, NEW n, ListInv(list, past, n), NEW i \in DOMAIN list
  PROVE  ListInv(RemoveAt(list, i), past, n)
<1> DEFINE new == RemoveAt(list, i)
<1>1. list \in Seq(Entry) /\ i \in 1 .. Len(list) /\ Len(list) \in Nat
  BY DEF ListInv
<1>2. /\ SubSeq(list, 1, i - 1) \in Seq(Entry) /\ Len(SubSeq(list, 1, i - 1)) = i - 1
      /\ \A k \in 1 .. i - 1 : SubSeq(list, 1, i - 1)[k] = list[k]
  BY <1>1
<1>3. /\ SubSeq(list, i + 1, Len(list)) \in Seq(Entry)
      /\ Len(SubSeq(list, i + 1, Len(list))) = Len(list) - i
      /\ \A k \in 1 .. Len(list) - i : SubSeq(list, i + 1, Len(list))[k] = list[i + k]
  BY <1>1
<1>4. /\ new \in Seq(Entry) /\ DOMAIN new = 1 .. Len(list) - 1
      /\ \A k \in 1 .. Len(list) - 1 :
             new[k] = IF k <= i - 1 THEN SubSeq(list, 1, i - 1)[k]
                      ELSE SubSeq(list, i + 1, Len(list))[k - (i - 1)]
  <2> DEFINE front == SubSeq(list, 1, i - 1)
             rest == SubSeq(list, i + 1, Len(list))
  <2>1. /\ front \in Seq(Entry) /\ Len(front) = i - 1
        /\ rest \in Seq(Entry) /\ Len(rest) = Len(list) - i /\ new = front \o rest
    BY <1>2, <1>3 DEF RemoveAt
  <2> HIDE DEF front, rest, new
  <2>2. /\ front \o rest \in Seq(Entry) /\ Len(front \o rest) = Len(front) + Len(rest)
        /\ \A k \in 1 .. Len(front) + Len(rest) :
               (front \o rest)[k] = IF k <= Len(front) THEN front[k] ELSE rest[k - Len(front)]
    BY <2>1, ConcatProperties
  <2>3. Len(front) + Len(rest) = Len(list) - 1
    BY <1>1, <2>1
  <2>4. new \in Seq(Entry) /\ Len(new) = Len(list) - 1
    BY <2>1, <2>2, <2>3
  <2>5. DOMAIN new = 1 .. Len(list) - 1
    BY <2>4
  <2>6. \A k \in 1 .. Len(list) - 1 :
           new[k] = IF k <= i - 1 THEN front[k] ELSE rest[k - (i - 1)]
    BY <2>1, <2>2, <2>3
  <2> QED
    BY <2>4, <2>5, <2>6 DEF front, rest
<1> HIDE DEF new
<1>5. ASSUME NEW k \in DOMAIN new
      PROVE  new[k] = IF k < i THEN list[k] ELSE list[k + 1]
  <2>1. k \in 1 .. Len(list) - 1 /\ k \in Int /\ i \in Int
    BY <1>1, <1>4
  <2>2. CASE k <= i - 1
    <3>1. k \in 1 .. i - 1 /\ k < i
      BY <2>1, <2>2
    <3>2. new[k] = SubSeq(list, 1, i - 1)[k]
      BY <1>4, <2>1, <2>2
    <3> QED
      BY <1>2, <3>1, <3>2
  <2>3. CASE ~(k <= i - 1)
    <3>1. k - (i - 1) \in 1 .. Len(list) - i /\ i + (k - (i - 1)) = k + 1 /\ ~(k < i)
      BY <1>1, <2>1, <2>3
    <3>2. new[k] = SubSeq(list, i + 1, Len(list))[k - (i - 1)]
      BY <1>4, <2>1, <2>3
    <3> QED
      BY <1>3, <3>1, <3>2
  <2> QED
    BY <2>2, <2>3
<1>6. Descends(new)
  <2> SUFFICES ASSUME NEW j \in DOMAIN new, NEW k \in DOMAIN new, j < k, new[k].draft # 0
               PROVE  new[j].sn > new[k].sn
    BY DEF Descends
  <2>1. /\ j \in DOMAIN list /\ j + 1 \in DOMAIN list /\ k \in DOMAIN list
        /\ k + 1 \in DOMAIN list /\ j \in Int /\ k \in Int /\ i \in Int
    BY <1>1, <1>4
  <2> DEFINE a == IF j < i THEN j ELSE j + 1
             b == IF k < i THEN k ELSE k + 1
  <2>2. a \in DOMAIN list /\ b \in DOMAIN list /\ a < b
    BY <2>1
  <2>3. new[j] = list[a] /\ new[k] = list[b]
    BY <1>5
  <2> HIDE DEF a, b
  <2> QED
    BY <2>2, <2>3 DEF ListInv, Descends
<1>7. \A k \in DOMAIN new : \E m \in DOMAIN list : new[k] = list[m]
  <2> SUFFICES ASSUME NEW k \in DOMAIN new PROVE \E m \in DOMAIN list : new[k] = list[m]
    OBVIOUS
  <2>1. k \in DOMAIN list /\ k + 1 \in DOMAIN list
    BY <1>1, <1>4
  <2> QED
    BY <1>5, <2>1
<1>8. Applied(new, past)
  BY <1>7 DEF ListInv, Applied
<1>9. DraftsWithin(new, n)
  BY <1>7 DEF ListInv, DraftsWithin
<1>10. ListInv(new, past, n)
  BY <1>4, <1>6, <1>8, <1>9 DEF ListInv
<1> QED
  BY <1>10 DEF new

(***************************************************************************)
(* The operations of the page.                                             *)
(***************************************************************************)
LEMMA IntakeStarts == IntakeInit => IntakeInv
<1> SUFFICES ASSUME IntakeInit PROVE IntakeInv
  OBVIOUS
<1>1. ListInv(SeedList, {}, 0)
  BY SeedListInv
<1>2. SeedList \in Seq(Entry)
  BY <1>1 DEF ListInv
<1>3. form \in Form /\ form.configured = {}
  BY DEF IntakeInit, EmptyForm, Form, Option
<1>4. lists \in [Book -> Seq(Entry)]
  BY <1>2 DEF IntakeInit
<1>5. \A b \in Book : ListInv(lists[b], applied, created)
  BY <1>1 DEF IntakeInit
<1>6. created \in 0 .. MaxDrafts
  BY IntakeAssumption DEF IntakeInit
<1> QED
  BY <1>3, <1>4, <1>5, <1>6 DEF IntakeInv

(* What only fills the form in.                                            *)
LEMMA Filling ==
  ASSUME IntakeInv, NEW f \in Form, f.configured \subseteq form.configured, Fill(f)
  PROVE  IntakeInv'
BY DEF Fill, IntakeInv

LEMMA DescribeStep ==
  ASSUME IntakeInv, NEW text \in BOOLEAN, Describe(text) PROVE IntakeInv'
BY Filling DEF Describe, IntakeInv, Form

LEMMA TypeWidthStep ==
  ASSUME IntakeInv, NEW text \in BOOLEAN, TypeWidth(text) PROVE IntakeInv'
BY Filling DEF TypeWidth, IntakeInv, Form

LEMMA ChooseFromDropdownStep == ASSUME IntakeInv, ChooseFromDropdown PROVE IntakeInv'
BY Filling DEF ChooseFromDropdown, IntakeInv, Form

LEMMA ChooseScopeStep ==
  ASSUME IntakeInv, NEW scope \in {"full_set", "lanyard_only", "idcard_only"}, ChooseScope(scope)
  PROVE  IntakeInv'
BY Filling DEF ChooseScope, IntakeInv, Form

LEMMA OpenModalStep ==
  ASSUME IntakeInv, NEW modal \in {"color", "size", "item"}, OpenModal(modal) PROVE IntakeInv'
BY Filling DEF OpenModal, IntakeInv, Form, Option

LEMMA CloseModalStep == ASSUME IntakeInv, CloseModal PROVE IntakeInv'
BY Filling DEF CloseModal, IntakeInv, Form

LEMMA SaveCustomItemStep == ASSUME IntakeInv, SaveCustomItem PROVE IntakeInv'
BY Filling DEF SaveCustomItem, IntakeInv, Form

(* An option is applied for the order to come.                             *)
LEMMA Applying ==
  ASSUME IntakeInv, NEW f \in Form, NEW opt, form' = f,
         f.configured = form.configured \cup {opt},
         applied' = applied \cup {<<created + 1, opt>>}, UNCHANGED <<lists, created>>
  PROVE  IntakeInv'
<1>1. \A b \in Book : ListInv(lists[b], applied', created)
  BY ListGrows, IntakeAssumption DEF IntakeInv
<1> QED
  BY <1>1 DEF IntakeInv

LEMMA ApplyColorsStep == ASSUME IntakeInv, ApplyColors PROVE IntakeInv'
<1> DEFINE f == [form EXCEPT !.modal = "none", !.configured = @ \cup {"color"}, !.described = TRUE]
<1>1. f \in Form /\ f.configured = form.configured \cup {"color"}
  BY DEF IntakeInv, Form, Option
<1> QED
  BY <1>1, Applying DEF ApplyColors

LEMMA ApplySizesStep == ASSUME IntakeInv, ApplySizes PROVE IntakeInv'
<1> DEFINE f == [form EXCEPT !.modal = "none", !.configured = @ \cup {"size"},
                             !.described = @ \/ form.customWidth]
<1>1. f \in Form /\ f.configured = form.configured \cup {"size"}
  BY DEF IntakeInv, Form, Option
<1> QED
  BY <1>1, Applying DEF ApplySizes

LEMMA CreateOrderStep == ASSUME IntakeInv, CreateOrder PROVE IntakeInv'
<1>1. created \in Nat /\ created + 1 \in 0 .. MaxDrafts /\ created' = created + 1
  BY IntakeAssumption DEF IntakeInv, CreateOrder
<1>2. Carried \subseteq form.configured /\ form.configured \subseteq Option
  BY DEF Carried, IntakeInv, Form
<1>3. ASSUME NEW b \in Book PROVE ListInv(lists'[b], applied, created + 1)
  <2> DEFINE opts == IF b = "lanyard" THEN Carried ELSE {}
             e == [sn |-> NextSerial(b), draft |-> created', options |-> opts]
  <2>1. ListInv(lists[b], applied, created) /\ lists[b] \in Seq(Entry)
    BY DEF IntakeInv, ListInv
  <2>2. opts \subseteq Option /\ \A opt \in opts : <<created + 1, opt>> \in applied
    BY <1>2 DEF IntakeInv
  <2>3. NextSerial(b) \in Nat /\ (lists[b] # <<>> => NextSerial(b) > Head(lists[b]).sn)
    <3>1. lists[b] # <<>> => Head(lists[b]) = lists[b][1] /\ 1 \in DOMAIN lists[b]
      BY <2>1
    <3>2. lists[b] # <<>> => Head(lists[b]).sn \in Nat
      BY <2>1, <3>1, EntriesTyped
    <3> QED
      BY <3>2, IntakeAssumption DEF NextSerial
  <2> HIDE DEF opts
  <2>4. e \in Entry /\ e.sn = NextSerial(b) /\ e.draft = created + 1 /\ e.options = opts
    BY <1>1, <2>2, <2>3 DEF Entry
  <2>5. lists'[b] = IF b \in Scoped THEN <<e>> \o lists[b] ELSE lists[b]
    BY DEF CreateOrder, opts
  <2> HIDE DEF e
  <2>6. ListInv(<<e>> \o lists[b], applied, created + 1)
    BY <1>1, <2>1, <2>2, <2>3, <2>4, Prepending
  <2>7. ListInv(lists[b], applied, created + 1)
    BY <1>1, <2>1, ListGrows
  <2> QED
    BY <2>5, <2>6, <2>7
<1>4. lists' \in [Book -> Seq(Entry)]
  <2>1. \A b \in Book : lists'[b] \in Seq(Entry)
    BY <1>3 DEF ListInv
  <2>2. lists' = [b \in Book |-> lists'[b]]
    BY DEF CreateOrder
  <2> QED
    BY <2>1, <2>2
<1>5. form' \in Form /\ form'.configured = {}
  BY DEF CreateOrder, FormAfter, IntakeInv, Form, Option
<1>6. applied' = applied
  BY DEF CreateOrder
<1> QED
  BY <1>1, <1>3, <1>4, <1>5, <1>6 DEF IntakeInv

(* Leaving the page: the lists may change as long as they keep in order.   *)
LEMMA Leaving ==
  ASSUME IntakeInv, LeaveForm, lists' \in [Book -> Seq(Entry)],
         \A b \in Book : ListInv(lists'[b], applied, created)
  PROVE  IntakeInv'
<1>1. created \in Nat /\ created' = created
  BY IntakeAssumption DEF IntakeInv, LeaveForm
<1>2. \A b \in Book : ListInv(lists'[b], applied', created')
  BY <1>1, ListForgets DEF LeaveForm
<1>3. form' \in Form /\ form'.configured = {}
  BY DEF LeaveForm, EmptyForm, Form, Option
<1> QED
  BY <1>1, <1>2, <1>3 DEF IntakeInv

LEMMA DeleteLanyardStep ==
  ASSUME IntakeInv, NEW k \in DOMAIN lists["lanyard"], DeleteLanyard(k) PROVE IntakeInv'
<1>1. \A b \in Book : ListInv(lists[b], applied, created)
  BY DEF IntakeInv
<1>2. ListInv(RemoveAt(lists["lanyard"], k), applied, created)
  BY <1>1, Removing DEF Book
<1>3. /\ lists \in [Book -> Seq(Entry)] /\ "lanyard" \in Book
      /\ lists' = [lists EXCEPT !["lanyard"] = RemoveAt(lists["lanyard"], k)]
  BY DEF DeleteLanyard, IntakeInv, Book
<1>4. lists' \in [Book -> Seq(Entry)] /\ \A b \in Book : ListInv(lists'[b], applied, created)
  BY <1>1, <1>2, <1>3 DEF ListInv
<1> QED
  BY <1>4, Leaving DEF DeleteLanyard

LEMMA ReloadIntakeStep == ASSUME IntakeInv, ReloadIntake PROVE IntakeInv'
<1>1. \A b \in Book : ListInv(lists[b], applied, created)
  BY DEF IntakeInv
<1>2. ListInv(SeedList, applied, created)
  BY SeedListAlways, IntakeAssumption DEF IntakeInv
<1>3. \A b \in Book : ListInv(lists'[b], applied, created)
  BY <1>1, <1>2 DEF ReloadIntake
<1>4. lists' \in [Book -> Seq(Entry)]
  <2>1. \A b \in Book : lists'[b] \in Seq(Entry)
    BY <1>3 DEF ListInv
  <2>2. lists' = [b \in Book |-> lists'[b]]
    BY DEF ReloadIntake
  <2> QED
    BY <2>1, <2>2
<1> QED
  BY <1>3, <1>4, Leaving DEF ReloadIntake

LEMMA IntakeKeeps == IntakeInv /\ [IntakeNext]_intakeVars => IntakeInv'
<1> SUFFICES ASSUME IntakeInv, [IntakeNext]_intakeVars PROVE IntakeInv'
  OBVIOUS
<1>1. CASE UNCHANGED intakeVars
  BY <1>1 DEF intakeVars, IntakeInv
<1>2. CASE CreateOrder
  BY <1>2, CreateOrderStep
<1>3. CASE \E text \in BOOLEAN : Describe(text) \/ TypeWidth(text)
  BY <1>3, DescribeStep, TypeWidthStep
<1>4. CASE ChooseFromDropdown
  BY <1>4, ChooseFromDropdownStep
<1>5. CASE \E scope \in {"full_set", "lanyard_only", "idcard_only"} : ChooseScope(scope)
  BY <1>5, ChooseScopeStep
<1>6. CASE \E modal \in {"color", "size", "item"} : OpenModal(modal)
  BY <1>6, OpenModalStep
<1>7. CASE CloseModal
  BY <1>7, CloseModalStep
<1>8. CASE ApplyColors
  BY <1>8, ApplyColorsStep
<1>9. CASE ApplySizes
  BY <1>9, ApplySizesStep
<1>10. CASE SaveCustomItem
  BY <1>10, SaveCustomItemStep
<1>11. CASE \E k \in DOMAIN lists["lanyard"] : DeleteLanyard(k)
  BY <1>11, DeleteLanyardStep
<1>12. CASE ReloadIntake
  BY <1>12, ReloadIntakeStep
<1> QED
  BY <1>1, <1>2, <1>3, <1>4, <1>5, <1>6, <1>7, <1>8, <1>9, <1>10, <1>11, <1>12 DEF IntakeNext

(* Two orders of the intake page never share a serial in a book, for every *)
(* built-in list and every number of orders.                               *)
THEOREM SerialsStayDescending == IntakeSpec => []SerialsDescend
<1>1. IntakeInv => SerialsDescend
  BY DEF IntakeInv, ListInv, Descends, SerialsDescend
<1> QED
  BY <1>1, IntakeStarts, IntakeKeeps, PTL DEF IntakeSpec

(* An order carries only options applied for it.                           *)
THEOREM OptionsStayApplied == IntakeSpec => []OptionsWereApplied
<1>1. IntakeInv => OptionsWereApplied
  BY DEF IntakeInv, ListInv, Applied, OptionsWereApplied
<1> QED
  BY <1>1, IntakeStarts, IntakeKeeps, PTL DEF IntakeSpec
=============================================================================
