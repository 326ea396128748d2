---------------------------- MODULE VoucherLedger ---------------------------
(* The fitting vouchers of the desktop client's labour page, by contractor *)
(* and number: registered by assignments on the lanyard page, typed in by  *)
(* hand, completed, and dropped with a deleted order                       *)
(* (lanyardOrdersStore.ts, LabourLanyardWorkspaceView.tsx).                *)
EXTENDS Naturals, Sequences, FiniteSetsExt

CONSTANTS
    Fitter,           \* the contractors with a ledger
    LinkedOrder,      \* the orders whose assignment registers vouchers
    TypedNo,          \* voucher numbers typed by hand
    FirstFitter,      \* the contractor shown first
    BuiltInVouchers,  \* the built-in vouchers of every contractor
    MaxLedger,        \* bound on the vouchers in all ledgers
    MaxNo             \* bound on the numbers given to them

ASSUME LedgerAssumption ==
    /\ FirstFitter \in Fitter
    /\ BuiltInVouchers \in [Fitter -> Seq([no : Nat, orders : {{}}, status : {"in_fitting", "ready"}])]
    /\ TypedNo \subseteq Nat
    /\ MaxLedger \in Nat /\ MaxNo \in Nat

VARIABLES
    ledger,    \* the vouchers of every contractor, newest first
    tab,       \* the contractor whose ledger is shown
    filter,    \* which of its vouchers are shown
    entering   \* whether the dialog for a voucher is open

ledgerVars == <<ledger, tab, filter, entering>>

(* A voucher registered for an order carries it; a typed or built-in one   *)
(* does not.                                                               *)
LedgerVoucher ==
    [no : Nat, orders : SUBSET LinkedOrder, status : {"in_fitting", "ready"}]

LedgerInit ==
    /\ ledger = BuiltInVouchers
    /\ tab = FirstFitter
    /\ filter = "IN_FITTING"
    /\ entering = FALSE

(* Mutant of NextVoucherNo: vouchers are numbered by how many there are.   *)
NextVoucherNoByCount(c) == Len(ledger[c]) + 1

NextVoucherNo(c) ==
    IF ledger[c] = <<>> THEN 1 ELSE Max({ledger[c][k].no : k \in DOMAIN ledger[c]}) + 1

Write(c, v) ==
    /\ Cardinality(UNION {{f} \X DOMAIN ledger[f] : f \in Fitter}) < MaxLedger
    /\ v.no <= MaxNo
    /\ ledger' = [ledger EXCEPT ![c] = <<v>> \o @]

(* handleJumpToLabourPage, from the lanyard page: the labour page is shown *)
(* anew, with the order's contractor.                                      *)
JumpToLedger(c) ==
    /\ ~entering
    /\ tab' = c /\ filter' = "IN_FITTING"
    /\ UNCHANGED <<ledger, entering>>

(* setSelectedContractorId, by a tab of the page.                          *)
ShowLedger(c) ==
    /\ ~entering
    /\ tab' = c
    /\ UNCHANGED <<ledger, filter, entering>>

ChooseFilter(f) ==
    /\ ~entering
    /\ filter' = f
    /\ UNCHANGED <<ledger, tab, entering>>

OpenVoucherForm ==
    /\ ~entering
    /\ entering' = TRUE
    /\ UNCHANGED <<ledger, tab, filter>>

CloseVoucherForm ==
    /\ entering
    /\ entering' = FALSE
    /\ UNCHANGED <<ledger, tab, filter>>

(* handleConfirmAddVoucher: any number, also one that is taken already.    *)
ConfirmAddVoucher(no) ==
    /\ entering
    /\ Write(tab, [no |-> no, orders |-> {}, status |-> "in_fitting"])
    /\ entering' = FALSE
    /\ UNCHANGED <<tab, filter>>

(* assignLabourAndRegisterVoucher, from the lanyard page; coming back, the *)
(* labour page shows the vouchers in fitting.                              *)
RegisterVoucher(c, o) ==
    /\ ~entering
    /\ Write(c, [no |-> NextVoucherNo(c), orders |-> {o}, status |-> "in_fitting"])
    /\ filter' = "IN_FITTING"
    /\ UNCHANGED <<tab, entering>>

(* markVoucherComplete, on a row that is shown.                            *)
MarkComplete(k) ==
    /\ ~entering /\ filter # "READY"
    /\ ledger[tab][k].status = "in_fitting"
    /\ ledger' = [ledger EXCEPT ![tab][k].status = "ready"]
    /\ UNCHANGED <<tab, filter, entering>>

(* What is left of a ledger without the vouchers of an order.              *)
Without(list, o) ==
    LET kept[k \in 0 .. Len(list)] ==
            IF k = 0 THEN <<>>
            ELSE IF o \in list[k].orders THEN kept[k - 1]
            ELSE Append(kept[k - 1], list[k])
    IN  kept[Len(list)]

(* deleteOrder, from the lanyard page: the order's vouchers leave every    *)
(* ledger.                                                                 *)
DropOrder(o) ==
    /\ ~entering
    /\ ledger' = [c \in Fitter |-> Without(ledger[c], o)]
    /\ filter' = "IN_FITTING"
    /\ UNCHANGED <<tab, entering>>

(* The window is reloaded: ledgers and tab were persisted.                 *)
ReloadLedger ==
    /\ filter' = "IN_FITTING" /\ entering' = FALSE
    /\ UNCHANGED <<ledger, tab>>

LedgerNext ==
    \/ \E c \in Fitter : ShowLedger(c) \/ JumpToLedger(c) \/ \E o \in LinkedOrder : RegisterVoucher(c, o)
    \/ \E f \in {"ALL", "IN_FITTING", "READY"} : ChooseFilter(f)
    \/ OpenVoucherForm
    \/ CloseVoucherForm
    \/ \E no \in TypedNo : ConfirmAddVoucher(no)
    \/ \E k \in DOMAIN ledger[tab] : MarkComplete(k)
    \/ \E o \in LinkedOrder : DropOrder(o)
    \/ ReloadLedger

LedgerSpec == LedgerInit /\ [][LedgerNext]_ledgerVars

(* The ledgers are lists of vouchers; one of them is shown.                *)
LedgerTypeOK ==
    /\ ledger \in [Fitter -> Seq(LedgerVoucher)]
    /\ tab \in Fitter
    /\ filter \in {"ALL", "IN_FITTING", "READY"}
    /\ entering \in BOOLEAN

(* No two vouchers that assignments registered in one ledger have the same *)
(* number, whatever numbers were typed in between and whichever orders     *)
(* were deleted with their vouchers.                                       *)
AssignedNumbersDiffer ==
    \A c \in Fitter : \A j, k \in DOMAIN ledger[c] :
        /\ ledger[c][j].orders # {} /\ ledger[c][k].orders # {}
        /\ ledger[c][j].no = ledger[c][k].no
        => j = k
=============================================================================
