---------------------------- MODULE MaterialDesk ----------------------------
(* Handing out material on the desktop client's labour page: the sent      *)
(* lists of lanyardOrdersStore.ts and the issue dialog of                  *)
(* LabourLanyardWorkspaceView.tsx, together with the stock book that what  *)
(* is issued is deducted from.                                             *)
EXTENDS StockBook, FiniteSets, FiniteSetsExt

CONSTANTS
    Labourer,       \* the contractors with a ledger
    FirstLabourer   \* the one shown first

ASSUME MaterialAssumption ==
    /\ FirstLabourer \in Labourer
    /\ IsFiniteSet(Labourer) /\ IsFiniteSet(Item) /\ IsFiniteSet(Code)

VARIABLES
    sent,       \* what was issued beyond the built-in lists, summed by
                \* contractor and code
    selected,   \* the contractor whose ledger is shown
    issuing     \* whether the issue dialog is open

materialVars == <<stockVars, sent, selected, issuing>>

MaterialInit ==
    /\ StockInit
    /\ sent = [c \in Labourer |-> [code \in Code |-> 0]]
    /\ selected = FirstLabourer
    /\ issuing = FALSE

DeskClear == ~issuing /\ desk.kind = "none"

(* setSelectedContractorId, by a tab or by a jump from the lanyard page.   *)
SelectContractor(c) ==
    /\ DeskClear
    /\ selected' = c
    /\ UNCHANGED <<sent, issuing, stockVars>>

OpenIssue ==
    /\ DeskClear
    /\ issuing' = TRUE
    /\ UNCHANGED <<sent, selected, stockVars>>

(* Cancel, the backdrop, or a reload: the lists were persisted.            *)
CloseIssue ==
    /\ issuing
    /\ issuing' = FALSE
    /\ UNCHANGED <<sent, selected, stockVars>>

(* Mutant of Deduct: an issue is deducted only while the stock covers it.  *)
DeductCovered(code, q) ==
    IF \E i \in FirstMatch(code) : stock[i].available >= q
    THEN /\ \E i \in FirstMatch(code) : AdjustStock(i, -q)
         /\ UNCHANGED <<items, desk>>
    ELSE moves' = moves + 1 /\ UNCHANGED <<items, stock, moved, desk>>

(* issueHardwareToLabour: a code without an item is not deducted.          *)
Deduct(code, q) ==
    IF FirstMatch(code) # {}
    THEN /\ \E i \in FirstMatch(code) : AdjustStock(i, -q)
         /\ UNCHANGED <<items, desk>>
    ELSE moves' = moves + 1 /\ UNCHANGED <<items, stock, moved, desk>>

(* handleConfirmIssue: the ledger first, then the stock.                   *)
ConfirmIssue(code, q) ==
    /\ issuing
    /\ q > 0
    /\ moves < MaxMoves   \* the bound, also for an issue that moves no stock
    /\ sent' = [sent EXCEPT ![selected][code] = @ + q]
    /\ Deduct(code, q)
    /\ issuing' = FALSE
    /\ UNCHANGED selected

MaterialNext ==
    \/ ~issuing /\ StockNext /\ UNCHANGED <<sent, selected, issuing>>
    \/ \E c \in Labourer : SelectContractor(c)
    \/ OpenIssue
    \/ CloseIssue
    \/ \E code \in Code : \E q \in Quantity : ConfirmIssue(code, q)

MaterialSpec == MaterialInit /\ [][MaterialNext]_materialVars

(* What was sent are quantities, and a contractor with a ledger is shown.  *)
MaterialTypeOK ==
    /\ StockTypeOK
    /\ sent \in [Labourer -> [Code -> Nat]]
    /\ selected \in Labourer
    /\ issuing \in BOOLEAN

(* The codes that some built-in item answers for.                          *)
Stocked == DOMAIN Fallback \cup UNION {Answers[BuiltIn[k]] : k \in DOMAIN BuiltIn}

SentTo(c) == SumFunctionOnSet(sent[c], Stocked)

(* Whatever is in stock when material is handed out, and whichever items   *)
(* are added or edited: everything the ledgers say contractors were sent   *)
(* of a stocked code is in the movement log as taken. (The two safety      *)
(* jointers are not stocked: the log never sees them.)                     *)
SentIsLogged ==
    SumFunction([c \in Labourer |-> SentTo(c)])
        <= SumFunction([i \in Item |-> moved[i].taken])
=============================================================================
