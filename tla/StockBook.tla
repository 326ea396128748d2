----------------------------- MODULE StockBook ------------------------------
(* The desktop client's hardware stock: stockStore.ts with the dialogs and *)
(* editable cells of StockDashboardView.tsx. Quantities are adjusted       *)
(* through one store function that also writes the movement log; cells are *)
(* edited past it.                                                         *)
EXTENDS Integers, Sequences

CONSTANTS
    Item,        \* identities of stock items
    BuiltIn,     \* the built-in items, in list order
    Code,        \* material codes the labour page issues
    Answers,     \* the codes that an item's code or name matches
    Fallback,    \* the item a code without a match is mapped to, if any
    Quantity,    \* quantities typed into the forms
    MaxMoves     \* bound on the movements logged and cells edited

ASSUME StockAssumption ==
    /\ BuiltIn \in Seq(Item) /\ BuiltIn # <<>>
    /\ Answers \in [Item -> SUBSET Code]
    /\ DOMAIN Fallback \subseteq Code
    /\ \A code \in DOMAIN Fallback : \E k \in DOMAIN BuiltIn : Fallback[code] = BuiltIn[k]
    /\ Quantity \subseteq Int
    /\ MaxMoves \in Nat

VARIABLES
    items,    \* the list of items, newest first
    stock,    \* what is available and used of each
    moved,    \* the movement log: additions and usages summed by item
    moves,    \* how many movements were logged and cells edited
    desk      \* the dialog that is open, with its copy of the item

stockVars == <<items, stock, moved, moves, desk>>

Stock == [available : Int, used : Int]
Log == [added : Nat, taken : Nat]

Initial == [available |-> 1, used |-> 0]

NoDesk == [kind |-> "none", item |-> BuiltIn[1], card |-> Initial]

(* targetItem is a copy of the item made when its row's button is pressed. *)
Desk == [kind : {"none", "add", "usage", "new"}, item : Item, card : Stock]

Listed == {items[k] : k \in DOMAIN items}

StockInit ==
    /\ items = BuiltIn
    /\ stock = [i \in Item |-> Initial]
    /\ moved = [i \in Item |-> [added |-> 0, taken |-> 0]]
    /\ moves = 0
    /\ desk = NoDesk

AtLeastZero(n) == IF n < 0 THEN 0 ELSE n

(* An item's figures after an adjustment: what is missing is not refused,  *)
(* and counts as used.                                                     *)
Adjusted(s, delta) ==
    [available |-> AtLeastZero(s.available + delta),
     used |-> IF delta < 0 THEN s.used - delta ELSE s.used]

(* The adjustment in the log: an addition, or a usage of as much.          *)
Logged(l, delta) ==
    IF delta >= 0 THEN [l EXCEPT !.added = @ + delta] ELSE [l EXCEPT !.taken = @ - delta]

(* adjustStock.                                                            *)
AdjustStock(i, delta) ==
    /\ moves < MaxMoves
    /\ stock' = [stock EXCEPT ![i] = Adjusted(@, delta)]
    /\ moved' = [moved EXCEPT ![i] = Logged(@, delta)]
    /\ moves' = moves + 1

(* The item a material code is deducted from: the first in the list whose  *)
(* code is this or whose name contains it, else the code's fallback; a     *)
(* custom item stands before the built-in ones. Empty: nothing is.         *)
FirstMatch(code) ==
    LET matches == {n \in DOMAIN items : code \in Answers[items[n]]}
    IN  IF matches # {}
        THEN {items[k] : k \in {n \in matches : \A m \in matches : n <= m}}
        ELSE {Fallback[c] : c \in DOMAIN Fallback \cap {code}}

OpenDesk(kind, i) ==
    /\ desk.kind = "none" /\ i \in Listed
    /\ desk' = [kind |-> kind, item |-> i, card |-> stock[i]]
    /\ UNCHANGED <<items, stock, moved, moves>>

CloseDesk ==
    /\ desk.kind # "none"
    /\ desk' = NoDesk
    /\ UNCHANGED <<items, stock, moved, moves>>

(* handleConfirmAddStock: the quantity may be zero or negative.            *)
ConfirmAddStock(q) ==
    /\ desk.kind = "add"
    /\ AdjustStock(desk.item, q)
    /\ desk' = NoDesk
    /\ UNCHANGED items

(* Mutant of CardAfterUsage: the drawer keeps the card it was opened with. *)
CardAfterUsageKept(q) == desk.card

CardAfterUsage(q) ==
    [available |-> AtLeastZero(desk.card.available - q), used |-> desk.card.used + q]

(* handleConfirmLogUsage: the field's limits are 1 and what the drawer     *)
(* shows as available; the drawer stays open.                              *)
ConfirmLogUsage(q) ==
    /\ desk.kind = "usage"
    /\ q >= 1 /\ q <= desk.card.available
    /\ AdjustStock(desk.item, -q)
    /\ desk' = [desk EXCEPT !.card = CardAfterUsage(q)]
    /\ UNCHANGED items

(* handleCreateNewItem.                                                    *)
CreateNewItem(i) ==
    /\ desk.kind = "new"
    /\ i \notin Listed
    /\ items' = <<i>> \o items
    /\ desk' = NoDesk
    /\ UNCHANGED <<stock, moved, moves>>

(* A double-clicked cell is saved: any number, and nothing is logged.      *)
SaveEdit(i, field, n) ==
    /\ desk.kind = "none" /\ i \in Listed
    /\ moves < MaxMoves
    /\ moves' = moves + 1
    /\ stock' = [stock EXCEPT ![i] = IF field = "available" THEN [@ EXCEPT !.available = n]
                                     ELSE [@ EXCEPT !.used = n]]
    /\ UNCHANGED <<items, moved, desk>>

(* The window is reloaded: the lists were persisted and are never empty.   *)
ReloadStock ==
    /\ desk' = NoDesk
    /\ UNCHANGED <<items, stock, moved, moves>>

StockNext ==
    \/ \E i \in Item :
           \/ \E kind \in {"add", "usage", "new"} : OpenDesk(kind, i)
           \/ CreateNewItem(i)
           \/ \E field \in {"available", "used"} : \E n \in Quantity : SaveEdit(i, field, n)
    \/ CloseDesk
    \/ \E q \in Quantity : ConfirmAddStock(q) \/ ConfirmLogUsage(q)
    \/ ReloadStock

StockSpec == StockInit /\ [][StockNext]_stockVars

(* The figures are numbers, and every item of the list is an item.         *)
StockTypeOK ==
    /\ items \in Seq(Item)
    /\ stock \in [Item -> Stock]
    /\ moved \in [Item -> Log]
    /\ moves \in 0 .. MaxMoves
    /\ desk \in Desk

(* While the usage drawer is open, the card at its top - a copy that is    *)
(* kept in step by hand through any number of deductions - shows what the  *)
(* stock book holds of the item.                                           *)
DrawerShowsStock == desk.kind = "usage" => desk.card = stock[desk.item]
=============================================================================
