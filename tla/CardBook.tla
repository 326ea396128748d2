------------------------------ MODULE CardBook ------------------------------
(* The desktop client's ID card queue: idCardOrdersStore.ts with the       *)
(* handlers and cells of IDCardWorkspaceView.tsx. A card order waits with  *)
(* the printer ("kamal"), is printed ("ready") and is dispatched ("done"); *)
(* its design is approved beside that. Handlers run to their end on the    *)
(* state last drawn.                                                       *)
EXTENDS Naturals

CONSTANTS
    CardId,      \* identities of card orders
    SeedStatus   \* the status of every built-in card order

ASSUME CardAssumption ==
    /\ DOMAIN SeedStatus \subseteq CardId
    /\ \A c \in DOMAIN SeedStatus : SeedStatus[c] \in {"kamal", "ready", "ready (1 pending he)", "done"}

VARIABLES
    cards,     \* the card orders by identity
    viewTab    \* the tab of the queue that is shown

cardVars == <<cards, viewTab>>

CardStatus == {"absent", "kamal", "ready", "ready (1 pending he)", "done"}

Card == [designDone : BOOLEAN, status : CardStatus]

Tab == {"ACTIVE", "COMPLETED", "ALL"}

Printed == {"ready", "ready (1 pending he)"}

(* Loading takes the design of a ready or done order for approved, but not *)
(* that of an order with one card pending.                                 *)
SeedCard(c) ==
    IF c \in DOMAIN SeedStatus
    THEN [designDone |-> SeedStatus[c] \in {"ready", "done"}, status |-> SeedStatus[c]]
    ELSE [designDone |-> FALSE, status |-> "absent"]

CardInit ==
    /\ cards = [c \in CardId |-> SeedCard(c)]
    /\ viewTab = "ACTIVE"

(* updateOrderStatus: printed and done are refused without a design; the   *)
(* caller is not told.                                                     *)
StatusUpdated(o, new) ==
    IF new \in Printed \cup {"done"} /\ ~o.designDone THEN o ELSE [o EXCEPT !.status = new]

(* Mutant of CardDesignToggled: a revoked design leaves the order printed. *)
CardDesignToggledAlone(o) == [o EXCEPT !.designDone = ~@]

(* toggleDesignDone: a revoked design returns a printed order to the       *)
(* printer, and leaves a dispatched one dispatched.                        *)
CardDesignToggled(o) ==
    [designDone |-> ~o.designDone,
     status |-> IF o.designDone /\ o.status \in Printed THEN "kamal" ELSE o.status]

(* The rows the chosen tab lets through.                                   *)
Shown(c) ==
    /\ cards[c].status # "absent"
    /\ viewTab = "ACTIVE" => cards[c].status # "done"
    /\ viewTab = "COMPLETED" => cards[c].status = "done"

Rewrite(c, o) == cards' = [cards EXCEPT ![c] = o] /\ UNCHANGED viewTab

(* A card order arrives from the intake page.                              *)
AddCard(c) ==
    /\ cards[c].status = "absent"
    /\ Rewrite(c, [designDone |-> FALSE, status |-> "kamal"])

SelectTab(tab) ==
    /\ viewTab' = tab
    /\ UNCHANGED cards

ToggleCardDesign(c) ==
    /\ Shown(c)
    /\ Rewrite(c, CardDesignToggled(cards[c]))

(* The print cell: a lock without a design, a label once dispatched.       *)
TogglePrintedCard(c) ==
    /\ Shown(c) /\ cards[c].designDone /\ cards[c].status # "done"
    /\ Rewrite(c, StatusUpdated(cards[c], IF cards[c].status = "kamal" THEN "ready" ELSE "kamal"))

MarkDispatched(c) ==
    /\ Shown(c) /\ cards[c].status \in Printed
    /\ Rewrite(c, StatusUpdated(cards[c], "done"))

ReopenOrder(c) ==
    /\ Shown(c) /\ cards[c].status = "done"
    /\ Rewrite(c, StatusUpdated(cards[c], "ready"))

(* The window is reloaded: the orders were persisted by every change.      *)
ReloadCards ==
    /\ viewTab' = "ACTIVE"
    /\ UNCHANGED cards

CardNext ==
    \/ \E c \in CardId :
           AddCard(c) \/ ToggleCardDesign(c) \/ TogglePrintedCard(c)
           \/ MarkDispatched(c) \/ ReopenOrder(c)
    \/ \E tab \in Tab : SelectTab(tab)
    \/ ReloadCards

CardSpec == CardInit /\ [][CardNext]_cardVars

(* Every row is a card order, and one of the three tabs is shown.          *)
CardTypeOK ==
    /\ cards \in [CardId -> Card]
    /\ viewTab \in Tab

(* However designs are approved and revoked, orders dispatched, revoked    *)
(* while dispatched and reopened: an order that shows as printed has an    *)
(* approved design.                                                        *)
PrintedIsApproved == \A c \in CardId : cards[c].status = "ready" => cards[c].designDone
=============================================================================
