------------------------------ MODULE MCClients ------------------------------
(* The clients beside the lanyard queue, on small instances: the card      *)
(* queue, the intake page, the material issued from the stock, the voucher *)
(* ledgers, the session and the search palette of the desktop client, and  *)
(* the floor apps. They share no state here, so a behaviour works on one   *)
(* of them, chosen at the start.                                           *)
EXTENDS CardBook, OrderIntake, MaterialDesk, VoucherLedger, DesktopSession,
        SearchPalette, FloorApp

CONSTANTS c1, c2, c3, dst_v, england_hook, custom

VARIABLE page   \* the part a behaviour works on

(* One built-in card with one card pending, one dispatched, one to come.   *)
CardSeeds == [c \in {c1, c2} |-> IF c = c1 THEN "ready (1 pending he)" ELSE "done"]

(* One built-in order in each book.                                        *)
ListSeeds == <<4>>

(* Two built-in items and one that can be added; dst-v has an item of that *)
(* code, 16mm-eh goes to the England hook, 16mm-j to nothing, and the      *)
(* added item's name contains dst-v.                                       *)
ItemList == <<dst_v, england_hook>>
ItemAnswers == [i \in Item |-> IF i = england_hook THEN {} ELSE {"dst-v"}]
CodeFallback == [code \in {"16mm-eh"} |-> england_hook]
Quantities == {-1, 1, 2}

(* One contractor has a voucher out, the other none.                       *)
VoucherSeeds ==
    [f \in Fitter |-> IF f = FirstFitter
                      THEN <<[no |-> 1, orders |-> {}, status |-> "in_fitting"]>> ELSE <<>>]

clientVars ==
    <<cardVars, intakeVars, materialVars, ledgerVars, sessionVars, paletteVars,
      floorVars, page>>

Init ==
    /\ page \in {"cards", "intake", "material", "vouchers", "session", "palette", "floor"}
    /\ CardInit
    /\ IntakeInit
    /\ MaterialInit
    /\ LedgerInit
    /\ SessionInit
    /\ PaletteInit
    /\ FloorInit

(* All but the part that is worked on stays as it is.                      *)
Rest(p) ==
    /\ page = p /\ UNCHANGED page
    /\ p # "cards" => UNCHANGED cardVars
    /\ p # "intake" => UNCHANGED intakeVars
    /\ p # "material" => UNCHANGED materialVars
    /\ p # "vouchers" => UNCHANGED ledgerVars
    /\ p # "session" => UNCHANGED sessionVars
    /\ p # "palette" => UNCHANGED paletteVars
    /\ p # "floor" => UNCHANGED floorVars

Next ==
    \/ CardNext /\ Rest("cards")
    \/ IntakeNext /\ Rest("intake")
    \/ MaterialNext /\ Rest("material")
    \/ LedgerNext /\ Rest("vouchers")
    \/ SessionNext /\ Rest("session")
    \/ PaletteNext /\ Rest("palette")
    \/ FloorNext /\ Rest("floor")

Spec ==
    /\ Init /\ [][Next]_clientVars
    /\ WF_clientVars(Answer /\ Rest("session"))
    /\ \A w \in Word : /\ WF_clientVars(StartSearch(w) /\ Rest("palette"))
                      /\ WF_clientVars(EndSearch(w) /\ Rest("palette"))
=============================================================================
