---------------------------- MODULE OrderIntake ----------------------------
(* The order intake page of the desktop client, OrdersWorkspaceView.tsx:   *)
(* one form whose order goes into the lanyard book, the card book or both  *)
(* under a serial number taken from the first order of each list, and two  *)
(* dialogs (colours, sizes) whose answers the next order carries.          *)
EXTENDS Naturals, Sequences, SequencesExt

CONSTANTS
    SeedSerials,    \* serials of the built-in orders of a list, oldest first
    MaxDrafts,      \* bound on the orders created
    FirstLanyard,   \* the serial before the first of an empty lanyard book
    FirstCard       \* the serial before the first of an empty card book

ASSUME IntakeAssumption ==
    /\ SeedSerials \in Seq(Nat)
    /\ MaxDrafts \in Nat /\ FirstLanyard \in Nat /\ FirstCard \in Nat

VARIABLES
    lists,     \* the orders of both books, newest first
    form,      \* the intake form
    created,   \* history: how many orders were created
    applied    \* history: which options were applied for which order

intakeVars == <<lists, form, created, applied>>

Book == {"lanyard", "card"}
Option == {"color", "size"}

(* Of an order: its serial, the options it carries, and which order of     *)
(* this page it is (0: built in).                                          *)
Entry == [sn : Nat, options : SUBSET Option, draft : 0 .. MaxDrafts]

Form ==
    [described : BOOLEAN, scope : {"full_set", "lanyard_only", "idcard_only"},
     configured : SUBSET Option, customWidth : BOOLEAN,
     modal : {"none", "item"} \cup Option]

EmptyForm ==
    [described |-> FALSE, scope |-> "full_set", configured |-> {}, customWidth |-> FALSE,
     modal |-> "none"]

SeedList == [k \in 1 .. Len(SeedSerials) |-> [sn |-> SeedSerials[k], options |-> {}, draft |-> 0]]

IntakeInit ==
    /\ lists = [b \in Book |-> SeedList]
    /\ form = EmptyForm
    /\ created = 0
    /\ applied = {}

Scoped ==
    CASE form.scope = "full_set"     -> Book
      [] form.scope = "lanyard_only" -> {"lanyard"}
      [] form.scope = "idcard_only"  -> {"card"}

(* Mutant of NextSerial: orders are numbered by how many there are.        *)
NextSerialByCount(b) == Len(lists[b]) + IF b = "lanyard" THEN FirstLanyard ELSE FirstCard

(* (orders[0]?.sn || first) + 1.                                           *)
NextSerial(b) ==
    1 + IF lists[b] # <<>> THEN Head(lists[b]).sn
        ELSE IF b = "lanyard" THEN FirstLanyard ELSE FirstCard

(* The colours chosen are carried when they were configured, a custom      *)
(* width when it was configured and is filled in.                          *)
Carried == form.configured \ IF form.customWidth THEN {} ELSE {"size"}

(* Mutant of FormAfter: the description is cleared, the options are not.   *)
FormAfterKept == [form EXCEPT !.described = FALSE]

(* The form is emptied of the description and of both ticks; the values    *)
(* typed in the dialogs stay.                                              *)
FormAfter == [form EXCEPT !.described = FALSE, !.configured = {}]

(* handleCreateOrder.                                                      *)
CreateOrder ==
    /\ form.modal = "none" /\ form.described
    /\ created < MaxDrafts
    /\ created' = created + 1
    /\ lists' = [b \in Book |->
                    IF b \in Scoped
                    THEN <<[sn |-> NextSerial(b), draft |-> created',
                            options |-> IF b = "lanyard" THEN Carried ELSE {}]>> \o lists[b]
                    ELSE lists[b]]
    /\ form' = FormAfter
    /\ UNCHANGED applied

Fill(f) == form' = f /\ UNCHANGED <<lists, created, applied>>

(* Typing in the description, or clearing it.                              *)
Describe(text) ==
    /\ form.modal = "none"
    /\ Fill([form EXCEPT !.described = text])

(* A dropdown's choice is appended to the description as well.             *)
ChooseFromDropdown ==
    /\ form.modal = "none"
    /\ Fill([form EXCEPT !.described = TRUE])

ChooseScope(scope) ==
    /\ form.modal = "none"
    /\ Fill([form EXCEPT !.scope = scope])

(* The two chips, and "+ Add ..." of the dropdowns.                        *)
OpenModal(modal) ==
    /\ form.modal = "none"
    /\ Fill([form EXCEPT !.modal = modal])

(* Cancel, the cross and the backdrop: what was typed stays.               *)
CloseModal ==
    /\ form.modal # "none"
    /\ Fill([form EXCEPT !.modal = "none"])

(* applyColors: the list of colours is never empty.                        *)
ApplyColors ==
    /\ form.modal = "color"
    /\ form' = [form EXCEPT !.modal = "none", !.configured = @ \cup {"color"},
                            !.described = TRUE]
    /\ applied' = applied \cup {<<created + 1, "color">>}
    /\ UNCHANGED <<lists, created>>

TypeWidth(text) ==
    /\ form.modal = "size"
    /\ Fill([form EXCEPT !.customWidth = text])

(* applyCustomSizes: only what is filled in reaches the description.       *)
ApplySizes ==
    /\ form.modal = "size"
    /\ form' = [form EXCEPT !.modal = "none", !.configured = @ \cup {"size"},
                            !.described = @ \/ form.customWidth]
    /\ applied' = applied \cup {<<created + 1, "size">>}
    /\ UNCHANGED <<lists, created>>

(* handleSaveCustomItem: the added item is selected and described.         *)
SaveCustomItem ==
    /\ form.modal = "item"
    /\ Fill([form EXCEPT !.modal = "none", !.described = TRUE])

(* Leaving the page empties the form, whatever was applied in it.          *)
LeaveForm ==
    /\ form' = EmptyForm
    /\ applied' = {a \in applied : a[1] <= created}
    /\ UNCHANGED created

(* deleteOrder, which the lanyard page offers.                             *)
DeleteLanyard(k) ==
    /\ lists' = [lists EXCEPT !["lanyard"] = RemoveAt(@, k)]
    /\ LeaveForm

(* The window is reloaded; an empty list is replaced by the built-in one.  *)
ReloadIntake ==
    /\ lists' = [b \in Book |-> IF lists[b] = <<>> THEN SeedList ELSE lists[b]]
    /\ LeaveForm

IntakeNext ==
    \/ CreateOrder
    \/ \E text \in BOOLEAN : Describe(text) \/ TypeWidth(text)
    \/ ChooseFromDropdown
    \/ \E scope \in {"full_set", "lanyard_only", "idcard_only"} : ChooseScope(scope)
    \/ \E modal \in {"color", "size", "item"} : OpenModal(modal)
    \/ CloseModal
    \/ ApplyColors
    \/ ApplySizes
    \/ SaveCustomItem
    \/ \E k \in DOMAIN lists["lanyard"] : DeleteLanyard(k)
    \/ ReloadIntake

IntakeSpec == IntakeInit /\ [][IntakeNext]_intakeVars

(* Both books are lists of orders, and the form is one.                    *)
IntakeTypeOK ==
    /\ lists \in [Book -> Seq(Entry)]
    /\ form \in Form
    /\ created \in 0 .. MaxDrafts
    /\ applied \subseteq (1 .. MaxDrafts + 1) \X Option

(* Two orders created by this page never share a serial in a book, and the *)
(* newer one has the higher: whatever was deleted in between and however   *)
(* often the program was restarted. (A built-in order can share one: the   *)
(* built-in lists begin with their oldest order.)                          *)
SerialsDescend ==
    \A b \in Book : \A j, k \in DOMAIN lists[b] :
        j < k /\ lists[b][k].draft # 0 => lists[b][j].sn > lists[b][k].sn

(* An order carries colours or a custom width only if they were applied in *)
(* their dialog for this very order: none is left from the order before,   *)
(* although what was typed for it is.                                      *)
OptionsWereApplied ==
    \A b \in Book : \A k \in DOMAIN lists[b] : \A opt \in lists[b][k].options :
        <<lists[b][k].draft, opt>> \in applied
=============================================================================
