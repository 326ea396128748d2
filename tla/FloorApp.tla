------------------------------ MODULE FloorApp ------------------------------
(* The two floor apps, worker-app and labour-app: a task is selected from  *)
(* a list, and one press on the submit button posts what was produced,     *)
(* then what was rejected (worker-app, if any), then completes the task,   *)
(* as separate calls. The button stays enabled while they run; any call    *)
(* can be refused, or be carried out although its answer is lost.          *)
EXTENDS Naturals, Sequences

CONSTANTS
    FloorTask,    \* the tasks that are ready on the server
    MaxPresses    \* bound on the presses of the submit button

ASSUME FloorAssumption == MaxPresses \in Nat

VARIABLES
    listed,     \* the tasks the app lists
    chosen,     \* the task that is selected, as a set of at most one
    presses,    \* the runs of the submit handler, each at its next call
    produced,   \* ledger entries for produced quantity, by task
    rejected,   \* ledger entries for rejected quantity, by task
    finished    \* the tasks the server has completed

floorVars == <<listed, chosen, presses, produced, rejected, finished>>

(* A run captures the selected task and the quantities at its press.        *)
Run == [task : FloorTask, rejects : BOOLEAN,
        next : {"produced", "rejected", "complete", "list", "done", "failed"}]

FloorInit ==
    /\ listed = {} /\ chosen = {}
    /\ presses = <<>>
    /\ produced = [t \in FloorTask |-> 0]
    /\ rejected = [t \in FloorTask |-> 0]
    /\ finished = {}

(* loginAndFetchTasks: the ready tasks; an error leaves the list.          *)
Fetch == listed' = FloorTask \ finished

(* The app is started, also in the middle of a run, whose rest is lost.    *)
StartApp ==
    /\ Fetch
    /\ chosen' = {}
    /\ presses' = [k \in DOMAIN presses |->
                      IF presses[k].next = "done" THEN presses[k]
                      ELSE [presses[k] EXCEPT !.next = "failed"]]
    /\ UNCHANGED <<produced, rejected, finished>>

SelectTask(t) ==
    /\ chosen = {} /\ t \in listed
    /\ chosen' = {t}
    /\ UNCHANGED <<listed, presses, produced, rejected, finished>>

CancelTask ==
    /\ chosen # {}
    /\ chosen' = {}
    /\ UNCHANGED <<listed, presses, produced, rejected, finished>>

(* Mutant of Press: what was rejected is posted first.                     *)
PressScrapFirst(rejects) ==
    /\ chosen # {}
    /\ Len(presses) < MaxPresses
    /\ \E t \in chosen :
           presses' = Append(presses, [task |-> t, rejects |-> rejects,
                                       next |-> IF rejects THEN "rejected" ELSE "produced"])
    /\ UNCHANGED <<listed, chosen, produced, rejected, finished>>

(* handleRecordProduction, handleSubmitPieceWork up to the first call.     *)
Press(rejects) ==
    /\ chosen # {}
    /\ Len(presses) < MaxPresses
    /\ \E t \in chosen :
           presses' = Append(presses, [task |-> t, rejects |-> rejects, next |-> "produced"])
    /\ UNCHANGED <<listed, chosen, produced, rejected, finished>>

(* What the server does when a run's next call reaches it.                 *)
CarriedOut(r) ==
    /\ produced' = [produced EXCEPT ![r.task] = IF r.next = "produced" THEN @ + 1 ELSE @]
    /\ rejected' = [rejected EXCEPT ![r.task] = IF r.next = "rejected" THEN @ + 1 ELSE @]
    /\ finished' = IF r.next = "complete" THEN finished \cup {r.task} ELSE finished

Following(r) ==
    CASE r.next = "produced" -> IF r.rejects THEN "rejected" ELSE "complete"
      [] r.next = "rejected" -> "complete"
      [] r.next = "complete" -> "list"

Calling(k) == presses[k].next \in {"produced", "rejected", "complete"}

(* A call is carried out and answered; the completing one deselects        *)
(* whatever is selected by then.                                           *)
StepAnswered(k) ==
    /\ Calling(k)
    /\ CarriedOut(presses[k])
    /\ presses' = [presses EXCEPT ![k].next = Following(presses[k])]
    /\ chosen' = IF presses[k].next = "complete" THEN {} ELSE chosen
    /\ UNCHANGED listed

(* A call is carried out, but its answer is lost: the run ends, and the    *)
(* task stays selected.                                                    *)
StepUnheard(k) ==
    /\ Calling(k)
    /\ CarriedOut(presses[k])
    /\ presses' = [presses EXCEPT ![k].next = "failed"]
    /\ UNCHANGED <<listed, chosen>>

(* Mutant of StepRefused: a refused entry does not end the run.            *)
StepRefusedIgnored(k) ==
    /\ presses[k].next \in {"produced", "rejected"}
    /\ presses' = [presses EXCEPT ![k].next =
                       IF presses[k].rejects /\ @ = "produced" THEN "rejected" ELSE "complete"]
    /\ UNCHANGED <<listed, chosen, produced, rejected, finished>>

(* A call is refused or does not reach the server.                         *)
StepRefused(k) ==
    /\ Calling(k)
    /\ presses' = [presses EXCEPT ![k].next = "failed"]
    /\ UNCHANGED <<listed, chosen, produced, rejected, finished>>

(* The list is fetched again after a completed task, or that fails.        *)
Refresh(k) ==
    /\ presses[k].next = "list"
    /\ Fetch \/ UNCHANGED listed
    /\ presses' = [presses EXCEPT ![k].next = "done"]
    /\ UNCHANGED <<chosen, produced, rejected, finished>>

FloorNext ==
    \/ StartApp
    \/ \E t \in FloorTask : SelectTask(t)
    \/ CancelTask
    \/ \E rejects \in BOOLEAN : Press(rejects)
    \/ \E k \in DOMAIN presses :
           StepAnswered(k) \/ StepUnheard(k) \/ StepRefused(k) \/ Refresh(k)

FloorSpec == FloorInit /\ [][FloorNext]_floorVars

(* Lists and runs are of ready tasks, the ledger counts entries.           *)
FloorTypeOK ==
    /\ listed \subseteq FloorTask /\ chosen \subseteq FloorTask
    /\ presses \in Seq(Run)
    /\ produced \in [FloorTask -> Nat] /\ rejected \in [FloorTask -> Nat]
    /\ finished \subseteq FloorTask

(* A task that an app completed has its production in the ledger, through  *)
(* overlapping presses, lost answers, retries and restarts. (It may be     *)
(* there more than once: a retry posts it again.)                          *)
CompletedWasRecorded == \A t \in finished : produced[t] >= 1

(* Scrap is never in the ledger without the production it came with:       *)
(* there are never more rejections of a task than productions.             *)
ScrapHasProduction == \A t \in FloorTask : rejected[t] <= produced[t]
=============================================================================
