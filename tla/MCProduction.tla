---------------------------- MODULE MCProduction ----------------------------
(* Instances of Production for TLC, with a history variable that tells the *)
(* behaviours in which no two requests overlap from the others.            *)
EXTENDS Production, TLC

VARIABLE overlapped  \* two requests have been in flight at the same time

MCvars == <<vars, overlapped>>

MCInit == Init /\ overlapped = FALSE

MCNext ==
    /\ Next
    /\ overlapped' = (overlapped \/ Cardinality({r \in Request : req'[r] # Idle}) > 1)

MCSpec == MCInit /\ [][MCNext]_MCvars

(* A shift's record in half pieces; and a correction of an earlier one.    *)
Shifts ==
    { [good |-> 3, reject |-> 1, waste |-> 0], [good |-> -1, reject |-> 0, waste |-> 2] }

(* One batch fits the target, two fit it when one takes back.              *)
Inputs == {-1, 2}

(* A worker's report with a mistyped sign.                                 *)
Reports == {[good |-> 1, reject |-> -1]}

(* One request at a time, a machine that ever got a batch is RUNNING       *)
(* exactly when a batch runs on it (MachineShowsItsBatches).               *)
MachineShowsItsBatchesAlone == ~overlapped => MachineShowsItsBatches

(* One request at a time, the totals of a batch are the sums of its        *)
(* records, of either sign (TotalsMatchRecords).                           *)
TotalsMatchRecordsAlone == ~overlapped => TotalsMatchRecords

ProductionSymmetry ==
    Permutations(Batch) \cup Permutations(Machine) \cup Permutations(Request)
=============================================================================
