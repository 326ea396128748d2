------------------------------ MODULE MCLabour ------------------------------
(* Instances of Labour for TLC, with a history variable that tells the     *)
(* behaviours in which no two requests overlap from the others.            *)
EXTENDS Labour, TLC

VARIABLE overlapped  \* two requests have been in flight at the same time

MCvars == <<vars, overlapped>>

MCInit == Init /\ overlapped = FALSE

MCNext ==
    /\ Next
    /\ overlapped' = (overlapped \/ Cardinality({r \in Request : req'[r] # Idle}) > 1)

MCSpec == MCInit /\ [][MCNext]_MCvars

(* A good piece; a good piece taken back as a defective one, with material *)
(* brought back.                                                           *)
Submissions == { [done |-> 1, bad |-> 0, back |-> 0], [done |-> -1, bad |-> 1, back |-> 1] }

(* Two pieces, and a correction by one.                                    *)
Corrected == {2, -1}

(* One request at a time, a batch is paid once and for every accepted      *)
(* piece (PaidOnceInFull).                                                 *)
PaidOnceInFullAlone == ~overlapped => PaidOnceInFull

(* One request at a time, workers' credit is backed by issued material     *)
(* (CreditIsBacked).                                                       *)
CreditIsBackedAlone == ~overlapped => CreditIsBacked

LabourSymmetry == Permutations(Batch) \cup Permutations(Labourer) \cup Permutations(Request)
=============================================================================
