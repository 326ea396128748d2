----------------------------- MODULE StepLadder -----------------------------
(* The promise of the lanyard queue ("Sequential Unlocking", columns 1 to  *)
(* 4 of LanyardWorkspaceView): an order climbs its steps - design, print,  *)
(* printed - one at a time, may be set back to any lower one, skips steps  *)
(* only when somebody marks it complete, and does not leave the queue      *)
(* while it is complete.                                                   *)
EXTENDS Naturals

CONSTANT Order   \* the orders the queue may hold

VARIABLES rung,      \* the step each order has reached
          complete   \* the orders marked complete

vars == <<rung, complete>>

(* The rung of an order that is not in the queue.                          *)
Absent == 4

Queue == {o \in Order : rung[o] # Absent}

Init ==
    /\ rung \in [Order -> {3, Absent}]
    /\ complete \subseteq Queue

Enter(o) ==
    /\ rung[o] = Absent
    /\ rung' = [rung EXCEPT ![o] = 0]
    /\ UNCHANGED complete

Climb(o) ==
    /\ rung[o] \in 0 .. 2
    /\ rung' = [rung EXCEPT ![o] = @ + 1]
    /\ UNCHANGED complete

Fall(o) ==
    /\ \E lower \in 0 .. 2 : /\ rung[o] \in lower + 1 .. 3
                             /\ rung' = [rung EXCEPT ![o] = lower]
    /\ UNCHANGED complete

MarkComplete(o) ==
    /\ o \in Queue
    /\ rung' = [rung EXCEPT ![o] = 3]
    /\ complete' = complete \cup {o}

Reopen(o) ==
    /\ complete' = complete \ {o}
    /\ UNCHANGED rung

Leave(o) ==
    /\ o \in Queue \ complete
    /\ rung' = [rung EXCEPT ![o] = Absent]
    /\ UNCHANGED complete

(* An empty queue is filled anew from the built-in list.                   *)
Refill ==
    /\ Queue = {}
    /\ rung' \in [Order -> {3, Absent}]
    /\ complete' \subseteq {o \in Order : rung'[o] # Absent}

Next ==
    \/ \E o \in Order :
           Enter(o) \/ Climb(o) \/ Fall(o) \/ MarkComplete(o) \/ Reopen(o) \/ Leave(o)
    \/ Refill

Spec == Init /\ [][Next]_vars
=============================================================================
