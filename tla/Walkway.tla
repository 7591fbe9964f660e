------------------------------ MODULE Walkway ------------------------------
(***************************************************************************)
(* What the VIP channel promises, whatever its locks: a moving walkway     *)
(* carries any number of passengers at once, but in one direction at a     *)
(* time, and each passenger leaves it on the side it was walking towards.  *)
(***************************************************************************)
CONSTANT Passengers

VARIABLES
  left,     \* passengers standing on the left, or crossing bookkeeping there
  lrWalk,   \* passengers on the walkway, going Left-Right
  rlWalk    \* passengers on the walkway, going Right-Left

walkVars == <<left, lrWalk, rlWalk>>

Init == left \in SUBSET Passengers /\ lrWalk = {} /\ rlWalk = {}

\* A passenger on the right is one that is neither on the left nor walking.
Right == Passengers \ (left \cup lrWalk \cup rlWalk)

EnterLeftRight(p) == /\ p \in left
                     /\ rlWalk = {}
                     /\ left' = left \ {p}
                     /\ lrWalk' = lrWalk \cup {p}
                     /\ UNCHANGED rlWalk

LeaveLeftRight(p) == /\ p \in lrWalk
                     /\ lrWalk' = lrWalk \ {p}
                     /\ UNCHANGED <<left, rlWalk>>

EnterRightLeft(p) == /\ p \in Right
                     /\ lrWalk = {}
                     /\ rlWalk' = rlWalk \cup {p}
                     /\ UNCHANGED <<left, lrWalk>>

LeaveRightLeft(p) == /\ p \in rlWalk
                     /\ rlWalk' = rlWalk \ {p}
                     /\ left' = left \cup {p}
                     /\ UNCHANGED lrWalk

Next == \E p \in Passengers : \/ EnterLeftRight(p) \/ LeaveLeftRight(p)
                              \/ EnterRightLeft(p) \/ LeaveRightLeft(p)

Spec == Init /\ [][Next]_walkVars
=============================================================================
