----------------------------- MODULE AtomicDisk -----------------------------
(***************************************************************************)
(* What the log promises to the file system: a disk on which the writes of *)
(* an operation appear all at once, or, after a crash, not at all.         *)
(* Operations run together and see each other's writes; what they wrote    *)
(* becomes durable at a moment when none of them is running.               *)
(*                                                                         *)
(* The contents of a block are the set of operations that have updated it. *)
(***************************************************************************)
EXTENDS Naturals

CONSTANTS Blocks, Ops

VARIABLES disk,   \* what a crash leaves
          view,   \* what reads return
          open    \* operations that are running

diskVars == <<disk, view, open>>

Init == /\ disk = [b \in Blocks |-> {}]
        /\ view = disk
        /\ open = {}

Start(o) == /\ o \notin open
            /\ \A b \in Blocks : o \notin view[b]
            /\ open' = open \cup {o}
            /\ UNCHANGED <<disk, view>>

Update(o, b) == /\ o \in open
                /\ view' = [view EXCEPT ![b] = @ \cup {o}]
                /\ UNCHANGED <<disk, open>>

Finish(o) == /\ o \in open
             /\ open' = open \ {o}
             /\ UNCHANGED <<disk, view>>

Commit == /\ open = {}
          /\ disk' = view
          /\ UNCHANGED <<view, open>>

Crash == /\ view' = disk
         /\ open' = {}
         /\ UNCHANGED disk

Next == \/ \E o \in Ops : Start(o) \/ Finish(o) \/ \E b \in Blocks : Update(o, b)
        \/ Commit
        \/ Crash

Spec == Init /\ [][Next]_diskVars

\* The blocks an operation has updated are on the disk together or not at all.
AllOrNothing ==
  \A o \in Ops :
    LET durable == {b \in Blocks : o \in disk[b]}
    IN  durable = {} \/ durable = {b \in Blocks : o \in view[b]}
=============================================================================
