----------------------------- MODULE BlockStore -----------------------------
(***************************************************************************)
(* What the buffer cache promises its callers: every disk block has one    *)
(* value, a process that has been given the block (bread) has it to        *)
(* itself until it lets go of it (brelse), and only then may change it.    *)
(***************************************************************************)
CONSTANTS Procs, Blocks, Values, NoProc, Zero

VARIABLES store,   \* the value of every block
          holder   \* who has it

storeVars == <<store, holder>>

Init == /\ store = [b \in Blocks |-> Zero]
        /\ holder = [b \in Blocks |-> NoProc]

Take(p, b) == /\ holder[b] = NoProc
              /\ holder' = [holder EXCEPT ![b] = p]
              /\ UNCHANGED store

Change(p, b, v) == /\ holder[b] = p
                   /\ store' = [store EXCEPT ![b] = v]
                   /\ UNCHANGED holder

LetGo(p, b) == /\ holder[b] = p
               /\ holder' = [holder EXCEPT ![b] = NoProc]
               /\ UNCHANGED store

Next == \E p \in Procs, b \in Blocks :
          Take(p, b) \/ LetGo(p, b) \/ \E v \in Values : Change(p, b, v)

Spec == Init /\ [][Next]_storeVars
=============================================================================
