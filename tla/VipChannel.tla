----------------------------- MODULE VipChannel -----------------------------
(***************************************************************************)
(* The VIP channel of ipc_offline_complete_passengers_are_threads.cpp: a   *)
(* moving walkway shared by passengers going Left-Right                    *)
(* (LeftToRightVIP) and Right-Left (RightToLeftVIP), guarded by four       *)
(* pthread mutexes and two counters.                                       *)
(*                                                                         *)
(* Each passenger is a thread.  pc[p] is "L" or "R" while p stands on one  *)
(* side of the channel, and otherwise names the next pthread call p makes. *)
(* A statement that runs under a mutex belongs to the step that takes the  *)
(* mutex: lr_count is only touched under lr_count_lock, rl_count only      *)
(* under rl_count_lock.                                                    *)
(*                                                                         *)
(* The mutexes are default (normal) ones, with no owner check: a mutex is  *)
(* free or locked, and pthread_mutex_unlock frees it whoever calls it.     *)
(* The code relies on this, because the last passenger to leave unlocks    *)
(* what the first one to enter has locked.                                 *)
(***************************************************************************)
EXTENDS Naturals, FiniteSets

CONSTANT Passengers   \* the passenger threads

ASSUME PassengersAssumption == IsFiniteSet(Passengers)

VARIABLES
  pc,               \* what each passenger does next
  lr_count,         \* passengers counted in the Left-Right direction
  rl_count,         \* passengers counted in the Right-Left direction
  lr_count_lock,    \* the four mutexes: TRUE when locked
  rl_count_lock,
  channel_lock,     \* held by the direction that owns the walkway
  left_side_empty   \* held while passengers are present on the left

locks == <<lr_count_lock, rl_count_lock, channel_lock, left_side_empty>>
chanVars == <<pc, lr_count, rl_count, locks>>

Sides   == {"L", "R"}
LrSteps == {"lrLock", "lrLeft", "lrChan", "lrUnlock", "lrWalk",
            "lrFreeChan", "lrFreeLeft", "lrDone"}
RlSteps == {"rlGate", "rlGateOpen", "rlLock", "rlChan", "rlUnlock", "rlWalk",
            "rlFreeChan", "rlDone"}

\* Thread p moves from one program point to the next.
Goto(p, from, to) == pc[p] = from /\ pc' = [pc EXCEPT ![p] = to]

\* A VIP reaches the channel from the kiosk, on the left; everybody else has
\* gone through the security check and stands on the right.
Init == /\ pc \in [Passengers -> Sides]
        /\ lr_count = 0
        /\ rl_count = 0
        /\ lr_count_lock = FALSE
        /\ rl_count_lock = FALSE
        /\ channel_lock = FALSE
        /\ left_side_empty = FALSE

-----------------------------------------------------------------------------
(* LeftToRightVIP *)

LrCall(p) == /\ Goto(p, "L", "lrLock")
             /\ UNCHANGED <<lr_count, rl_count, locks>>

\* Seeded fault: the first passenger does not close the gate on the right.
LrCount_GateLeftOpen(p) ==
  /\ ~lr_count_lock
  /\ lr_count_lock' = TRUE
  /\ lr_count' = lr_count + 1
  /\ Goto(p, "lrLock", IF lr_count = 0 THEN "lrChan" ELSE "lrUnlock")
  /\ UNCHANGED <<rl_count, rl_count_lock, channel_lock, left_side_empty>>

\* lock(lr_count_lock); lr_count++; if(lr_count == 1) ...
LrCount(p) == /\ ~lr_count_lock
              /\ lr_count_lock' = TRUE
              /\ lr_count' = lr_count + 1
              /\ Goto(p, "lrLock", IF lr_count = 0 THEN "lrLeft" ELSE "lrUnlock")
              /\ UNCHANGED <<rl_count, rl_count_lock, channel_lock, left_side_empty>>

LrLockLeft(p) == /\ ~left_side_empty
                 /\ left_side_empty' = TRUE
                 /\ Goto(p, "lrLeft", "lrChan")
                 /\ UNCHANGED <<lr_count, rl_count, lr_count_lock, rl_count_lock,
                                channel_lock>>

\* Seeded fault: trylock on channel_lock, the result ignored.
LrLockChannel_Try(p) ==
  /\ channel_lock' = TRUE
  /\ Goto(p, "lrChan", "lrUnlock")
  /\ UNCHANGED <<lr_count, rl_count, lr_count_lock, rl_count_lock, left_side_empty>>

LrLockChannel(p) == /\ ~channel_lock
                    /\ channel_lock' = TRUE
                    /\ Goto(p, "lrChan", "lrUnlock")
                    /\ UNCHANGED <<lr_count, rl_count, lr_count_lock,
                                   rl_count_lock, left_side_empty>>

\* unlock(lr_count_lock): p steps on the walkway.
LrEnter(p) == /\ Goto(p, "lrUnlock", "lrWalk")
              /\ lr_count_lock' = FALSE
              /\ UNCHANGED <<lr_count, rl_count, rl_count_lock, channel_lock,
                             left_side_empty>>

\* lock(lr_count_lock); lr_count--; if(lr_count == 0) ...
LrUncount(p) == /\ ~lr_count_lock
                /\ lr_count_lock' = TRUE
                /\ lr_count' = lr_count - 1
                /\ Goto(p, "lrWalk", IF lr_count = 1 THEN "lrFreeChan" ELSE "lrDone")
                /\ UNCHANGED <<rl_count, rl_count_lock, channel_lock, left_side_empty>>

\* Seeded fault: the last passenger leaves channel_lock locked.
LrFreeChannel_Forgotten(p) ==
  /\ Goto(p, "lrFreeChan", "lrFreeLeft")
  /\ UNCHANGED <<lr_count, rl_count, locks>>

LrFreeChannel(p) == /\ Goto(p, "lrFreeChan", "lrFreeLeft")
                    /\ channel_lock' = FALSE
                    /\ UNCHANGED <<lr_count, rl_count, lr_count_lock,
                                   rl_count_lock, left_side_empty>>

\* Seeded fault: the last passenger leaves left_side_empty locked.
LrFreeLeft_Forgotten(p) ==
  /\ Goto(p, "lrFreeLeft", "lrDone")
  /\ UNCHANGED <<lr_count, rl_count, locks>>

LrFreeLeft(p) == /\ Goto(p, "lrFreeLeft", "lrDone")
                 /\ left_side_empty' = FALSE
                 /\ UNCHANGED <<lr_count, rl_count, lr_count_lock, rl_count_lock,
                                channel_lock>>

LrReturn(p) == /\ Goto(p, "lrDone", "R")
               /\ lr_count_lock' = FALSE
               /\ UNCHANGED <<lr_count, rl_count, rl_count_lock, channel_lock,
                              left_side_empty>>

-----------------------------------------------------------------------------
(* RightToLeftVIP *)

RlCall(p) == /\ Goto(p, "R", "rlGate")
             /\ UNCHANGED <<lr_count, rl_count, locks>>

\* "block right-people when left-people exists": lock(left_side_empty) ...
RlGate(p) == /\ ~left_side_empty
             /\ left_side_empty' = TRUE
             /\ Goto(p, "rlGate", "rlGateOpen")
             /\ UNCHANGED <<lr_count, rl_count, lr_count_lock, rl_count_lock,
                            channel_lock>>

\* ... and at once unlock(left_side_empty).
RlGatePass(p) == /\ Goto(p, "rlGateOpen", "rlLock")
                 /\ left_side_empty' = FALSE
                 /\ UNCHANGED <<lr_count, rl_count, lr_count_lock, rl_count_lock,
                                channel_lock>>

RlCount(p) == /\ ~rl_count_lock
              /\ rl_count_lock' = TRUE
              /\ rl_count' = rl_count + 1
              /\ Goto(p, "rlLock", IF rl_count = 0 THEN "rlChan" ELSE "rlUnlock")
              /\ UNCHANGED <<lr_count, lr_count_lock, channel_lock, left_side_empty>>

RlLockChannel(p) == /\ ~channel_lock
                    /\ channel_lock' = TRUE
                    /\ Goto(p, "rlChan", "rlUnlock")
                    /\ UNCHANGED <<lr_count, rl_count, lr_count_lock,
                                   rl_count_lock, left_side_empty>>

RlEnter(p) == /\ Goto(p, "rlUnlock", "rlWalk")
              /\ rl_count_lock' = FALSE
              /\ UNCHANGED <<lr_count, rl_count, lr_count_lock, channel_lock,
                             left_side_empty>>

\* Seeded fault: the channel is freed by the last passenger but one.
RlUncount_OffByOne(p) ==
  /\ ~rl_count_lock
  /\ rl_count_lock' = TRUE
  /\ rl_count' = rl_count - 1
  /\ Goto(p, "rlWalk", IF rl_count = 2 THEN "rlFreeChan" ELSE "rlDone")
  /\ UNCHANGED <<lr_count, lr_count_lock, channel_lock, left_side_empty>>

RlUncount(p) == /\ ~rl_count_lock
                /\ rl_count_lock' = TRUE
                /\ rl_count' = rl_count - 1
                /\ Goto(p, "rlWalk", IF rl_count = 1 THEN "rlFreeChan" ELSE "rlDone")
                /\ UNCHANGED <<lr_count, lr_count_lock, channel_lock, left_side_empty>>

RlFreeChannel(p) == /\ Goto(p, "rlFreeChan", "rlDone")
                    /\ channel_lock' = FALSE
                    /\ UNCHANGED <<lr_count, rl_count, lr_count_lock,
                                   rl_count_lock, left_side_empty>>

RlReturn(p) == /\ Goto(p, "rlDone", "L")
               /\ rl_count_lock' = FALSE
               /\ UNCHANGED <<lr_count, rl_count, lr_count_lock, channel_lock,
                              left_side_empty>>

-----------------------------------------------------------------------------
\* The steps of a crossing that has begun; starting one is p's own choice.
LeftToRightVIP(p) == \/ LrCount(p) \/ LrLockLeft(p) \/ LrLockChannel(p)
                     \/ LrEnter(p) \/ LrUncount(p) \/ LrFreeChannel(p)
                     \/ LrFreeLeft(p) \/ LrReturn(p)

RightToLeftVIP(p) == \/ RlGate(p) \/ RlGatePass(p) \/ RlCount(p)
                     \/ RlLockChannel(p) \/ RlEnter(p) \/ RlUncount(p)
                     \/ RlFreeChannel(p) \/ RlReturn(p)

Cross(p) == LeftToRightVIP(p) \/ RightToLeftVIP(p)

Next == \E p \in Passengers : LrCall(p) \/ RlCall(p) \/ Cross(p)

Spec == Init /\ [][Next]_chanVars

-----------------------------------------------------------------------------
(* What each thread holds, read off its program point. *)

At(steps) == {p \in Passengers : pc[p] \in steps}

\* Counted in lr_count (rl_count); inside a critical section of the counter's
\* mutex; crossing with the channel locked on its direction's behalf.
LrCounted == At({"lrLeft", "lrChan", "lrUnlock", "lrWalk"})
RlCounted == At({"rlChan", "rlUnlock", "rlWalk"})
LrInside  == At({"lrLeft", "lrChan", "lrUnlock", "lrFreeChan", "lrFreeLeft", "lrDone"})
RlInside  == At({"rlChan", "rlUnlock", "rlFreeChan", "rlDone"})
LrOwners  == At({"lrUnlock", "lrWalk", "lrFreeChan"})
RlOwners  == At({"rlUnlock", "rlWalk", "rlFreeChan"})
\* The left side is marked occupied, or a right passenger is in the gate.
LeftHolders == At({"lrChan", "lrUnlock", "lrWalk", "lrFreeChan", "lrFreeLeft"})
GateHolders == At({"rlGateOpen"})

-----------------------------------------------------------------------------
(* Safety *)

\* Every variable has its type; the counters never go below zero.
TypeOK == /\ pc \in [Passengers -> Sides \cup LrSteps \cup RlSteps]
          /\ lr_count \in Nat
          /\ rl_count \in Nat
          /\ lr_count_lock \in BOOLEAN
          /\ rl_count_lock \in BOOLEAN
          /\ channel_lock \in BOOLEAN
          /\ left_side_empty \in BOOLEAN

\* Each counter counts the passengers between its ++ and its --.
CountersExact == /\ lr_count = Cardinality(LrCounted)
                 /\ rl_count = Cardinality(RlCounted)

\* A counter's mutex is locked exactly while one thread is in its section.
CounterMutexes ==
  /\ lr_count_lock <=> LrInside # {}
  /\ rl_count_lock <=> RlInside # {}
  /\ \A p, q \in LrInside : p = q
  /\ \A p, q \in RlInside : p = q

\* A passenger that takes or frees the direction's locks is alone in it: the
\* first one counted, or the one that has just brought the counter to zero.
LeadersAlone ==
  /\ \A p \in Passengers : pc[p] \in {"lrLeft", "lrChan"} => LrCounted = {p}
  /\ \A p \in Passengers : pc[p] \in {"lrFreeChan", "lrFreeLeft"} => LrCounted = {}
  /\ \A p \in Passengers : pc[p] = "rlChan" => RlCounted = {p}
  /\ \A p \in Passengers : pc[p] = "rlFreeChan" => RlCounted = {}

\* channel_lock is locked exactly while one direction owns the walkway, and
\* left_side_empty exactly while the left side or one passenger in the gate
\* holds it, although neither is unlocked by the thread that locked it.
SharedMutexes ==
  /\ channel_lock <=> LrOwners \cup RlOwners # {}
  /\ LrOwners = {} \/ RlOwners = {}
  /\ left_side_empty <=> LeftHolders \cup GateHolders # {}
  /\ LeftHolders = {} \/ GateHolders = {}
  /\ \A p, q \in GateHolders : p = q

\* The inductive invariant: how the four mutexes and the two counters stand to
\* the program points of all the threads, at every interleaving.
LockInv == CountersExact /\ CounterMutexes /\ LeadersAlone /\ SharedMutexes

\* The walkway runs in one direction at a time: passengers walking Left-Right
\* and passengers walking Right-Left are never on it together.
OneDirection == At({"lrWalk"}) = {} \/ At({"rlWalk"}) = {}

\* Priority of the Left side: from the moment a left passenger waits for the
\* walkway until the last one has left it, no right passenger passes the gate.
GateClosed ==
  [][\A p \in Passengers :
       pc[p] = "rlGate" /\ pc'[p] # "rlGate" =>
         At({"lrChan", "lrUnlock", "lrWalk"}) = {}]_chanVars

\* The locks implement the walkway: a passenger enters at the unlock that ends
\* its entry section and leaves at the lock that begins its exit section.
Abstract == INSTANCE Walkway WITH
  left   <- At({"L", "lrLock", "lrLeft", "lrChan", "lrUnlock",
                "rlFreeChan", "rlDone"}),
  lrWalk <- At({"lrWalk"}),
  rlWalk <- At({"rlWalk"})

ImplementsWalkway == Abstract!Spec

-----------------------------------------------------------------------------
(* Liveness *)

\* Every thread that has begun to cross is scheduled again and again; nothing
\* is assumed of the order in which a mutex serves its waiters.
FairSpec == Spec /\ \A p \in Passengers : WF_chanVars(Cross(p))

\* The first passenger on the left always gets through, even if the mutexes
\* prefer any other thread at every turn: the gate and lr_count_lock stop
\* everybody who could overtake it for ever.
FirstLeftCrosses ==
  \A p \in Passengers : (pc[p] = "lrLeft") ~> (pc[p] = "lrWalk")

\* Each mutex serves a thread it is offered to again and again.
FairMutexes ==
  \A p \in Passengers : /\ SF_chanVars(LrCount(p) \/ LrUncount(p))
                        /\ SF_chanVars(RlCount(p) \/ RlUncount(p))
                        /\ SF_chanVars(RlGate(p))

\* If the mutexes are fair, every passenger that calls a crossing completes it.
EveryoneCrosses ==
  FairMutexes => \A p \in Passengers : /\ (pc[p] = "lrLock") ~> (pc[p] = "R")
                                       /\ (pc[p] = "rlGate") ~> (pc[p] = "L")
=============================================================================
