------------------------------ MODULE Airport ------------------------------
(***************************************************************************)
(* The airport of ipc_offline_complete_passengers_are_threads.cpp: every   *)
(* passenger is a thread that runs PassengerLifeCycle, from the kiosks     *)
(* over a security belt (or, for a VIP, the VIP channel) to the boarding   *)
(* officer, and back through the channel to the special kiosk when it has  *)
(* lost its boarding pass.                                                 *)
(*                                                                         *)
(* A station (a kiosk row, a belt, the officer, the special kiosk) is two  *)
(* counting semaphores, a lock and a queue of passengers.  The thread that *)
(* serves a station is the thread of a passenger that entered it: it takes *)
(* whoever is at the front of the queue, which need not be its own         *)
(* passenger.  All the belts share belt_lock.                              *)
(*                                                                         *)
(* A step ends at each sem_wait that may block.  The sem_posts that follow *)
(* a critical section belong to its step: they never block and only enable *)
(* others.  io_lock guards printing and the pass flag of the thread's own  *)
(* passenger; nothing blocks while it is held, so it is not a variable.    *)
(***************************************************************************)
EXTENDS VipChannel, Sequences

CONSTANTS Vips,   \* the passengers with is_vip()
          Belts,  \* the N security belts
          M,      \* kiosks
          P       \* passengers a belt serves at a time

ASSUME AirportAssumption == /\ Vips \subseteq Passengers
                            /\ M \in Nat \ {0}
                            /\ P \in Nat \ {0}
                            /\ Belts # {}
                            /\ Belts \cap {"kiosk", "boarding", "skiosk",
                                            "LR", "RL", "boarded"} = {}

VARIABLES
  stage,     \* the station a thread is at, or "LR", "RL", "boarded"
  step,      \* how far the thread is in that station's two functions
  has_pass,  \* Passenger::board_pass
  queue,     \* kiosks, belts[], board_officer, skiosk
  empty,     \* kiosk_empty, belt_sem_emp[], boarding_empty, skiosk_empty
  full,      \* kiosk_full, belt_sem_full[], boarding_full, skiosk_full
  locked     \* kiosk_lock, belt_lock, board_lock, skiosk_lock: TRUE when taken

stationVars == <<queue, empty, full, locked>>
airVars == <<stage, step, has_pass, stationVars, chanVars>>

Stations == {"kiosk", "boarding", "skiosk"} \cup Belts
Stages   == Stations \cup {"LR", "RL", "boarded"}
Steps    == {"announce", "arrive", "push", "wait", "turn", "serve", "done"}

Capacity(s) == IF s = "kiosk" THEN M ELSE IF s \in Belts THEN P ELSE 1

\* Seeded fault: the officer's and the special kiosk's semaphores start at M.
InitEmpty_AllM == [s \in Stations |-> IF s \in Belts THEN P ELSE M]

\* What init_sem gives the empty semaphores.
InitEmpty == [s \in Stations |-> Capacity(s)]

Locks     == {"kiosk", "boarding", "skiosk", "belt"}
LockOf(s) == IF s \in Belts THEN "belt" ELSE s

AirportInit ==
  /\ Init
  /\ pc = [p \in Passengers |-> IF p \in Vips THEN "L" ELSE "R"]
  /\ stage = [p \in Passengers |-> "kiosk"]
  /\ step = [p \in Passengers |-> "arrive"]
  /\ has_pass = [p \in Passengers |-> TRUE]
  /\ queue = [s \in Stations |-> <<>>]
  /\ empty = InitEmpty
  /\ full = [s \in Stations |-> 0]
  /\ locked = [l \in Locks |-> FALSE]

-----------------------------------------------------------------------------
(* A station's two functions: sendTo... (Reserve, Push) and start...       *)
(* (Take, Serve, Finish).                                                  *)

\* Thread p, at station s, goes from one step to the next.
Advance(p, s, from, to) == /\ stage[p] = s
                           /\ step[p] = from
                           /\ step' = [step EXCEPT ![p] = to]
                           /\ UNCHANGED <<stage, chanVars>>

\* sendToBoarding: on the way to the officer the pass may get lost.
LosePass(p) == /\ Advance(p, "boarding", "announce", "arrive")
               /\ has_pass' = [has_pass EXCEPT ![p] = FALSE]
               /\ UNCHANGED stationVars

KeepPass(p) == /\ Advance(p, "boarding", "announce", "arrive")
               /\ UNCHANGED <<has_pass, stationVars>>

\* sem_wait(empty).
Reserve(p, s) == /\ Advance(p, s, "arrive", "push")
                 /\ empty[s] > 0
                 /\ empty' = [empty EXCEPT ![s] = @ - 1]
                 /\ UNCHANGED <<has_pass, queue, full, locked>>

\* The critical section of the sendTo function, and sem_post(full).
Push(p, s) == /\ Advance(p, s, "push", "wait")
              /\ ~locked[LockOf(s)]
              /\ queue' = [queue EXCEPT ![s] = Append(@, p)]
              /\ full' = [full EXCEPT ![s] = @ + 1]
              /\ UNCHANGED <<has_pass, empty, locked>>

\* sem_wait(full).
Take(p, s) == /\ Advance(p, s, "wait", "turn")
              /\ full[s] > 0
              /\ full' = [full EXCEPT ![s] = @ - 1]
              /\ UNCHANGED <<has_pass, queue, empty, locked>>

\* sem_wait(lock), kept through the sleep: the passenger at the front is served.
Serve(p, s) == /\ Advance(p, s, "turn", "serve")
               /\ ~locked[LockOf(s)]
               /\ locked' = [locked EXCEPT ![LockOf(s)] = TRUE]
               /\ UNCHANGED <<has_pass, queue, empty, full>>

\* Seeded fault: full is posted where empty should be.
Finish_PostsFull(p, s) ==
  /\ Advance(p, s, "serve", "done")
  /\ has_pass' = IF s = "skiosk" THEN [has_pass EXCEPT ![Head(queue[s])] = TRUE]
                                 ELSE has_pass
  /\ queue' = [queue EXCEPT ![s] = Tail(@)]
  /\ locked' = [locked EXCEPT ![LockOf(s)] = FALSE]
  /\ full' = [full EXCEPT ![s] = @ + 1]
  /\ UNCHANGED empty

\* Seeded fault: the special kiosk does not hand out a new boarding pass.
Finish_NoPass(p, s) ==
  /\ Advance(p, s, "serve", "done")
  /\ queue' = [queue EXCEPT ![s] = Tail(@)]
  /\ locked' = [locked EXCEPT ![LockOf(s)] = FALSE]
  /\ empty' = [empty EXCEPT ![s] = @ + 1]
  /\ UNCHANGED <<has_pass, full>>

\* The sleep is over: pop, sem_post(lock), sem_post(empty).  The special kiosk
\* gives the passenger it served another boarding pass.
Finish(p, s) ==
  /\ Advance(p, s, "serve", "done")
  /\ has_pass' = IF s = "skiosk" THEN [has_pass EXCEPT ![Head(queue[s])] = TRUE]
                                 ELSE has_pass
  /\ queue' = [queue EXCEPT ![s] = Tail(@)]
  /\ locked' = [locked EXCEPT ![LockOf(s)] = FALSE]
  /\ empty' = [empty EXCEPT ![s] = @ + 1]
  /\ UNCHANGED full

-----------------------------------------------------------------------------
(* PassengerLifeCycle: from one station to the next. *)

EntryStep(st) == IF st = "boarding" THEN "announce" ELSE "arrive"

MoveTo(p, st) == /\ stage' = [stage EXCEPT ![p] = st]
                 /\ step' = [step EXCEPT ![p] = EntryStep(st)]
                 /\ UNCHANGED <<has_pass, stationVars, chanVars>>

\* Where the life cycle sends p from a station it is done with.
NextStages(p) ==
  CASE stage[p] = "kiosk"    -> IF p \in Vips THEN {"LR"} ELSE Belts
    [] stage[p] \in Belts    -> {"boarding"}
    [] stage[p] = "boarding" -> IF has_pass[p] THEN {"boarded"} ELSE {"RL"}
    [] stage[p] = "skiosk"   -> {"LR"}

Leave(p) == /\ stage[p] \in Stations
            /\ step[p] = "done"
            /\ \E st \in NextStages(p) : MoveTo(p, st)

\* In the channel: begin to cross, take its steps, and come out on the far side.
Walk(p) == /\ \/ stage[p] = "LR" /\ LrCall(p)
              \/ stage[p] = "RL" /\ RlCall(p)
              \/ Cross(p)
           /\ UNCHANGED <<stage, step, has_pass, stationVars>>

ComeOut(p) == \/ stage[p] = "LR" /\ pc[p] = "R" /\ MoveTo(p, "boarding")
              \/ stage[p] = "RL" /\ pc[p] = "L" /\ MoveTo(p, "skiosk")

AtStation(p, s) == \/ Reserve(p, s) \/ Push(p, s) \/ Take(p, s)
                   \/ Serve(p, s) \/ Finish(p, s)

PassengerLifeCycle(p) == \/ \E s \in Stations : AtStation(p, s)
                         \/ LosePass(p) \/ KeepPass(p)
                         \/ Leave(p) \/ Walk(p) \/ ComeOut(p)

\* Every passenger there is has boarded.
AllBoarded == stage = [p \in Passengers |-> "boarded"] /\ UNCHANGED airVars

AirportNext == (\E p \in Passengers : PassengerLifeCycle(p)) \/ AllBoarded

AirportSpec == AirportInit /\ [][AirportNext]_airVars

-----------------------------------------------------------------------------
(* Safety *)

InStation(s, steps) == {p \in Passengers : stage[p] = s /\ step[p] \in steps}

\* Between sem_wait(empty) and sem_post(empty); in the queue's books; served.
Inside(s)  == InStation(s, {"push", "wait", "turn", "serve"})
Queued(s)  == InStation(s, {"wait", "turn", "serve"})
Serving(s) == InStation(s, {"serve"})

\* Every variable has its type; no semaphore goes below zero.
AirportTypeOK ==
  /\ stage \in [Passengers -> Stages]
  /\ step \in [Passengers -> Steps]
  /\ has_pass \in [Passengers -> BOOLEAN]
  /\ queue \in [Stations -> Seq(Passengers)]
  /\ empty \in [Stations -> Nat]
  /\ full \in [Stations -> Nat]
  /\ locked \in [Locks -> BOOLEAN]

\* The semaphores and queues of each station stand in step with its threads:
\* never more passengers than the station holds, and a thread that serves
\* always finds somebody at the front of the queue.
StationBooks ==
  \A s \in Stations :
    /\ empty[s] + Cardinality(Inside(s)) = Capacity(s)
    /\ full[s] = Cardinality(InStation(s, {"wait"}))
    /\ Len(queue[s]) = Cardinality(Queued(s))

\* A station's lock is taken exactly while one thread serves there; of all the
\* belts together, one thread serves.
StationLocks ==
  /\ \A l \in Locks :
       locked[l] <=> \E s \in Stations : LockOf(s) = l /\ Serving(s) # {}
  /\ \A s, t \in Stations : LockOf(s) = LockOf(t) =>
       \A p \in Serving(s), q \in Serving(t) : p = q

StationInv == StationBooks /\ StationLocks

\* A thread serves its own passenger: the one it finds at the front is itself.
ServesItself(s) == \A p \in Serving(s) : Head(queue[s]) = p

\* A thread is done with a station only after its own passenger was served.
LeavesServed(s) ==
  \A i \in DOMAIN queue[s] : queue[s][i] \in Queued(s)

\* The officer checks the pass of the passenger whose thread then decides to
\* board or to go back, and the special kiosk gives the new pass to the
\* passenger that lost it, because each of the two holds one passenger.
OwnPass == \A s \in Stations : Capacity(s) = 1 => ServesItself(s) /\ LeavesServed(s)

=============================================================================
