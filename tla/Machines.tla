------------------------------ MODULE Machines ------------------------------
(***************************************************************************)
(* The airport of ipc_offline_machines_are_threads.cpp: the kiosks, each   *)
(* belt and the boarding officer are threads that never end, and a         *)
(* passenger is a thread only on its way into a queue: the machine that    *)
(* has served it starts its next thread.  One lock, bin_sem, is taken for  *)
(* every queue, for the whole time of every service, and for printing.     *)
(* The flag of the boarding pass is set at random and never read, so it is *)
(* left out, as is the number of the kiosk, which is only printed.         *)
(***************************************************************************)
EXTENDS Naturals, Sequences, FiniteSets

CONSTANTS Passengers, Belts, M, P

VARIABLES at,      \* the station a passenger is at, or "boarded"
          step,    \* how far it is into the queue: its thread ends when it is in
          machine, \* the thread of each station: "idle", "turn" or "serve"
          queue, empty, full, \* kiosks, belts[], board_officer, with their semaphores
          bin_sem  \* TRUE when it is taken

vars == <<at, step, machine, queue, empty, full, bin_sem>>

Stations == {"kiosk", "boarding"} \cup Belts
Capacity(s) == IF s = "kiosk" THEN M ELSE IF s \in Belts THEN P ELSE 1

\* init_sem and init_pthreads; a passenger that has taken no step has not arrived.
Init == /\ at = [p \in Passengers |-> "kiosk"]
        /\ step = [p \in Passengers |-> "announce"]
        /\ machine = [s \in Stations |-> "idle"]
        /\ queue = [s \in Stations |-> <<>>]
        /\ empty = [s \in Stations |-> Capacity(s)]
        /\ full = [s \in Stations |-> 0]
        /\ bin_sem = FALSE

-----------------------------------------------------------------------------
(* A passenger's thread: it prints at the kiosk and at the officer, waits  *)
(* for room, and joins the queue.                                          *)

Advance(p, s, from, to) == /\ at[p] = s
                           /\ step[p] = from
                           /\ step' = [step EXCEPT ![p] = to]
                           /\ UNCHANGED <<at, machine>>

Announce(p, s) == /\ Advance(p, s, "announce", "arrive")
                  /\ ~bin_sem
                  /\ UNCHANGED <<queue, empty, full, bin_sem>>

\* Seeded fault: nobody waits for room.
Reserve_Unbounded(p, s) == /\ Advance(p, s, "arrive", "push")
                           /\ empty' = [empty EXCEPT ![s] = IF @ > 0 THEN @ - 1 ELSE 0]
                           /\ UNCHANGED <<queue, full, bin_sem>>

Reserve(p, s) == /\ Advance(p, s, "arrive", "push")
                 /\ empty[s] > 0
                 /\ empty' = [empty EXCEPT ![s] = @ - 1]
                 /\ UNCHANGED <<queue, full, bin_sem>>

Push(p, s) == /\ Advance(p, s, "push", "in")
              /\ ~bin_sem
              /\ queue' = [queue EXCEPT ![s] = Append(@, p)]
              /\ full' = [full EXCEPT ![s] = @ + 1]
              /\ UNCHANGED <<empty, bin_sem>>

SentToAirport(p)  == Announce(p, "kiosk") \/ Reserve(p, "kiosk") \/ Push(p, "kiosk")
SendToSecurity(p) == \E b \in Belts : Reserve(p, b) \/ Push(p, b)
SentToBoarding(p) == Announce(p, "boarding") \/ Reserve(p, "boarding") \/ Push(p, "boarding")

-----------------------------------------------------------------------------
(* A machine: it waits for a passenger and for the lock, and serves the one *)
(* at the front.                                                            *)

Turns(s, from, to) == /\ machine[s] = from
                      /\ machine' = [machine EXCEPT ![s] = to]

Take(s) == /\ Turns(s, "idle", "turn")
           /\ full[s] > 0
           /\ full' = [full EXCEPT ![s] = @ - 1]
           /\ UNCHANGED <<at, step, queue, empty, bin_sem>>

Serve(s) == /\ Turns(s, "turn", "serve")
            /\ ~bin_sem
            /\ bin_sem' = TRUE
            /\ UNCHANGED <<at, step, queue, empty, full>>

\* Pop, both posts, and the thread that takes the passenger to the next station.
Finish(s, next, first) ==
  /\ Turns(s, "serve", "idle")
  /\ at' = [at EXCEPT ![Head(queue[s])] = next]
  /\ step' = [step EXCEPT ![Head(queue[s])] = first]
  /\ queue' = [queue EXCEPT ![s] = Tail(@)]
  /\ empty' = [empty EXCEPT ![s] = @ + 1]
  /\ bin_sem' = FALSE
  /\ UNCHANGED full

KioskHandler == \/ Take("kiosk") \/ Serve("kiosk")
                \/ \E b \in Belts : Finish("kiosk", b, "arrive")
SecurityCheck(b) == Take(b) \/ Serve(b) \/ Finish(b, "boarding", "announce")
BoardingHandler  == Take("boarding") \/ Serve("boarding") \/ Finish("boarding", "boarded", "in")

Passenger(p) == SentToAirport(p) \/ SendToSecurity(p) \/ SentToBoarding(p)
Machine(s) == \/ s = "kiosk" /\ KioskHandler
              \/ s \in Belts /\ SecurityCheck(s)
              \/ s = "boarding" /\ BoardingHandler
Next == \/ \E p \in Passengers : Passenger(p)
        \/ \E s \in Stations : Machine(s)

-----------------------------------------------------------------------------
\* A station holds as many passengers as it has room for, a machine that serves finds
\* somebody at the front, and it is the only one that serves in the whole airport.
MachineBooks ==
  /\ \A s \in Stations :
       LET In(steps) == {p \in Passengers : at[p] = s /\ step[p] \in steps}
       IN  /\ empty[s] + Cardinality(In({"push", "in"})) = Capacity(s)
           /\ {queue[s][i] : i \in DOMAIN queue[s]} = In({"in"})
           /\ Len(queue[s]) = Cardinality(In({"in"}))
           /\ Len(queue[s]) = full[s] + IF machine[s] = "idle" THEN 0 ELSE 1
  /\ bin_sem <=> \E s \in Stations : machine[s] = "serve"
  /\ \A s, t \in Stations : machine[s] = "serve" /\ machine[t] = "serve" => s = t
=============================================================================
