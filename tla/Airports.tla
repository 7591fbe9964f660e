------------------------------ MODULE Airports ------------------------------
(***************************************************************************)
(* The three programs of offline2, which promise the same: a passenger     *)
(* that arrives boards the plane.  One of them is started.                 *)
(***************************************************************************)
EXTENDS FirstAirport

VARIABLES program, \* "complete", "first" or "machines"
          at, way, machine, line, room, waiting, bin_sem \* those of Machines

machVars == <<at, way, machine, line, room, waiting, bin_sem>>
allVars == <<program, airVars, machVars>>

Mach == INSTANCE Machines WITH step <- way, queue <- line, empty <- room, full <- waiting

AirportsInit == /\ program \in {"complete", "first", "machines"}
                /\ AirportInit
                /\ Mach!Init

\* A thread of the program that runs.
CompleteThread(p) == program = "complete" /\ PassengerLifeCycle(p) /\ UNCHANGED <<program, machVars>>
FirstThread(p)    == program = "first" /\ FirstLifeCycle(p) /\ UNCHANGED <<program, machVars>>
WayThread(p)      == program = "machines" /\ Mach!Passenger(p) /\ UNCHANGED <<program, airVars>>
MachineThread(s)  == program = "machines" /\ Mach!Machine(s) /\ UNCHANGED <<program, airVars>>

Boarded == IF program = "machines" THEN at = [p \in Passengers |-> "boarded"]
                                   ELSE stage = [p \in Passengers |-> "boarded"]

AirportsNext == \/ \E p \in Passengers : CompleteThread(p) \/ FirstThread(p) \/ WayThread(p)
                \/ \E s \in Mach!Stations : MachineThread(s)
                \/ Boarded /\ UNCHANGED allVars

\* Every thread keeps running, and rand()%2 does not cost one passenger its pass for ever.
\* The semaphores may serve their waiters in any order.
AirportsSpec ==
  /\ AirportsInit /\ [][AirportsNext]_allVars
  /\ \A p \in Passengers : /\ WF_allVars(CompleteThread(p))
                           /\ SF_allVars(CompleteThread(p) /\ KeepPass(p))
                           /\ WF_allVars(FirstThread(p))
                           /\ WF_allVars(WayThread(p))
  /\ \A s \in Mach!Stations : WF_allVars(MachineThread(s))

\* Machines keeps its books.
MachineBooks == Mach!MachineBooks

\* In each of the three programs every passenger boards, and then stays on the plane.
EveryoneBoards == <>[]Boarded
=============================================================================
