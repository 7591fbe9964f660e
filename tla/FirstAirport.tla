---------------------------- MODULE FirstAirport ----------------------------
(***************************************************************************)
(* The first form of the airport, ipc_offline_passengers_are_threads.cpp,  *)
(* in the terms of Airport: no VIPs, no walkway, no special kiosk, and a   *)
(* pass that is never lost.  The functions of its stations are the same.   *)
(***************************************************************************)
EXTENDS Airport

\* The stations whose semaphores init_sem makes: no special kiosk.
FirstStations == {"kiosk", "boarding"} \cup Belts

\* sendToKiosk ... check_and_board.
FirstStation(p, s) == \/ s = "boarding" /\ KeepPass(p)
                      \/ AtStation(p, s)

\* Kiosk, any belt, officer; then the thread ends.
FirstLeave(p) ==
  /\ stage[p] \in FirstStations
  /\ step[p] = "done"
  /\ \/ stage[p] = "kiosk" /\ \E b \in Belts : MoveTo(p, b)
     \/ stage[p] \in Belts /\ MoveTo(p, "boarding")
     \/ stage[p] = "boarding" /\ MoveTo(p, "boarded")

FirstLifeCycle(p) == (\E s \in FirstStations : FirstStation(p, s)) \/ FirstLeave(p)
=============================================================================
