----------------------------- MODULE MCAirport -----------------------------
(* A few passengers, one of them a VIP, at a small airport, in each of the three programs. *)
EXTENDS Airports
=============================================================================
