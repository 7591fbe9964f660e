------------------------------- MODULE MCLog -------------------------------
(* Two processes and a few blocks. *)
EXTENDS Log
=============================================================================
