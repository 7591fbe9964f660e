---------------------------- MODULE MCProcTable ----------------------------
(* Four process slots on two CPUs, so that a zombie can have a grandparent; for the
   shares of the lottery, three slots on one. *)
EXTENDS ProcTable, TLC

\* The CPUs are interchangeable.
Symmetry == Permutations(Cpus)
=============================================================================
