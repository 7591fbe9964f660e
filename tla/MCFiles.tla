------------------------------ MODULE MCFiles -------------------------------
(* Two processes, one page; one byte a, or more b than a pipe holds. *)
EXTENDS Files

CONSTANTS a, b

AorB     == {a, b}
Writings == {<<1, a>>, <<PIPESIZE + 1, b>>}
=============================================================================
