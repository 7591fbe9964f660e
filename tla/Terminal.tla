------------------------------ MODULE Terminal -------------------------------
(***************************************************************************)
(* What the console promises to those who read it: characters are typed    *)
(* into a line that can be edited until it ends, with a newline, an end of *)
(* file or because there is no more room; and what has been ended is read  *)
(* in order, never across the end of a line, and an end of file by itself. *)
(***************************************************************************)
EXTENDS Naturals, Sequences

CONSTANTS Chars, Newline, Eof, Capacity

VARIABLES ready,   \* ended, not read yet
          line     \* still edited

terminalVars == <<ready, line>>

Init == ready = <<>> /\ line = <<>>

Type(c) ==
  /\ Len(ready) + Len(line) < Capacity
  /\ IF c \in {Newline, Eof} \/ Len(ready) + Len(line) + 1 = Capacity
     THEN ready' = ready \o Append(line, c) /\ line' = <<>>
     ELSE line' = Append(line, c) /\ UNCHANGED ready

Erase == /\ line # <<>>
         /\ line' = SubSeq(line, 1, Len(line) - 1)
         /\ UNCHANGED ready

Kill == line' = <<>> /\ UNCHANGED ready

\* One piece of a line, or an end of file.
Read(m) == /\ m <= Len(ready)
           /\ \A k \in 1 .. m - 1 : ready[k] # Newline
           /\ m = 1 \/ \A k \in 1 .. m : ready[k] # Eof
           /\ ready' = SubSeq(ready, m + 1, Len(ready))
           /\ UNCHANGED line

Next == (\E c \in Chars : Type(c)) \/ Erase \/ Kill \/ (\E m \in 1 .. Capacity : Read(m))

Spec == Init /\ [][Next]_terminalVars
=============================================================================
