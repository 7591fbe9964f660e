------------------------------ MODULE Console --------------------------------
(***************************************************************************)
(* The console (console.c): interrupts put characters into a ring with     *)
(* three indices that only a read counts back; processes read committed    *)
(* lines from it and write to the screen.                                  *)
(*                                                                         *)
(* One step is one character of consoleintr, which holds cons.lock for all *)
(* that getc has to give, or one critical section of a reader.  The kernel *)
(* has one CPU, so that kill does not come between a reader's test of      *)
(* killed and its sleep (module Pipe).  Of the screen only the cursor is   *)
(* modelled.                                                               *)
(***************************************************************************)
EXTENDS Integers, Sequences

CONSTANTS Procs, Chars,
          Newline, Eof,      \* '\n' and ^D, two of the characters
          INPUT_BUF,
          Wrap,              \* 2^32 in the code: where the indices wrap around
          ROWS, COLS,        \* of the screen: 25 and 80 in the code
          Lengths            \* bound: what reads ask for

ASSUME ConsoleAssumption ==
         /\ INPUT_BUF \in Nat \ {0} /\ Wrap \in Nat
         /\ Wrap % INPUT_BUF = 0 /\ Wrap >= 2 * INPUT_BUF
         /\ ROWS \in Nat \ {0, 1} /\ COLS \in Nat \ {0}
         /\ Lengths \subseteq Nat \ {0}
         /\ {Newline, Eof} \subseteq Chars /\ Chars \ {Newline, Eof} # {}

VARIABLES buf, r, w, e,     \* input
          pos,              \* the cursor
          pc, left, copied, \* per process: a read, the rest of n, what it has copied
          killed

input       == <<buf, r, w, e>>
consoleVars == <<input, pos, pc, left, copied, killed>>
reads       == <<pc, left, copied, killed>>

Slots == 0 .. INPUT_BUF - 1
Plain == CHOOSE c \in Chars : c \notin {Newline, Eof}

Init == /\ buf = [k \in Slots |-> Plain]
        /\ r = 0 /\ w = 0 /\ e = 0
        /\ pos = 0
        /\ pc = [p \in Procs |-> "user"]
        /\ left = [p \in Procs |-> 0] /\ copied = [p \in Procs |-> 0]
        /\ killed = [p \in Procs |-> FALSE]

Plus(i, n) == (i + n) % Wrap
Slot(i)    == i % INPUT_BUF

-----------------------------------------------------------------------------
(* cgaputc: where the cursor goes, and the page is moved up at its last row *)

Scrolled(c) == IF c \div COLS >= ROWS - 1 THEN c - COLS ELSE c

Forward(c)     == Scrolled(c + 1)
NextLine(c)    == Scrolled(c + COLS - (c % COLS))
Backward(c, n) == Scrolled(IF c > n THEN c - n ELSE 0)    \* n backspaces

Echo(c) == IF c = Newline THEN NextLine(pos) ELSE Forward(pos)

-----------------------------------------------------------------------------
(* consoleintr *)

WakeReaders == pc' = [p \in Procs |-> IF pc[p] = "asleep" THEN "read" ELSE pc[p]]

\* Seeded fault: a line that fills the buffer is not given to the readers.
Ends_NotFull(c) == c \in {Newline, Eof}

Ends(c) == c \in {Newline, Eof} \/ Plus(e, 1) = Plus(r, INPUT_BUF)

Type(c) ==
  /\ (e - r) % Wrap < INPUT_BUF
  /\ buf' = [buf EXCEPT ![Slot(e)] = c]
  /\ e' = Plus(e, 1)
  /\ pos' = Echo(c)
  /\ IF Ends(c) THEN w' = e' /\ WakeReaders
     ELSE UNCHANGED <<w, pc>>
  /\ UNCHANGED <<r, left, copied, killed>>

\* Seeded fault: backspace goes back into what has been committed.
Backspace_Far == /\ e # r
                 /\ e' = Plus(e, -1)
                 /\ pos' = Backward(pos, 1)
                 /\ UNCHANGED <<buf, r, w, reads>>

Backspace == /\ e # w
             /\ e' = Plus(e, -1)
             /\ pos' = Backward(pos, 1)
             /\ UNCHANGED <<buf, r, w, reads>>

\* ^U: back to w, or to a newline.
Erased == CHOOSE n \in 0 .. INPUT_BUF :
            /\ \A m \in 0 .. n - 1 : Plus(e, -m) # w /\ buf[Slot(Plus(e, -m - 1))] # Newline
            /\ Plus(e, -n) = w \/ buf[Slot(Plus(e, -n - 1))] = Newline

KillLine == /\ e # w
            /\ e' = Plus(e, -Erased)
            /\ pos' = Backward(pos, Erased)
            /\ UNCHANGED <<buf, r, w, reads>>

-----------------------------------------------------------------------------
(* consoleread, consolewrite *)

Call(p, n) == /\ pc[p] = "user" /\ ~killed[p]
              /\ pc' = [pc EXCEPT ![p] = "read"]
              /\ left' = [left EXCEPT ![p] = n]
              /\ copied' = [copied EXCEPT ![p] = 0]
              /\ UNCHANGED <<input, pos, killed>>

Ready     == (w - r) % Wrap
CharAt(k) == buf[Slot(Plus(r, k - 1))]      \* the k-th that is ready

\* What the loop copies before it stops or finds nothing more: the first m characters.
Stops(p, m) == \/ m = left[p]
               \/ m > 0 /\ CharAt(m) = Newline
               \/ m < Ready /\ CharAt(m + 1) = Eof
Copies(p) == LET M == {m \in 0 .. Ready : Stops(p, m) \/ m = Ready}
             IN  CHOOSE m \in M : \A k \in M : m <= k

\* Seeded fault: what was copied before the reader slept is forgotten.
TakesEof_Slept(p) == Copies(p) = 0 /\ Ready > 0 /\ CharAt(1) = Eof

\* ^D is left for the next call if this one has copied something.
TakesEof(p) == /\ Copies(p) = 0 /\ copied[p] = 0
               /\ Ready > 0 /\ CharAt(1) = Eof

Return(p) == /\ pc' = [pc EXCEPT ![p] = "user"]
             /\ left' = [left EXCEPT ![p] = 0]
             /\ copied' = [copied EXCEPT ![p] = 0]

Read(p) ==
  /\ pc[p] = "read" /\ Stops(p, Copies(p))
  /\ r' = Plus(r, Copies(p) + (IF TakesEof(p) THEN 1 ELSE 0))
  /\ Return(p)
  /\ UNCHANGED <<buf, w, e, pos, killed>>

\* The loop finds nothing more: it sleeps, keeping what it has copied.
ReadSleeps(p) ==
  /\ pc[p] = "read" /\ ~Stops(p, Copies(p)) /\ ~killed[p]
  /\ r' = Plus(r, Copies(p))
  /\ copied' = [copied EXCEPT ![p] = @ + Copies(p)]
  /\ left' = [left EXCEPT ![p] = @ - Copies(p)]
  /\ pc' = [pc EXCEPT ![p] = "asleep"]
  /\ UNCHANGED <<buf, w, e, pos, killed>>

ReadFails(p) ==
  /\ pc[p] = "read" /\ ~Stops(p, Copies(p)) /\ killed[p]
  /\ r' = Plus(r, Copies(p))
  /\ Return(p)
  /\ UNCHANGED <<buf, w, e, pos, killed>>

Write(p, c) == /\ pc[p] = "user" /\ ~killed[p]
               /\ pos' = Echo(c)
               /\ UNCHANGED <<input, reads>>

KillProc(p) == /\ ~killed[p]
               /\ killed' = [killed EXCEPT ![p] = TRUE]
               /\ pc' = [pc EXCEPT ![p] = IF @ = "asleep" THEN "read" ELSE @]
               /\ UNCHANGED <<input, pos, left, copied>>

-----------------------------------------------------------------------------
Next == \/ \E c \in Chars : Type(c)
        \/ Backspace \/ KillLine
        \/ \E p \in Procs : \/ \E n \in Lengths : Call(p, n)
                            \/ \E c \in Chars \ {Eof} : Write(p, c)
                            \/ Read(p) \/ ReadSleeps(p) \/ ReadFails(p) \/ KillProc(p)

Spec == Init /\ [][Next]_consoleVars

-----------------------------------------------------------------------------
(* Properties *)

TypeOK == /\ buf \in [Slots -> Chars]
          /\ {r, w, e} \subseteq 0 .. Wrap - 1
          /\ pos \in Nat
          /\ pc \in [Procs -> {"user", "read", "asleep"}]
          /\ left \in [Procs -> Nat] /\ copied \in [Procs -> Nat]
          /\ killed \in [Procs -> BOOLEAN]

\* r, w and e stay in this order and within one turn of the ring, around the end of the
\* integers too; a full ring has something to read, so that input cannot get stuck; and
\* a reader sleeps only while there is nothing to read and nobody has killed it.
InputFlows ==
  /\ TypeOK
  /\ Ready <= (e - r) % Wrap /\ (e - r) % Wrap <= INPUT_BUF
  /\ (e - r) % Wrap = INPUT_BUF => r # w
  /\ \A p \in Procs : pc[p] = "asleep" => r = w /\ ~killed[p]

\* The cursor stays on the page, above the last row, wherever echo, backspaces and
\* the output of processes move it: cgaputc does not panic.
CursorOnPage == pos < (ROWS - 1) * COLS

\* The console's indices, its sleepers and its cursor.
ConsoleInv == InputFlows /\ CursorOnPage

Term == INSTANCE Terminal
              WITH Capacity <- INPUT_BUF,
                   ready <- [k \in 1 .. Ready |-> CharAt(k)],
                   line <- [k \in 1 .. (e - w) % Wrap |-> buf[Slot(Plus(w, k - 1))]]

\* The ring implements the terminal: a line is editable until it ends, is read in order
\* and is never joined with the next, and an end of file is read by itself.
ImplementsTerminal == Term!Spec

\* A read that has copied something before it slept leaves the end of file to the next
\* one, which returns nothing.
EofByItself ==
  [][\A p \in Procs : pc[p] = "read" /\ pc'[p] = "user" /\ copied[p] > 0
                        => \A k \in 1 .. (r' - r) % Wrap : CharAt(k) # Eof]_consoleVars
=============================================================================
