------------------------------ MODULE Lottery ------------------------------
(***************************************************************************)
(* The draw of the lottery scheduler (offline3, proc.c): scheduler() adds  *)
(* up the tickets of the RUNNABLE processes, takes a number below the      *)
(* total, and walks the table until the running sum has reached the        *)
(* number.  A table is the set of RUNNABLE slots and the tickets of each.  *)
(***************************************************************************)
EXTENDS Integers, FiniteSets, FiniteSetsExt

\* Tickets held together by a set of slots, and their number.
Lots(slots, tickets)      == UNION {{p} \X (1 .. tickets[p]) : p \in slots}
TicketSum(slots, tickets) == Cardinality(Lots(slots, tickets))

\* The numbers murmur(..) % total_tickets can take, or 0 without any ticket.
Draws(runnable, tickets) ==
  LET total == TicketSum(runnable, tickets)
  IN  IF total = 0 THEN {0} ELSE 0 .. total - 1

\* cummulative_tickets when the walk has added slot p.
Cummulative(runnable, tickets, p) ==
  TicketSum({q \in runnable : q <= p}, tickets)

\* The slot the walk stops at: if(lottery > cummulative_tickets) continue.
\* 0: the walk ends without a winner.
Winner(runnable, tickets, lottery) ==
  LET reached == {p \in runnable : lottery <= Cummulative(runnable, tickets, p)}
  IN  IF reached = {} THEN 0 ELSE Min(reached)

\* The numbers that make slot p win.
Wins(runnable, tickets, p) ==
  {n \in Draws(runnable, tickets) : Winner(runnable, tickets, n) = p}
=============================================================================
