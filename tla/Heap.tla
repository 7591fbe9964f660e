-------------------------------- MODULE Heap --------------------------------
(***************************************************************************)
(* malloc and free of the user library (umalloc.c): one circular list of   *)
(* free blocks in the order of their addresses, freep the block the search *)
(* starts behind.  A block is an address and its size in units, the header *)
(* is one unit.  The list is a function of the free blocks; the static     *)
(* base, of size zero, lies below all of them at address zero.             *)
(***************************************************************************)
EXTENDS Integers, Sequences, FiniteSetsExt, SequencesExt, Functions

CONSTANT MORE \* units morecore asks for at least
ASSUME HeapAssumption == MORE \in Nat \ {0}

NoHeap == [free |-> 0 :> 0, freep |-> 0, used |-> <<>>]

Units(n) == n + 1

\* The next and the previous block of the list.
NextOf(h, a) == LET above == {b \in DOMAIN h.free : b > a}
                IN  IF above = {} THEN 0 ELSE Min(above)
PrevOf(h, a) == Max({b \in DOMAIN h.free : b < a \/ a = 0})

\* The first block of n units or more behind freep, all around the list; -1 if none.
RECURSIVE Fit(_, _, _)
Fit(h, n, a) == IF h.free[a] >= n THEN a
                ELSE IF a = h.freep THEN -1 ELSE Fit(h, n, NextOf(h, a))

\* The whole block, or its tail.
Take(h, n, a) ==
  LET rest == h.free[a] - n
  IN  [free |-> IF rest = 0 THEN Restrict(h.free, DOMAIN h.free \ {a})
                ELSE [h.free EXCEPT ![a] = rest],
       freep |-> PrevOf(h, a),
       used |-> Append(h.used, [at |-> a + rest, size |-> n])]

\* Seeded fault: free does not join neighbours.
Free_Apart(h, b) == [h EXCEPT !.free = (b.at :> b.size) @@ @, !.freep = PrevOf(h, b.at)]

\* free: the block joins the one behind it and the one before it if they touch.
Free(h, b) ==
  LET p == PrevOf(h, b.at)
      next == NextOf(h, p)
      up == IF b.at + b.size = next THEN h.free[next] ELSE 0
      size == b.size + up
      others == Restrict(h.free, DOMAIN h.free \ (IF up > 0 THEN {next} ELSE {}))
  IN  [h EXCEPT !.free = IF p + h.free[p] = b.at THEN [others EXCEPT ![p] = @ + size]
                         ELSE (b.at :> size) @@ others,
                !.freep = p]

MoreCore(h, n, brk) == Free(h, [at |-> brk, size |-> Max({n, MORE})])
=============================================================================
