----------------------------- MODULE UserMemory -----------------------------
(***************************************************************************)
(* The memory of processes in the stock kernel (offline3, vm.c, kalloc.c): *)
(* page directories, page tables and pages, all of one frame each, taken   *)
(* from one free list.                                                     *)
(*                                                                         *)
(* An address space is a record: the size, the page tables of the user     *)
(* half that exist, the mapped pages with their contents, and the pages    *)
(* the user may not touch.  Addresses count in cells, PGSIZE to a page.    *)
(* The free list is its length: which frame is taken makes no difference   *)
(* to anybody, how many there are does.  The operators take the length and *)
(* the space and return both, with what the C function returns.            *)
(***************************************************************************)
EXTENDS Integers, Sequences, FiniteSets, FiniteSetsExt, SequencesExt, Functions

CONSTANTS PGSIZE,     \* cells of a page
          NPTENTRIES, \* pages of a page table
          KTABLES,    \* page tables of the kernel half
          KERNBASE    \* the first address of the kernel

ASSUME MemoryAssumption ==
  {PGSIZE, NPTENTRIES, KTABLES, KERNBASE} \subseteq Nat \ {0}

PageUp(addr) == ((addr + PGSIZE - 1) \div PGSIZE) * PGSIZE
Page(addr)   == addr \div PGSIZE
Table(a)     == a \div NPTENTRIES

\* The pages from the first whole one above lo up to hi.
PagesIn(lo, hi) == Page(PageUp(lo)) .. Page(PageUp(hi)) - 1

Empty   == [sz |-> 0, tables |-> {}, page |-> <<>>, guard |-> {}]
Cleared == [c \in 0 .. PGSIZE - 1 |-> 0]

\* The frames a space takes: directory, kernel tables, tables, pages.
Frames(s) == 1 + KTABLES + Cardinality(s.tables) + Cardinality(DOMAIN s.page)

\* setupkvm fails with nothing taken.
SetupKvm(free) == IF free < 1 + KTABLES THEN [ok |-> FALSE, free |-> free, s |-> Empty]
                  ELSE [ok |-> TRUE, free |-> free - (1 + KTABLES), s |-> Empty]

\* walkpgdir takes a frame for a table that is not there yet.
NewTables(s, a) == {Table(a)} \ s.tables

\* kalloc and mappages for page a; on failure the page's own frame is given back.
MapPage(x, a, contents) ==
  LET need == 1 + Cardinality(NewTables(x.s, a))
  IN  IF x.free < need THEN [x EXCEPT !.ok = FALSE]
      ELSE [x EXCEPT !.free = @ - need,
                     !.s.tables = @ \cup {Table(a)},
                     !.s.page = (a :> contents) @@ @]

\* One page after the other from lo up, up to the first that fails.
MapPages(x, lo, hi, contents) ==
  FoldLeft(LAMBDA y, a : IF y.ok THEN MapPage(y, a, contents[a]) ELSE y, x,
           [j \in 1 .. Cardinality(PagesIn(lo, hi)) |-> Page(PageUp(lo)) + j - 1])

\* deallocuvm: the tables stay.
DeallocUvm(free, s, old, new) ==
  LET gone == IF new >= old THEN {} ELSE DOMAIN s.page \cap PagesIn(new, old)
  IN  [ok |-> TRUE, free |-> free + Cardinality(gone),
       s |-> [s EXCEPT !.page = Restrict(@, DOMAIN @ \ gone)]]

\* Seeded fault: the pages that were allocated before the failure are kept.
AllocUvm_NotUndone(free, s, old, new) ==
  IF new >= KERNBASE THEN [ok |-> FALSE, free |-> free, s |-> s]
  ELSE MapPages([ok |-> TRUE, free |-> free, s |-> s], old, new,
                [a \in PagesIn(old, new) |-> Cleared])

\* allocuvm, from old to new; a failure is undone.
AllocUvm(free, s, old, new) ==
  IF new >= KERNBASE THEN [ok |-> FALSE, free |-> free, s |-> s]
  ELSE LET x == MapPages([ok |-> TRUE, free |-> free, s |-> s], old, new,
                         [a \in PagesIn(old, new) |-> Cleared])
       IN  IF x.ok THEN x ELSE [DeallocUvm(x.free, x.s, new, old) EXCEPT !.ok = FALSE]

\* freevm: the pages, the tables of both halves, the directory.
FreeVm(free, s) == free + Frames(s)

\* clearpteu, on the page at an address.
ClearPteu(s, addr) == [s EXCEPT !.guard = @ \cup {Page(addr)}]

\* copyuvm: a failure frees what there is of the copy.
CopyUvm(free, s) ==
  LET x == SetupKvm(free)
      y == MapPages(x, 0, s.sz, s.page)
  IN  IF ~x.ok THEN x
      ELSE IF y.ok THEN [y EXCEPT !.s.sz = s.sz, !.s.guard = s.guard]
      ELSE [ok |-> FALSE, free |-> FreeVm(y.free, y.s), s |-> Empty]

\* What the hardware lets the user touch: pages present and with PTE_U.
UserPage(s, addr) == Page(addr) \in DOMAIN s.page \ s.guard

\* copyout of n cells below address top: uva2ka refuses pages without PTE_U.
CopyOut(s, top, n) == \A c \in top - n .. top - 1 : UserPage(s, c)

\* growproc: the new size, or no change.
GrowProc(free, s, n) ==
  LET x == IF n > 0 THEN AllocUvm(free, s, s.sz, s.sz + n)
           ELSE DeallocUvm(free, s, s.sz, s.sz + n)
  IN  IF x.ok /\ s.sz + n # 0 THEN [x EXCEPT !.s.sz = s.sz + n] ELSE [x EXCEPT !.ok = FALSE]

-----------------------------------------------------------------------------
(* The image exec builds: a program of some cells in one segment, a page   *)
(* without PTE_U below the stack, and the stack.                           *)

\* Cells of the arguments on the stack: an ordinary word takes none of this scale.
Long == "long"
StackNeeds(argv) == Cardinality({i \in DOMAIN argv : argv[i] = Long})

Image(free, size, argv) ==
  LET x == SetupKvm(free)
      y == AllocUvm(x.free, x.s, 0, size)
      base == PageUp(size)
      z == AllocUvm(y.free, y.s, base, base + 2 * PGSIZE)
      top == base + 2 * PGSIZE
      s == ClearPteu([z.s EXCEPT !.sz = top], base)
      Bad(u) == [ok |-> FALSE, free |-> FreeVm(u.free, u.s), s |-> Empty]
  IN  IF ~x.ok THEN x
      ELSE IF ~y.ok THEN Bad(y)
      ELSE IF ~z.ok THEN Bad(z)
      ELSE IF ~CopyOut(s, top, StackNeeds(argv)) THEN Bad(z)
      ELSE [ok |-> TRUE, free |-> z.free, s |-> s]
=============================================================================
