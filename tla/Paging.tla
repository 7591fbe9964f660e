------------------------------- MODULE Paging -------------------------------
(***************************************************************************)
(* Demand paging in the xv6 of offline4: every process with a pid above 2  *)
(* keeps the pages it has in memory in a FIFO list (page_list) and the     *)
(* pages it has in its swap file in another one (meta_list).  sbrk adds    *)
(* and removes pages, a page fault swaps one page in and one out, fork     *)
(* copies an address space with its lists, and exit and wait free one.     *)
(*                                                                         *)
(* Addresses and file offsets are counted in pages, and frames are counted *)
(* only: what a frame holds is kept with the page that is mapped to it.    *)
(* The contents of a page are Zero, Junk (what kfree leaves) or the page   *)
(* number, once the process has written it; mem is what each process       *)
(* should read, whatever happens below.  A process may sleep in allocuvm   *)
(* between the pages it adds, while it writes to the swap file; the other  *)
(* calls share nothing with other processes but the free list, and are one *)
(* step.                                                                   *)
(*                                                                         *)
(* Where the code goes on with a page list that is empty, with a full meta *)
(* list, or with the null of a failed kalloc, it writes outside of its     *)
(* arrays or to address 0; where a page is mapped twice it panics.  These  *)
(* outcomes are "broken", and the kernel stops.                            *)
(*                                                                         *)
(* Left out: exec, frames used for page tables, stacks and pipes, the file *)
(* system below the swap files.  Process 1 starts as a program the shell   *)
(* has just executed; init and the shell (pids 1 and 2), which have no     *)
(* lists, stand outside, as the parent Init0.                              *)
(***************************************************************************)
EXTENDS Naturals, FiniteSets, SequencesExt

CONSTANTS NProc,            \* processes
          MaxPages,         \* bound: no address space grows beyond this
          NFrames,          \* frames for user pages
          MAX_PSYCH_PAGES,  \* entries of page_list and of meta_list
          Written           \* bound: the pages that programs write to

ASSUME PagingAssumption == /\ NProc \in Nat \ {0}
                           /\ MaxPages \in Nat \ {0}
                           /\ NFrames \in Nat \ {0}
                           /\ MAX_PSYCH_PAGES \in Nat \ {0}
                           /\ Written \subseteq 0 .. MaxPages - 1

VARIABLES
  state,      \* per process: "unused", "live" or "zombie"
  parent,     \* the process that may wait for it, or Init0
  sz,         \* struct proc's sz
  next, goal, \* allocuvm's a and newsz; both sz when it is not running
  pte,        \* page tables
  page_list, meta_list, file_offset,
  swapFile,   \* contents of the swap files
  free,       \* length of kmem.freelist
  leaked,     \* frames that nothing refers to any more
  mem,        \* what each process should read
  broken

pagingVars == <<state, parent, sz, next, goal, pte, page_list, meta_list,
                file_offset, swapFile, free, leaked, mem, broken>>
lists  == <<page_list, meta_list, file_offset>>
frames == <<free, leaked>>

Procs  == 1 .. NProc
Pages  == 0 .. MaxPages - 1
Slots  == 0 .. MAX_PSYCH_PAGES - 1
Init0  == 0

Zero     == MaxPages
Junk     == MaxPages + 1
Contents == Pages \cup {Zero, Junk}

\* A page table entry: the PTE_P and PTE_PG bits, and what its frame holds.
Unmapped     == [P |-> FALSE, PG |-> FALSE, data |-> Junk]
SwappedOut   == [P |-> FALSE, PG |-> TRUE, data |-> Junk]
Mapped(data) == [P |-> TRUE, PG |-> FALSE, data |-> data]

NoPages == [a \in Pages |-> Unmapped]
Blank   == [a \in Pages |-> Zero]

\* Process 1 has one page.  It is in page_list, unless freeing the image of the
\* shell, at the end of exec, took it out.
Init ==
  /\ state = [p \in Procs |-> IF p = 1 THEN "live" ELSE "unused"]
  /\ parent = [p \in Procs |-> Init0]
  /\ sz = [p \in Procs |-> IF p = 1 THEN 1 ELSE 0]
  /\ next = sz
  /\ goal = sz
  /\ pte = [p \in Procs |-> IF p = 1 THEN [NoPages EXCEPT ![0] = Mapped(Zero)] ELSE NoPages]
  /\ \E l \in {<<>>, <<0>>} :
       page_list = [p \in Procs |-> IF p = 1 THEN l ELSE <<>>]
  /\ meta_list = [p \in Procs |-> <<>>]
  /\ file_offset = [p \in Procs |-> 0]
  /\ swapFile = [p \in Procs |-> [s \in Slots |-> Zero]]
  /\ free = NFrames - 1
  /\ leaked = 0
  /\ mem = [p \in Procs |-> Blank]
  /\ broken = FALSE

-----------------------------------------------------------------------------
(* Frames and lists. *)

\* A process that runs in user mode, not inside growproc.
InUser(p) == ~broken /\ state[p] = "live" /\ next[p] = goal[p]

Break == /\ broken' = TRUE
         /\ UNCHANGED <<state, parent, sz, next, goal, pte, lists, swapFile, frames,
                        mem>>

\* The pages in lo .. hi - 1 that p has in memory.
Resident(p, lo, hi) == {a \in Pages : lo <= a /\ a < hi /\ pte[p][a].P}

\* The entries of list at the places in kept, in order.
Sublist(list, kept) ==
  [n \in 1 .. Cardinality(kept) |->
     list[CHOOSE i \in kept : Cardinality({j \in kept : j <= i}) = n]]

\* remove_page_ for each of the pages: the first entry of each of them goes.
RemovePages(list, pages) ==
  Sublist(list, {i \in DOMAIN list : \/ list[i] \notin pages
                                    \/ \E j \in 1 .. i - 1 : list[j] = list[i]})

\* Where meta_list has page a first: 0 when it has not.
MetaIndex(p, a) == SelectInSeq(meta_list[p], LAMBDA m : m.va = a)

\* Seeded fault: the frame is freed, and filled with junk, before it is written.
SwapOutFor_FreedFirst(p, a, data, slot) ==
  LET victim == Head(page_list[p])
  IN  /\ swapFile' = [swapFile EXCEPT ![p][slot] = Junk]
      /\ pte' = [pte EXCEPT ![p][a] = Mapped(data), ![p][victim] = SwappedOut]
      /\ page_list' = [page_list EXCEPT ![p] = Append(Tail(@), a)]

\* Page a is mapped to a new frame, and then the page at the front of the list
\* goes to a slot of the swap file and its frame to the free list.
SwapOutFor(p, a, data, slot) ==
  LET victim == Head(page_list[p])
  IN  /\ swapFile' = [swapFile EXCEPT ![p][slot] = pte[p][victim].data]
      /\ pte' = [pte EXCEPT ![p][a] = Mapped(data), ![p][victim] = SwappedOut]
      /\ page_list' = [page_list EXCEPT ![p] = Append(Tail(@), a)]

-----------------------------------------------------------------------------
(* sbrk: growproc, allocuvm, deallocuvm *)

Sbrk(p, n) == /\ InUser(p)
              /\ sz[p] + n <= MaxPages
              /\ goal' = [goal EXCEPT ![p] = sz[p] + n]
              /\ UNCHANGED <<state, parent, sz, next, pte, lists, swapFile, frames,
                             mem, broken>>

Allocating(p) == ~broken /\ state[p] = "live" /\ next[p] < goal[p]

ListFull(p) == Len(page_list[p]) >= MAX_PSYCH_PAGES
MetaFull(p) == Len(meta_list[p]) >= MAX_PSYCH_PAGES

\* panic("remap"), or an entry beyond the end of meta_list.
AllocBreaks(p) == /\ Allocating(p) /\ free > 0
                  /\ pte[p][next[p]].P \/ (ListFull(p) /\ MetaFull(p))
                  /\ Break

\* One turn of allocuvm's loop; after the last one growproc stores the size.
AllocPage(p) ==
  /\ Allocating(p) /\ free > 0
  /\ ~pte[p][next[p]].P
  /\ ListFull(p) => ~MetaFull(p)
  /\ next' = [next EXCEPT ![p] = @ + 1]
  /\ sz' = [sz EXCEPT ![p] = IF next[p] + 1 = goal[p] THEN goal[p] ELSE @]
  /\ mem' = [mem EXCEPT ![p][next[p]] = Zero]
  /\ IF ListFull(p)
     THEN /\ SwapOutFor(p, next[p], Zero, file_offset[p])
          /\ meta_list' = [meta_list EXCEPT ![p] =
               Append(@, [va |-> Head(page_list[p]), slot |-> file_offset[p]])]
          /\ file_offset' = [file_offset EXCEPT ![p] = @ + 1]
          /\ UNCHANGED free
     ELSE /\ pte' = [pte EXCEPT ![p][next[p]] = Mapped(Zero)]
          /\ page_list' = [page_list EXCEPT ![p] = Append(@, next[p])]
          /\ free' = free - 1
          /\ UNCHANGED <<meta_list, file_offset, swapFile>>
  /\ UNCHANGED <<state, parent, goal, leaked, broken>>

\* Seeded fault: the pages stay in page_list.
FreePages_StayListed(p, lo, hi) ==
  LET gone == Resident(p, lo, hi)
  IN  /\ page_list' = page_list
      /\ free' = free + Cardinality(gone)
      /\ pte' = [pte EXCEPT ![p] =
                   [a \in Pages |-> IF a \in gone THEN Unmapped ELSE @[a]]]

\* deallocuvm(lo, hi) in p's table, for p itself.
FreePages(p, lo, hi) ==
  LET gone == Resident(p, lo, hi)
  IN  /\ page_list' = [page_list EXCEPT ![p] = RemovePages(@, gone)]
      /\ free' = free + Cardinality(gone)
      /\ pte' = [pte EXCEPT ![p] =
                   [a \in Pages |-> IF a \in gone THEN Unmapped ELSE @[a]]]

\* kalloc fails: what the call has added is given back.
AllocFails(p) == /\ Allocating(p) /\ free = 0
                 /\ FreePages(p, sz[p], goal[p])
                 /\ next' = [next EXCEPT ![p] = sz[p]]
                 /\ goal' = [goal EXCEPT ![p] = sz[p]]
                 /\ UNCHANGED <<state, parent, sz, meta_list, file_offset, swapFile,
                                leaked, mem, broken>>

\* Pages in the swap file keep their entries.  (A process that gives back all of
\* its memory, n = sz, has no code left to go on with.)
Shrink(p, n) == /\ InUser(p)
                /\ n < sz[p]
                /\ FreePages(p, sz[p] - n, sz[p])
                /\ sz' = [sz EXCEPT ![p] = @ - n]
                /\ next' = [next EXCEPT ![p] = sz[p] - n]
                /\ goal' = [goal EXCEPT ![p] = sz[p] - n]
                /\ mem' = [mem EXCEPT ![p] = [a \in Pages |->
                              IF a < sz[p] - n THEN @[a] ELSE Zero]]
                /\ UNCHANGED <<state, parent, meta_list, file_offset, swapFile,
                               leaked, broken>>

-----------------------------------------------------------------------------
(* Memory accesses and page faults.  Programs keep to their own memory, below *)
(* sz: the code does not look, and do_the_swap would map a page beyond it.    *)

Write(p, a) == /\ InUser(p)
               /\ a < sz[p]
               /\ pte[p][a].P
               /\ pte' = [pte EXCEPT ![p][a].data = a]
               /\ mem' = [mem EXCEPT ![p][a] = a]
               /\ UNCHANGED <<state, parent, sz, next, goal, lists, swapFile, frames,
                              broken>>

\* A page in the swap file is touched.
Faults(p, a) == InUser(p) /\ a < sz[p] /\ ~pte[p][a].P /\ MetaIndex(p, a) # 0

FaultBreaks(p, a) == /\ Faults(p, a)
                     /\ free = 0 \/ page_list[p] = <<>>
                     /\ Break

\* do_the_swap: a comes in, and the front of the list goes to its slot.
PageFault(p, a) ==
  /\ Faults(p, a) /\ free > 0 /\ page_list[p] # <<>>
  /\ LET i    == MetaIndex(p, a)
         slot == meta_list[p][i].slot
     IN  /\ SwapOutFor(p, a, swapFile[p][slot], slot)
         /\ meta_list' = [meta_list EXCEPT ![p] =
              Append(RemoveAt(@, i), [va |-> Head(page_list[p]), slot |-> slot])]
  /\ UNCHANGED <<state, parent, sz, next, goal, file_offset, frames, mem, broken>>

-----------------------------------------------------------------------------
(* fork, exit, wait *)

Forks(p, q) == InUser(p) /\ state[q] = "unused"

ForkBreaks(p, q) == /\ Forks(p, q)
                    /\ sz[p] <= free /\ free < sz[p] + Len(meta_list[p])
                    /\ Break

\* copyuvm takes a frame for every page, in memory or not.  For a page in the
\* swap file it copies what the frame that the page had holds by now: junk, or a
\* page that got the frame since.  copy_page_data takes one frame more for every
\* page in the swap file, and forgets it.
Fork(p, q) ==
  /\ Forks(p, q)
  /\ sz[p] + Len(meta_list[p]) <= free
  /\ \E stale \in [{a \in 0 .. sz[p] - 1 : ~pte[p][a].P} -> Contents] :
       pte' = [pte EXCEPT ![q] = [a \in Pages |->
                 IF a >= sz[p] THEN Unmapped
                 ELSE IF pte[p][a].P THEN Mapped(pte[p][a].data)
                 ELSE Mapped(stale[a])]]
  /\ state' = [state EXCEPT ![q] = "live"]
  /\ parent' = [parent EXCEPT ![q] = p]
  /\ sz' = [sz EXCEPT ![q] = sz[p]]
  /\ next' = [next EXCEPT ![q] = sz[p]]
  /\ goal' = [goal EXCEPT ![q] = sz[p]]
  /\ free' = free - sz[p] - Len(meta_list[p])
  /\ leaked' = leaked + Len(meta_list[p])
  /\ page_list' = [page_list EXCEPT ![q] = page_list[p]]
  /\ meta_list' = [meta_list EXCEPT ![q] = meta_list[p]]
  /\ file_offset' = [file_offset EXCEPT ![q] = file_offset[p]]
  /\ swapFile' = [swapFile EXCEPT ![q] = swapFile[p]]
  /\ mem' = [mem EXCEPT ![q] = mem[p]]
  /\ UNCHANGED broken

\* copyuvm finds no frame for the rest of the pages.  freevm gives the new table
\* back, and takes its pages out of the list of the process that forks.
ForkFails(p, q) ==
  /\ Forks(p, q)
  /\ free < sz[p]
  /\ page_list' = [page_list EXCEPT ![p] =
                     RemovePages(@, 0 .. free - 1)]
  /\ UNCHANGED <<state, parent, sz, next, goal, pte, meta_list, file_offset,
                 swapFile, frames, mem, broken>>

\* removeSwapFile; the children go to init.
Exit(p) == /\ InUser(p)
           /\ state' = [state EXCEPT ![p] = "zombie"]
           /\ parent' = [q \in Procs |-> IF parent[q] = p THEN Init0 ELSE parent[q]]
           /\ swapFile' = [swapFile EXCEPT ![p] = [s \in Slots |-> Zero]]
           /\ UNCHANGED <<sz, next, goal, pte, lists, frames, mem, broken>>

\* freevm of zombie z, and its slot given back.
FreeZombie(z) ==
  /\ state' = [state EXCEPT ![z] = "unused"]
  /\ parent' = [parent EXCEPT ![z] = Init0]
  /\ pte' = [pte EXCEPT ![z] = NoPages]
  /\ free' = free + Cardinality(Resident(z, 0, MaxPages))
  /\ sz' = [sz EXCEPT ![z] = 0]
  /\ next' = [next EXCEPT ![z] = 0]
  /\ goal' = [goal EXCEPT ![z] = 0]
  /\ meta_list' = [meta_list EXCEPT ![z] = <<>>]
  /\ file_offset' = [file_offset EXCEPT ![z] = 0]
  /\ mem' = [mem EXCEPT ![z] = Blank]
  /\ UNCHANGED <<swapFile, leaked, broken>>

\* wait: freevm takes the child's pages out of the list of the caller.
Wait(p, z) == /\ InUser(p)
              /\ state[z] = "zombie" /\ parent[z] = p
              /\ page_list' = [page_list EXCEPT
                                 ![p] = RemovePages(@, Resident(z, 0, MaxPages)),
                                 ![z] = <<>>]
              /\ FreeZombie(z)

\* init and the shell wait for the others.
InitWaits(z) == /\ ~broken
                /\ state[z] = "zombie" /\ parent[z] = Init0
                /\ page_list' = [page_list EXCEPT ![z] = <<>>]
                /\ FreeZombie(z)

-----------------------------------------------------------------------------
Next ==
  \/ \E p \in Procs, n \in 1 .. 2 : Sbrk(p, n) \/ Shrink(p, n)
  \/ \E p \in Procs : \/ AllocPage(p) \/ AllocFails(p) \/ AllocBreaks(p)
                     \/ Exit(p) \/ InitWaits(p)
  \/ \E p \in Procs, a \in Written : Write(p, a)
  \/ \E p \in Procs, a \in Pages : PageFault(p, a) \/ FaultBreaks(p, a)
  \/ \E p, q \in Procs : \/ Fork(p, q) \/ ForkFails(p, q) \/ ForkBreaks(p, q)
                        \/ Wait(p, q)

Spec == Init /\ [][Next]_pagingVars

-----------------------------------------------------------------------------
(* Safety *)

\* Every variable has its type; the lists stay within their arrays.
TypeOK ==
  /\ state \in [Procs -> {"unused", "live", "zombie"}]
  /\ parent \in [Procs -> Procs \cup {Init0}]
  /\ sz \in [Procs -> 0 .. MaxPages]
  /\ next \in [Procs -> 0 .. MaxPages]
  /\ goal \in [Procs -> 0 .. MaxPages]
  /\ pte \in [Procs -> [Pages -> [P : BOOLEAN, PG : BOOLEAN, data : Contents]]]
  /\ page_list \in [Procs -> Seq(Pages)]
  /\ meta_list \in [Procs -> Seq([va : Pages, slot : Slots])]
  /\ file_offset \in [Procs -> 0 .. MAX_PSYCH_PAGES]
  /\ swapFile \in [Procs -> [Slots -> Contents]]
  /\ free \in 0 .. NFrames
  /\ leaked \in 0 .. NFrames
  /\ mem \in [Procs -> [Pages -> Contents]]
  /\ broken \in BOOLEAN

\* Every frame is free, mapped by one page, or one of those that fork has lost:
\* none is freed twice, or freed and still mapped.
FramesCounted ==
  free + leaked + Cardinality({x \in Procs \X Pages : pte[x[1]][x[2]].P}) = NFrames

\* What page_list holds is in memory, and is there once: the page FIFO evicts
\* has a frame of its own to give.
ListedResident ==
  \A p \in Procs :
    /\ Len(page_list[p]) <= MAX_PSYCH_PAGES
    /\ IsInjective(page_list[p])
    /\ \A i \in DOMAIN page_list[p] : pte[p][page_list[p][i]].P

\* The swap file is used slot by slot: the entries of meta_list hold each slot
\* below file_offset once.
SlotsExclusive ==
  \A p \in Procs :
    /\ Len(meta_list[p]) = file_offset[p]
    /\ {meta_list[p][i].slot : i \in DOMAIN meta_list[p]} = 0 .. file_offset[p] - 1

\* The lists, the page tables, the swap files and the free frames agree after any
\* sequence of sbrk, faults, forks, failed forks, exits and waits.
PlacesAgree == TypeOK /\ FramesCounted /\ ListedResident /\ SlotsExclusive

\* The places where page a of p may be: its frame and slots of the swap file.
Copies(p, a) == Cardinality({m \in ToSet(meta_list[p]) : m.va = a})
                  + (IF pte[p][a].P THEN 1 ELSE 0)

\* What p finds in page a, in memory or swapped in first.
Reads(p, a) == IF pte[p][a].P THEN pte[p][a].data
               ELSE swapFile[p][meta_list[p][MetaIndex(p, a)].slot]

\* No page of a live process is lost, and a page that is in one place has the
\* contents the process gave it, through all the swapping, forking and freeing
\* around it.
PagesKept ==
  \A p \in Procs : state[p] = "live" =>
    \A a \in 0 .. sz[p] - 1 :
      /\ Copies(p, a) >= 1
      /\ Copies(p, a) = 1 => Reads(p, a) = mem[p][a]
=============================================================================
