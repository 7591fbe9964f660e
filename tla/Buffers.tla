------------------------------- MODULE Buffers -------------------------------
(***************************************************************************)
(* The buffer cache (bio.c), the sleep locks of its buffers (sleeplock.c)  *)
(* and the queue of the disk driver (ide.c).                               *)
(*                                                                         *)
(* One action per critical section of bcache.lock, of a sleep lock's own   *)
(* spin lock and of idelock; sleep gives that lock up as it goes to sleep, *)
(* so testing the condition and sleeping are one step.  A process may hold *)
(* two buffers: write_log, install_trans and bmap do, and always take the  *)
(* one that comes first (log, indirect block, bitmap or data) first.       *)
(* Nothing limits how many buffers are wanted at once, or kept by the log: *)
(* bget panics when there is none, with bcache.lock held.  The CPUs of the *)
(* others go on until they need that lock.                                 *)
(***************************************************************************)
EXTENDS Integers, FiniteSets, SequencesExt

CONSTANTS Procs,
          NBUF,      \* size of the cache
          NBlocks,   \* blocks of the disk
          Values,    \* contents of a block
          NoProc, Zero,
          Written    \* bound: the blocks that are ever changed

ASSUME BuffersAssumption == /\ NBUF \in Nat \ {0} /\ NBlocks \in Nat \ {0}
                            /\ Written \subseteq 1 .. NBlocks
                            /\ NoProc \notin Procs /\ Zero \in Values
                            /\ IsFiniteSet(Procs)

Bufs    == 1 .. NBUF
Blocks  == 1 .. NBlocks
NoBlock == 0
NoBuf   == 0

VARIABLES
  blockno, valid, dirty, refcnt, data,   \* struct buf, per buffer
  owner,     \* its sleep lock: the process that has it locked
  lru,       \* bcache.head's list, most recently used first
  idequeue,  \* buffers waiting for the disk, the first one being served
  disk,
  pc,        \* per process, see Points
  want,      \* the block bread was called with, or NoBlock
  at,        \* the buffer the current call is about
  held       \* the buffers it has been given

bufs    == <<blockno, valid, dirty, refcnt, data, owner, lru>>
procs   == <<pc, want, at, held>>
bufVars == <<bufs, idequeue, disk, procs>>

\* "run" outside of the cache; "lock" about to try the sleep lock, "asleep" in
\* acquiresleep; "io" asleep and "wait" awake in iderw, with the lock; "unref" in
\* brelse, the lock given up but not the reference; "panic" for ever in bget.
Points == {"run", "lock", "asleep", "io", "wait", "unref", "panic"}

\* binit puts each buffer in front of the one before.
Init ==
  /\ blockno = [i \in Bufs |-> NoBlock]
  /\ valid = [i \in Bufs |-> FALSE] /\ dirty = [i \in Bufs |-> FALSE]
  /\ refcnt = [i \in Bufs |-> 0]
  /\ data = [i \in Bufs |-> Zero]
  /\ owner = [i \in Bufs |-> NoProc]
  /\ lru = [i \in Bufs |-> NBUF + 1 - i]
  /\ idequeue = <<>>
  /\ disk = [b \in Blocks |-> Zero]
  /\ pc = [p \in Procs |-> "run"]
  /\ want = [p \in Procs |-> NoBlock]
  /\ at = [p \in Procs |-> NoBuf]
  /\ held = [p \in Procs |-> {}]

-----------------------------------------------------------------------------
(* bget *)

\* Who panicked holds bcache.lock, for ever.
Panicked == \E p \in Procs : pc[p] = "panic"

Cached(b) == {i \in Bufs : blockno[i] = b}

\* The first such buffer in a list.
FirstOf(list, S) == list[CHOOSE k \in Bufs : /\ list[k] \in S
                                             /\ \A j \in Bufs : list[j] \in S => k <= j]

\* Seeded fault: a buffer that is newer than the disk is taken too.
Unused_NotPinned == {i \in Bufs : refcnt[i] = 0}

\* Nobody has a pointer to it, and it is not newer than the disk.
Unused == {i \in Bufs : refcnt[i] = 0 /\ ~dirty[i]}

\* A caller holds at most two buffers, and asks for a block after the one it holds.
MayAsk(p, b) == /\ pc[p] = "run" /\ ~Panicked
                /\ Cardinality(held[p]) < 2
                /\ \A i \in held[p] : blockno[i] < b

Wait(p, b, i) == /\ pc' = [pc EXCEPT ![p] = "lock"]
                 /\ want' = [want EXCEPT ![p] = b]
                 /\ at' = [at EXCEPT ![p] = i]

BgetHit(p, b) ==
  /\ MayAsk(p, b) /\ Cached(b) # {}
  /\ LET i == FirstOf(lru, Cached(b)) IN
       /\ refcnt' = [refcnt EXCEPT ![i] = @ + 1]
       /\ Wait(p, b, i)
  /\ UNCHANGED <<blockno, valid, dirty, data, owner, lru, idequeue, disk, held>>

BgetRecycle(p, b) ==
  /\ MayAsk(p, b) /\ Cached(b) = {} /\ Unused # {}
  /\ LET i == FirstOf(Reverse(lru), Unused) IN
       /\ blockno' = [blockno EXCEPT ![i] = b]
       /\ valid' = [valid EXCEPT ![i] = FALSE]
       /\ dirty' = [dirty EXCEPT ![i] = FALSE]
       /\ refcnt' = [refcnt EXCEPT ![i] = 1]
       /\ Wait(p, b, i)
  /\ UNCHANGED <<data, owner, lru, idequeue, disk, held>>

\* panic("bget: no buffers").
BgetPanics(p, b) ==
  /\ MayAsk(p, b) /\ Cached(b) = {} /\ Unused = {}
  /\ pc' = [pc EXCEPT ![p] = "panic"]
  /\ UNCHANGED <<bufs, idequeue, disk, want, at, held>>

-----------------------------------------------------------------------------
(* acquiresleep, and the rest of bread *)

AcquireSleeps(p) ==
  /\ pc[p] = "lock" /\ owner[at[p]] # NoProc
  /\ pc' = [pc EXCEPT ![p] = "asleep"]
  /\ UNCHANGED <<bufs, idequeue, disk, want, at, held>>

Give(p, i) == /\ pc' = [pc EXCEPT ![p] = "run"]
              /\ want' = [want EXCEPT ![p] = NoBlock]
              /\ at' = [at EXCEPT ![p] = NoBuf]
              /\ held' = [held EXCEPT ![p] = @ \cup {i}]

\* The disk is started on the first of the queue (idestart); every other buffer
\* waits for the interrupt of the one before it.
Enqueue(p, i) == /\ idequeue' = Append(idequeue, i)
                 /\ pc' = [pc EXCEPT ![p] = "io"]
                 /\ at' = [at EXCEPT ![p] = i]

\* With the lock, bread looks at B_VALID: only who has the lock changes it.
AcquireValid(p) ==
  /\ pc[p] = "lock" /\ owner[at[p]] = NoProc /\ valid[at[p]]
  /\ owner' = [owner EXCEPT ![at[p]] = p]
  /\ Give(p, at[p])
  /\ UNCHANGED <<blockno, valid, dirty, refcnt, data, lru, idequeue, disk>>

AcquireRead(p) ==
  /\ pc[p] = "lock" /\ owner[at[p]] = NoProc /\ ~valid[at[p]]
  /\ owner' = [owner EXCEPT ![at[p]] = p]
  /\ Enqueue(p, at[p])
  /\ UNCHANGED <<blockno, valid, dirty, refcnt, data, lru, disk, want, held>>

\* The end of iderw's loop, when the process is scheduled again.
IderwDone(p) == /\ pc[p] = "wait"
                /\ valid[at[p]] /\ ~dirty[at[p]]
                /\ Give(p, at[p])
                /\ UNCHANGED <<bufs, idequeue, disk>>

-----------------------------------------------------------------------------
(* bwrite, log_write, brelse *)

\* The caller changes the data and writes them to the disk.
Bwrite(p, i, v) ==
  /\ pc[p] = "run" /\ i \in held[p] /\ blockno[i] \in Written
  /\ data' = [data EXCEPT ![i] = v]
  /\ dirty' = [dirty EXCEPT ![i] = TRUE]
  /\ Enqueue(p, i)
  /\ UNCHANGED <<blockno, valid, refcnt, owner, lru, disk, want, held>>

\* The caller changes the data; log_write keeps the buffer until the commit, which
\* writes it with bwrite.
LogWrite(p, i, v) ==
  /\ pc[p] = "run" /\ i \in held[p] /\ blockno[i] \in Written
  /\ data' = [data EXCEPT ![i] = v]
  /\ dirty' = [dirty EXCEPT ![i] = TRUE]
  /\ UNCHANGED <<blockno, valid, refcnt, owner, lru, idequeue, disk, procs>>

\* Seeded fault: releasesleep wakes nobody.
ReleaseSleep_NoWakeup(p, i) ==
  /\ pc[p] = "run" /\ i \in held[p]
  /\ owner' = [owner EXCEPT ![i] = NoProc]
  /\ pc' = [pc EXCEPT ![p] = "unref"]
  /\ at' = [at EXCEPT ![p] = i]
  /\ held' = [held EXCEPT ![p] = @ \ {i}]
  /\ UNCHANGED <<blockno, valid, dirty, refcnt, data, lru, idequeue, disk, want>>

\* The first half of brelse.
ReleaseSleep(p, i) ==
  /\ pc[p] = "run" /\ i \in held[p]
  /\ owner' = [owner EXCEPT ![i] = NoProc]
  /\ pc' = [q \in Procs |-> IF q = p THEN "unref"
                            ELSE IF pc[q] = "asleep" /\ at[q] = i THEN "lock"
                            ELSE pc[q]]
  /\ at' = [at EXCEPT ![p] = i]
  /\ held' = [held EXCEPT ![p] = @ \ {i}]
  /\ UNCHANGED <<blockno, valid, dirty, refcnt, data, lru, idequeue, disk, want>>

\* What was in front of it moves back by one.
ToFront(list, i) == LET n == CHOOSE k \in Bufs : list[k] = i IN
  [k \in Bufs |-> IF k = 1 THEN i ELSE IF k <= n THEN list[k - 1] ELSE list[k]]

\* Seeded fault: the reference is dropped even though others wait for the buffer.
Unref_ToZero(p) ==
  /\ pc[p] = "unref" /\ ~Panicked
  /\ refcnt' = [refcnt EXCEPT ![at[p]] = 0]
  /\ lru' = ToFront(lru, at[p])
  /\ pc' = [pc EXCEPT ![p] = "run"]
  /\ at' = [at EXCEPT ![p] = NoBuf]
  /\ UNCHANGED <<blockno, valid, dirty, data, owner, idequeue, disk, want, held>>

\* The second half.
Unref(p) ==
  /\ pc[p] = "unref" /\ ~Panicked
  /\ refcnt' = [refcnt EXCEPT ![at[p]] = @ - 1]
  /\ lru' = IF refcnt[at[p]] = 1 THEN ToFront(lru, at[p]) ELSE lru
  /\ pc' = [pc EXCEPT ![p] = "run"]
  /\ at' = [at EXCEPT ![p] = NoBuf]
  /\ UNCHANGED <<blockno, valid, dirty, data, owner, idequeue, disk, want, held>>

-----------------------------------------------------------------------------
(* The disk *)

\* Seeded fault: the interrupt of a write leaves B_DIRTY.
Ideintr_StaysDirty ==
  /\ idequeue # <<>>
  /\ LET i == Head(idequeue) IN
       /\ idequeue' = Tail(idequeue)
       /\ data' = [data EXCEPT ![i] = IF dirty[i] THEN @ ELSE disk[blockno[i]]]
       /\ disk' = [disk EXCEPT ![blockno[i]] = IF dirty[i] THEN data[i] ELSE @]
       /\ valid' = [valid EXCEPT ![i] = TRUE]
       /\ pc' = [p \in Procs |-> IF pc[p] = "io" /\ at[p] = i THEN "wait" ELSE pc[p]]
  /\ UNCHANGED <<blockno, dirty, refcnt, owner, lru, want, at, held>>

\* The interrupt: the first request is done, the disk goes on with the next one.
Ideintr ==
  /\ idequeue # <<>>
  /\ LET i == Head(idequeue) IN
       /\ idequeue' = Tail(idequeue)
       /\ data' = [data EXCEPT ![i] = IF dirty[i] THEN @ ELSE disk[blockno[i]]]
       /\ disk' = [disk EXCEPT ![blockno[i]] = IF dirty[i] THEN data[i] ELSE @]
       /\ valid' = [valid EXCEPT ![i] = TRUE]
       /\ dirty' = [dirty EXCEPT ![i] = FALSE]
       /\ pc' = [p \in Procs |-> IF pc[p] = "io" /\ at[p] = i THEN "wait" ELSE pc[p]]
  /\ UNCHANGED <<blockno, refcnt, owner, lru, want, at, held>>

-----------------------------------------------------------------------------
Bget(p)   == \E b \in Blocks : BgetHit(p, b) \/ BgetRecycle(p, b) \/ BgetPanics(p, b)
Bread(p)  == Bget(p) \/ AcquireSleeps(p) \/ AcquireValid(p) \/ AcquireRead(p) \/ IderwDone(p)
Writes(p) == \E i \in Bufs, v \in Values : Bwrite(p, i, v) \/ LogWrite(p, i, v)
Brelse(p) == Unref(p) \/ \E i \in Bufs : ReleaseSleep(p, i)

Halted == Panicked /\ UNCHANGED bufVars

Next == \/ Ideintr
        \/ \E p \in Procs : Bread(p) \/ Writes(p) \/ Brelse(p)
        \/ Halted

Spec == Init /\ [][Next]_bufVars

\* Until a panic the disk answers every request, and a process that it has woken goes
\* on.  Nothing is assumed of who gets a sleep lock.
Fairness == /\ WF_bufVars(~Panicked /\ Ideintr)
            /\ \A p \in Procs : WF_bufVars(~Panicked /\ IderwDone(p))

FairSpec == Spec /\ Fairness

-----------------------------------------------------------------------------
(* Properties *)

TypeOK ==
  /\ blockno \in [Bufs -> Blocks \cup {NoBlock}]
  /\ valid \in [Bufs -> BOOLEAN] /\ dirty \in [Bufs -> BOOLEAN]
  /\ refcnt \in [Bufs -> Nat]
  /\ data \in [Bufs -> Values]
  /\ owner \in [Bufs -> Procs \cup {NoProc}]
  /\ lru \in [Bufs -> Bufs]
  /\ idequeue \in Seq(Bufs)
  /\ disk \in [Blocks -> Values]
  /\ pc \in [Procs -> Points]
  /\ want \in [Procs -> Blocks \cup {NoBlock}]
  /\ at \in [Procs -> Bufs \cup {NoBuf}]
  /\ held \in [Procs -> SUBSET Bufs]

\* The processes with a pointer to a buffer: in bread, holding it, or in brelse.
Users(i) == {p \in Procs : i \in held[p] \/ at[p] = i}

\* Those that have its sleep lock.
Lockers(i) == {p \in Procs : i \in held[p] \/ (at[p] = i /\ pc[p] \in {"wait", "io"})}

\* A block never has two buffers, a buffer's reference count is the number of
\* processes that have a pointer to it, its sleep lock says which one of them may use
\* it, and who is given it finds the block it asked for, valid.  bget drops bcache.lock
\* before it takes the sleep lock, and brelse gives that up before it counts down.
CacheInv ==
  /\ TypeOK
  /\ \A i, j \in Bufs : blockno[i] = blockno[j] /\ blockno[i] # NoBlock => i = j
  /\ \A i \in Bufs : refcnt[i] = Cardinality(Users(i))
  /\ \A i \in Bufs : Lockers(i) = {owner[i]} \ {NoProc}
  /\ \A p \in Procs : \A i \in held[p] : valid[i] \/ at[p] = i
  /\ \A p \in Procs : want[p] # NoBlock => blockno[at[p]] = want[p]
  /\ Range(lru) = Bufs

\* Nobody sleeps without somebody who is going to wake it: on a sleep lock only while
\* it is locked, on the disk only while the buffer is in the queue.  The condition is
\* tested and the process put to sleep under the lock that wakeup's caller needs.
SleepersAreWoken ==
  \A p \in Procs : /\ pc[p] = "asleep" => owner[at[p]] # NoProc
                   /\ pc[p] = "io" => at[p] \in Range(idequeue)

\* What bread returns and bwrite writes is one value per block, whatever is cached.
HolderOf(b) == {p \in Procs : \E i \in held[p] : blockno[i] = b}

storeBar  == [b \in Blocks |-> LET S == {i \in Cached(b) : valid[i] \/ dirty[i]}
                               IN  IF S = {} THEN disk[b] ELSE data[CHOOSE i \in S : TRUE]]
holderBar == [b \in Blocks |-> IF HolderOf(b) = {} THEN NoProc
                               ELSE CHOOSE p \in HolderOf(b) : TRUE]

Store == INSTANCE BlockStore WITH store <- storeBar, holder <- holderBar

\* The cache, its locks and the disk queue implement a store in which a process has a
\* block to itself and sees what was last put there: no stale buffer, no block twice.
ImplementsBlockStore == Store!Spec

\* Who waits for the disk is served and goes on, however long the queue is, unless bget
\* panics meanwhile.
DiskAnswers == \A p \in Procs : pc[p] = "io" ~> (pc[p] = "run" \/ Panicked)
=============================================================================
