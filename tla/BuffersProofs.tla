--------------------------- MODULE BuffersProofs ---------------------------
(***************************************************************************)
(* The buffer cache for any finite set of processes, any number of buffers *)
(* and blocks: the cache's books are right, nobody sleeps for good, and    *)
(* the whole implements BlockStore, up to and after a panic of bget.       *)
(***************************************************************************)
EXTENDS Buffers, TLAPS, FiniteSetTheorems, SequenceTheorems

\* What a process has a pointer to and what it asked for, by where it is.
PointersInv ==
  \A p \in Procs :
    /\ pc[p] \in {"run", "panic"} <=> at[p] = NoBuf
    /\ pc[p] \in {"lock", "asleep"} => want[p] # NoBlock
    /\ pc[p] \in {"run", "unref", "panic"} => want[p] = NoBlock
    /\ want[p] # NoBlock => blockno[at[p]] = want[p] /\ at[p] \notin held[p]
    /\ pc[p] \in {"io", "wait"} /\ want[p] = NoBlock => at[p] \in held[p]
    /\ pc[p] = "unref" => at[p] \notin held[p]

\* What a buffer holds: nothing of a block that another one has, and the value on the
\* disk unless it is newer.
ContentsInv ==
  /\ \A i, j \in Bufs : blockno[i] = blockno[j] /\ blockno[i] # NoBlock => i = j
  /\ \A i \in Bufs : valid[i] \/ Users(i) # {} => blockno[i] # NoBlock
  /\ \A p \in Procs : \A i \in held[p] : valid[i]
  /\ \A i \in Bufs : dirty[i] => valid[i]
  /\ \A i \in Bufs : valid[i] /\ ~dirty[i] => data[i] = disk[blockno[i]]

\* Who uses a buffer and who has it locked.
UsersInv ==
  /\ \A i \in Bufs : refcnt[i] = Cardinality(Users(i))
  /\ \A i \in Bufs : Lockers(i) = {owner[i]} \ {NoProc}
  /\ \A p \in Procs : pc[p] = "asleep" => owner[at[p]] # NoProc

\* A buffer is in the queue once, for the process that waits for it.
QueueInv ==
  /\ \A m, n \in 1 .. Len(idequeue) : idequeue[m] = idequeue[n] => m = n
  /\ \A n \in 1 .. Len(idequeue) : \E p \in Procs : pc[p] = "io" /\ at[p] = idequeue[n]
  /\ \A p \in Procs : pc[p] = "io" => \E n \in 1 .. Len(idequeue) : idequeue[n] = at[p]

LruInv == \A i \in Bufs : \E k \in Bufs : lru[k] = i

Inv == TypeOK /\ PointersInv /\ ContentsInv /\ UsersInv /\ QueueInv /\ LruInv

-----------------------------------------------------------------------------
\* Buffers and blocks are numbered from 1: 0 stands for none.
LEMMA Sorts == /\ NoBuf \notin Bufs /\ NoBlock \notin Blocks /\ NoProc \notin Procs
               /\ Bufs \subseteq Nat /\ Blocks \subseteq Nat
  BY BuffersAssumption DEF NoBuf, NoBlock, Bufs, Blocks

\* Numbers of processes when one of them joins or leaves.
LEMMA ProcCount ==
  ASSUME NEW S \in SUBSET Procs
  PROVE  /\ Cardinality(S) \in Nat
         /\ Cardinality(S) = 0 <=> S = {}
         /\ \A p \in Procs : p \notin S => Cardinality(S \cup {p}) = Cardinality(S) + 1
         /\ \A p \in S : Cardinality(S \ {p}) = Cardinality(S) - 1
<1>1. IsFiniteSet(S)
  BY BuffersAssumption, FS_Subset
<1>2. Cardinality(S) \in Nat /\ (Cardinality(S) = 0 <=> S = {})
  BY <1>1, FS_CardinalityType, FS_EmptySet
<1>3. \A p \in Procs : p \notin S => Cardinality(S \cup {p}) = Cardinality(S) + 1
  BY <1>1, FS_AddElement
<1>4. \A p \in S : Cardinality(S \ {p}) = Cardinality(S) - 1
  BY <1>1, FS_RemoveElement
<1> QED BY <1>2, <1>3, <1>4

\* The invariant holds at the start.
LEMMA InitInv == Init => Inv
<1> SUFFICES ASSUME Init PROVE Inv
  OBVIOUS
<1> USE Sorts DEF Init
<1>1. TypeOK
  BY BuffersAssumption DEF TypeOK, Points, Bufs
<1>2. \A i \in Bufs : Users(i) = {} /\ Lockers(i) = {}
  BY DEF Users, Lockers
<1>3. PointersInv
  BY DEF PointersInv
<1>4. ContentsInv
  BY <1>2 DEF ContentsInv
<1>5. UsersInv
  BY <1>2, FS_EmptySet DEF UsersInv
<1>6. QueueInv
  BY DEF QueueInv
<1>7. LruInv
  <2> SUFFICES ASSUME NEW i \in Bufs PROVE \E k \in Bufs : lru[k] = i
    BY DEF LruInv
  <2>1. NBUF + 1 - i \in Bufs /\ lru[NBUF + 1 - i] = i
    BY BuffersAssumption DEF Bufs
  <2> QED BY <2>1
<1> QED BY <1>1, <1>3, <1>4, <1>5, <1>6, <1>7 DEF Inv

\* A nonempty set of numbers has a least one.
LEMMA LeastNumber ==
  ASSUME NEW S \in SUBSET Nat, S # {}
  PROVE  \E k \in S : \A j \in S : k \leq j
<1> DEFINE R == {ss \in Nat \X Nat : ss[1] < ss[2]}
<1>1. IsWellFoundedOn(R, Nat)
  BY NatLessThanWellFounded DEF OpToRel
<1>2. PICK k \in S : \A j \in S : ~ (<<j, k>> \in R)
  BY <1>1, WFMin
<1>3. ASSUME NEW j \in S, j < k PROVE FALSE
  <2>1. <<j, k>> \in R
    BY <1>3
  <2> QED BY <1>2, <2>1
<1> QED BY <1>3

\* FirstOf finds a member of the set when there is one.
LEMMA FirstOfMember ==
  ASSUME NEW list \in [Bufs -> Bufs], NEW S, NEW k \in Bufs, list[k] \in S
  PROVE  FirstOf(list, S) \in S \cap Bufs
<1> DEFINE K == {j \in Bufs : list[j] \in S}
<1>1. PICK m \in K : \A j \in K : m \leq j
  BY LeastNumber, Sorts
<1>2. \E m1 \in Bufs : list[m1] \in S /\ \A j \in Bufs : list[j] \in S => m1 \leq j
  BY <1>1
<1> QED BY <1>2 DEF FirstOf

\* bget finds the buffer of a block that has one.
LEMMA FirstOfCached ==
  ASSUME Inv, NEW b \in Blocks, Cached(b) # {}
  PROVE  FirstOf(lru, Cached(b)) \in Bufs /\ blockno[FirstOf(lru, Cached(b))] = b
<1>1. PICK i \in Bufs : i \in Cached(b)
  BY DEF Cached
<1>2. PICK k \in Bufs : lru[k] = i
  BY DEF Inv, LruInv
<1>3. lru \in [Bufs -> Bufs]
  BY DEF Inv, TypeOK
<1> QED BY <1>1, <1>2, <1>3, FirstOfMember DEF Cached

\* acquiresleep of a locked buffer.
LEMMA AcquireSleepsInv ==
  ASSUME Inv, NEW p \in Procs, AcquireSleeps(p)
  PROVE  Inv'
<1> USE Sorts DEF Inv, AcquireSleeps, bufs
<1>1. TypeOK'
  BY DEF TypeOK, Points
<1>2. \A i \in Bufs : Users(i)' = Users(i) /\ Lockers(i)' = Lockers(i)
  BY DEF TypeOK, Users, Lockers
<1>3. PointersInv'
  BY DEF TypeOK, PointersInv
<1>4. ContentsInv'
  BY <1>2 DEF TypeOK, ContentsInv
<1>5. UsersInv'
  BY <1>2 DEF TypeOK, UsersInv
<1>6. QueueInv'
  BY DEF TypeOK, QueueInv
<1>7. LruInv'
  BY DEF LruInv
<1> QED BY <1>1, <1>3, <1>4, <1>5, <1>6, <1>7 DEF Inv

\* bget finds a free buffer from the other end of the list.
LEMMA FirstOfUnused ==
  ASSUME Inv, Unused # {}
  PROVE  FirstOf(Reverse(lru), Unused) \in Unused
<1>1. PICK i \in Bufs : i \in Unused
  BY DEF Unused
<1>2. PICK k \in Bufs : lru[k] = i
  BY DEF Inv, LruInv
<1>3. lru \in [Bufs -> Bufs]
  BY DEF Inv, TypeOK
<1>4. lru \in Seq(Bufs) /\ Len(lru) = NBUF
  <2>1. lru \in Seq(Bufs)
    BY <1>3, BuffersAssumption, SeqDef DEF Bufs
  <2>2. Len(lru) \in Nat /\ 1 .. Len(lru) = 1 .. NBUF
    BY <1>3, <2>1, LenProperties DEF Bufs
  <2> QED BY <2>1, <2>2, BuffersAssumption
<1>5. Reverse(lru) = [j \in Bufs |-> lru[NBUF - j + 1]]
  BY <1>4 DEF Reverse, Bufs
<1>6. \A j \in Bufs : NBUF - j + 1 \in Bufs
  BY BuffersAssumption DEF Bufs
<1>7. Reverse(lru) \in [Bufs -> Bufs]
  BY <1>3, <1>5, <1>6
<1>8. NBUF - (NBUF - k + 1) + 1 = k
  BY BuffersAssumption, Sorts
<1>9. Reverse(lru)[NBUF - k + 1] = i
  BY <1>2, <1>5, <1>6, <1>8
<1> QED BY <1>1, <1>6, <1>7, <1>9, FirstOfMember

\* The queue stays right when it is left alone and so are those that wait.
LEMMA QueueKept ==
  ASSUME Inv, UNCHANGED idequeue,
         \A q \in Procs : pc'[q] = "io" <=> pc[q] = "io",
         \A q \in Procs : pc[q] = "io" => at'[q] = at[q]
  PROVE  QueueInv'
<1>1. QueueInv
  BY DEF Inv
<1> QED BY <1>1 DEF QueueInv

\* bget finds the block in the cache.
LEMMA BgetHitInv ==
  ASSUME Inv, NEW p \in Procs, NEW b \in Blocks, BgetHit(p, b)
  PROVE  Inv'
<1> USE Sorts DEF Inv
<1>1. PICK i \in Bufs : i = FirstOf(lru, Cached(b)) /\ blockno[i] = b
  BY FirstOfCached DEF BgetHit
<1>2. /\ pc' = [pc EXCEPT ![p] = "lock"] /\ want' = [want EXCEPT ![p] = b]
      /\ at' = [at EXCEPT ![p] = i] /\ refcnt' = [refcnt EXCEPT ![i] = @ + 1]
      /\ UNCHANGED <<blockno, valid, dirty, data, owner, lru, idequeue, disk, held>>
  BY <1>1 DEF BgetHit, Wait
<1>3. pc[p] = "run" /\ \A j \in held[p] : blockno[j] < b
  BY DEF BgetHit, MayAsk
<1>4. at[p] = NoBuf /\ want[p] = NoBlock /\ i \notin held[p]
  BY <1>1, <1>3 DEF PointersInv
<1>5. /\ Users(i)' = Users(i) \cup {p} /\ p \notin Users(i)
      /\ \A j \in Bufs \ {i} : Users(j)' = Users(j)
  BY <1>1, <1>2, <1>4 DEF TypeOK, Users
<1>6. \A j \in Bufs : Lockers(j)' = Lockers(j)
  BY <1>1, <1>2, <1>3 DEF TypeOK, Lockers
<1>7. TypeOK'
  BY <1>1, <1>2 DEF TypeOK, Points
<1>8. PointersInv'
  BY <1>1, <1>2, <1>4 DEF TypeOK, PointersInv
<1>9. ContentsInv'
  BY <1>1, <1>2, <1>5 DEF TypeOK, ContentsInv
<1>10. UsersInv'
  <2>1. Cardinality(Users(i)') = Cardinality(Users(i)) + 1
    BY <1>1, <1>5, ProcCount DEF Users
  <2>2. \A j \in Bufs : refcnt'[j] = Cardinality(Users(j)')
    BY <1>1, <1>2, <1>5, <2>1 DEF TypeOK, UsersInv
  <2>3. \A q \in Procs : pc'[q] = "asleep" => owner'[at'[q]] # NoProc
    BY <1>2, <1>3 DEF TypeOK, UsersInv
  <2> QED BY <1>2, <1>6, <2>2, <2>3 DEF UsersInv
<1>11. QueueInv'
  BY <1>1, <1>2, <1>3 DEF TypeOK, QueueInv
<1>12. LruInv'
  BY <1>2 DEF LruInv
<1> QED BY <1>7, <1>8, <1>9, <1>10, <1>11, <1>12

\* bget takes a free buffer.
LEMMA BgetRecycleInv ==
  ASSUME Inv, NEW p \in Procs, NEW b \in Blocks, BgetRecycle(p, b)
  PROVE  Inv'
<1> USE Sorts DEF Inv
<1>1. PICK i \in Bufs : /\ i = FirstOf(Reverse(lru), Unused)
                        /\ refcnt[i] = 0 /\ ~dirty[i]
  BY FirstOfUnused DEF BgetRecycle, Unused
<1>2. /\ pc' = [pc EXCEPT ![p] = "lock"] /\ want' = [want EXCEPT ![p] = b]
      /\ at' = [at EXCEPT ![p] = i] /\ refcnt' = [refcnt EXCEPT ![i] = 1]
      /\ blockno' = [blockno EXCEPT ![i] = b]
      /\ valid' = [valid EXCEPT ![i] = FALSE] /\ dirty' = [dirty EXCEPT ![i] = FALSE]
      /\ UNCHANGED <<data, owner, lru, idequeue, disk, held>>
  BY <1>1 DEF BgetRecycle, Wait
<1>3. pc[p] = "run" /\ \A j \in Bufs : blockno[j] # b
  BY DEF BgetRecycle, MayAsk, Cached
<1>4. at[p] = NoBuf /\ want[p] = NoBlock
  BY <1>1, <1>3 DEF PointersInv
<1>5. Users(i) = {}
  BY <1>1, ProcCount DEF UsersInv, Users
<1>6. \A q \in Procs : i \notin held[q] /\ at[q] # i
  BY <1>5 DEF Users
<1>7. Users(i)' = {p} /\ \A j \in Bufs \ {i} : Users(j)' = Users(j)
  BY <1>1, <1>2, <1>4, <1>6 DEF TypeOK, Users
<1>8. \A j \in Bufs : Lockers(j)' = Lockers(j)
  BY <1>1, <1>2, <1>3, <1>4 DEF TypeOK, Lockers
<1>9. TypeOK'
  BY <1>1, <1>2 DEF TypeOK, Points
<1>10. PointersInv'
  BY <1>1, <1>2, <1>4, <1>6 DEF TypeOK, PointersInv
<1>11. ContentsInv'
  <2>1. \A j \in Bufs : blockno'[j] = IF j = i THEN b ELSE blockno[j]
    BY <1>2 DEF TypeOK
  <2>2. \A j \in Bufs : /\ valid'[j] = IF j = i THEN FALSE ELSE valid[j]
                        /\ dirty'[j] = IF j = i THEN FALSE ELSE dirty[j]
    BY <1>2 DEF TypeOK
  <2>3. \A j, k \in Bufs : blockno'[j] = blockno'[k] /\ blockno'[j] # NoBlock => j = k
    BY <1>3, <2>1 DEF ContentsInv
  <2>4. \A j \in Bufs : valid'[j] \/ Users(j)' # {} => blockno'[j] # NoBlock
    BY <1>7, <2>1, <2>2 DEF ContentsInv
  <2>5. \A q \in Procs : \A j \in held'[q] : valid'[j]
    BY <1>2, <1>6, <2>2 DEF ContentsInv, TypeOK
  <2>6. \A j \in Bufs : dirty'[j] => valid'[j]
    BY <2>2 DEF ContentsInv
  <2>7. ASSUME NEW j \in Bufs, valid'[j], ~dirty'[j]
        PROVE  data'[j] = disk'[blockno'[j]]
    <3>1. j # i /\ valid[j] /\ ~dirty[j] /\ blockno'[j] = blockno[j]
      BY <2>1, <2>2, <2>7
    <3>2. data[j] = disk[blockno[j]]
      BY <3>1 DEF ContentsInv
    <3> QED BY <1>2, <3>1, <3>2
  <2> QED BY <2>3, <2>4, <2>5, <2>6, <2>7 DEF ContentsInv
<1>12. UsersInv'
  <2>1. Cardinality(Users(i)') = 1
    BY <1>7, FS_Singleton
  <2>2. ASSUME NEW j \in Bufs PROVE refcnt'[j] = Cardinality(Users(j)')
    <3>1. refcnt \in [Bufs -> Nat] BY DEF TypeOK
    <3>2. refcnt[j] = Cardinality(Users(j)) BY DEF UsersInv
    <3>3. refcnt'[j] = IF j = i THEN 1 ELSE refcnt[j] BY ONLY <1>2, <3>1
    <3>4. CASE j = i BY ONLY <2>1, <3>3, <3>4
    <3>5. CASE j # i
      <4>1. Users(j)' = Users(j) BY ONLY <1>7, <3>5
      <4> QED BY ONLY <3>2, <3>3, <3>5, <4>1
    <3> QED BY ONLY <3>4, <3>5
  <2>3. \A q \in Procs : pc'[q] = "asleep" => owner'[at'[q]] # NoProc
    BY <1>2, <1>3 DEF TypeOK, UsersInv
  <2> QED BY <1>2, <1>8, <2>2, <2>3 DEF UsersInv
<1>13. QueueInv'
  BY <1>2, <1>3, QueueKept DEF TypeOK
<1>14. LruInv'
  BY <1>2 DEF LruInv
<1> QED BY <1>9, <1>10, <1>11, <1>12, <1>13, <1>14

\* acquiresleep of a buffer that bread has nothing to read into.
LEMMA AcquireValidInv ==
  ASSUME Inv, NEW p \in Procs, AcquireValid(p)
  PROVE  Inv'
<1> USE Sorts DEF Inv
<1>1. PICK i \in Bufs : i = at[p] /\ owner[i] = NoProc /\ valid[i]
  BY DEF AcquireValid, PointersInv, TypeOK
<1>2. /\ pc[p] = "lock" /\ pc' = [pc EXCEPT ![p] = "run"]
      /\ want' = [want EXCEPT ![p] = NoBlock]
      /\ at' = [at EXCEPT ![p] = NoBuf] /\ held' = [held EXCEPT ![p] = @ \cup {i}]
      /\ owner' = [owner EXCEPT ![i] = p]
      /\ UNCHANGED <<blockno, valid, dirty, refcnt, data, lru, idequeue, disk>>
  BY <1>1 DEF AcquireValid, Give
<1>3. \A j \in Bufs : Users(j)' = Users(j)
  BY <1>1, <1>2 DEF TypeOK, Users
<1>4. Lockers(i) = {}
  BY <1>1 DEF UsersInv
<1>5. \A j \in Bufs : Lockers(j)' = IF j = i THEN {p} ELSE Lockers(j)
  BY <1>1, <1>2, <1>4 DEF TypeOK, Lockers
<1>6. TypeOK'
  BY <1>1, <1>2 DEF TypeOK, Points
<1>7. PointersInv'
  BY <1>1, <1>2, <1>4 DEF TypeOK, PointersInv, Lockers
<1>8. ContentsInv'
  BY <1>1, <1>2, <1>3 DEF TypeOK, ContentsInv
<1>9. UsersInv'
  BY <1>1, <1>2, <1>3, <1>5 DEF TypeOK, UsersInv
<1>10. QueueInv'
  BY <1>2, QueueKept DEF TypeOK
<1>11. LruInv'
  BY <1>2 DEF LruInv
<1> QED BY <1>6, <1>7, <1>8, <1>9, <1>10, <1>11

\* A buffer that nobody waits for the disk with is not in the queue.
LEMMA EnqueueOnce ==
  ASSUME Inv, NEW i \in Bufs, \A q \in Procs : ~ (pc[q] = "io" /\ at[q] = i),
         NEW p \in Procs, pc[p] # "io", pc' = [pc EXCEPT ![p] = "io"],
         at' = [at EXCEPT ![p] = i], idequeue' = Append(idequeue, i)
  PROVE  QueueInv'
<1> USE Sorts DEF Inv
<1>1. /\ idequeue' \in Seq(Bufs) /\ Len(idequeue') = Len(idequeue) + 1
      /\ \A n \in 1 .. Len(idequeue) : idequeue'[n] = idequeue[n]
      /\ idequeue'[Len(idequeue) + 1] = i /\ Len(idequeue) \in Nat
  BY AppendProperties, LenProperties DEF TypeOK
<1>2. \A n \in 1 .. Len(idequeue) : idequeue[n] # i
  BY DEF QueueInv
<1>3. \A n \in 1 .. Len(idequeue)' : n \in 1 .. Len(idequeue) \/ n = Len(idequeue) + 1
  BY <1>1
<1>4. \A m, n \in 1 .. Len(idequeue)' : idequeue'[m] = idequeue'[n] => m = n
  BY <1>1, <1>2, <1>3 DEF QueueInv
<1>5. \A q \in Procs : /\ pc'[q] = IF q = p THEN "io" ELSE pc[q]
                       /\ at'[q] = IF q = p THEN i ELSE at[q]
  BY DEF TypeOK
<1>6. \A n \in 1 .. Len(idequeue)' : \E q \in Procs : pc'[q] = "io" /\ at'[q] = idequeue'[n]
  BY <1>1, <1>3, <1>5 DEF QueueInv
<1>7. \A q \in Procs : pc'[q] = "io" => \E n \in 1 .. Len(idequeue)' : idequeue'[n] = at'[q]
  <2> SUFFICES ASSUME NEW q \in Procs, pc'[q] = "io"
               PROVE  \E n \in 1 .. Len(idequeue)' : idequeue'[n] = at'[q]
    OBVIOUS
  <2>1. CASE q = p
    BY <1>1, <1>5, <2>1
  <2>2. CASE q # p
    <3>1. PICK n \in 1 .. Len(idequeue) : idequeue[n] = at[q]
      BY <1>5, <2>2 DEF QueueInv
    <3> QED BY <1>1, <1>5, <2>2, <3>1
  <2> QED BY <2>1, <2>2
<1> QED BY <1>4, <1>6, <1>7 DEF QueueInv

\* acquiresleep and the start of iderw.
LEMMA AcquireReadInv ==
  ASSUME Inv, NEW p \in Procs, AcquireRead(p)
  PROVE  Inv'
<1> USE Sorts DEF Inv
<1>1. PICK i \in Bufs : i = at[p] /\ owner[i] = NoProc /\ ~valid[i]
  BY DEF AcquireRead, PointersInv, TypeOK
<1>2. /\ pc[p] = "lock" /\ pc' = [pc EXCEPT ![p] = "io"] /\ at' = [at EXCEPT ![p] = i]
      /\ idequeue' = Append(idequeue, i) /\ owner' = [owner EXCEPT ![i] = p]
      /\ UNCHANGED <<blockno, valid, dirty, refcnt, data, lru, disk, want, held>>
  BY <1>1 DEF AcquireRead, Enqueue
<1>3. \A j \in Bufs : Users(j)' = Users(j)
  BY <1>1, <1>2 DEF TypeOK, Users
<1>4. Lockers(i) = {}
  BY <1>1 DEF UsersInv
<1>5. \A j \in Bufs : Lockers(j)' = IF j = i THEN {p} ELSE Lockers(j)
  BY <1>1, <1>2, <1>4 DEF TypeOK, Lockers
<1>6. TypeOK'
  BY <1>1, <1>2, AppendProperties DEF TypeOK, Points
<1>7. PointersInv'
  BY <1>1, <1>2 DEF TypeOK, PointersInv
<1>8. ContentsInv'
  BY <1>1, <1>2, <1>3 DEF TypeOK, ContentsInv
<1>9. UsersInv'
  BY <1>1, <1>2, <1>3, <1>5 DEF TypeOK, UsersInv
<1>10. QueueInv'
  BY <1>1, <1>2, <1>4, EnqueueOnce DEF Lockers
<1>11. LruInv'
  BY <1>2 DEF LruInv
<1> QED BY <1>6, <1>7, <1>8, <1>9, <1>10, <1>11

\* The return of iderw.
LEMMA IderwDoneInv ==
  ASSUME Inv, NEW p \in Procs, IderwDone(p)
  PROVE  Inv'
<1> USE Sorts DEF Inv
<1>1. PICK i \in Bufs : i = at[p] /\ valid[i] /\ ~dirty[i]
  BY DEF IderwDone, PointersInv, TypeOK
<1>2. /\ pc[p] = "wait" /\ pc' = [pc EXCEPT ![p] = "run"]
      /\ want' = [want EXCEPT ![p] = NoBlock]
      /\ at' = [at EXCEPT ![p] = NoBuf] /\ held' = [held EXCEPT ![p] = @ \cup {i}]
      /\ UNCHANGED <<bufs, idequeue, disk>>
  BY <1>1 DEF IderwDone, Give
<1>3. \A j \in Bufs : Users(j)' = Users(j) /\ Lockers(j)' = Lockers(j)
  BY <1>1, <1>2 DEF TypeOK, Users, Lockers
<1>4. TypeOK'
  BY <1>1, <1>2 DEF TypeOK, Points, bufs
<1>5. PointersInv'
  <2>1. ASSUME NEW q \in Procs \ {p}, want[q] # NoBlock PROVE at[q] \notin held'[q]
    BY <1>2, <2>1 DEF TypeOK, PointersInv
  <2> QED BY <1>1, <1>2, <2>1 DEF TypeOK, PointersInv, bufs
<1>6. ContentsInv'
  BY <1>1, <1>2, <1>3 DEF TypeOK, ContentsInv, bufs
<1>7. UsersInv'
  BY <1>1, <1>2, <1>3 DEF TypeOK, UsersInv, bufs
<1>8. QueueInv'
  BY <1>2, QueueKept DEF TypeOK
<1>9. LruInv'
  BY <1>2 DEF LruInv, bufs
<1> QED BY <1>4, <1>5, <1>6, <1>7, <1>8, <1>9

\* bwrite.
LEMMA BwriteInv ==
  ASSUME Inv, NEW p \in Procs, NEW i \in Bufs, NEW v \in Values, Bwrite(p, i, v)
  PROVE  Inv'
<1> USE Sorts DEF Inv
<1>1. /\ pc[p] = "run" /\ i \in held[p]
      /\ pc' = [pc EXCEPT ![p] = "io"] /\ at' = [at EXCEPT ![p] = i]
      /\ idequeue' = Append(idequeue, i)
      /\ data' = [data EXCEPT ![i] = v] /\ dirty' = [dirty EXCEPT ![i] = TRUE]
      /\ UNCHANGED <<blockno, valid, refcnt, owner, lru, disk, want, held>>
  BY DEF Bwrite, Enqueue
<1>2. at[p] = NoBuf /\ want[p] = NoBlock /\ valid[i]
  BY <1>1 DEF PointersInv, ContentsInv
<1>3. \A j \in Bufs : Users(j)' = Users(j) /\ Lockers(j)' = Lockers(j)
  BY <1>1, <1>2 DEF TypeOK, Users, Lockers
<1>4. \A q \in Procs : ~ (pc[q] = "io" /\ at[q] = i)
  BY <1>1 DEF UsersInv, Lockers
<1>5. TypeOK'
  BY <1>1, AppendProperties DEF TypeOK, Points
<1>6. PointersInv'
  BY <1>1, <1>2 DEF TypeOK, PointersInv
<1>7. ContentsInv'
  BY <1>1, <1>2, <1>3 DEF TypeOK, ContentsInv
<1>8. UsersInv'
  BY <1>1, <1>3 DEF TypeOK, UsersInv
<1>9. QueueInv'
  BY <1>1, <1>4, EnqueueOnce
<1>10. LruInv'
  BY <1>1 DEF LruInv
<1> QED BY <1>5, <1>6, <1>7, <1>8, <1>9, <1>10

\* log_write.
LEMMA LogWriteInv ==
  ASSUME Inv, NEW p \in Procs, NEW i \in Bufs, NEW v \in Values, LogWrite(p, i, v)
  PROVE  Inv'
<1> USE Sorts DEF Inv
<1>1. /\ i \in held[p]
      /\ data' = [data EXCEPT ![i] = v] /\ dirty' = [dirty EXCEPT ![i] = TRUE]
      /\ UNCHANGED <<blockno, valid, refcnt, owner, lru, idequeue, disk, procs>>
  BY DEF LogWrite
<1>2. \A j \in Bufs : Users(j)' = Users(j) /\ Lockers(j)' = Lockers(j)
  BY <1>1 DEF Users, Lockers, procs
<1>3. TypeOK'
  BY <1>1 DEF TypeOK, procs
<1>4. PointersInv'
  BY <1>1 DEF TypeOK, PointersInv, procs
<1>5. ContentsInv'
  BY <1>1, <1>2 DEF TypeOK, ContentsInv, procs
<1>6. UsersInv'
  BY <1>1, <1>2 DEF UsersInv, procs
<1>7. QueueInv'
  BY <1>1, QueueKept DEF procs
<1>8. LruInv'
  BY <1>1 DEF LruInv
<1> QED BY <1>3, <1>4, <1>5, <1>6, <1>7, <1>8

\* releasesleep, called by brelse.
LEMMA ReleaseSleepInv ==
  ASSUME Inv, NEW p \in Procs, NEW i \in Bufs, ReleaseSleep(p, i)
  PROVE  Inv'
<1> USE Sorts DEF Inv
<1>1. /\ pc[p] = "run" /\ i \in held[p]
      /\ owner' = [owner EXCEPT ![i] = NoProc]
      /\ \A q \in Procs : pc'[q] = IF q = p THEN "unref"
                                   ELSE IF pc[q] = "asleep" /\ at[q] = i THEN "lock"
                                   ELSE pc[q]
      /\ at' = [at EXCEPT ![p] = i] /\ held' = [held EXCEPT ![p] = @ \ {i}]
      /\ UNCHANGED <<blockno, valid, dirty, refcnt, data, lru, idequeue, disk, want>>
  BY DEF ReleaseSleep
<1>2. at[p] = NoBuf /\ want[p] = NoBlock
  BY <1>1 DEF PointersInv
<1>3. /\ \A q \in Procs : at'[q] = IF q = p THEN i ELSE at[q]
      /\ \A q \in Procs : held'[q] = IF q = p THEN held[p] \ {i} ELSE held[q]
  BY <1>1 DEF TypeOK
<1>4. \A j \in Bufs : Users(j)' = Users(j)
  BY <1>1, <1>2, <1>3 DEF TypeOK, Users
<1>5. Lockers(i) = {p}
  BY <1>1 DEF UsersInv, Lockers
<1>6. Lockers(i)' = {} /\ \A j \in Bufs \ {i} : Lockers(j)' = Lockers(j)
  BY <1>1, <1>2, <1>3, <1>5 DEF TypeOK, Lockers
<1>7. TypeOK'
  <2>1. pc' = [q \in Procs |-> IF q = p THEN "unref"
                               ELSE IF pc[q] = "asleep" /\ at[q] = i THEN "lock"
                               ELSE pc[q]]
    BY DEF ReleaseSleep
  <2>2. pc' \in [Procs -> Points]
    BY <2>1 DEF TypeOK, Points
  <2> QED BY <1>1, <2>2 DEF TypeOK
<1>8. PointersInv'
  BY <1>1, <1>2, <1>3 DEF PointersInv
<1>9. ContentsInv'
  BY <1>1, <1>3, <1>4 DEF ContentsInv
<1>10. UsersInv'
  <2>1. \A j \in Bufs : Lockers(j)' = {owner'[j]} \ {NoProc}
    BY <1>1, <1>6 DEF UsersInv, TypeOK
  <2>2. \A q \in Procs : pc'[q] = "asleep" => owner'[at'[q]] # NoProc
    BY <1>1, <1>3 DEF UsersInv, TypeOK, PointersInv
  <2> QED BY <1>1, <1>4, <2>1, <2>2 DEF UsersInv
<1>11. QueueInv'
  BY <1>1, <1>3, QueueKept
<1>12. LruInv'
  BY <1>1 DEF LruInv
<1> QED BY <1>7, <1>8, <1>9, <1>10, <1>11, <1>12

\* The list is still a list of all buffers.
LEMMA ToFrontList ==
  ASSUME NEW list \in [Bufs -> Bufs], \A j \in Bufs : \E k \in Bufs : list[k] = j,
         NEW i \in Bufs
  PROVE  /\ ToFront(list, i) \in [Bufs -> Bufs]
         /\ \A j \in Bufs : \E k \in Bufs : ToFront(list, i)[k] = j
<1> DEFINE n == CHOOSE k \in Bufs : list[k] = i
           T == ToFront(list, i)
<1>1. n \in Bufs /\ list[n] = i
  OBVIOUS
<1> HIDE DEF n
<1>2. T = [k \in Bufs |-> IF k = 1 THEN i ELSE IF k \leq n THEN list[k - 1] ELSE list[k]]
  BY DEF ToFront, n
<1> HIDE DEF T
<1>3. T \in [Bufs -> Bufs]
  BY <1>2, BuffersAssumption DEF Bufs
<1>4. ASSUME NEW j \in Bufs PROVE \E k \in Bufs : T[k] = j
  <2>1. PICK k \in Bufs : list[k] = j
    OBVIOUS
  <2>2. CASE k = n
    BY <1>1, <1>2, <2>1, <2>2, BuffersAssumption DEF Bufs
  <2>3. CASE k < n
    <3>1. k + 1 \in Bufs /\ k + 1 # 1 /\ k + 1 \leq n /\ (k + 1) - 1 = k
      BY <1>1, <2>3, BuffersAssumption DEF Bufs
    <3> QED BY <1>2, <2>1, <3>1
  <2>4. CASE n < k
    <3>1. k # 1 /\ ~ (k \leq n)
      BY <1>1, <2>4 DEF Bufs
    <3> QED BY <1>2, <2>1, <3>1
  <2> QED BY <1>1, <2>2, <2>3, <2>4 DEF Bufs
<1> QED BY <1>3, <1>4 DEF T

\* The second half of brelse.
LEMMA UnrefInv ==
  ASSUME Inv, NEW p \in Procs, Unref(p)
  PROVE  Inv'
<1> USE Sorts DEF Inv
<1>1. PICK i \in Bufs : i = at[p]
  BY DEF Unref, PointersInv, TypeOK
<1>2. /\ pc[p] = "unref" /\ pc' = [pc EXCEPT ![p] = "run"]
      /\ refcnt' = [refcnt EXCEPT ![i] = @ - 1]
      /\ lru' = IF refcnt[i] = 1 THEN ToFront(lru, i) ELSE lru
      /\ at' = [at EXCEPT ![p] = NoBuf]
      /\ UNCHANGED <<blockno, valid, dirty, data, owner, idequeue, disk, want, held>>
  BY <1>1 DEF Unref
<1>3. want[p] = NoBlock /\ i \notin held[p]
  BY <1>1, <1>2 DEF PointersInv
<1>4. \A q \in Procs : at'[q] = IF q = p THEN NoBuf ELSE at[q]
  BY <1>2 DEF TypeOK
<1>5. /\ p \in Users(i) /\ Users(i)' = Users(i) \ {p}
      /\ \A j \in Bufs \ {i} : Users(j)' = Users(j)
  BY <1>1, <1>2, <1>3, <1>4 DEF TypeOK, Users
<1>6. \A j \in Bufs : Lockers(j)' = Lockers(j)
  BY <1>1, <1>2, <1>3, <1>4 DEF TypeOK, Lockers
<1>7. /\ Cardinality(Users(i)') = Cardinality(Users(i)) - 1
      /\ Cardinality(Users(i)') \in Nat /\ Cardinality(Users(i)) \in Nat
  <2>1. Users(i) \in SUBSET Procs /\ Users(i)' \in SUBSET Procs
    BY DEF Users
  <2> QED BY <1>5, <2>1, ProcCount
<1>8. \A j \in Bufs : refcnt'[j] = Cardinality(Users(j)')
  BY <1>1, <1>2, <1>5, <1>7 DEF TypeOK, UsersInv
<1>9. lru' \in [Bufs -> Bufs] /\ LruInv'
  <2>1. lru \in [Bufs -> Bufs] /\ \A j \in Bufs : \E k \in Bufs : lru[k] = j
    BY DEF TypeOK, LruInv
  <2>2. CASE refcnt[i] = 1
    <3>1. /\ ToFront(lru, i) \in [Bufs -> Bufs]
          /\ \A j \in Bufs : \E k \in Bufs : ToFront(lru, i)[k] = j
      BY <2>1, ToFrontList
    <3> QED BY <1>2, <2>2, <3>1 DEF LruInv
  <2>3. CASE refcnt[i] # 1
    BY <1>2, <2>1, <2>3 DEF LruInv
  <2> QED BY <2>2, <2>3
<1>10. TypeOK'
  <2>1. refcnt' \in [Bufs -> Nat]
    BY <1>2, <1>7, <1>8 DEF TypeOK, UsersInv
  <2> QED BY <1>1, <1>2, <1>9, <2>1 DEF TypeOK, Points
<1>11. PointersInv'
  BY <1>1, <1>2, <1>3 DEF TypeOK, PointersInv
<1>12. ContentsInv'
  BY <1>1, <1>2, <1>5 DEF TypeOK, ContentsInv
<1>13. UsersInv'
  <2>1. \A q \in Procs : pc'[q] = "asleep" => owner'[at'[q]] # NoProc
    BY <1>2, <1>4 DEF UsersInv, TypeOK
  <2> QED BY <1>2, <1>6, <1>8, <2>1 DEF UsersInv
<1>14. QueueInv'
  BY <1>2, <1>4, QueueKept DEF TypeOK
<1> QED BY <1>9, <1>10, <1>11, <1>12, <1>13, <1>14

\* The rest of the queue, and who waits for it.
LEMMA DequeueInv ==
  ASSUME Inv, idequeue # <<>>, idequeue' = Tail(idequeue),
         \A q \in Procs : pc'[q] = IF pc[q] = "io" /\ at[q] = Head(idequeue) THEN "wait" ELSE pc[q],
         UNCHANGED at
  PROVE  QueueInv'
<1> USE Sorts DEF Inv
<1>1. idequeue \in Seq(Bufs) /\ Len(idequeue) \in Nat \ {0} /\ Head(idequeue) = idequeue[1]
  BY EmptySeq, LenProperties DEF TypeOK
<1>2. /\ Len(idequeue') = Len(idequeue) - 1 /\ Len(idequeue') \in Nat
      /\ \A n \in 1 .. Len(idequeue') : idequeue'[n] = idequeue[n + 1]
  BY <1>1, HeadTailProperties, LenProperties
<1>3. \A n \in 1 .. Len(idequeue') : /\ n + 1 \in 1 .. Len(idequeue)
                                      /\ idequeue[n + 1] # idequeue[1]
  BY <1>1, <1>2 DEF QueueInv
<1>4. \A m, n \in 1 .. Len(idequeue') : idequeue'[m] = idequeue'[n] => m = n
  BY <1>1, <1>2, <1>3 DEF QueueInv
<1>5. ASSUME NEW n \in 1 .. Len(idequeue')
      PROVE  \E q \in Procs : pc'[q] = "io" /\ at'[q] = idequeue'[n]
  <2>1. PICK q \in Procs : pc[q] = "io" /\ at[q] = idequeue[n + 1]
    BY <1>3 DEF QueueInv
  <2> QED BY <1>1, <1>2, <1>3, <2>1
<1>6. ASSUME NEW q \in Procs, pc'[q] = "io"
      PROVE  \E n \in 1 .. Len(idequeue') : idequeue'[n] = at'[q]
  <2>1. pc[q] = "io" /\ at[q] # idequeue[1]
    BY <1>1, <1>6
  <2>2. PICK n \in 1 .. Len(idequeue) : idequeue[n] = at[q]
    BY <2>1 DEF QueueInv
  <2>3. n - 1 \in 1 .. Len(idequeue') /\ (n - 1) + 1 = n
    BY <1>1, <1>2, <2>1, <2>2
  <2> QED BY <1>2, <2>2, <2>3
<1> QED BY <1>4, <1>5, <1>6 DEF QueueInv

\* The interrupt.
LEMMA IdeintrInv ==
  ASSUME Inv, Ideintr
  PROVE  Inv'
<1> USE Sorts DEF Inv
<1>1. PICK i \in Bufs : i = Head(idequeue)
  BY HeadTailProperties DEF Ideintr, TypeOK
<1>2. /\ idequeue # <<>> /\ idequeue' = Tail(idequeue)
      /\ data' = [data EXCEPT ![i] = IF dirty[i] THEN @ ELSE disk[blockno[i]]]
      /\ disk' = [disk EXCEPT ![blockno[i]] = IF dirty[i] THEN data[i] ELSE @]
      /\ valid' = [valid EXCEPT ![i] = TRUE] /\ dirty' = [dirty EXCEPT ![i] = FALSE]
      /\ pc' = [q \in Procs |-> IF pc[q] = "io" /\ at[q] = i THEN "wait" ELSE pc[q]]
      /\ UNCHANGED <<blockno, refcnt, owner, lru, want, at, held>>
  BY <1>1 DEF Ideintr
<1>3. \A j \in Bufs : Users(j)' = Users(j) /\ Lockers(j)' = Lockers(j)
  BY <1>2 DEF Users, Lockers
<1>4. Users(i) # {} /\ blockno[i] \in Blocks
  <2>1. \E q \in Procs : at[q] = i
    <3>1. i = idequeue[1] /\ 1 \in 1 .. Len(idequeue)
      BY <1>1, <1>2, EmptySeq, LenProperties DEF TypeOK
    <3> QED BY <3>1 DEF QueueInv
  <2>2. Users(i) # {}
    BY <2>1 DEF Users
  <2> QED BY <2>2 DEF ContentsInv, TypeOK
<1>5. TypeOK'
  <2>1. idequeue' \in Seq(Bufs)
    BY <1>2, HeadTailProperties DEF TypeOK
  <2>2. pc' \in [Procs -> Points]
    BY <1>2 DEF TypeOK, Points
  <2>3. data' \in [Bufs -> Values] /\ disk' \in [Blocks -> Values]
    BY <1>2, <1>4 DEF TypeOK
  <2> QED BY <1>2, <2>1, <2>2, <2>3 DEF TypeOK
<1>6. PointersInv'
  BY <1>2 DEF PointersInv
<1>7. ContentsInv'
  <2>1. ASSUME NEW j \in Bufs, valid'[j], ~dirty'[j]
        PROVE  data'[j] = disk'[blockno'[j]]
    <3>1. CASE j = i
      BY <1>2, <1>4, <3>1 DEF TypeOK
    <3>2. CASE j # i
      <4>1. valid[j] /\ ~dirty[j] /\ data'[j] = data[j]
        BY <1>2, <2>1, <3>2 DEF TypeOK
      <4>2. data[j] = disk[blockno[j]] /\ blockno[j] # blockno[i]
        BY <1>4, <3>2, <4>1 DEF ContentsInv
      <4> QED BY <1>2, <4>1, <4>2, <1>4 DEF TypeOK
    <3> QED BY <3>1, <3>2
  <2>2. \A j \in Bufs : valid'[j] \/ Users(j)' # {} => blockno'[j] # NoBlock
    BY <1>2, <1>3, <1>4 DEF ContentsInv, TypeOK
  <2>3. \A q \in Procs : \A j \in held'[q] : valid'[j]
    BY <1>2 DEF ContentsInv, TypeOK
  <2>4. \A j \in Bufs : dirty'[j] => valid'[j]
    BY <1>2 DEF ContentsInv, TypeOK
  <2> QED BY <1>2, <2>1, <2>2, <2>3, <2>4 DEF ContentsInv
<1>8. UsersInv'
  BY <1>2, <1>3 DEF UsersInv
<1>9. QueueInv'
  BY <1>1, <1>2, DequeueInv
<1>10. LruInv'
  BY <1>2 DEF LruInv
<1> QED BY <1>5, <1>6, <1>7, <1>8, <1>9, <1>10

\* The panic of bget changes nothing but the process that panics.
LEMMA BgetPanicsInv ==
  ASSUME Inv, NEW p \in Procs, NEW b \in Blocks, BgetPanics(p, b)
  PROVE  Inv'
<1> USE Sorts DEF Inv
<1>1. /\ pc[p] = "run" /\ pc' = [pc EXCEPT ![p] = "panic"]
      /\ UNCHANGED <<bufs, idequeue, disk, want, at, held>>
  BY DEF BgetPanics, MayAsk
<1>2. \A j \in Bufs : Users(j)' = Users(j)
  BY <1>1 DEF Users
<1>3. at[p] = NoBuf
  BY <1>1 DEF PointersInv
<1>4. \A j \in Bufs : Lockers(j)' = Lockers(j)
  BY <1>1, <1>3 DEF TypeOK, Lockers
<1>5. TypeOK'
  BY <1>1 DEF TypeOK, Points, bufs
<1>6. PointersInv'
  BY <1>1, <1>3 DEF TypeOK, PointersInv, bufs
<1>7. ContentsInv'
  BY <1>1, <1>2 DEF ContentsInv, bufs
<1>8. UsersInv'
  BY <1>1, <1>2, <1>4 DEF TypeOK, UsersInv, bufs
<1>9. QueueInv'
  BY <1>1, QueueKept DEF TypeOK
<1>10. LruInv'
  BY <1>1 DEF LruInv, bufs
<1> QED BY <1>5, <1>6, <1>7, <1>8, <1>9, <1>10

-----------------------------------------------------------------------------
\* The cache's invariant, for any number of buffers, blocks and processes.
THEOREM CacheInvariance == Spec => []Inv
<1>1. Inv /\ [Next]_bufVars => Inv'
  <2> SUFFICES ASSUME Inv, [Next]_bufVars PROVE Inv'
    OBVIOUS
  <2>1. CASE Ideintr
    BY <2>1, IdeintrInv
  <2>2. ASSUME NEW p \in Procs, Bget(p) PROVE Inv'
    BY <2>2, BgetHitInv, BgetRecycleInv, BgetPanicsInv DEF Bget
  <2>3. ASSUME NEW p \in Procs, Bread(p) PROVE Inv'
    BY <2>2, <2>3, AcquireSleepsInv, AcquireValidInv,
       AcquireReadInv, IderwDoneInv DEF Bread
  <2>4. ASSUME NEW p \in Procs, Writes(p) PROVE Inv'
    BY <2>4, BwriteInv, LogWriteInv DEF Writes
  <2>5. ASSUME NEW p \in Procs, Brelse(p) PROVE Inv'
    BY <2>5, UnrefInv, ReleaseSleepInv DEF Brelse
  <2>6. CASE UNCHANGED bufVars \/ Halted
    <3>1. /\ UNCHANGED <<blockno, valid, dirty, refcnt, data, owner, lru, idequeue, disk>>
          /\ UNCHANGED <<pc, want, at, held>>
      BY <2>6 DEF Halted, bufVars, bufs, procs
    <3>2. \A j \in Bufs : Users(j)' = Users(j) /\ Lockers(j)' = Lockers(j)
      BY <3>1 DEF Users, Lockers
    <3>3. TypeOK' BY <3>1 DEF Inv, TypeOK
    <3>4. PointersInv' BY <3>1 DEF Inv, PointersInv
    <3>5. ContentsInv' BY <3>1, <3>2 DEF Inv, ContentsInv
    <3>6. UsersInv' BY <3>1, <3>2 DEF Inv, UsersInv
    <3>7. QueueInv' /\ LruInv' BY <3>1 DEF Inv, QueueInv, LruInv
    <3> QED BY <3>3, <3>4, <3>5, <3>6, <3>7 DEF Inv
  <2> QED BY <2>1, <2>2, <2>3, <2>4, <2>5, <2>6 DEF Next
<1> QED BY <1>1, InitInv, PTL DEF Spec

\* One buffer per block, reference counts, sleep locks and contents are right: two
\* processes in bget, acquiresleep and brelse at once cannot spoil them.
THEOREM CacheCorrect == Spec => []CacheInv
<1>1. Inv => CacheInv
  <2> SUFFICES ASSUME Inv PROVE CacheInv
    OBVIOUS
  <2>1. Range(lru) = Bufs
    BY DEF Inv, TypeOK, LruInv, Range
  <2> QED BY <2>1 DEF Inv, PointersInv, ContentsInv, UsersInv, CacheInv
<1> QED BY <1>1, CacheInvariance, PTL

\* A process asleep on a sleep lock or on the disk is always going to be woken.
THEOREM NoSleeperForgotten == Spec => []SleepersAreWoken
<1>1. Inv => SleepersAreWoken
  <2> SUFFICES ASSUME Inv, NEW p \in Procs, pc[p] = "io" PROVE at[p] \in Range(idequeue)
    BY DEF Inv, UsersInv, SleepersAreWoken
  <2>1. PICK n \in 1 .. Len(idequeue) : idequeue[n] = at[p]
    BY DEF Inv, QueueInv
  <2> QED BY <2>1, LenProperties DEF Inv, TypeOK, Range
<1> QED BY <1>1, CacheInvariance, PTL

-----------------------------------------------------------------------------
(* The cache implements BlockStore. *)

\* The value of a block is that of its buffer while that is newer than the disk.
StoreValue ==
  \A b \in Blocks :
    /\ \A i \in Bufs : blockno[i] = b /\ dirty[i] => storeBar[b] = data[i]
    /\ (\A i \in Bufs : blockno[i] = b => ~dirty[i]) => storeBar[b] = disk[b]

\* Who holds a buffer of the block, if anybody does.
HolderValue ==
  \A b \in Blocks :
    /\ \A p \in Procs : \A i \in held[p] : blockno[i] = b => holderBar[b] = p
    /\ (\A p \in Procs : \A i \in held[p] : blockno[i] # b) => holderBar[b] = NoProc

\* The mapping of the store says what StoreValue says.
LEMMA StoreIs == Inv => StoreValue
<1> SUFFICES ASSUME Inv, NEW b \in Blocks
             PROVE  /\ \A i \in Bufs : blockno[i] = b /\ dirty[i] => storeBar[b] = data[i]
                    /\ (\A i \in Bufs : blockno[i] = b => ~dirty[i]) => storeBar[b] = disk[b]
  BY DEF StoreValue
<1> USE Sorts DEF Inv
<1> DEFINE S == {i \in Cached(b) : valid[i] \/ dirty[i]}
<1>1. storeBar[b] = IF S = {} THEN disk[b] ELSE data[CHOOSE i \in S : TRUE]
  BY DEF storeBar
<1>2. \A i \in S : i \in Bufs /\ blockno[i] = b /\ valid[i]
  BY DEF Cached, ContentsInv
<1>3. ASSUME NEW i \in S, NEW j \in S PROVE i = j
  <2>1. i \in Bufs /\ j \in Bufs /\ blockno[i] = b /\ blockno[j] = b /\ b # NoBlock
    BY <1>2
  <2> QED BY <2>1 DEF ContentsInv
<1>4. ASSUME NEW i \in S PROVE storeBar[b] = data[i]
  BY <1>1, <1>3
<1>5. \A i \in Bufs : blockno[i] = b /\ (valid[i] \/ dirty[i]) => i \in S
  BY DEF Cached
<1>6. ASSUME \A i \in Bufs : blockno[i] = b => ~dirty[i] PROVE storeBar[b] = disk[b]
  <2>1. CASE S = {}
    BY <1>1, <2>1
  <2>2. ASSUME NEW i \in S PROVE storeBar[b] = disk[b]
    <3>1. data[i] = disk[b]
      BY <1>2, <1>6 DEF ContentsInv
    <3> QED BY <1>4, <3>1
  <2> QED BY <2>1, <2>2
<1> HIDE DEF S
<1> QED BY <1>4, <1>5, <1>6

\* The mapping of the holders says what HolderValue says.
LEMMA HolderIs == Inv => HolderValue
<1> SUFFICES ASSUME Inv, NEW b \in Blocks
             PROVE  /\ \A p \in Procs : \A i \in held[p] : blockno[i] = b => holderBar[b] = p
                    /\ (\A p \in Procs : \A i \in held[p] : blockno[i] # b) => holderBar[b] = NoProc
  BY DEF HolderValue
<1> USE Sorts DEF Inv
<1>1. \A p, q \in HolderOf(b) : p = q
  <2> SUFFICES ASSUME NEW p \in Procs, NEW i \in held[p], blockno[i] = b,
                      NEW q \in Procs, NEW j \in held[q], blockno[j] = b
               PROVE  p = q
    BY DEF HolderOf
  <2>1. i \in Bufs /\ j \in Bufs /\ i = j
    BY DEF ContentsInv, TypeOK
  <2>2. p \in Lockers(i) /\ q \in Lockers(i)
    BY <2>1 DEF Lockers
  <2> QED BY <2>1, <2>2 DEF UsersInv
<1>2. holderBar[b] = IF HolderOf(b) = {} THEN NoProc ELSE CHOOSE p \in HolderOf(b) : TRUE
  BY DEF holderBar
<1>3. ASSUME NEW p \in Procs, NEW i \in held[p], blockno[i] = b PROVE holderBar[b] = p
  <2>1. p \in HolderOf(b)
    BY <1>3 DEF HolderOf
  <2> QED BY <1>1, <1>2, <2>1
<1>4. ASSUME \A p \in Procs : \A i \in held[p] : blockno[i] # b PROVE holderBar[b] = NoProc
  <2>1. HolderOf(b) = {}
    BY <1>4 DEF HolderOf
  <2> QED BY <1>2, <2>1
<1> QED BY <1>3, <1>4

\* Both mappings are functions on the blocks.
LEMMA Bars == /\ storeBar = [b \in Blocks |-> storeBar[b]]
              /\ holderBar = [b \in Blocks |-> holderBar[b]]
  BY DEF storeBar, holderBar

\* The same after a step.
LEMMA BarsNext == Inv' => /\ StoreValue' /\ HolderValue'
                          /\ storeBar' = [b \in Blocks |-> storeBar'[b]]
                          /\ holderBar' = [b \in Blocks |-> holderBar'[b]]
<1>1. Inv' => StoreValue'
  BY StoreIs, PTL
<1>2. Inv' => HolderValue'
  BY HolderIs, PTL
<1>3. /\ storeBar' = [b \in Blocks |-> storeBar'[b]]
      /\ holderBar' = [b \in Blocks |-> holderBar'[b]]
  BY DEF storeBar, holderBar
<1> QED BY <1>1, <1>2, <1>3

\* The store stays as it is when newer buffers and the disk do.
LEMMA StoreSame ==
  ASSUME Inv, Inv', UNCHANGED disk,
         \A i \in Bufs : /\ dirty'[i] <=> dirty[i]
                         /\ dirty[i] => data'[i] = data[i] /\ blockno'[i] = blockno[i]
  PROVE  storeBar' = storeBar
<1>1. ASSUME NEW b \in Blocks PROVE storeBar'[b] = storeBar[b]
  <2>1. CASE \E i \in Bufs : blockno[i] = b /\ dirty[i]
    <3>1. PICK i \in Bufs : blockno[i] = b /\ dirty[i]
      BY <2>1
    <3>2. storeBar[b] = data[i]
      BY <3>1, StoreIs DEF StoreValue
    <3>3. storeBar'[b] = data'[i]
      BY <3>1, BarsNext DEF StoreValue
    <3> QED BY <3>1, <3>2, <3>3
  <2>2. CASE \A i \in Bufs : blockno[i] = b => ~dirty[i]
    <3>1. storeBar[b] = disk[b]
      BY <2>2, StoreIs DEF StoreValue
    <3>2. \A i \in Bufs : blockno'[i] = b => ~dirty'[i]
      BY <2>2
    <3>3. storeBar'[b] = disk'[b]
      BY <3>2, BarsNext DEF StoreValue
    <3> QED BY <3>1, <3>3
  <2> QED BY <2>1, <2>2
<1> QED BY <1>1, Bars, BarsNext

\* The holders stay who they are when nobody is given a buffer or lets go of one.
LEMMA HolderSame ==
  ASSUME Inv, Inv', UNCHANGED held,
         \A p \in Procs : \A i \in held[p] : blockno'[i] = blockno[i]
  PROVE  holderBar' = holderBar
<1>1. ASSUME NEW b \in Blocks PROVE holderBar'[b] = holderBar[b]
  <2>1. ASSUME NEW p \in Procs, NEW i \in held[p], blockno[i] = b PROVE holderBar'[b] = holderBar[b]
    BY <2>1, HolderIs, BarsNext DEF HolderValue
  <2>2. CASE \A p \in Procs : \A i \in held[p] : blockno[i] # b
    BY <2>2, HolderIs, BarsNext DEF HolderValue
  <2> QED BY <2>1, <2>2
<1> QED BY <1>1, Bars, BarsNext

\* A buffer that nobody held is given to a process: the process has the block.
LEMMA HolderTakes ==
  ASSUME Inv, Inv', NEW p \in Procs, NEW i \in Bufs, UNCHANGED blockno,
         blockno[i] \in Blocks, \A q \in Procs : i \notin held[q],
         held' = [held EXCEPT ![p] = @ \cup {i}]
  PROVE  /\ holderBar[blockno[i]] = NoProc
         /\ holderBar' = [holderBar EXCEPT ![blockno[i]] = p]
<1> USE DEF Inv
<1>1. \A q \in Procs : \A j \in held[q] : j \in Bufs /\ blockno[j] # blockno[i]
  BY Sorts DEF ContentsInv, TypeOK
<1>2. holderBar[blockno[i]] = NoProc
  BY <1>1, HolderIs DEF HolderValue
<1>3. \A q \in Procs : held'[q] = IF q = p THEN held[q] \cup {i} ELSE held[q]
  BY DEF TypeOK
<1>4. holderBar'[blockno[i]] = p
  BY <1>3, BarsNext DEF HolderValue
<1>5. ASSUME NEW b \in Blocks, b # blockno[i] PROVE holderBar'[b] = holderBar[b]
  <2>1. ASSUME NEW q \in Procs, NEW j \in held[q], blockno[j] = b PROVE holderBar'[b] = holderBar[b]
    <3>1. j \in held'[q] /\ blockno'[j] = b
      BY <1>3, <2>1
    <3> QED BY <2>1, <3>1, HolderIs, BarsNext DEF HolderValue
  <2>2. CASE \A q \in Procs : \A j \in held[q] : blockno[j] # b
    <3>1. \A q \in Procs : \A j \in held'[q] : blockno'[j] # b
      BY <1>3, <1>5, <2>2
    <3> QED BY <2>2, <3>1, HolderIs, BarsNext DEF HolderValue
  <2> QED BY <2>1, <2>2
<1> QED BY <1>2, <1>4, <1>5, Bars, BarsNext

\* It lets go of the buffer and with it of the block.
LEMMA HolderLetsGo ==
  ASSUME Inv, Inv', NEW p \in Procs, NEW i \in held[p], UNCHANGED blockno,
         held' = [held EXCEPT ![p] = @ \ {i}]
  PROVE  /\ blockno[i] \in Blocks /\ holderBar[blockno[i]] = p
         /\ holderBar' = [holderBar EXCEPT ![blockno[i]] = NoProc]
<1> USE DEF Inv
<1>1. i \in Bufs /\ blockno[i] \in Blocks
  <2>1. i \in Bufs /\ p \in Users(i)
    BY DEF TypeOK, Users
  <2> QED BY <2>1 DEF ContentsInv, TypeOK
<1>2. holderBar[blockno[i]] = p
  BY <1>1, HolderIs DEF HolderValue
<1>3. \A q \in Procs : held'[q] = IF q = p THEN held[q] \ {i} ELSE held[q]
  BY DEF TypeOK
<1>4. \A q \in Procs : \A j \in held'[q] : blockno'[j] # blockno[i]
  <2> SUFFICES ASSUME NEW q \in Procs, NEW j \in held'[q], blockno[j] = blockno[i] PROVE FALSE
    OBVIOUS
  <2>1. j \in held[q] /\ j \in Bufs
    BY <1>3 DEF TypeOK
  <2>2. j = i
    BY <1>1, <2>1, Sorts DEF ContentsInv
  <2>3. q \in Lockers(i) /\ p \in Lockers(i)
    BY <2>1, <2>2 DEF Lockers
  <2> QED BY <1>1, <1>3, <2>2, <2>3 DEF UsersInv
<1>5. holderBar'[blockno[i]] = NoProc
  BY <1>1, <1>4, BarsNext DEF HolderValue
<1>6. ASSUME NEW b \in Blocks, b # blockno[i] PROVE holderBar'[b] = holderBar[b]
  <2>1. ASSUME NEW q \in Procs, NEW j \in held[q], blockno[j] = b PROVE holderBar'[b] = holderBar[b]
    <3>1. j \in held'[q] /\ blockno'[j] = b
      BY <1>3, <1>6, <2>1
    <3> QED BY <2>1, <3>1, HolderIs, BarsNext DEF HolderValue
  <2>2. CASE \A q \in Procs : \A j \in held[q] : blockno[j] # b
    <3>1. \A q \in Procs : \A j \in held'[q] : blockno'[j] # b
      BY <1>3, <2>2
    <3> QED BY <2>2, <3>1, HolderIs, BarsNext DEF HolderValue
  <2> QED BY <2>1, <2>2
<1> QED BY <1>1, <1>2, <1>5, <1>6, Bars, BarsNext

\* A write changes the block that the process has, at once for everybody.
LEMMA StoreChanges ==
  ASSUME Inv, Inv', NEW p \in Procs, NEW i \in held[p], NEW v \in Values,
         UNCHANGED <<disk, blockno>>,
         data' = [data EXCEPT ![i] = v], dirty' = [dirty EXCEPT ![i] = TRUE]
  PROVE  blockno[i] \in Blocks /\ storeBar' = [storeBar EXCEPT ![blockno[i]] = v]
<1> USE DEF Inv
<1>1. i \in Bufs /\ blockno[i] \in Blocks
  <2>1. i \in Bufs /\ p \in Users(i)
    BY DEF TypeOK, Users
  <2> QED BY <2>1 DEF ContentsInv, TypeOK
<1>2. \A j \in Bufs : /\ dirty'[j] = IF j = i THEN TRUE ELSE dirty[j]
                      /\ data'[j] = IF j = i THEN v ELSE data[j]
  BY DEF TypeOK
<1>3. storeBar'[blockno[i]] = v
  <2>1. StoreValue' BY BarsNext
  <2>2. blockno'[i] = blockno[i] /\ dirty'[i] /\ data'[i] = v BY <1>1, <1>2
  <2> QED BY ONLY <1>1, <2>1, <2>2 DEF StoreValue
<1>4. ASSUME NEW b \in Blocks, b # blockno[i] PROVE storeBar'[b] = storeBar[b]
  <2>1. ASSUME NEW j \in Bufs, blockno[j] = b, dirty[j] PROVE storeBar'[b] = storeBar[b]
    <3>1. dirty'[j] /\ data'[j] = data[j]
      BY <1>2, <1>4, <2>1
    <3> QED BY <2>1, <3>1, StoreIs, BarsNext DEF StoreValue
  <2>2. CASE \A j \in Bufs : blockno[j] = b => ~dirty[j]
    <3>1. \A j \in Bufs : blockno'[j] = b => ~dirty'[j]
      BY <1>2, <1>4, <2>2
    <3> QED BY <2>2, <3>1, StoreIs, BarsNext DEF StoreValue
  <2> QED BY <2>1, <2>2
<1> QED BY <1>1, <1>3, <1>4, Bars, BarsNext

\* The interrupt moves the value between the buffer and the disk.
LEMMA IdeintrStore ==
  ASSUME Inv, Inv', Ideintr
  PROVE  storeBar' = storeBar /\ holderBar' = holderBar
<1> USE DEF Inv
<1>1. PICK i \in Bufs : i = Head(idequeue)
  BY HeadTailProperties DEF Ideintr, TypeOK
<1>2. /\ data' = [data EXCEPT ![i] = IF dirty[i] THEN @ ELSE disk[blockno[i]]]
      /\ disk' = [disk EXCEPT ![blockno[i]] = IF dirty[i] THEN data[i] ELSE @]
      /\ dirty' = [dirty EXCEPT ![i] = FALSE] /\ UNCHANGED <<blockno, held>>
      /\ idequeue # <<>>
  BY <1>1 DEF Ideintr
<1>3. blockno[i] \in Blocks
  <2>1. i = idequeue[1] /\ 1 \in 1 .. Len(idequeue)
    BY <1>1, <1>2, EmptySeq, LenProperties DEF TypeOK
  <2>2. Users(i) # {}
    BY <2>1 DEF QueueInv, Users
  <2> QED BY <2>2 DEF ContentsInv, TypeOK
<1>4. \A j \in Bufs : /\ dirty'[j] = IF j = i THEN FALSE ELSE dirty[j]
                      /\ dirty[j] => data'[j] = data[j]
  BY <1>2 DEF TypeOK
<1>5. \A b \in Blocks : disk'[b] = IF b = blockno[i] /\ dirty[i] THEN data[i] ELSE disk[b]
  BY <1>2, <1>3 DEF TypeOK
<1>6. \A j \in Bufs : blockno[j] = blockno[i] => j = i
  BY <1>3, Sorts DEF ContentsInv
<1>7. ASSUME NEW b \in Blocks PROVE storeBar'[b] = storeBar[b]
  <2>1. CASE b = blockno[i]
    <3>1. storeBar'[b] = disk'[b]
      <4>1. \A j \in Bufs : blockno'[j] = b => ~dirty'[j]
        BY <1>2, <1>4, <1>6, <2>1
      <4> QED BY <4>1, BarsNext DEF StoreValue
    <3>2. CASE dirty[i]
      BY <1>5, <2>1, <3>1, <3>2, StoreIs DEF StoreValue
    <3>3. CASE ~dirty[i]
      <4>1. storeBar[b] = disk[b]
        BY <1>6, <2>1, <3>3, StoreIs DEF StoreValue
      <4> QED BY <1>5, <3>1, <3>3, <4>1
    <3> QED BY <3>2, <3>3
  <2>2. CASE b # blockno[i]
    <3>1. disk'[b] = disk[b]
      BY <1>5, <2>2
    <3>2. ASSUME NEW j \in Bufs, blockno[j] = b, dirty[j] PROVE storeBar'[b] = storeBar[b]
      <4>1. dirty'[j] /\ data'[j] = data[j] /\ blockno'[j] = b
        BY <1>2, <1>4, <2>2, <3>2
      <4> QED BY <3>2, <4>1, StoreIs, BarsNext DEF StoreValue
    <3>3. CASE \A j \in Bufs : blockno[j] = b => ~dirty[j]
      <4>1. \A j \in Bufs : blockno'[j] = b => ~dirty'[j]
        BY <1>2, <1>4, <3>3
      <4> QED BY <3>1, <3>3, <4>1, StoreIs, BarsNext DEF StoreValue
    <3> QED BY <3>2, <3>3
  <2> QED BY <2>1, <2>2
<1>8. holderBar' = holderBar
  BY <1>2, HolderSame
<1> QED BY <1>7, <1>8, Bars, BarsNext

\* Every step of the cache is a step of the store or none.
LEMMA StoreStep == Inv /\ Inv' /\ [Next]_bufVars => [Store!Next]_(Store!storeVars)
<1> SUFFICES ASSUME Inv, Inv', [Next]_bufVars, ~ UNCHANGED <<storeBar, holderBar>>
             PROVE  Store!Next
  BY DEF Store!storeVars
<1> USE Sorts
<1>1. ASSUME NEW p \in Procs, NEW b \in Blocks, BgetHit(p, b) PROVE FALSE
  BY <1>1, StoreSame, HolderSame DEF BgetHit
<1>2. ASSUME NEW p \in Procs, NEW b \in Blocks, BgetRecycle(p, b) PROVE FALSE
  <2>1. PICK i \in Bufs : i = FirstOf(Reverse(lru), Unused) /\ i \in Unused
    BY <1>2, FirstOfUnused DEF BgetRecycle, Unused
  <2>2. /\ blockno' = [blockno EXCEPT ![i] = b] /\ dirty' = [dirty EXCEPT ![i] = FALSE]
        /\ UNCHANGED <<data, disk, held>>
    BY <1>2, <2>1 DEF BgetRecycle
  <2>3. \A q \in Procs : i \notin held[q]
    <3>1. Users(i) = {}
      BY <2>1, ProcCount DEF Unused, Inv, UsersInv, Users
    <3> QED BY <3>1 DEF Users
  <2>4. storeBar' = storeBar
    <3>1. dirty \in [Bufs -> BOOLEAN] /\ blockno \in [Bufs -> Blocks \cup {NoBlock}]
      BY DEF Inv, TypeOK
    <3>2. ~dirty[i] BY <2>1 DEF Unused
    <3>3. \A j \in Bufs : /\ dirty'[j] <=> dirty[j]
                          /\ dirty[j] => data'[j] = data[j] /\ blockno'[j] = blockno[j]
      BY ONLY <2>2, <3>1, <3>2
    <3> QED BY <2>2, <3>3, StoreSame
  <2>5. holderBar' = holderBar
    <3>1. \A q \in Procs : \A j \in held[q] : blockno'[j] = blockno[j]
      BY <2>2, <2>3 DEF Inv, TypeOK
    <3> QED BY <2>2, <3>1, HolderSame
  <2> QED BY <2>4, <2>5
<1>3. ASSUME NEW p \in Procs, AcquireSleeps(p) PROVE FALSE
  BY <1>3, StoreSame, HolderSame DEF AcquireSleeps, bufs
<1>4. ASSUME NEW p \in Procs, AcquireRead(p) PROVE FALSE
  BY <1>4, StoreSame, HolderSame DEF AcquireRead
<1>5. ASSUME NEW p \in Procs, NEW b \in Blocks, BgetPanics(p, b) PROVE FALSE
  <2>1. UNCHANGED <<bufs, disk, held>>
    BY <1>5 DEF BgetPanics
  <2> QED BY <2>1, StoreSame, HolderSame DEF bufs
<1>6. ASSUME NEW p \in Procs, Unref(p) PROVE FALSE
  BY <1>6, StoreSame, HolderSame DEF Unref
<1>7. CASE Ideintr
  BY <1>7, IdeintrStore
<1>8. ASSUME NEW p \in Procs, AcquireValid(p) PROVE Store!Next
  <2>1. PICK i \in Bufs : i = at[p] /\ owner[i] = NoProc
    BY <1>8 DEF AcquireValid, Inv, PointersInv, TypeOK
  <2>2. /\ held' = [held EXCEPT ![p] = @ \cup {i}] /\ pc[p] = "lock"
        /\ UNCHANGED <<blockno, dirty, data, disk>>
    BY <1>8, <2>1 DEF AcquireValid, Give
  <2>3. Lockers(i) = {} /\ blockno[i] \in Blocks
    BY <2>1, <2>2 DEF Inv, UsersInv, PointersInv, TypeOK
  <2>4. /\ holderBar[blockno[i]] = NoProc
        /\ holderBar' = [holderBar EXCEPT ![blockno[i]] = p]
    BY <2>2, <2>3, HolderTakes DEF Lockers
  <2>5. storeBar' = storeBar
    BY <2>2, StoreSame
  <2>6. Store!Take(p, blockno[i])
    BY <2>4, <2>5 DEF Store!Take
  <2> QED BY <2>3, <2>6 DEF Store!Next
<1>9. ASSUME NEW p \in Procs, IderwDone(p) PROVE Store!Next
  <2>1. PICK i \in Bufs : i = at[p]
    BY <1>9 DEF IderwDone, Inv, PointersInv, TypeOK
  <2>2. /\ held' = [held EXCEPT ![p] = @ \cup {i}] /\ pc[p] = "wait"
        /\ UNCHANGED <<blockno, dirty, data, disk>>
    BY <1>9, <2>1 DEF IderwDone, Give, bufs
  <2>3. storeBar' = storeBar
    BY <2>2, StoreSame
  <2>4. i \notin held[p]
    <3> SUFFICES ASSUME i \in held[p] PROVE FALSE
      OBVIOUS
    <3>1. held' = held
      BY <2>2 DEF Inv, TypeOK
    <3> QED BY <2>2, <2>3, <3>1, HolderSame
  <2>5. p \in Lockers(i) /\ p \in Users(i)
    BY <2>1, <2>2 DEF Lockers, Users
  <2>6. blockno[i] \in Blocks /\ \A q \in Procs : i \notin held[q]
    BY <2>4, <2>5 DEF Inv, UsersInv, ContentsInv, TypeOK, Lockers
  <2>7. /\ holderBar[blockno[i]] = NoProc
        /\ holderBar' = [holderBar EXCEPT ![blockno[i]] = p]
    BY <2>2, <2>6, HolderTakes
  <2>8. Store!Take(p, blockno[i])
    BY <2>3, <2>7 DEF Store!Take
  <2> QED BY <2>6, <2>8 DEF Store!Next
<1>10. ASSUME NEW p \in Procs, NEW i \in Bufs, NEW v \in Values, Bwrite(p, i, v) \/ LogWrite(p, i, v)
       PROVE  Store!Next
  <2>1. /\ i \in held[p] /\ data' = [data EXCEPT ![i] = v] /\ dirty' = [dirty EXCEPT ![i] = TRUE]
        /\ UNCHANGED <<disk, blockno, held>>
    BY <1>10 DEF Bwrite, LogWrite, procs
  <2>2. blockno[i] \in Blocks /\ storeBar' = [storeBar EXCEPT ![blockno[i]] = v]
    BY <2>1, StoreChanges
  <2>3. holderBar' = holderBar /\ holderBar[blockno[i]] = p
    BY <2>1, <2>2, HolderSame, HolderIs DEF HolderValue
  <2>4. Store!Change(p, blockno[i], v)
    BY <2>2, <2>3 DEF Store!Change
  <2> QED BY <2>2, <2>4 DEF Store!Next
<1>11. ASSUME NEW p \in Procs, NEW i \in Bufs, ReleaseSleep(p, i) PROVE Store!Next
  <2>1. /\ i \in held[p] /\ held' = [held EXCEPT ![p] = @ \ {i}]
        /\ UNCHANGED <<blockno, dirty, data, disk>>
    BY <1>11 DEF ReleaseSleep
  <2>2. /\ blockno[i] \in Blocks /\ holderBar[blockno[i]] = p
        /\ holderBar' = [holderBar EXCEPT ![blockno[i]] = NoProc]
    BY <2>1, HolderLetsGo
  <2>3. storeBar' = storeBar
    BY <2>1, StoreSame
  <2>4. Store!LetGo(p, blockno[i])
    BY <2>2, <2>3 DEF Store!LetGo
  <2> QED BY <2>2, <2>4 DEF Store!Next
<1>12. CASE UNCHANGED bufVars \/ Halted
  BY <1>12, StoreSame, HolderSame DEF Halted, bufVars, bufs, procs
<1> QED BY <1>1, <1>2, <1>3, <1>4, <1>5, <1>6, <1>7, <1>8, <1>9, <1>10, <1>11, <1>12
        DEF Next, Bread, Bget, Writes, Brelse

\* The cache, its locks and the disk queue implement a store with one value per block.
THEOREM CacheIsAStore == Spec => ImplementsBlockStore
<1>1. Init => Store!Init
  <2> SUFFICES ASSUME Init PROVE Store!Init
    OBVIOUS
  <2>1. \A b \in Blocks : Cached(b) = {} /\ HolderOf(b) = {}
    BY Sorts DEF Init, Cached, HolderOf
  <2>2. storeBar = [b \in Blocks |-> Zero] /\ holderBar = [b \in Blocks |-> NoProc]
    BY <2>1 DEF storeBar, holderBar, Init
  <2> QED BY <2>2 DEF Store!Init
<1> QED BY <1>1, StoreStep, CacheInvariance, PTL DEF Spec, ImplementsBlockStore, Store!Spec
=============================================================================
