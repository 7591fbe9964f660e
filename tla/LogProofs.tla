----------------------------- MODULE LogProofs -----------------------------
(***************************************************************************)
(* The redo log keeps its promise: the reservations of begin_op suffice, a *)
(* buffer that may be reused equals the disk, and the log implements the   *)
(* atomic disk.                                                            *)
(***************************************************************************)
EXTENDS Log, TLAPS, FiniteSetTheorems, SequenceTheorems

\* The calls of begin_op that end_op has not closed: one for each process and
\* level of nesting.
OpenCalls == {s \in Procs \X (1 .. 2) : s[2] <= depth[s[1]]}

\* Operations are open, or on their way, only while nothing is recovered; none is
\* open during a commit.
ProcsInv ==
  /\ outstanding = Cardinality(OpenCalls)
  /\ \A p \in Procs : /\ depth[p] <= MaxDepth(p)
                      /\ pc[p] \in {"begin", "asleep"} => depth[p] < MaxDepth(p)
                      /\ phase # "idle" => depth[p] = 0
                      /\ Recovering => pc[p] = "run"
  /\ phase \in {"idle", "read_head"} => ~committing
  /\ phase \in {"write_log", "write_head", "release"} => committing

\* Nobody has written operation o into a block yet.
Unwritten(o) == /\ \A b \in Blocks : o \notin home[b] /\ o \notin buf[b].data
                /\ \A i \in 1 .. NLOG - 1 : o \notin logged[i]

Waits(p) == pc[p] \in {"begin", "asleep"}

\* Every operation belongs to one process, and has written nothing before begin_op
\* lets it run.
OpsInv ==
  /\ \A p \in Procs : /\ op[p] < nextOp
                      /\ Waits(p) \/ depth[p] = MaxDepth(p) => op[p] # NoOp
                      /\ Waits(p) => Unwritten(op[p])
  /\ \A p, q \in Procs : op[p] = op[q] => p = q \/ op[p] = NoOp
  /\ \A o \in Ops : o >= nextOp => Unwritten(o)

\* The two headers, in every phase.
HeaderInv ==
  /\ Len(lh) <= NLOG - 1 /\ Len(lh) <= LOGSIZE
  /\ Len(head) <= NLOG - 1 /\ Len(head) <= LOGSIZE
  /\ IsInjective(head)
  /\ IF phase \in {"write_log", "install"} THEN tail <= Len(lh) ELSE tail = 1
  /\ phase \in {"idle", "write_log", "write_head", "release"} => head = <<>>
  /\ phase \in {"install", "erase"} => head = lh
  /\ phase \in {"read_head", "release"} => lh = <<>>
  /\ phase = "write_head" => lh # <<>>

Pinned(b) == buf[b].valid /\ buf[b].dirty

\* How far the blocks of the header have come from the cache to the log and home.
BlocksInv ==
  /\ phase \in {"erase", "release"} \/ Recovering => \A b \in Blocks : ~Pinned(b)
  /\ \A i \in 1 .. Len(lh) :
       /\ phase \in {"idle", "write_log", "write_head"} => Pinned(lh[i])
       /\ phase = "write_head" \/ (phase = "write_log" /\ i < tail)
            => logged[i] = buf[lh[i]].data
       /\ phase = "install" /\ committing /\ i >= tail
            => Pinned(lh[i]) /\ buf[lh[i]].data = logged[i]
       /\ phase = "erase" \/ (phase = "install" /\ i < tail)
            => home[lh[i]] = logged[i] /\ ~Pinned(lh[i])

SpaceInv == /\ \A p \in Procs : /\ IsFiniteSet(touched[p])
                                /\ Cardinality(touched[p]) <= OpBlocks
            /\ Len(lh) + Cardinality(Unused) <= LOGSIZE

Inv == TypeOK /\ CleanIsOnDisk /\ ProcsInv /\ OpsInv /\ HeaderInv /\ BlocksInv /\ SpaceInv

-----------------------------------------------------------------------------
(* What the steps have in common *)

\* The constants are numbers, and an operation does not write all it reserves.
LEMMA Numbers == /\ MAXOPBLOCKS \in Nat /\ OpBlocks \in Nat /\ LOGSIZE \in Nat
                 /\ NLOG \in Nat \ {0} /\ MaxOps \in Nat /\ MaxCrashes \in Nat
                 /\ OpBlocks < MAXOPBLOCKS /\ MAXOPBLOCKS <= LOGSIZE /\ LOGSIZE <= NLOG
BY LogAssumption

\* log_write's absorption: a block not yet in the header is added at its end.
LEMMA AppendNew ==
  ASSUME NEW s \in Seq(Blocks), NEW b \in Blocks, IsInjective(s), ~Contains(s, b)
  PROVE  /\ Append(s, b) \in Seq(Blocks) /\ IsInjective(Append(s, b))
         /\ Len(Append(s, b)) = Len(s) + 1
         /\ Append(s, b)[Len(s) + 1] = b
         /\ \A i \in 1 .. Len(s) : Append(s, b)[i] = s[i] /\ s[i] # b
<1>1. /\ Append(s, b) \in Seq(Blocks)
      /\ Len(Append(s, b)) = Len(s) + 1
      /\ Append(s, b)[Len(s) + 1] = b
      /\ \A i \in 1 .. Len(s) : Append(s, b)[i] = s[i]
      /\ DOMAIN Append(s, b) = 1 .. Len(s) + 1
      /\ DOMAIN s = 1 .. Len(s) /\ Len(s) \in Nat
  BY AppendProperties, LenProperties
<1>2. \A i \in 1 .. Len(s) : s[i] # b
  BY DEF Contains
<1>3. IsInjective(Append(s, b))
  BY <1>1, <1>2 DEF IsInjective
<1> QED BY <1>1, <1>2, <1>3

\* The header after a call of log_write.
LEMMA HeaderOfWrite ==
  ASSUME Inv, NEW p \in Procs, NEW b \in Blocks, WriteBlock(p, b)
  PROVE  /\ lh' \in Seq(Blocks) /\ IsInjective(lh')
         /\ Len(lh') \in {Len(lh), Len(lh) + 1}
         /\ Len(lh') <= LOGSIZE /\ Len(lh') <= NLOG - 1
         /\ \A i \in 1 .. Len(lh) : lh'[i] = lh[i]
         /\ \A i \in 1 .. Len(lh') : i \in 1 .. Len(lh) \/ lh'[i] = b
         /\ Contains(lh', b)
         /\ \A c \in Blocks : Contains(lh, c) => Contains(lh', c)
<1> USE Numbers
<1>1. lh \in Seq(Blocks) /\ IsInjective(lh) /\ Len(lh) \in Nat
  BY LenProperties DEF Inv, TypeOK
<1>2. ~(Len(lh) >= LOGSIZE) /\ ~(Len(lh) >= NLOG - 1)
  BY DEF WriteBlock, LogFull
<1>3. CASE Contains(lh, b)
  <2>1. lh' = lh BY <1>3 DEF WriteBlock
  <2> QED BY <1>1, <1>2, <1>3, <2>1
<1>4. CASE ~Contains(lh, b)
  <2>1. lh' = Append(lh, b) BY <1>4 DEF WriteBlock
  <2>2. /\ lh' \in Seq(Blocks) /\ IsInjective(lh')
        /\ Len(lh') = Len(lh) + 1 /\ lh'[Len(lh) + 1] = b
        /\ \A i \in 1 .. Len(lh) : lh'[i] = lh[i]
    BY <1>1, <1>4, <2>1, AppendNew
  <2> QED BY <1>1, <1>2, <2>2 DEF Contains
<1> QED BY <1>3, <1>4

\* There are finitely many open calls of begin_op.
LEMMA OpenCallsFinite == IsFiniteSet(OpenCalls) /\ Cardinality(OpenCalls) \in Nat
<1>1. IsFiniteSet(1 .. 2)
  <2>1. IsFiniteSet({1}) BY FS_Singleton
  <2>2. 1 .. 2 = {1} \cup {2} OBVIOUS
  <2> QED BY <2>1, <2>2, FS_AddElement
<1>2. IsFiniteSet(Procs \X (1 .. 2)) BY <1>1, LogAssumption, FS_Product
<1>3. OpenCalls \in SUBSET (Procs \X (1 .. 2)) BY DEF OpenCalls
<1> QED BY <1>2, <1>3, FS_Subset, FS_CardinalityType

\* A process that writes runs within its operation, outside every commit.
LEMMA WritersOutsideCommit ==
  ASSUME Inv, NEW p \in Procs, depth[p] # 0
  PROVE  phase = "idle" /\ ~committing /\ tail = 1 /\ head = <<>>
BY DEF Inv, ProcsInv, HeaderInv, TypeOK

\* The types of the variables of a disk block's contents.
LEMMA CurrentType ==
  ASSUME Inv, NEW b \in Blocks
  PROVE  Current(b) \in SUBSET Ops
BY DEF Inv, TypeOK, Current

\* The memory of a machine that has just started.
LEMMA EmptyMemory ==
  /\ <<>> \in Seq(Blocks) /\ IsInjective(<<>>) /\ Len(<<>>) = 0
  /\ NoCache \in [Blocks -> [valid : BOOLEAN, dirty : BOOLEAN, data : SUBSET Ops]]
<1>1. <<>> \in Seq(Blocks) /\ Len(<<>>) = 0 BY EmptySeq
<1>2. IsInjective(<<>>) BY DEF IsInjective
<1>3. NoCache \in [Blocks -> [valid : BOOLEAN, dirty : BOOLEAN, data : SUBSET Ops]]
  BY DEF NoCache, NotCached
<1> QED BY <1>1, <1>2, <1>3

\* The initial state satisfies the invariant.
LEMMA LogInit == Init => Inv
<1> SUFFICES ASSUME Init PROVE Inv
  OBVIOUS
<1> USE DEF Init
<1>1. TypeOK
  <2>1. nextOp \in 1 .. MaxOps + 1 /\ crashes \in 0 .. MaxCrashes /\ tail \in 1 .. NLOG
    BY Numbers
  <2>2. /\ home \in [Blocks -> SUBSET Ops] /\ logged \in [1 .. NLOG - 1 -> SUBSET Ops]
        /\ op \in [Procs -> Ops \cup {NoOp}]
    BY DEF NoTx
  <2>3. /\ lh \in Seq(Blocks) /\ IsInjective(lh) /\ head \in Seq(Blocks)
        /\ buf \in [Blocks -> [valid : BOOLEAN, dirty : BOOLEAN, data : SUBSET Ops]]
    BY EmptyMemory
  <2> HIDE DEF Init
  <2>4. /\ pc \in [Procs -> {"run", "begin", "asleep", "commit"}]
        /\ depth \in [Procs -> 0 .. 2] /\ touched \in [Procs -> SUBSET Blocks]
        /\ outstanding \in Nat /\ phase \in Phases
    BY DEF Init, Phases
  <2>5. committing \in BOOLEAN BY DEF Init
  <2> QED BY <2>1, <2>2, <2>3, <2>4, <2>5 DEF TypeOK
<1>2. CleanIsOnDisk
  BY DEF CleanIsOnDisk, NoCache, NotCached
<1>3. ProcsInv
  <2>1. OpenCalls = {} BY DEF OpenCalls
  <2>2. Cardinality(OpenCalls) = 0 BY <2>1, FS_EmptySet
  <2> QED BY <2>2 DEF ProcsInv, MaxDepth, Recovering
<1>4. OpsInv
  BY DEF OpsInv, Waits, Unwritten, NoTx, NoOp, NoCache, NotCached, MaxDepth
<1>5. HeaderInv
  BY Numbers DEF HeaderInv, IsInjective
<1>6. BlocksInv
  BY DEF BlocksInv, Pinned, NoCache, NotCached, Recovering
<1>7. SpaceInv
  <2>1. InOp = {} BY DEF InOp, Writes, MaxDepth
  <2>2. Unused = {} BY <2>1 DEF Unused
  <2> QED BY <2>2, Numbers, FS_EmptySet DEF SpaceInv
<1> QED BY <1>1, <1>2, <1>3, <1>4, <1>5, <1>6, <1>7 DEF Inv

\* Every step keeps the types.
LEMMA TypeStep == Inv /\ [Next]_logVars => TypeOK'
<1> SUFFICES ASSUME Inv, [Next]_logVars PROVE TypeOK'
  OBVIOUS
<1> USE Numbers DEF procs, memory, durable, bounds
<1>0. TypeOK BY DEF Inv
<1>1. ASSUME NEW p \in Procs, CallOp(p) PROVE TypeOK'
  BY <1>0, <1>1 DEF TypeOK, CallOp, Ops
<1>2. ASSUME NEW p \in Procs, BeginSleeps(p) PROVE TypeOK'
  BY <1>0, <1>2 DEF TypeOK, BeginSleeps
<1>3. ASSUME NEW p \in Procs, BeginOp(p) PROVE TypeOK'
  <2>1. depth[p] + 1 \in 0 .. 2
    <3>1. depth[p] \in 0 .. 2 BY <1>0 DEF TypeOK
    <3>2. depth[p] < 2 BY <1>3, <3>1 DEF Inv, ProcsInv, MaxDepth, BeginOp
    <3> QED BY ONLY <3>1, <3>2
  <2> QED BY <1>0, <1>3, <2>1 DEF TypeOK, BeginOp
<1>4. ASSUME NEW p \in Procs, EndOp(p) PROVE TypeOK'
  <2>1. outstanding - 1 \in Nat
    <3>1. <<p, 1>> \in OpenCalls
      <4>1. depth[p] \in Nat /\ depth[p] > 0 BY <1>0, <1>4 DEF EndOp, TypeOK
      <4>2. 1 <= depth[p] /\ <<p, 1>> \in Procs \X (1 .. 2) BY <4>1
      <4> QED BY ONLY <4>2 DEF OpenCalls
    <3>2. outstanding # 0
      BY <3>1, FS_EmptySet, OpenCallsFinite DEF Inv, ProcsInv
    <3> QED BY <1>0, <3>2 DEF TypeOK
  <2>2. depth[p] - 1 \in 0 .. 2
    BY <1>0, <1>4 DEF EndOp, TypeOK
  <2>3. WakeupAnd(p, "run") \in [Procs -> {"run", "begin", "asleep", "commit"}]
    BY <1>0 DEF WakeupAnd, TypeOK
  <2> QED BY <1>0, <1>4, <2>1, <2>2, <2>3 DEF TypeOK, EndOp, Closed, Phases, NoOp
<1>5. ASSUME NEW p \in Procs, Release(p) PROVE TypeOK'
  <2>1. WakeupAnd(p, "run") \in [Procs -> {"run", "begin", "asleep", "commit"}]
    BY <1>0 DEF WakeupAnd, TypeOK
  <2> QED BY <1>0, <1>5, <2>1 DEF TypeOK, Release, Phases
<1>6. ASSUME NEW p \in Procs, NEW b \in Blocks, WriteBlock(p, b) PROVE TypeOK'
  <2>1. lh' \in Seq(Blocks) /\ IsInjective(lh')
    BY <1>6, HeaderOfWrite
  <2>2. Current(b) \cup {op[p]} \in SUBSET Ops
    <3>1. op[p] \in Ops
      BY <1>0, <1>6 DEF Inv, OpsInv, WriteBlock, Writes, TypeOK
    <3> QED BY <3>1, CurrentType
  <2> QED BY <1>0, <1>6, <2>1, <2>2 DEF TypeOK, WriteBlock, Dirty
<1>7. ASSUME NEW b \in Blocks, Bread(b) \/ Recycle(b) PROVE TypeOK'
  <2>1. CASE Bread(b) BY <1>0, <2>1 DEF TypeOK, Bread, Clean
  <2>2. CASE Recycle(b) BY <1>0, <2>2 DEF TypeOK, Recycle, NotCached
  <2> QED BY <1>7, <2>1, <2>2
<1>8. CASE WriteLog
  <2>1. tail \in 1 .. Len(lh) /\ tail \in 1 .. NLOG - 1 /\ lh[tail] \in Blocks
    BY <1>0, <1>8, LenProperties DEF Inv, HeaderInv, WriteLog, TypeOK
  <2>2. Current(lh[tail]) \in SUBSET Ops
    BY <2>1, CurrentType
  <2>3. tail' \in 1 .. NLOG /\ phase' \in Phases
    BY <1>0, <1>8, <2>1, LenProperties DEF WriteLog, Following, Phases, Inv, HeaderInv, TypeOK
  <2> QED BY <1>0, <1>8, <2>1, <2>2, <2>3 DEF TypeOK, WriteLog
<1>9. CASE WriteHead
  BY <1>0, <1>9 DEF TypeOK, WriteHead, Phases
<1>10. CASE InstallTrans
  <2>1. tail \in 1 .. Len(lh) /\ tail \in 1 .. NLOG - 1 /\ lh[tail] \in Blocks
    BY <1>0, <1>10, LenProperties DEF Inv, HeaderInv, InstallTrans, TypeOK
  <2>2. tail' \in 1 .. NLOG /\ phase' \in Phases
    BY <1>0, <1>10, <2>1, LenProperties DEF InstallTrans, Following, Phases, Inv, HeaderInv, TypeOK
  <2> QED BY <1>0, <1>10, <2>1, <2>2 DEF TypeOK, InstallTrans, Clean
<1>11. CASE Erase
  BY <1>0, <1>11, EmptySeq DEF TypeOK, Erase, Phases, IsInjective
<1>12. CASE ReadHead
  <2>1. phase' \in Phases BY <1>12 DEF ReadHead, Phases
  <2>2. lh' \in Seq(Blocks) /\ IsInjective(lh')
    BY <1>0, <1>12 DEF TypeOK, ReadHead, Inv, HeaderInv
  <2> QED BY <1>0, <1>12, <2>1, <2>2 DEF TypeOK, ReadHead
<1>13. CASE Crash
  <2>1. crashes' \in 0 .. MaxCrashes /\ tail' \in 1 .. NLOG
    BY <1>0, <1>13 DEF TypeOK, Crash
  <2>2. op' \in [Procs -> Ops \cup {NoOp}]
    BY <1>13 DEF Crash, NoTx
  <2>3. /\ lh' \in Seq(Blocks) /\ IsInjective(lh')
        /\ buf' \in [Blocks -> [valid : BOOLEAN, dirty : BOOLEAN, data : SUBSET Ops]]
    BY <1>13, EmptyMemory DEF Crash
  <2>4. /\ pc' \in [Procs -> {"run", "begin", "asleep", "commit"}]
        /\ depth' \in [Procs -> 0 .. 2] /\ touched' \in [Procs -> SUBSET Blocks]
        /\ outstanding' \in Nat /\ phase' \in Phases
    BY <1>13 DEF Crash, Phases
  <2>5. committing' \in BOOLEAN BY <1>13 DEF Crash
  <2>6. home' = home /\ logged' = logged /\ head' = head /\ nextOp' = nextOp
    BY <1>13 DEF Crash
  <2> QED BY <1>0, <2>1, <2>2, <2>3, <2>4, <2>5, <2>6 DEF TypeOK
<1>14. CASE UNCHANGED logVars
  BY <1>0, <1>14 DEF TypeOK, logVars
<1> QED BY <1>1, <1>2, <1>3, <1>4, <1>5, <1>6, <1>7, <1>8, <1>9, <1>10, <1>11, <1>12,
           <1>13, <1>14 DEF Next, Begins, Disk

\* An open call counts once: begin_op adds one pair, end_op takes it away.
LEMMA OpenCallsOfBegin ==
  ASSUME Inv, NEW p \in Procs, BeginOp(p)
  PROVE  outstanding' = Cardinality(OpenCalls')
<1>1. depth[p] \in Nat /\ depth[p] + 1 \in 1 .. 2 /\ depth \in [Procs -> 0 .. 2]
  <2>1. depth \in [Procs -> 0 .. 2] BY DEF Inv, TypeOK
  <2>2. depth[p] \in 0 .. 2 BY ONLY <2>1
  <2>3. depth[p] < 2 BY <2>2 DEF Inv, ProcsInv, MaxDepth, BeginOp
  <2> QED BY ONLY <2>1, <2>2, <2>3
<1>2. <<p, depth[p] + 1>> \notin OpenCalls
  BY <1>1 DEF OpenCalls
<1>3. OpenCalls' = OpenCalls \cup {<<p, depth[p] + 1>>}
  BY <1>1 DEF OpenCalls, BeginOp
<1>4. Cardinality(OpenCalls') = Cardinality(OpenCalls) + 1
  BY <1>2, <1>3, OpenCallsFinite, FS_AddElement
<1> QED BY <1>4 DEF Inv, ProcsInv, BeginOp

\* And of one that ends.
LEMMA OpenCallsOfEnd ==
  ASSUME Inv, NEW p \in Procs, EndOp(p)
  PROVE  /\ outstanding' = Cardinality(OpenCalls')
         /\ outstanding = 1 => \A q \in Procs : depth'[q] = 0
<1>1. depth[p] \in 1 .. 2 /\ depth \in [Procs -> 0 .. 2]
  BY DEF Inv, TypeOK, EndOp
<1>2. <<p, depth[p]>> \in OpenCalls
  BY <1>1 DEF OpenCalls
<1>3. OpenCalls' = OpenCalls \ {<<p, depth[p]>>}
  BY <1>1 DEF OpenCalls, EndOp, Closed
<1>4. /\ Cardinality(OpenCalls') = Cardinality(OpenCalls) - 1
      /\ IsFiniteSet(OpenCalls')
  BY <1>2, <1>3, OpenCallsFinite, FS_RemoveElement
<1>5. outstanding' = Cardinality(OpenCalls')
  BY <1>4 DEF Inv, ProcsInv, EndOp, Closed
<1>6. ASSUME outstanding = 1, NEW q \in Procs PROVE depth'[q] = 0
  <2>1. OpenCalls' = {}
    BY <1>4, <1>6, FS_EmptySet DEF Inv, ProcsInv
  <2>2. <<q, 1>> \notin OpenCalls'
    BY <2>1
  <2>3. depth'[q] \in 0 .. 2
    BY <1>1 DEF EndOp, Closed
  <2> QED BY <2>2, <2>3 DEF OpenCalls
<1> QED BY <1>5, <1>6

\* Every step keeps the count of open calls, and commits only when there is none.
LEMMA ProcsStep == Inv /\ [Next]_logVars => ProcsInv'
<1> SUFFICES ASSUME Inv, [Next]_logVars PROVE ProcsInv'
  OBVIOUS
<1> USE Numbers DEF procs, memory, durable, bounds, MaxDepth, Recovering
<1>0. TypeOK /\ ProcsInv BY DEF Inv
<1>a. ASSUME depth' = depth, outstanding' = outstanding
      PROVE  outstanding' = Cardinality(OpenCalls')
  BY <1>0, <1>a DEF ProcsInv, OpenCalls
<1>1. ASSUME NEW p \in Procs, CallOp(p) PROVE ProcsInv'
  BY <1>0, <1>1, <1>a DEF TypeOK, ProcsInv, CallOp
<1>2. ASSUME NEW p \in Procs, BeginSleeps(p) PROVE ProcsInv'
  BY <1>0, <1>2, <1>a DEF TypeOK, ProcsInv, BeginSleeps
<1>3. ASSUME NEW p \in Procs, BeginOp(p) PROVE ProcsInv'
  <2>1. phase = "idle" BY <1>0, <1>3 DEF ProcsInv, BeginOp
  <2>2. ASSUME NEW q \in Procs
        PROVE  /\ depth'[q] <= MaxDepth(q)
               /\ pc'[q] \in {"begin", "asleep"} => depth'[q] < MaxDepth(q)
    <3>1. depth[p] \in Nat /\ depth[p] < MaxDepth(p) /\ MaxDepth(p) \in Nat
      <4>1. pc[p] = "begin" BY <1>3 DEF BeginOp
      <4>2. depth[p] < MaxDepth(p) BY <1>0, <4>1 DEF ProcsInv
      <4>3. depth[p] \in 0 .. 2 BY <1>0 DEF TypeOK
      <4> QED BY <4>2, <4>3
    <3>2. /\ depth' = [depth EXCEPT ![p] = @ + 1] /\ DOMAIN depth = Procs
          /\ pc' = [pc EXCEPT ![p] = "run"] /\ DOMAIN pc = Procs
      BY <1>0, <1>3 DEF BeginOp, TypeOK
    <3>3. CASE q = p BY <3>1, <3>2, <3>3
    <3>4. CASE q # p BY <1>0, <3>2, <3>4 DEF ProcsInv
    <3> QED BY <3>3, <3>4
  <2>3. phase' = "idle" /\ ~committing'
    BY <1>0, <1>3, <2>1 DEF BeginOp, ProcsInv
  <2> QED BY <1>3, <2>2, <2>3, OpenCallsOfBegin DEF ProcsInv
<1>4. ASSUME NEW p \in Procs, EndOp(p) PROVE ProcsInv'
  <2>1. phase = "idle" /\ ~committing
    BY <1>0, <1>4, WritersOutsideCommit DEF EndOp, TypeOK
  <2>2. outstanding' = Cardinality(OpenCalls')
    BY <1>4, OpenCallsOfEnd
  <2>3. \A q \in Procs : depth'[q] <= depth[q] /\ depth'[q] <= MaxDepth(q)
    BY <1>0, <1>4 DEF EndOp, Closed, TypeOK, ProcsInv
  <2>4. CASE outstanding = 1
    <3>1. \A q \in Procs : depth'[q] = 0
      BY <1>4, <2>4, OpenCallsOfEnd
    <3> QED BY <1>0, <1>4, <2>1, <2>2, <2>4, <3>1 DEF EndOp, ProcsInv, TypeOK
  <2>5. CASE outstanding # 1
    <3>1. /\ phase' = "idle" /\ ~committing'
          /\ \A q \in Procs : pc'[q] \in {"begin", "asleep"} => pc[q] \in {"begin", "asleep"}
      BY <1>0, <1>4, <2>1, <2>5 DEF EndOp, WakeupAnd, TypeOK
    <3>2. \A q \in Procs : pc'[q] \in {"begin", "asleep"} => depth'[q] < MaxDepth(q)
      BY <1>0, <2>3, <3>1, <1>4 DEF ProcsInv, TypeOK, EndOp, Closed
    <3> QED BY <2>2, <2>3, <3>1, <3>2 DEF ProcsInv
  <2> QED BY <2>4, <2>5
<1>5. ASSUME NEW p \in Procs, Release(p) PROVE ProcsInv'
  BY <1>0, <1>5, <1>a DEF Release, TypeOK, ProcsInv, WakeupAnd
<1>6. ASSUME NEW p \in Procs, NEW b \in Blocks, WriteBlock(p, b) PROVE ProcsInv'
  BY <1>0, <1>6, <1>a DEF WriteBlock, TypeOK, ProcsInv
<1>7. ASSUME NEW b \in Blocks, Bread(b) \/ Recycle(b) PROVE ProcsInv'
  BY <1>0, <1>7, <1>a DEF Bread, Recycle, ProcsInv
<1>8. CASE WriteLog
  BY <1>0, <1>8, <1>a DEF WriteLog, Following, ProcsInv
<1>9. CASE WriteHead
  BY <1>0, <1>9, <1>a DEF WriteHead, ProcsInv
<1>10. CASE InstallTrans
  BY <1>0, <1>10, <1>a DEF InstallTrans, Following, ProcsInv
<1>11. CASE Erase
  BY <1>0, <1>11, <1>a DEF Erase, ProcsInv, TypeOK
<1>12. CASE ReadHead
  BY <1>0, <1>12, <1>a DEF ReadHead, ProcsInv
<1>13. CASE Crash
  <2>1. OpenCalls' = {} BY <1>13 DEF OpenCalls, Crash
  <2>2. outstanding' = Cardinality(OpenCalls') BY <1>13, <2>1, FS_EmptySet DEF Crash
  <2> QED BY <1>13, <2>2 DEF Crash, ProcsInv
<1>14. CASE UNCHANGED logVars
  BY <1>0, <1>14, <1>a DEF ProcsInv, logVars
<1> QED BY <1>1, <1>2, <1>3, <1>4, <1>5, <1>6, <1>7, <1>8, <1>9, <1>10, <1>11, <1>12,
           <1>13, <1>14 DEF Next, Begins, Disk

\* Every step keeps the two headers as the phase says.
LEMMA HeaderStep == Inv /\ [Next]_logVars => HeaderInv'
<1> SUFFICES ASSUME Inv, [Next]_logVars PROVE HeaderInv'
  OBVIOUS
<1> USE Numbers DEF procs, memory, durable, bounds
<1>0. /\ TypeOK /\ HeaderInv /\ ProcsInv
      /\ Len(lh) \in Nat /\ (Len(lh) = 0 <=> lh = <<>>)
      /\ Len(head) \in Nat /\ (Len(head) = 0 <=> head = <<>>)
      /\ Len(<<>>) = 0 /\ IsInjective(<<>>)
  BY LenProperties, EmptySeq, EmptyMemory DEF Inv, TypeOK
<1>1. ASSUME NEW p \in Procs, CallOp(p) \/ BeginSleeps(p) \/ BeginOp(p) PROVE HeaderInv'
  BY <1>0, <1>1 DEF HeaderInv, CallOp, BeginSleeps, BeginOp
<1>4. ASSUME NEW p \in Procs, EndOp(p) PROVE HeaderInv'
  <2>1. phase = "idle" /\ ~committing /\ tail = 1 /\ head = <<>>
    BY <1>0, <1>4, WritersOutsideCommit DEF EndOp, TypeOK
  <2> QED BY <1>0, <1>4, <2>1 DEF EndOp, HeaderInv
<1>5. ASSUME NEW p \in Procs, Release(p) PROVE HeaderInv'
  BY <1>0, <1>5 DEF Release, HeaderInv
<1>6. ASSUME NEW p \in Procs, NEW b \in Blocks, WriteBlock(p, b) PROVE HeaderInv'
  <2>1. phase = "idle" /\ ~committing /\ tail = 1 /\ head = <<>>
    BY <1>0, <1>6, WritersOutsideCommit DEF WriteBlock, Writes, MaxDepth, TypeOK
  <2>2. phase' = phase /\ tail' = tail /\ head' = head
    BY <1>6 DEF WriteBlock
  <2>3. Len(lh') <= LOGSIZE /\ Len(lh') <= NLOG - 1
    BY <1>6, HeaderOfWrite
  <2> QED BY <1>0, <2>1, <2>2, <2>3 DEF HeaderInv
<1>7. ASSUME NEW b \in Blocks, Bread(b) \/ Recycle(b) PROVE HeaderInv'
  BY <1>0, <1>7 DEF Bread, Recycle, HeaderInv
<1>8. CASE WriteLog
  BY <1>0, <1>8 DEF WriteLog, Following, HeaderInv, TypeOK
<1>9. CASE WriteHead
  BY <1>0, <1>9 DEF WriteHead, HeaderInv, TypeOK
<1>10. CASE InstallTrans
  BY <1>0, <1>10 DEF InstallTrans, Following, HeaderInv, TypeOK
<1>11. CASE Erase
  BY <1>0, <1>11 DEF Erase, HeaderInv
<1>12. CASE ReadHead
  BY <1>0, <1>12 DEF ReadHead, HeaderInv
<1>13. CASE Crash
  BY <1>0, <1>13 DEF Crash, HeaderInv
<1>14. CASE UNCHANGED logVars
  BY <1>0, <1>14 DEF HeaderInv, logVars
<1> QED BY <1>1, <1>4, <1>5, <1>6, <1>7, <1>8, <1>9, <1>10, <1>11, <1>12,
           <1>13, <1>14 DEF Next, Begins, Disk

\* Every step keeps the cache and the disk in agreement.
LEMMA CleanStep == Inv /\ [Next]_logVars => CleanIsOnDisk'
<1> SUFFICES ASSUME Inv, [Next]_logVars PROVE CleanIsOnDisk'
  OBVIOUS
<1> USE DEF procs, memory, durable, bounds
<1>0. TypeOK /\ CleanIsOnDisk /\ HeaderInv BY DEF Inv
<1>1. ASSUME NEW p \in Procs, Begins(p) \/ EndOp(p) \/ Release(p) PROVE CleanIsOnDisk'
  BY <1>0, <1>1 DEF CleanIsOnDisk, Begins, CallOp, BeginSleeps, BeginOp, EndOp, Release, Closed
<1>6. ASSUME NEW p \in Procs, NEW b \in Blocks, WriteBlock(p, b) PROVE CleanIsOnDisk'
  <2>1. Contains(lh', b) /\ \A c \in Blocks : Contains(lh, c) => Contains(lh', c)
    BY <1>6, HeaderOfWrite
  <2>2. buf' = [buf EXCEPT ![b] = Dirty(Current(b) \cup {op[p]})] /\ home' = home
    BY <1>6 DEF WriteBlock
  <2> QED BY <1>0, <2>1, <2>2 DEF CleanIsOnDisk, Dirty, TypeOK
<1>7. ASSUME NEW b \in Blocks, Bread(b) \/ Recycle(b) PROVE CleanIsOnDisk'
  <2>1. home' = home /\ lh' = lh BY <1>7 DEF Bread, Recycle
  <2>2. CASE Bread(b) BY <1>0, <2>1, <2>2 DEF Bread, Clean, CleanIsOnDisk, TypeOK
  <2>3. CASE Recycle(b) BY <1>0, <2>1, <2>3 DEF Recycle, NotCached, CleanIsOnDisk, TypeOK
  <2> QED BY <1>7, <2>2, <2>3
<1>8. CASE WriteLog \/ WriteHead
  BY <1>0, <1>8 DEF WriteLog, WriteHead, CleanIsOnDisk
<1>10. CASE InstallTrans
  <2>1. /\ home' = [home EXCEPT ![lh[tail]] = logged[tail]]
        /\ buf' = [buf EXCEPT ![lh[tail]] = Clean(logged[tail])] /\ lh' = lh
    BY <1>10 DEF InstallTrans
  <2>2. home \in [Blocks -> SUBSET Ops] /\ DOMAIN buf = Blocks
    BY <1>0 DEF TypeOK
  <2> QED BY <1>0, <2>1, <2>2 DEF CleanIsOnDisk, Clean
<1>11. CASE Erase
  <2>1. \A b \in Blocks : ~Pinned(b)
    BY <1>11 DEF Inv, BlocksInv, Erase
  <2> QED BY <1>0, <1>11, <2>1 DEF Erase, CleanIsOnDisk, Pinned, TypeOK
<1>12. CASE ReadHead
  <2>1. \A b \in Blocks : ~Pinned(b)
    BY <1>12 DEF Inv, BlocksInv, ProcsInv, ReadHead, Recovering
  <2> QED BY <1>0, <1>12, <2>1 DEF ReadHead, CleanIsOnDisk, Pinned, TypeOK
<1>13. CASE Crash
  BY <1>13 DEF Crash, CleanIsOnDisk, NoCache, NotCached
<1>14. CASE UNCHANGED logVars
  BY <1>0, <1>14 DEF CleanIsOnDisk, logVars
<1> QED BY <1>1, <1>6, <1>7, <1>8, <1>10, <1>11, <1>12, <1>13, <1>14 DEF Next, Disk

\* A pinned block is in the header.
LEMMA PinnedInHeader ==
  ASSUME Inv, NEW b \in Blocks, Pinned(b)
  PROVE  \E i \in 1 .. Len(lh) : lh[i] = b
BY DEF Inv, CleanIsOnDisk, Pinned, Contains

\* Every step moves the blocks of the header from the cache to the log and home as
\* the phase says.
LEMMA BlocksStep == Inv /\ [Next]_logVars => BlocksInv'
<1> SUFFICES ASSUME Inv, [Next]_logVars PROVE BlocksInv'
  OBVIOUS
<1> USE DEF procs, memory, durable, bounds
<1>0. /\ TypeOK /\ CleanIsOnDisk /\ HeaderInv /\ BlocksInv /\ ProcsInv /\ Len(lh) \in Nat
      /\ \A i \in 1 .. Len(lh) : lh[i] \in Blocks
      /\ \A i, j \in 1 .. Len(lh) : lh[i] = lh[j] => i = j
  BY LenProperties DEF Inv, TypeOK, IsInjective
<1>1. ASSUME NEW p \in Procs, Begins(p) PROVE BlocksInv'
  BY <1>0, <1>1 DEF BlocksInv, Begins, CallOp, BeginSleeps, BeginOp, Recovering, Pinned
<1>4. ASSUME NEW p \in Procs, EndOp(p) PROVE BlocksInv'
  <2>1. phase = "idle" /\ ~committing /\ tail = 1
    BY <1>0, <1>4, WritersOutsideCommit DEF EndOp, TypeOK
  <2>2. lh' = lh /\ buf' = buf /\ home' = home /\ logged' = logged /\ tail' = tail
    BY <1>4 DEF EndOp
  <2>3. CASE outstanding = 1
    <3>1. committing' = TRUE /\ phase' = IF lh = <<>> THEN "release" ELSE "write_log"
      BY <1>4, <2>3 DEF EndOp
    <3>2. lh = <<>> => \A b \in Blocks : ~Pinned(b)
      BY PinnedInHeader, EmptySeq
    <3> QED BY <1>0, <2>1, <2>2, <3>1, <3>2 DEF BlocksInv, Recovering, Pinned
  <2>4. CASE outstanding # 1
    <3>1. committing' = committing /\ phase' = phase
      BY <1>4, <2>4 DEF EndOp
    <3> QED BY <1>0, <2>1, <2>2, <3>1 DEF BlocksInv, Recovering, Pinned
  <2> QED BY <2>3, <2>4
<1>5. ASSUME NEW p \in Procs, Release(p) PROVE BlocksInv'
  <2>1. lh = <<>> /\ lh' = lh /\ phase' = "idle" /\ buf' = buf /\ Len(lh) = 0
    BY <1>0, <1>5, EmptySeq DEF Release, HeaderInv
  <2> QED BY <2>1 DEF BlocksInv, Recovering
<1>6. ASSUME NEW p \in Procs, NEW b \in Blocks, WriteBlock(p, b) PROVE BlocksInv'
  <2>1. phase = "idle" /\ ~committing /\ phase' = phase
    BY <1>0, <1>6, WritersOutsideCommit DEF WriteBlock, Writes, MaxDepth, TypeOK
  <2>2. \A i \in 1 .. Len(lh') : (i \in 1 .. Len(lh) /\ lh'[i] = lh[i]) \/ lh'[i] = b
    BY <1>6, HeaderOfWrite
  <2>3. buf' = [buf EXCEPT ![b] = Dirty(Current(b) \cup {op[p]})] /\ DOMAIN buf = Blocks
    BY <1>0, <1>6 DEF WriteBlock, TypeOK
  <2>4. \A c \in Blocks : Pinned(c) \/ c = b => Pinned(c)'
    BY <2>3 DEF Pinned, Dirty
  <2>5. \A i \in 1 .. Len(lh') : Pinned(lh[i])'
    BY <1>0, <2>1, <2>2, <2>4 DEF BlocksInv
  <2> QED BY <2>1, <2>5 DEF BlocksInv, Recovering
<1>7. ASSUME NEW b \in Blocks, Bread(b) \/ Recycle(b) PROVE BlocksInv'
  <2>1. /\ lh' = lh /\ home' = home /\ logged' = logged /\ tail' = tail
        /\ phase' = phase /\ committing' = committing
    BY <1>7 DEF Bread, Recycle
  <2>2. ~Pinned(b) /\ ~Pinned(b)'
    BY <1>0, <1>7 DEF Bread, Recycle, Pinned, Clean, NotCached, TypeOK
  <2>3. \A c \in Blocks : c # b => buf'[c] = buf[c]
    BY <1>0, <1>7 DEF Bread, Recycle, TypeOK
  <2>4. \A c \in Blocks : Pinned(c)' <=> Pinned(c)
    BY <2>2, <2>3 DEF Pinned
  <2>5. \A c \in Blocks : Pinned(c) => buf'[c] = buf[c]
    BY <2>2, <2>3
  <2>6. ASSUME NEW i \in 1 .. Len(lh)
        PROVE  /\ Pinned(lh[i])' <=> Pinned(lh[i])
               /\ Pinned(lh[i]) => buf'[lh[i]] = buf[lh[i]]
    BY <1>0, <2>1, <2>4, <2>5
  <2>7. phase \in {"write_log", "write_head"} => \A i \in 1 .. Len(lh) : Pinned(lh[i])
    BY <1>0 DEF BlocksInv
  <2> QED BY <1>0, <2>1, <2>4, <2>6, <2>7 DEF BlocksInv, Recovering
<1>8. CASE WriteLog
  <2>1. /\ lh' = lh /\ home' = home /\ buf' = buf /\ committing' = committing /\ committing
        /\ logged' = [logged EXCEPT ![tail] = Current(lh[tail])]
        /\ phase = "write_log" /\ DOMAIN logged = 1 .. NLOG - 1
        /\ IF tail < Len(lh) THEN tail' = tail + 1 /\ phase' = "write_log"
                             ELSE tail' = 1 /\ phase' = "write_head"
    BY <1>0, <1>8 DEF WriteLog, Following, ProcsInv, TypeOK
  <2>2. tail \in 1 .. Len(lh) /\ Len(lh) <= NLOG - 1
    BY <1>0, <2>1 DEF HeaderInv, TypeOK
  <2>3. \A i \in 1 .. Len(lh) : Pinned(lh[i])
    BY <1>0, <2>1 DEF BlocksInv
  <2>4. ASSUME NEW i \in 1 .. Len(lh), i <= tail
        PROVE  logged'[i] = buf[lh[i]].data
    <3>1. CASE i = tail
      BY <2>1, <2>2, <2>3, <3>1, Numbers DEF Current, Pinned
    <3>2. CASE i # tail
      BY <1>0, <2>1, <2>2, <2>4, <3>2, Numbers DEF BlocksInv
    <3> QED BY <3>1, <3>2
  <2>5. tail < Len(lh) \/ tail = Len(lh) BY <1>0, <2>2
  <2>6. \A i \in 1 .. Len(lh) : phase' = "write_head" \/ i < tail' => logged'[i] = buf[lh[i]].data
    BY <1>0, <2>1, <2>2, <2>4, <2>5
  <2> QED BY <1>0, <2>1, <2>3, <2>6 DEF BlocksInv, Pinned, Recovering
<1>9. CASE WriteHead
  <2>1. /\ lh' = lh /\ home' = home /\ buf' = buf /\ logged' = logged /\ tail' = tail
        /\ committing' = committing /\ committing
        /\ phase = "write_head" /\ phase' = "install" /\ tail = 1
    BY <1>0, <1>9 DEF WriteHead, ProcsInv, HeaderInv
  <2> QED BY <1>0, <2>1 DEF BlocksInv, Pinned, Recovering
<1>10. CASE InstallTrans
  <2>1. /\ lh' = lh /\ logged' = logged /\ committing' = committing
        /\ phase = "install" /\ DOMAIN home = Blocks /\ DOMAIN buf = Blocks
        /\ home' = [home EXCEPT ![lh[tail]] = logged[tail]]
        /\ buf' = [buf EXCEPT ![lh[tail]] = Clean(logged[tail])]
        /\ IF tail < Len(lh) THEN tail' = tail + 1 /\ phase' = "install"
                             ELSE tail' = 1 /\ phase' = "erase"
    BY <1>0, <1>10 DEF InstallTrans, Following, TypeOK
  <2>2. tail \in 1 .. Len(lh)
    BY <1>0, <2>1 DEF HeaderInv, TypeOK
  <2>b. PICK b \in Blocks : b = lh[tail] BY <1>0, <2>2
  <2>3. /\ home'[b] = logged[tail] /\ ~Pinned(b)'
        /\ \A c \in Blocks : c # b => home'[c] = home[c] /\ buf'[c] = buf[c]
    BY <2>1, <2>b DEF Pinned, Clean
  <2>4. ASSUME NEW i \in 1 .. Len(lh), i # tail
        PROVE  lh[i] # b /\ home'[lh[i]] = home[lh[i]] /\ buf'[lh[i]] = buf[lh[i]]
    BY <1>0, <2>2, <2>3, <2>4, <2>b
  <2>5. ASSUME NEW i \in 1 .. Len(lh), i <= tail
        PROVE  home'[lh[i]] = logged[i] /\ ~Pinned(lh[i])'
    <3>1. CASE i = tail BY <2>1, <2>3, <2>b, <3>1 DEF Pinned
    <3>2. CASE i # tail BY <1>0, <2>1, <2>2, <2>4, <2>5, <3>2 DEF BlocksInv, Pinned
    <3> QED BY <3>1, <3>2
  <2>6. ASSUME NEW i \in 1 .. Len(lh), i > tail, committing
        PROVE  Pinned(lh[i])' /\ buf'[lh[i]].data = logged[i]
    BY <1>0, <2>1, <2>2, <2>4, <2>6 DEF BlocksInv, Pinned
  <2>7. \A c \in Blocks : Pinned(c)' => Pinned(c)
    BY <2>3 DEF Pinned
  <2>8. CASE tail < Len(lh)
    <3>1. tail' = tail + 1 /\ phase' = "install" BY <2>1, <2>8
    <3> QED BY <1>0, <2>1, <2>2, <2>5, <2>6, <2>7, <3>1 DEF BlocksInv, Recovering
  <2>9. CASE ~(tail < Len(lh))
    <3>1. tail' = 1 /\ phase' = "erase" /\ tail = Len(lh) BY <1>0, <2>1, <2>2, <2>9
    <3>2. \A i \in 1 .. Len(lh) : home'[lh[i]] = logged[i] /\ ~Pinned(lh[i])'
      BY <1>0, <2>2, <2>5, <3>1
    <3>3. \A c \in Blocks : ~Pinned(c)'
      BY <2>1, <2>7, <3>2, PinnedInHeader
    <3> QED BY <2>1, <3>1, <3>2, <3>3 DEF BlocksInv, Recovering
  <2> QED BY <2>8, <2>9
<1>11. CASE Erase
  BY <1>0, <1>11, EmptySeq DEF Erase, BlocksInv, Pinned, Recovering
<1>12. CASE ReadHead
  <2>1. /\ phase = "read_head" /\ ~committing /\ committing' = committing
        /\ lh' = head /\ buf' = buf /\ tail' = tail /\ tail = 1
        /\ phase' = IF head = <<>> THEN "erase" ELSE "install"
    BY <1>0, <1>12 DEF ReadHead, ProcsInv, HeaderInv
  <2>2. \A b \in Blocks : ~Pinned(b) /\ ~Pinned(b)'
    BY <1>0, <2>1 DEF BlocksInv, Recovering, Pinned
  <2> QED BY <2>1, <2>2, EmptySeq DEF BlocksInv, Recovering
<1>13. CASE Crash
  BY <1>13, EmptySeq DEF Crash, BlocksInv, Pinned, NoCache, NotCached, Recovering
<1>14. CASE UNCHANGED logVars
  BY <1>0, <1>14 DEF BlocksInv, logVars, Pinned, Recovering
<1> QED BY <1>1, <1>4, <1>5, <1>6, <1>7, <1>8, <1>9, <1>10, <1>11, <1>12, <1>13, <1>14
        DEF Next, Disk

\* A step that is no call of log_write.
Quiet == \/ \E p \in Procs : Begins(p) \/ EndOp(p) \/ Release(p)
         \/ \E b \in Blocks : Bread(b) \/ Recycle(b)
         \/ Disk \/ Crash
         \/ UNCHANGED logVars

\* Only its own writes bring an operation into a block; the cache, the log and
\* home blocks are copied from each other.
LEMMA UnwrittenStep ==
  ASSUME Inv, Quiet, NEW o, Unwritten(o)
  PROVE  Unwritten(o)'
<1> USE DEF procs, memory, durable, bounds
<1>0. TypeOK /\ HeaderInv BY DEF Inv
<1>a. \A b \in Blocks : o \notin Current(b)
  BY DEF Unwritten, Current
<1>1. ASSUME NEW p \in Procs, Begins(p) \/ EndOp(p) \/ Release(p) PROVE Unwritten(o)'
  BY <1>1 DEF Unwritten, Begins, CallOp, BeginSleeps, BeginOp, EndOp, Release, Closed
<1>7. ASSUME NEW b \in Blocks, Bread(b) \/ Recycle(b) PROVE Unwritten(o)'
  <2>1. home' = home /\ logged' = logged /\ DOMAIN buf = Blocks
    BY <1>0, <1>7 DEF Bread, Recycle, TypeOK
  <2>2. CASE Bread(b) BY <2>1, <2>2 DEF Bread, Clean, Unwritten
  <2>3. CASE Recycle(b) BY <2>1, <2>3 DEF Recycle, NotCached, Unwritten
  <2> QED BY <1>7, <2>2, <2>3
<1>8. CASE WriteLog
  <2>1. /\ home' = home /\ buf' = buf
        /\ logged' = [logged EXCEPT ![tail] = Current(lh[tail])]
        /\ DOMAIN logged = 1 .. NLOG - 1
    BY <1>0, <1>8 DEF WriteLog, TypeOK
  <2>2. lh[tail] \in Blocks
    BY <1>0, <1>8, LenProperties DEF WriteLog, HeaderInv, TypeOK
  <2> QED BY <1>a, <2>1, <2>2 DEF Unwritten
<1>10. CASE InstallTrans
  <2>1. /\ logged' = logged
        /\ home' = [home EXCEPT ![lh[tail]] = logged[tail]] /\ DOMAIN home = Blocks
        /\ buf' = [buf EXCEPT ![lh[tail]] = Clean(logged[tail])] /\ DOMAIN buf = Blocks
    BY <1>0, <1>10 DEF InstallTrans, TypeOK
  <2>2. tail \in 1 .. NLOG - 1
    BY <1>0, <1>10, LenProperties, Numbers DEF InstallTrans, HeaderInv, TypeOK
  <2>3. o \notin logged[tail] BY <2>2 DEF Unwritten
  <2> QED BY <2>1, <2>3 DEF Unwritten, Clean
<1>11. CASE WriteHead \/ Erase \/ ReadHead
  BY <1>11 DEF WriteHead, Erase, ReadHead, Unwritten
<1>13. CASE Crash
  BY <1>13 DEF Crash, NoCache, NotCached, Unwritten
<1>14. CASE UNCHANGED logVars
  BY <1>14 DEF logVars, Unwritten
<1> QED BY <1>1, <1>7, <1>8, <1>10, <1>11, <1>13, <1>14 DEF Quiet, Disk

\* Steps that leave the processes alone keep what OpsInv says of them.
LEMMA OpsUnchanged ==
  ASSUME Inv, Quiet,
         \A p \in Procs : /\ op'[p] = op[p] \/ op'[p] = NoOp
                          /\ Waits(p)' => Waits(p) /\ op'[p] = op[p]
                          /\ depth'[p] = MaxDepth(p) =>
                               op'[p] = op[p] /\ (Waits(p) \/ depth[p] = MaxDepth(p)),
         nextOp' = nextOp
  PROVE  OpsInv'
<1> USE DEF NoOp
<1>0. OpsInv /\ nextOp \in 1 .. MaxOps + 1 /\ op \in [Procs -> Ops \cup {NoOp}] BY DEF Inv, TypeOK
<1>1. ASSUME NEW p \in Procs PROVE op'[p] < nextOp'
  BY <1>0, Numbers DEF OpsInv
<1>2. ASSUME NEW p \in Procs, Waits(p)' \/ depth'[p] = MaxDepth(p) PROVE op'[p] # NoOp
  BY <1>0, <1>2 DEF OpsInv
<1>3. ASSUME NEW p \in Procs, Waits(p)' PROVE Unwritten(op[p])'
  <2>1. PICK o : o = op[p] OBVIOUS
  <2>2. Unwritten(o) BY <1>0, <1>3, <2>1 DEF OpsInv
  <2>3. Unwritten(o)' BY <2>2, UnwrittenStep
  <2> QED BY <1>3, <2>1, <2>3
<1>4. ASSUME NEW p \in Procs, NEW q \in Procs, op'[p] = op'[q] PROVE p = q \/ op'[p] = NoOp
  BY <1>0, <1>4 DEF OpsInv
<1>5. ASSUME NEW o \in Ops, o >= nextOp' PROVE Unwritten(o)'
  <2>1. Unwritten(o) BY <1>0, <1>5 DEF OpsInv
  <2> QED BY <2>1, UnwrittenStep
<1> QED BY <1>1, <1>2, <1>3, <1>4, <1>5 DEF OpsInv

\* Every step keeps operations apart, and an operation unwritten until it runs.
LEMMA OpsStep == Inv /\ [Next]_logVars => OpsInv'
<1> SUFFICES ASSUME Inv, [Next]_logVars PROVE OpsInv'
  OBVIOUS
<1> USE DEF procs, memory, durable, bounds
<1>0. TypeOK /\ OpsInv /\ ProcsInv BY DEF Inv
<1>a. \A p \in Procs : depth[p] \in 0 .. 2 /\ MaxDepth(p) \in 1 .. 2 /\ depth[p] <= MaxDepth(p)
  BY <1>0 DEF TypeOK, MaxDepth, ProcsInv
<1>1. ASSUME NEW p \in Procs, CallOp(p) PROVE OpsInv'
  <2>1. /\ nextOp \in Ops /\ nextOp' = nextOp + 1 /\ nextOp \in Nat \ {0}
        /\ op' = [op EXCEPT ![p] = nextOp] /\ DOMAIN op = Procs
        /\ pc' = [pc EXCEPT ![p] = "begin"] /\ DOMAIN pc = Procs
        /\ depth' = depth /\ depth[p] < MaxDepth(p)
        /\ UNCHANGED <<home, buf, logged>>
    BY <1>0, <1>1 DEF TypeOK, CallOp, Ops
  <2>2. \A o : Unwritten(o)' <=> Unwritten(o)
    BY <2>1 DEF Unwritten
  <2>3. Unwritten(nextOp) /\ \A o \in Ops : o >= nextOp => Unwritten(o)
    <3>1. \A o \in Ops : o >= nextOp => Unwritten(o) BY <1>0 DEF OpsInv
    <3>2. nextOp >= nextOp BY <2>1
    <3> QED BY <2>1, <3>1, <3>2
  <2>4. \A q \in Procs : op[q] \in Nat /\ op[q] < nextOp
    BY <1>0 DEF OpsInv, TypeOK, Ops, NoOp
  <2>5. ASSUME NEW q \in Procs
        PROVE  /\ op'[q] < nextOp'
               /\ Waits(q)' \/ depth'[q] = MaxDepth(q) => op'[q] # NoOp
               /\ Waits(q)' => Unwritten(op[q])'
    <3>1. CASE q = p
      <4>1. op'[q] = nextOp BY <2>1, <3>1
      <4>2. PICK o : o = nextOp OBVIOUS
      <4>3. Unwritten(o)' BY <2>2, <2>3, <4>2
      <4> QED BY <2>1, <4>1, <4>2, <4>3 DEF NoOp
    <3>2. CASE q # p
      <4>1. op'[q] = op[q] /\ pc'[q] = pc[q] BY <2>1, <3>2
      <4>2. PICK o : o = op[q] OBVIOUS
      <4>3. Waits(q)' => Unwritten(o)' BY <1>0, <2>2, <4>1, <4>2 DEF OpsInv, Waits
      <4>4. Waits(q)' \/ depth'[q] = MaxDepth(q) => op'[q] # NoOp
        BY <1>0, <2>1, <4>1 DEF OpsInv, Waits
      <4> QED BY <2>1, <2>4, <4>1, <4>2, <4>3, <4>4
    <3> QED BY <3>1, <3>2
  <2>6. ASSUME NEW q \in Procs, NEW r \in Procs, op'[q] = op'[r]
        PROVE  q = r \/ op'[q] = NoOp
    BY <1>0, <2>1, <2>4, <2>6 DEF OpsInv
  <2>7. ASSUME NEW o \in Ops, o >= nextOp' PROVE Unwritten(o)'
    BY <2>1, <2>2, <2>3, <2>7 DEF Ops
  <2> QED BY <2>5, <2>6, <2>7 DEF OpsInv
<1>2. ASSUME NEW p \in Procs, BeginSleeps(p) PROVE OpsInv'
  <2>1. /\ op' = op /\ depth' = depth /\ nextOp' = nextOp /\ buf' = buf
        /\ pc' = [pc EXCEPT ![p] = "asleep"] /\ pc[p] = "begin" /\ DOMAIN pc = Procs
        /\ UNCHANGED <<home, buf, logged>>
    BY <1>0, <1>2 DEF TypeOK, BeginSleeps
  <2>2. \A q \in Procs : Waits(q)' <=> Waits(q)
    BY <2>1 DEF Waits
  <2> QED BY <1>0, <2>1, <2>2 DEF OpsInv, Unwritten
<1>3. ASSUME NEW p \in Procs, BeginOp(p) PROVE OpsInv'
  <2>1. /\ op' = op /\ nextOp' = nextOp /\ Waits(p)
        /\ depth' = [depth EXCEPT ![p] = @ + 1] /\ DOMAIN depth = Procs
        /\ pc' = [pc EXCEPT ![p] = "run"] /\ DOMAIN pc = Procs
        /\ UNCHANGED <<home, buf, logged>>
    BY <1>0, <1>3 DEF TypeOK, BeginOp, Waits
  <2>2. \A q \in Procs : Waits(q)' => Waits(q)
    BY <2>1 DEF Waits
  <2>3. \A q \in Procs : Waits(q)' \/ depth'[q] = MaxDepth(q) => op'[q] # NoOp
    BY <1>0, <2>1, <2>2 DEF OpsInv
  <2> QED BY <1>0, <2>1, <2>2, <2>3 DEF OpsInv, Unwritten
<1>4. ASSUME NEW p \in Procs, EndOp(p) PROVE OpsInv'
  <2>1. /\ op' = [op EXCEPT ![p] = NoOp] /\ DOMAIN op = Procs
        /\ nextOp' = nextOp /\ UNCHANGED <<home, buf, logged>>
        /\ depth' = [depth EXCEPT ![p] = @ - 1] /\ DOMAIN depth = Procs
        /\ ~Waits(p)' /\ \A q \in Procs : Waits(q)' => Waits(q)
    BY <1>0, <1>4 DEF TypeOK, EndOp, Closed, WakeupAnd, Waits
  <2>2. depth'[p] # MaxDepth(p)
    BY <1>a, <2>1
  <2>3. ASSUME NEW q \in Procs
        PROVE  /\ op'[q] = op[q] \/ op'[q] = NoOp
               /\ Waits(q)' => Waits(q) /\ op'[q] = op[q]
               /\ depth'[q] = MaxDepth(q) =>
                    op'[q] = op[q] /\ (Waits(q) \/ depth[q] = MaxDepth(q))
    <3>1. CASE q = p BY <2>1, <2>2, <3>1
    <3>2. CASE q # p BY <2>1, <3>2
    <3> QED BY <3>1, <3>2
  <2>4. Quiet BY <1>4 DEF Quiet
  <2> QED BY <2>1, <2>3, <2>4, OpsUnchanged
<1>5. ASSUME NEW p \in Procs, Release(p) PROVE OpsInv'
  <2>1. /\ op' = op /\ depth' = depth /\ nextOp' = nextOp /\ UNCHANGED <<home, buf, logged>>
        /\ \A q \in Procs : Waits(q)' => Waits(q)
    BY <1>0, <1>5 DEF TypeOK, Release, WakeupAnd, Waits
  <2> QED BY <1>0, <2>1 DEF OpsInv, Unwritten
<1>6. ASSUME NEW p \in Procs, NEW b \in Blocks, WriteBlock(p, b) PROVE OpsInv'
  <2>1. /\ op' = op /\ pc' = pc /\ depth' = depth /\ nextOp' = nextOp
        /\ home' = home /\ logged' = logged
        /\ buf' = [buf EXCEPT ![b] = Dirty(Current(b) \cup {op[p]})] /\ DOMAIN buf = Blocks
        /\ ~Waits(p) /\ depth[p] = MaxDepth(p)
    BY <1>0, <1>6 DEF TypeOK, WriteBlock, Writes, Waits
  <2>2. ASSUME NEW o, o # op[p], Unwritten(o) PROVE Unwritten(o)'
    <3>1. o \notin Current(b) BY <2>2 DEF Unwritten, Current
    <3>2. o \notin buf'[b].data BY <2>1, <2>2, <3>1 DEF Dirty
    <3> QED BY <2>1, <2>2, <3>2 DEF Unwritten
  <2>3. ASSUME NEW q \in Procs, Waits(q) PROVE Unwritten(op[q])'
    <3>1. PICK o : o = op[q] OBVIOUS
    <3>2. Unwritten(o) /\ o # op[p]
      BY <1>0, <2>1, <2>3, <3>1 DEF OpsInv
    <3>3. Unwritten(o)' BY <2>2, <3>2
    <3> QED BY <2>1, <3>1, <3>3
  <2>4. ASSUME NEW o \in Ops, o >= nextOp PROVE Unwritten(o)'
    <3>1. Unwritten(o) /\ o # op[p]
      BY <1>0, <2>4, Numbers DEF OpsInv, TypeOK, Ops, NoOp
    <3> QED BY <2>2, <3>1
  <2>5. \A q \in Procs : Waits(q)' <=> Waits(q) BY <2>1 DEF Waits
  <2> QED BY <1>0, <2>1, <2>3, <2>4, <2>5 DEF OpsInv
<1>7. CASE \/ \E b \in Blocks : Bread(b) \/ Recycle(b)
           \/ Disk
           \/ UNCHANGED logVars
  <2>1. UNCHANGED <<pc, op, depth, nextOp>>
    BY <1>7 DEF Bread, Recycle, Disk, WriteLog, WriteHead, InstallTrans, Erase, ReadHead, logVars
  <2>2. Quiet BY <1>7 DEF Quiet
  <2> QED BY <2>1, <2>2, OpsUnchanged DEF Waits
<1>13. CASE Crash
  <2>1. /\ op' = NoTx /\ depth' = [p \in Procs |-> 0] /\ pc' = [p \in Procs |-> "run"]
        /\ nextOp' = nextOp
    BY <1>13 DEF Crash
  <2>2. Quiet BY <1>13 DEF Quiet
  <2> QED BY <1>a, <2>1, <2>2, OpsUnchanged DEF Waits, NoTx
<1> QED BY <1>1, <1>2, <1>3, <1>4, <1>5, <1>6, <1>7, <1>13 DEF Next, Begins

\* How much is reserved, as a set of pairs.
Rights == Procs \X (1 .. MAXOPBLOCKS)

\* There are finitely many blocks left to write.
LEMMA UnusedFinite == IsFiniteSet(Unused) /\ Cardinality(Unused) \in Nat
<1>1. IsFiniteSet(1 .. MAXOPBLOCKS) BY Numbers, FS_Interval
<1>2. IsFiniteSet(Rights) BY <1>1, LogAssumption, FS_Product DEF Rights
<1>3. Unused \in SUBSET Rights BY DEF Unused, InOp, Rights
<1> QED BY <1>2, <1>3, FS_Subset, FS_CardinalityType

\* When nothing new may be written, no more room is needed.
LEMMA FewerUnused ==
  ASSUME Unused' \subseteq Unused, Inv, Len(lh') <= Len(lh), Len(lh') \in Nat
  PROVE  Len(lh') + Cardinality(Unused') <= LOGSIZE
<1>1. Cardinality(Unused') <= Cardinality(Unused) /\ Cardinality(Unused') \in Nat
  BY UnusedFinite, FS_Subset, FS_CardinalityType
<1>2. Len(lh) + Cardinality(Unused) <= LOGSIZE /\ Len(lh) \in Nat
  BY LenProperties DEF Inv, SpaceInv, TypeOK
<1> QED BY <1>1, <1>2, UnusedFinite, Numbers

\* Operations that run have their begin_op open, each its own.
LEMMA WritersAreOpen ==
  ASSUME TypeOK, NEW S \in SUBSET Procs, \A p \in S : depth[p] >= 1
  PROVE  IsFiniteSet(S) /\ Cardinality(S) <= Cardinality(OpenCalls) /\ Cardinality(S) \in Nat
<1> DEFINE f == [p \in S |-> <<p, 1>>]
<1>1. IsFiniteSet(S) BY LogAssumption, FS_Subset
<1>2. \A p \in S : <<p, 1>> \in OpenCalls
  BY DEF OpenCalls, TypeOK
<1>3. f \in Injection(S, OpenCalls)
  BY <1>2 DEF Injection, IsInjective
<1> QED BY <1>1, <1>3, OpenCallsFinite, FS_Injection, FS_CardinalityType

\* A product grows with its first factor.
LEMMA Times == \A a, b, m \in Nat : a <= b => a * m <= b * m /\ a * m \in Nat
OBVIOUS

\* begin_op lets an operation start only if there is room for all it reserves, and
\* for all that the operations now running have reserved.
LEMMA RoomForOneMore ==
  ASSUME Inv, NEW p \in Procs, BeginOp(p)
  PROVE  Len(lh') + Cardinality(Unused') <= LOGSIZE
<1>1. /\ lh' = lh /\ Len(lh) + (outstanding + 1) * MAXOPBLOCKS <= LOGSIZE
      /\ touched' = [touched EXCEPT ![p] = {}]
      /\ depth' = [depth EXCEPT ![p] = @ + 1] /\ pc' = [pc EXCEPT ![p] = "run"]
      /\ DOMAIN depth = Procs /\ DOMAIN pc = Procs
  BY DEF BeginOp, SpaceFor, Inv, TypeOK
<1>2. /\ IsFiniteSet(InOp) /\ Cardinality(InOp) <= outstanding /\ Cardinality(InOp) \in Nat
      /\ outstanding \in Nat
  <2>1. InOp \in SUBSET Procs /\ \A q \in InOp : depth[q] >= 1
    BY DEF InOp, Writes, MaxDepth
  <2> QED BY <2>1, WritersAreOpen DEF Inv, ProcsInv, TypeOK
<1>3. InOp' \subseteq InOp \cup {p}
  BY <1>1 DEF InOp, Writes
<1>4. /\ IsFiniteSet(InOp') /\ Cardinality(InOp') <= outstanding + 1
      /\ Cardinality(InOp') \in Nat
  <2>1. /\ IsFiniteSet(InOp \cup {p})
        /\ Cardinality(InOp \cup {p}) <= Cardinality(InOp) + 1
        /\ Cardinality(InOp \cup {p}) \in Nat
    <3>1. /\ IsFiniteSet(InOp \cup {p})
          /\ Cardinality(InOp \cup {p}) =
               IF p \in InOp THEN Cardinality(InOp) ELSE Cardinality(InOp) + 1
      BY <1>2, FS_AddElement
    <3> QED BY <1>2, <3>1
  <2>2. /\ IsFiniteSet(InOp') /\ Cardinality(InOp') <= Cardinality(InOp \cup {p})
        /\ Cardinality(InOp') \in Nat
    BY <1>3, <2>1, FS_Subset, FS_CardinalityType
  <2> QED BY <1>2, <2>1, <2>2
<1>5. IsFiniteSet(1 .. MAXOPBLOCKS) /\ Cardinality(1 .. MAXOPBLOCKS) = MAXOPBLOCKS
  BY Numbers, FS_Interval
<1>6. /\ IsFiniteSet(InOp' \X (1 .. MAXOPBLOCKS))
      /\ Cardinality(InOp' \X (1 .. MAXOPBLOCKS)) = Cardinality(InOp') * MAXOPBLOCKS
  BY <1>4, <1>5, FS_Product
<1>7. Unused' \subseteq InOp' \X (1 .. MAXOPBLOCKS)
  BY DEF Unused
<1>8. /\ Cardinality(Unused') <= Cardinality(InOp') * MAXOPBLOCKS
      /\ Cardinality(Unused') \in Nat
  BY <1>6, <1>7, FS_Subset, FS_CardinalityType
<1>9. Cardinality(InOp') * MAXOPBLOCKS <= (outstanding + 1) * MAXOPBLOCKS
  BY <1>2, <1>4, Numbers, Times
<1>10. (outstanding + 1) * MAXOPBLOCKS \in Nat /\ Cardinality(InOp') * MAXOPBLOCKS \in Nat
  BY <1>2, <1>4, Numbers, Times
<1>11. Len(lh) \in Nat BY LenProperties DEF Inv, TypeOK
<1> DEFINE room == (outstanding + 1) * MAXOPBLOCKS
           used == Cardinality(InOp') * MAXOPBLOCKS
<1>12. /\ room \in Nat /\ used \in Nat /\ used <= room
       /\ Cardinality(Unused') <= used /\ Len(lh) + room <= LOGSIZE
  BY <1>1, <1>8, <1>9, <1>10
<1> HIDE DEF room, used
<1> QED BY <1>1, <1>8, <1>11, <1>12, Numbers

\* A call of log_write uses one of the blocks its operation reserved.
LEMMA WriteUsesOne ==
  ASSUME Inv, NEW p \in Procs, NEW b \in Blocks, WriteBlock(p, b)
  PROVE  Len(lh') + Cardinality(Unused') <= LOGSIZE
<1> DEFINE c == Cardinality(touched[p])
<1>1. /\ touched' = [touched EXCEPT ![p] = @ \cup {b}] /\ DOMAIN touched = Procs
      /\ pc' = pc /\ depth' = depth /\ b \notin touched[p] /\ c < OpBlocks /\ p \in InOp
      /\ IsFiniteSet(touched[p])
  BY DEF WriteBlock, Inv, TypeOK, SpaceInv, InOp
<1>2. Cardinality(touched[p] \cup {b}) = c + 1 /\ c \in Nat
  BY <1>1, FS_AddElement, FS_CardinalityType
<1>3. InOp' = InOp BY <1>1 DEF InOp, Writes
<1>4. <<p, c + 1>> \in Unused
  BY <1>1, <1>2, Numbers DEF Unused
<1>5. Unused' \subseteq Unused \ {<<p, c + 1>>}
  <2> SUFFICES ASSUME NEW s \in Unused' PROVE s \in Unused /\ s # <<p, c + 1>>
    OBVIOUS
  <2>1. s \in InOp \X (1 .. MAXOPBLOCKS) /\ Cardinality(touched'[s[1]]) < s[2]
    BY <1>3 DEF Unused
  <2>2. CASE s[1] = p
    <3>1. c + 1 < s[2] BY <1>1, <1>2, <2>1, <2>2
    <3> QED BY <1>2, <2>1, <2>2, <3>1 DEF Unused
  <2>3. CASE s[1] # p
    <3>1. touched'[s[1]] = touched[s[1]] BY <1>1, <2>1, <2>3
    <3> QED BY <2>1, <2>3, <3>1 DEF Unused
  <2> QED BY <2>2, <2>3
<1>6. /\ IsFiniteSet(Unused \ {<<p, c + 1>>})
      /\ Cardinality(Unused \ {<<p, c + 1>>}) = Cardinality(Unused) - 1
  BY <1>4, UnusedFinite, FS_RemoveElement
<1>7. Cardinality(Unused') <= Cardinality(Unused) - 1 /\ Cardinality(Unused') \in Nat
  BY <1>5, <1>6, FS_Subset, FS_CardinalityType
<1>8. Len(lh') <= Len(lh) + 1 /\ Len(lh') \in Nat /\ Len(lh) \in Nat
  BY HeaderOfWrite, LenProperties DEF Inv, TypeOK
<1>9. Len(lh) + Cardinality(Unused) <= LOGSIZE
  BY DEF Inv, SpaceInv
<1> QED BY <1>7, <1>8, <1>9, UnusedFinite, Numbers

\* Every step keeps the reservations within the log.
LEMMA SpaceStep == Inv /\ [Next]_logVars => SpaceInv'
<1> SUFFICES ASSUME Inv, [Next]_logVars PROVE SpaceInv'
  OBVIOUS
<1> USE DEF procs, memory, durable, bounds
<1>0. /\ TypeOK /\ SpaceInv /\ ProcsInv /\ HeaderInv
      /\ Len(lh) \in Nat /\ Len(head) \in Nat /\ Len(<<>>) = 0
  BY LenProperties, EmptySeq DEF Inv, TypeOK
<1>a. ASSUME UNCHANGED <<touched, pc, depth>>
      PROVE  Unused' \subseteq Unused /\ \A p \in Procs : touched'[p] = touched[p]
  BY <1>a DEF Unused, InOp, Writes
<1>b. ASSUME \A p \in Procs : touched'[p] = touched[p] \/ touched'[p] = {},
             Len(lh') + Cardinality(Unused') <= LOGSIZE
      PROVE  SpaceInv'
  <2>1. ASSUME NEW p \in Procs
        PROVE  IsFiniteSet(touched'[p]) /\ Cardinality(touched'[p]) <= OpBlocks
    <3>1. CASE touched'[p] = touched[p] BY <1>0, <3>1 DEF SpaceInv
    <3>2. CASE touched'[p] = {} BY <3>2, FS_EmptySet, Numbers
    <3> QED BY <1>b, <3>1, <3>2
  <2> QED BY <1>b, <2>1 DEF SpaceInv
<1>c. IsFiniteSet({}) /\ Cardinality({}) = 0 BY FS_EmptySet
<1>1. ASSUME NEW p \in Procs, CallOp(p) \/ BeginSleeps(p) \/ Release(p) PROVE SpaceInv'
  <2>1. /\ touched' = touched /\ depth' = depth /\ lh' = lh /\ Len(lh') = Len(lh)
        /\ \A q \in Procs : pc'[q] = "run" => pc[q] = "run" \/ depth[q] = 0
    BY <1>0, <1>1 DEF CallOp, BeginSleeps, Release, WakeupAnd, TypeOK, ProcsInv
  <2>2. InOp' \subseteq InOp
    BY <2>1 DEF InOp, Writes, MaxDepth
  <2>3. Unused' \subseteq Unused
    BY <2>1, <2>2 DEF Unused
  <2>4. Len(lh') + Cardinality(Unused') <= LOGSIZE
    BY <1>0, <2>1, <2>3, FewerUnused
  <2> QED BY <1>b, <2>1, <2>4
<1>3. ASSUME NEW p \in Procs, BeginOp(p) PROVE SpaceInv'
  <2>1. \A q \in Procs : touched'[q] = touched[q] \/ touched'[q] = {}
    BY <1>0, <1>3 DEF BeginOp, TypeOK
  <2> QED BY <1>3, <1>b, <2>1, RoomForOneMore
<1>4. ASSUME NEW p \in Procs, EndOp(p) PROVE SpaceInv'
  <2>1. /\ touched' = [touched EXCEPT ![p] = {}] /\ DOMAIN touched = Procs
        /\ depth' = [depth EXCEPT ![p] = @ - 1] /\ DOMAIN depth = Procs
        /\ \A q \in Procs : q # p /\ pc'[q] = "run" => pc[q] = "run"
        /\ lh' = lh /\ Len(lh') = Len(lh)
    BY <1>0, <1>4 DEF EndOp, Closed, WakeupAnd, TypeOK
  <2>2. p \notin InOp'
    <3>1. depth'[p] # MaxDepth(p)
      BY <1>0, <2>1 DEF TypeOK, ProcsInv, MaxDepth
    <3> QED BY <3>1 DEF InOp, Writes
  <2>3. InOp' \subseteq InOp
    BY <2>1, <2>2 DEF InOp, Writes
  <2>4. Unused' \subseteq Unused
    BY <2>1, <2>2, <2>3 DEF Unused
  <2>5. Len(lh') + Cardinality(Unused') <= LOGSIZE
    BY <1>0, <2>1, <2>4, FewerUnused
  <2> QED BY <1>b, <2>1, <2>5
<1>6. ASSUME NEW p \in Procs, NEW b \in Blocks, WriteBlock(p, b) PROVE SpaceInv'
  <2>1. /\ touched' = [touched EXCEPT ![p] = @ \cup {b}] /\ DOMAIN touched = Procs
        /\ b \notin touched[p] /\ Cardinality(touched[p]) < OpBlocks
        /\ IsFiniteSet(touched[p])
    BY <1>0, <1>6 DEF WriteBlock, TypeOK, SpaceInv
  <2>2. /\ IsFiniteSet(touched[p] \cup {b})
        /\ Cardinality(touched[p] \cup {b}) = Cardinality(touched[p]) + 1
        /\ Cardinality(touched[p]) \in Nat
    BY <2>1, FS_AddElement, FS_CardinalityType
  <2>3. ASSUME NEW q \in Procs
        PROVE  IsFiniteSet(touched'[q]) /\ Cardinality(touched'[q]) <= OpBlocks
    <3>1. CASE q = p BY <2>1, <2>2, <3>1, Numbers
    <3>2. CASE q # p BY <1>0, <2>1, <3>2 DEF SpaceInv
    <3> QED BY <3>1, <3>2
  <2> QED BY <1>6, <2>3, WriteUsesOne DEF SpaceInv
<1>7. CASE \/ \E b \in Blocks : Bread(b) \/ Recycle(b)
           \/ WriteLog \/ WriteHead \/ InstallTrans \/ UNCHANGED logVars
  <2>1. UNCHANGED <<touched, pc, depth, lh>>
    BY <1>7 DEF Bread, Recycle, WriteLog, WriteHead, InstallTrans, logVars
  <2>2. Len(lh') + Cardinality(Unused') <= LOGSIZE
    BY <1>0, <1>a, <2>1, FewerUnused
  <2> QED BY <1>a, <1>b, <2>1, <2>2
<1>11. CASE Erase
  <2>1. UNCHANGED <<touched, pc, depth>> /\ lh' = <<>>
    BY <1>11 DEF Erase
  <2>2. Len(lh') + Cardinality(Unused') <= LOGSIZE
    BY <1>0, <1>a, <2>1, FewerUnused
  <2> QED BY <1>a, <1>b, <2>1, <2>2
<1>12. CASE ReadHead \/ Crash
  <2>1. /\ \A p \in Procs : depth'[p] = 0 /\ (touched'[p] = touched[p] \/ touched'[p] = {})
        /\ lh' = head \/ lh' = <<>>
    BY <1>0, <1>12 DEF ReadHead, Crash, ProcsInv
  <2>2. InOp' = {} BY <2>1 DEF InOp, Writes, MaxDepth
  <2>3. Unused' = {} BY <2>2 DEF Unused
  <2>4. Len(lh') <= LOGSIZE /\ Len(lh') \in Nat
    BY <1>0, <2>1, Numbers DEF HeaderInv
  <2>5. Len(lh') + Cardinality(Unused') <= LOGSIZE
    BY <1>c, <2>3, <2>4
  <2> QED BY <1>b, <2>1, <2>5
<1> QED BY <1>1, <1>3, <1>4, <1>6, <1>7, <1>11, <1>12 DEF Next, Begins, Disk

\* The invariant holds in every state that a run of the log reaches.
THEOREM LogInvariance == Spec => []Inv
<1>1. Inv /\ [Next]_logVars => Inv'
  BY TypeStep, CleanStep, ProcsStep, OpsStep, HeaderStep, BlocksStep, SpaceStep DEF Inv
<1> QED BY <1>1, LogInit, PTL DEF Spec

\* No call of log_write meets a full log (log.c:218): an operation that may still
\* write has at least two of its reserved blocks left, one more than the header
\* takes from the blocks of the log.
LEMMA RoomToWrite ==
  ASSUME Inv, NEW p \in InOp, Cardinality(touched[p]) < OpBlocks
  PROVE  ~LogFull
<1> DEFINE c == Cardinality(touched[p])
           two == {<<p, c + 1>>} \cup {<<p, c + 2>>}
<1>1. p \in Procs /\ c \in Nat /\ c + 2 <= MAXOPBLOCKS
  BY Numbers, FS_CardinalityType DEF InOp, Inv, SpaceInv
<1>2. two \subseteq Unused
  BY <1>1, Numbers DEF Unused
<1>3. Cardinality(two) = 2
  <2>1. IsFiniteSet({<<p, c + 1>>}) /\ Cardinality({<<p, c + 1>>}) = 1
    BY FS_Singleton
  <2>2. <<p, c + 2>> \notin {<<p, c + 1>>}
    BY <1>1
  <2>3. Cardinality(two) = Cardinality({<<p, c + 1>>}) + 1
    BY <2>1, <2>2, FS_AddElement
  <2> QED BY <2>1, <2>3
<1> HIDE DEF two
<1>4. 2 <= Cardinality(Unused)
  BY <1>2, <1>3, UnusedFinite, FS_Subset
<1>5. Len(lh) + Cardinality(Unused) <= LOGSIZE /\ Len(lh) \in Nat
  BY LenProperties DEF Inv, SpaceInv, TypeOK
<1> QED BY <1>4, <1>5, UnusedFinite, Numbers DEF LogFull

\* What begin_op reserves is enough: no operation meets a full log, however many
\* run together and whatever they share.
THEOREM ReservedIsEnough == Spec => []Reserved
<1>1. Inv => Reserved
  BY RoomToWrite DEF Inv, Reserved, SpaceInv
<1> QED BY <1>1, LogInvariance, PTL

\* A buffer that bget may reuse equals the block on the disk; the others are in
\* the header (bio.c:82, log.c:231).
THEOREM CleanBuffersOnDisk == Spec => []CleanIsOnDisk
<1>1. Inv => CleanIsOnDisk BY DEF Inv
<1> QED BY <1>1, LogInvariance, PTL

-----------------------------------------------------------------------------
(* The log implements the atomic disk *)

\* Recovery takes a block of the header from the log, and leaves the others.
LEMMA RecoveredValue ==
  ASSUME Inv
  PROVE  /\ \A i \in 1 .. Len(head) : head[i] \in Blocks /\ Recovered[head[i]] = logged[i]
         /\ \A b \in Blocks : ~Contains(head, b) => Recovered[b] = home[b]
<1>1. /\ \A i \in 1 .. Len(head) : head[i] \in Blocks
      /\ \A i, j \in 1 .. Len(head) : head[i] = head[j] => i = j
  BY LenProperties DEF Inv, TypeOK, HeaderInv, IsInjective
<1>2. ASSUME NEW i \in 1 .. Len(head) PROVE Recovered[head[i]] = logged[i]
  <2>1. PICK b \in Blocks : b = head[i] BY <1>1
  <2>2. Contains(head, b) BY <1>2, <2>1 DEF Contains
  <2>3. (CHOOSE j \in 1 .. Len(head) : head[j] = b) = i BY <1>1, <1>2, <2>1
  <2> QED BY <2>1, <2>2, <2>3 DEF Recovered
<1> QED BY <1>1, <1>2 DEF Recovered

\* With an empty header recovery changes nothing.
LEMMA NothingToRecover ==
  ASSUME Inv, head = <<>>
  PROVE  Recovered = home
<1>1. \A b \in Blocks : ~Contains(head, b) BY EmptySeq DEF Contains
<1> QED BY <1>1 DEF Recovered, Inv, TypeOK

\* What recovery makes of the disk depends on the disk alone.
LEMMA SameDisk == UNCHANGED durable => Recovered' = Recovered
BY DEF Recovered, durable

\* What reads return depends on the cache and the home blocks.
LEMMA SameView ==
  ASSUME Recovered' = Recovered, Recovering' = Recovering,
         ~Recovering => \A b \in Blocks : Current(b)' = Current(b)
  PROVE  View' = View
BY DEF View

\* A step that maps to no step of the disk.
LEMMA Stutter ==
  ASSUME Recovered' = Recovered, View' = View, Open' = Open
  PROVE  UNCHANGED Atomic!diskVars
BY DEF Atomic!diskVars

\* The log starts as the disk does.
LEMMA InitIsDiskInit == Init => Atomic!Init
<1> SUFFICES ASSUME Init PROVE Atomic!Init
  OBVIOUS
<1>1. Inv BY LogInit
<1>2. Recovered = home BY <1>1, NothingToRecover DEF Init
<1>3. View = home
  BY DEF Init, View, Recovering, Current, NoCache, NotCached
<1>4. Open = {} BY DEF Init, Open, MaxDepth
<1> QED BY <1>2, <1>3, <1>4 DEF Init, Atomic!Init

\* begin_op starts an operation of the disk, and end_op finishes it; of calls that
\* are nested, the inner ones do.
LEMMA BeginIsStart ==
  ASSUME Inv, NEW p \in Procs, Begins(p)
  PROVE  [Atomic!Next]_Atomic!diskVars
<1> USE DEF procs, memory, durable, bounds
<1>0. TypeOK /\ ProcsInv /\ OpsInv BY DEF Inv
<1>1. UNCHANGED <<home, logged, head, buf, phase, committing>>
  BY DEF Begins, CallOp, BeginSleeps, BeginOp
<1>2. Recovered' = Recovered BY <1>1, SameDisk
<1>3. View' = View
  BY <1>1, <1>2, SameView DEF Recovering, Current
<1>4. CASE CallOp(p)
  <2>1. Open' = Open BY <1>0, <1>4 DEF CallOp, Open, TypeOK
  <2> QED BY <1>2, <1>3, <2>1, Stutter
<1>5. CASE BeginSleeps(p)
  <2>1. Open' = Open BY <1>5 DEF BeginSleeps, Open
  <2> QED BY <1>2, <1>3, <2>1, Stutter
<1>6. CASE BeginOp(p)
  <2>1. /\ Waits(p) /\ depth[p] < MaxDepth(p) /\ op' = op /\ ~Recovering
        /\ depth' = [depth EXCEPT ![p] = @ + 1] /\ DOMAIN depth = Procs
    BY <1>0, <1>6 DEF BeginOp, Waits, ProcsInv, TypeOK
  <2>2. CASE depth[p] + 1 # MaxDepth(p)
    <3>1. depth[p] # MaxDepth(p) BY <1>0, <2>1 DEF TypeOK, MaxDepth
    <3>2. \A q \in Procs : depth'[q] = MaxDepth(q) <=> depth[q] = MaxDepth(q)
      BY <2>1, <2>2, <3>1
    <3>3. Open' = Open BY <2>1, <3>2 DEF Open
    <3> QED BY <1>2, <1>3, <3>3, Stutter
  <2>3. CASE depth[p] + 1 = MaxDepth(p)
    <3>1. PICK o \in Ops : o = op[p]
      BY <1>0, <2>1 DEF OpsInv, TypeOK, NoOp
    <3>2. Open' = Open \cup {o}
      BY <2>1, <2>3, <3>1 DEF Open
    <3>3. o \notin Open
      <4>1. ASSUME NEW q \in Procs, depth[q] = MaxDepth(q), op[q] = o PROVE FALSE
        <5>1. q # p BY <2>1, <4>1, <1>0 DEF TypeOK, MaxDepth
        <5>2. o # NoOp BY <1>0, <2>1, <3>1 DEF OpsInv
        <5> QED BY <1>0, <3>1, <4>1, <5>1, <5>2 DEF OpsInv
      <4> QED BY <4>1 DEF Open
    <3>4. \A b \in Blocks : o \notin View[b]
      BY <1>0, <2>1, <3>1 DEF OpsInv, Unwritten, View, Current
    <3>5. Atomic!Start(o)
      BY <1>2, <1>3, <3>2, <3>3, <3>4 DEF Atomic!Start
    <3> QED BY <3>1, <3>5 DEF Atomic!Next
  <2> QED BY <2>2, <2>3
<1> QED BY <1>4, <1>5, <1>6 DEF Begins

\* And end_op is Finish of the outer call, or nothing.
LEMMA EndIsFinish ==
  ASSUME Inv, NEW p \in Procs, EndOp(p)
  PROVE  [Atomic!Next]_Atomic!diskVars
<1> USE DEF durable, bounds
<1>0. TypeOK /\ ProcsInv /\ OpsInv BY DEF Inv
<1>1. /\ UNCHANGED <<home, logged, head, buf>>
      /\ op' = [op EXCEPT ![p] = NoOp] /\ DOMAIN op = Procs
      /\ depth' = [depth EXCEPT ![p] = @ - 1] /\ DOMAIN depth = Procs
  BY <1>0 DEF EndOp, Closed, TypeOK
<1>2. Recovered' = Recovered BY <1>1, SameDisk
<1>3. View' = View
  <2>1. phase = "idle" /\ ~committing
    BY <1>0, WritersOutsideCommit DEF EndOp, TypeOK
  <2>2. Recovering' = Recovering
    BY <2>1 DEF EndOp, Recovering
  <2> QED BY <1>1, <1>2, <2>2, SameView DEF Current
<1>4. depth'[p] # MaxDepth(p) /\ depth[p] <= MaxDepth(p)
  BY <1>0, <1>1 DEF TypeOK, ProcsInv, MaxDepth
<1>5. CASE depth[p] # MaxDepth(p)
  <2>1. Open' = Open BY <1>1, <1>4, <1>5 DEF Open
  <2> QED BY <1>2, <1>3, <2>1, Stutter
<1>6. CASE depth[p] = MaxDepth(p)
  <2>1. PICK o \in Ops : o = op[p] /\ o # NoOp
    BY <1>0, <1>6 DEF OpsInv, TypeOK
  <2>2. \A q \in Procs : q # p => op[q] # o
    BY <1>0, <2>1 DEF OpsInv
  <2>3. Open' = Open \ {o} /\ o \in Open
    BY <1>1, <1>4, <1>6, <2>1, <2>2 DEF Open
  <2>4. Atomic!Finish(o) BY <1>2, <1>3, <2>3 DEF Atomic!Finish
  <2> QED BY <2>1, <2>4 DEF Atomic!Next
<1> QED BY <1>5, <1>6

\* The end of end_op changes nothing that the disk promises.
LEMMA ReleaseIsStutter ==
  ASSUME Inv, NEW p \in Procs, Release(p)
  PROVE  [Atomic!Next]_Atomic!diskVars
<1>1. UNCHANGED <<home, logged, head, buf, op, depth>>
  BY DEF Release, durable, bounds
<1>2. Recovered' = Recovered BY <1>1, SameDisk DEF durable
<1>3. Recovering' = Recovering
  BY DEF Release, Recovering, Inv, ProcsInv
<1>4. View' = View BY <1>1, <1>2, <1>3, SameView DEF Current
<1>5. Open' = Open BY <1>1 DEF Open
<1> QED BY <1>2, <1>4, <1>5, Stutter

\* log_write updates the block.
LEMMA WriteIsUpdate ==
  ASSUME Inv, NEW p \in Procs, NEW b \in Blocks, WriteBlock(p, b)
  PROVE  [Atomic!Next]_Atomic!diskVars
<1>1. /\ UNCHANGED <<home, logged, head, op, depth, phase, committing>>
      /\ buf' = [buf EXCEPT ![b] = Dirty(Current(b) \cup {op[p]})] /\ DOMAIN buf = Blocks
      /\ depth[p] = MaxDepth(p) /\ ~Recovering
  BY DEF WriteBlock, durable, bounds, Writes, Inv, TypeOK
<1>2. Recovered' = Recovered BY <1>1, SameDisk DEF durable
<1>3. Open' = Open BY <1>1 DEF Open
<1>4. PICK o \in Ops : o = op[p]
  BY <1>1 DEF Inv, OpsInv, TypeOK
<1>5. o \in Open BY <1>1, <1>4 DEF Open
<1>6. /\ View = [c \in Blocks |-> Current(c)]
      /\ View' = [c \in Blocks |-> Current(c)']
  BY <1>1 DEF View, Recovering
<1>7. /\ Current(b)' = Current(b) \cup {o}
      /\ \A c \in Blocks : c # b => Current(c)' = Current(c)
  BY <1>1, <1>4 DEF Current, Dirty
<1>8. View' = [View EXCEPT ![b] = @ \cup {o}]
  BY <1>6, <1>7
<1>9. Atomic!Update(o, b)
  BY <1>2, <1>3, <1>5, <1>8 DEF Atomic!Update
<1> QED BY <1>4, <1>9 DEF Atomic!Next

\* The cache may read a block and forget it, as the copy is the block.
LEMMA CacheIsStutter ==
  ASSUME Inv, NEW b \in Blocks, Bread(b) \/ Recycle(b)
  PROVE  [Atomic!Next]_Atomic!diskVars
<1>1. /\ UNCHANGED <<home, logged, head, op, depth, phase, committing>>
      /\ DOMAIN buf = Blocks /\ \A c \in Blocks : c # b => buf'[c] = buf[c]
  BY DEF Bread, Recycle, procs, durable, bounds, Inv, TypeOK
<1>2. Recovered' = Recovered BY <1>1, SameDisk DEF durable
<1>3. Current(b)' = Current(b)
  <2>1. CASE Bread(b)
    <3>1. buf'[b] = Clean(home[b]) /\ ~buf[b].valid
      BY <1>1, <2>1 DEF Bread
    <3> QED BY <1>1, <3>1 DEF Current, Clean
  <2>2. CASE Recycle(b)
    <3>1. buf'[b] = NotCached /\ buf[b].valid /\ ~buf[b].dirty
      BY <1>1, <2>2 DEF Recycle
    <3>2. buf[b].data = home[b] BY <3>1 DEF Inv, CleanIsOnDisk
    <3> QED BY <1>1, <3>1, <3>2 DEF Current, NotCached
  <2> QED BY <2>1, <2>2
<1>4. \A c \in Blocks : Current(c)' = Current(c)
  BY <1>1, <1>3 DEF Current
<1>5. View' = View BY <1>1, <1>2, <1>4, SameView DEF Recovering
<1>6. Open' = Open BY <1>1 DEF Open
<1> QED BY <1>2, <1>5, <1>6, Stutter

\* Writing the log's blocks is invisible: the header on the disk is still empty.
LEMMA WriteLogIsStutter ==
  ASSUME Inv, WriteLog
  PROVE  [Atomic!Next]_Atomic!diskVars
<1>1. /\ UNCHANGED <<home, head, buf, op, depth, committing>>
      /\ committing /\ head = <<>>
  BY DEF WriteLog, procs, memory, bounds, Inv, ProcsInv, HeaderInv
<1>2. Recovered' = Recovered
  BY <1>1, EmptySeq DEF Recovered, Contains
<1>3. View' = View BY <1>1, <1>2, SameView DEF Recovering, Current
<1>4. Open' = Open BY <1>1 DEF Open
<1> QED BY <1>2, <1>3, <1>4, Stutter

\* Writing the header commits all that has been written, with no operation open.
LEMMA WriteHeadIsCommit ==
  ASSUME Inv, WriteHead
  PROVE  [Atomic!Next]_Atomic!diskVars
<1>1. /\ UNCHANGED <<home, logged, buf, op, depth, committing, lh>>
      /\ committing /\ head = <<>> /\ head' = lh /\ phase = "write_head"
  BY DEF WriteHead, procs, memory, bounds, Inv, ProcsInv, HeaderInv
<1>2. View = [b \in Blocks |-> Current(b)] /\ View' = View
  BY <1>1 DEF View, Recovering, Current
<1>3. Open = {} /\ Open' = Open
  <2>1. \A p \in Procs : depth[p] = 0 BY <1>1 DEF Inv, ProcsInv
  <2> QED BY <1>1, <2>1 DEF Open, MaxDepth
<1>4. ASSUME NEW b \in Blocks PROVE Recovered'[b] = Current(b)
  <2>1. CASE Contains(lh, b)
    <3>1. PICK i \in 1 .. Len(lh) : lh[i] = b BY <2>1 DEF Contains
    <3>2. (CHOOSE j \in 1 .. Len(lh) : lh[j] = b) = i
      BY <3>1, LenProperties DEF Inv, TypeOK, IsInjective
    <3>3. Recovered'[b] = logged[i] BY <1>1, <2>1, <3>2 DEF Recovered
    <3>4. Pinned(b) /\ logged[i] = buf[b].data
      BY <1>1, <3>1 DEF Inv, BlocksInv
    <3> QED BY <3>3, <3>4 DEF Pinned, Current
  <2>2. CASE ~Contains(lh, b)
    <3>1. Recovered'[b] = home[b] BY <1>1, <2>2 DEF Recovered
    <3> QED BY <2>2, <3>1 DEF Inv, CleanIsOnDisk, Current
  <2> QED BY <2>1, <2>2
<1>5. Recovered' = [b \in Blocks |-> Current(b)]
  BY <1>4 DEF Recovered
<1>6. Atomic!Commit
  BY <1>2, <1>3, <1>5 DEF Atomic!Commit
<1> QED BY <1>6 DEF Atomic!Next

\* Installing a block moves home what recovery would move there.
LEMMA InstallIsStutter ==
  ASSUME Inv, InstallTrans
  PROVE  [Atomic!Next]_Atomic!diskVars
<1>1. /\ UNCHANGED <<logged, head, op, depth, committing, lh>>
      /\ phase = "install" /\ phase' \in {"install", "erase"} /\ head = lh
      /\ home' = [home EXCEPT ![lh[tail]] = logged[tail]] /\ DOMAIN home = Blocks
      /\ buf' = [buf EXCEPT ![lh[tail]] = Clean(logged[tail])] /\ DOMAIN buf = Blocks
  BY DEF InstallTrans, Following, procs, bounds, Inv, HeaderInv, TypeOK
<1>2. PICK b \in Blocks : b = lh[tail] /\ tail \in 1 .. Len(lh) /\ Contains(head, b)
  BY <1>1, LenProperties DEF Inv, HeaderInv, TypeOK, Contains
<1>3. Recovered' = Recovered
  <2>1. \A c \in Blocks : ~Contains(head, c) => home'[c] = home[c]
    BY <1>1, <1>2
  <2> QED BY <1>1, <2>1 DEF Recovered
<1>4. Recovering' = Recovering
  BY <1>1 DEF Recovering
<1>5. ASSUME ~Recovering, NEW c \in Blocks PROVE Current(c)' = Current(c)
  <2>1. CASE c = b
    <3>1. committing BY <1>1, <1>5 DEF Recovering
    <3>2. Pinned(b) /\ buf[b].data = logged[tail]
      BY <1>1, <1>2, <3>1 DEF Inv, BlocksInv
    <3>3. Current(b)' = logged[tail]
      BY <1>1, <1>2 DEF Current, Clean
    <3> QED BY <2>1, <3>2, <3>3 DEF Pinned, Current
  <2>2. CASE c # b BY <1>1, <1>2, <2>2 DEF Current
  <2> QED BY <2>1, <2>2
<1>6. View' = View BY <1>3, <1>4, <1>5, SameView
<1>7. Open' = Open BY <1>1 DEF Open
<1> QED BY <1>3, <1>6, <1>7, Stutter

\* Erasing the header changes nothing: all its blocks are home.
LEMMA EraseIsStutter ==
  ASSUME Inv, Erase
  PROVE  [Atomic!Next]_Atomic!diskVars
<1>1. /\ UNCHANGED <<home, logged, buf, op, depth, committing>>
      /\ phase = "erase" /\ head = lh /\ head' = <<>>
      /\ phase' = IF committing THEN "release" ELSE "idle"
  BY DEF Erase, procs, bounds, Inv, HeaderInv
<1>2. Recovered = home
  <2>1. ASSUME NEW b \in Blocks PROVE Recovered[b] = home[b]
    <3>1. CASE Contains(head, b)
      <4>1. PICK i \in 1 .. Len(head) : head[i] = b BY <3>1 DEF Contains
      <4>2. home[b] = logged[i] BY <1>1, <4>1 DEF Inv, BlocksInv
      <4> QED BY <4>1, <4>2, RecoveredValue
    <3>2. CASE ~Contains(head, b) BY <3>2, RecoveredValue
    <3> QED BY <3>1, <3>2
  <2> QED BY <2>1 DEF Recovered, Inv, TypeOK
<1>3. Recovered' = home
  BY <1>1, EmptySeq DEF Recovered, Contains, Inv, TypeOK
<1>4. \A b \in Blocks : Current(b) = home[b] /\ Current(b)' = home[b]
  BY <1>1 DEF Inv, BlocksInv, CleanIsOnDisk, Pinned, Current
<1>5. View = home /\ View' = home
  BY <1>1, <1>2, <1>3, <1>4 DEF View, Inv, TypeOK
<1>6. Open' = Open BY <1>1 DEF Open
<1> QED BY <1>2, <1>3, <1>5, <1>6, Stutter

\* Reading the header back begins what recovery will do.
LEMMA ReadHeadIsStutter ==
  ASSUME Inv, ReadHead
  PROVE  [Atomic!Next]_Atomic!diskVars
<1>1. /\ UNCHANGED <<home, logged, head, op, depth, committing>>
      /\ ~committing /\ phase # "idle" /\ phase' # "idle"
  BY DEF ReadHead, procs, durable, bounds, Inv, ProcsInv
<1>2. Recovered' = Recovered BY <1>1, SameDisk DEF durable
<1>3. View' = View BY <1>1, <1>2 DEF View, Recovering
<1>4. Open' = Open BY <1>1 DEF Open
<1> QED BY <1>2, <1>3, <1>4, Stutter

\* A crash of the machine is a crash of the disk: the view becomes what recovery
\* makes of it.
LEMMA CrashIsCrash ==
  ASSUME Inv, Crash
  PROVE  [Atomic!Next]_Atomic!diskVars
<1>1. Recovered' = Recovered BY SameDisk DEF Crash
<1>2. View' = Recovered' BY DEF Crash, View, Recovering
<1>3. Open' = {} BY DEF Crash, Open, MaxDepth
<1>4. Atomic!Crash BY <1>1, <1>2, <1>3 DEF Atomic!Crash
<1> QED BY <1>4 DEF Atomic!Next

\* The redo log implements the atomic disk, for any number of processes, blocks
\* and crashes: through every interleaving of operations, commits, crashes and
\* recoveries, an update is durable with all the others of its group or not at
\* all.
THEOREM LogIsAtomic == Spec => ImplementsAtomicDisk
<1>1. Inv /\ [Next]_logVars => [Atomic!Next]_Atomic!diskVars
  <2> SUFFICES ASSUME Inv, [Next]_logVars PROVE [Atomic!Next]_Atomic!diskVars
    OBVIOUS
  <2>1. CASE UNCHANGED logVars
    <3>1. UNCHANGED Atomic!diskVars
      BY <2>1 DEF logVars, procs, memory, durable, Atomic!diskVars, Recovered, View,
                  Recovering, Current, Open
    <3> QED BY <3>1
  <2>2. CASE Next
    BY <2>2, BeginIsStart, EndIsFinish, ReleaseIsStutter, WriteIsUpdate, CacheIsStutter,
       WriteLogIsStutter, WriteHeadIsCommit, InstallIsStutter, EraseIsStutter,
       ReadHeadIsStutter, CrashIsCrash DEF Next, Disk
  <2> QED BY <2>1, <2>2
<1> QED BY <1>1, InitIsDiskInit, LogInvariance, PTL DEF Spec, ImplementsAtomicDisk, Atomic!Spec

-----------------------------------------------------------------------------
(* What the atomic disk promises of operations. *)

Contents == [Blocks -> SUBSET Ops]

\* What is durable is visible, and nothing of a running operation is durable.
Durable == \A o \in Ops, b \in Blocks :
             o \in Recovered[b] => o \in View[b] /\ o \notin Open

\* What the disk holds of an operation, and what reads return of it.
OnDisk(o) == {b \in Blocks : o \in Recovered[b]}
InView(o) == {b \in Blocks : o \in View[b]}

Whole == /\ Recovered \in Contents /\ View \in Contents /\ Open \subseteq Ops
         /\ Durable /\ Atomic!AllOrNothing

\* Every step of the atomic disk keeps what is durable visible, and splits no operation.
LEMMA WholeStep == Whole /\ [Atomic!Next]_Atomic!diskVars => Whole'
<1> SUFFICES ASSUME Whole, [Atomic!Next]_Atomic!diskVars PROVE Whole'
  OBVIOUS
<1> DEFINE Types == Recovered \in Contents /\ View \in Contents /\ Open \subseteq Ops
<1>0. Types /\ Durable /\ Atomic!AllOrNothing BY DEF Whole
<1>1. ASSUME NEW o \in Ops, Atomic!Start(o) PROVE Whole'
  <2>1. Types' BY <1>0, <1>1 DEF Atomic!Start
  <2>2. Durable' BY <1>0, <1>1 DEF Atomic!Start, Durable
  <2>3. Atomic!AllOrNothing' BY <1>0, <1>1 DEF Atomic!Start, Atomic!AllOrNothing
  <2> QED BY <2>1, <2>2, <2>3 DEF Whole
<1>2. ASSUME NEW o \in Ops, Atomic!Finish(o) PROVE Whole'
  <2>1. Types' BY <1>0, <1>2 DEF Atomic!Finish
  <2>2. Durable' BY <1>0, <1>2 DEF Atomic!Finish, Durable
  <2>3. Atomic!AllOrNothing' BY <1>0, <1>2 DEF Atomic!Finish, Atomic!AllOrNothing
  <2> QED BY <2>1, <2>2, <2>3 DEF Whole
<1>3. ASSUME NEW o \in Ops, NEW b \in Blocks, Atomic!Update(o, b) PROVE Whole'
  <2>1. Types' BY <1>0, <1>3 DEF Atomic!Update, Contents
  <2>2. Durable' BY <1>0, <1>3 DEF Atomic!Update, Durable, Contents
  <2>3. ASSUME NEW u \in Ops PROVE OnDisk(u)' = {} \/ OnDisk(u)' = InView(u)'
    <3>1. OnDisk(u) = {} \/ OnDisk(u) = InView(u)
      BY <1>0 DEF Atomic!AllOrNothing, OnDisk, InView
    <3>2. OnDisk(u)' = OnDisk(u) BY <1>3 DEF Atomic!Update, OnDisk
    <3>3. CASE u = o
      BY <1>0, <1>3, <3>2, <3>3 DEF Durable, Atomic!Update, OnDisk
    <3>4. CASE u # o
      <4>1. InView(u)' = InView(u) BY <1>0, <1>3, <3>4 DEF Atomic!Update, InView, Contents
      <4> QED BY <3>1, <3>2, <4>1
    <3> QED BY <3>3, <3>4
  <2>4. Atomic!AllOrNothing' BY <2>3 DEF Atomic!AllOrNothing, OnDisk, InView
  <2> QED BY <2>1, <2>2, <2>4 DEF Whole
<1>4. CASE Atomic!Commit
  BY <1>0, <1>4 DEF Whole, Atomic!Commit, Durable, Atomic!AllOrNothing
<1>5. CASE Atomic!Crash
  BY <1>0, <1>5 DEF Whole, Atomic!Crash, Durable, Atomic!AllOrNothing
<1>6. CASE UNCHANGED Atomic!diskVars
  BY <1>0, <1>6 DEF Whole, Atomic!diskVars, Durable, Atomic!AllOrNothing
<1> QED BY <1>1, <1>2, <1>3, <1>4, <1>5, <1>6 DEF Atomic!Next

\* Through any sequence of operations, commits, crashes and recoveries, what an operation
\* wrote is on the disk as a whole or not at all, once the log is replayed: what the redo
\* log (log.c) promises to file system calls.
THEOREM OperationsWhole == Spec => []Atomic!AllOrNothing
<1>1. Atomic!Init => Whole
  BY DEF Atomic!Init, Whole, Durable, Contents, Atomic!AllOrNothing
<1>2. Whole => Atomic!AllOrNothing BY DEF Whole
<1> QED BY <1>1, <1>2, WholeStep, LogIsAtomic, PTL DEF ImplementsAtomicDisk, Atomic!Spec
=============================================================================
