--------------------------------- MODULE Log ---------------------------------
(***************************************************************************)
(* The file system's redo log (log.c) with the part of the buffer cache it *)
(* relies on: begin_op and end_op of concurrent system calls, log_write,   *)
(* the commit, and the recovery after a crash, which may come between any  *)
(* two writes to the disk.                                                 *)
(*                                                                         *)
(* The contents of a block are the set of operations that have updated it: *)
(* an operation reads a block, changes its part of it and calls log_write  *)
(* with the buffer locked, in one step.  The blocks of the log itself are  *)
(* written and not kept.  A clean buffer may be reused for another block   *)
(* at any time; which one bget takes, and its panic when there is none,    *)
(* are left out.  log_write's panic on a full log is a call that does not  *)
(* return; Reserved says that there is none.                               *)
(*                                                                         *)
(* A process in Nested makes file system calls within an open operation.   *)
(* That is exec in offline4, when the image it loads is swapped out.       *)
(***************************************************************************)
EXTENDS Integers, FiniteSets, SequencesExt

CONSTANTS Procs, Nested,
          Blocks,        \* home blocks of the disk
          MAXOPBLOCKS,   \* blocks begin_op reserves for an operation
          OpBlocks,      \* blocks an operation really writes
          LOGSIZE,       \* entries of the header
          NLOG,          \* blocks mkfs gives to the log, the header among them
          MaxOps,        \* bound: operations started
          MaxCrashes     \* bound: crashes

\* Every call writes fewer blocks than begin_op reserves for it; mkfs makes the
\* log LOGSIZE blocks long.
ASSUME LogAssumption == /\ IsFiniteSet(Procs) /\ Nested \subseteq Procs
                        /\ MAXOPBLOCKS \in Nat /\ OpBlocks \in Nat
                        /\ LOGSIZE \in Nat /\ NLOG \in Nat
                        /\ OpBlocks < MAXOPBLOCKS
                        /\ MAXOPBLOCKS <= LOGSIZE
                        /\ LOGSIZE <= NLOG
                        /\ MaxOps \in Nat /\ MaxCrashes \in Nat

VARIABLES
  pc,           \* per process: "run", "begin" and "asleep" in begin_op, "commit"
  depth,        \* how many operations it has open
  op,           \* the one it opened last
  touched,      \* the blocks that one has written
  outstanding, committing, lh,   \* struct log; lh holds the block numbers only
  phase, tail,  \* where commit or recovery is; "idle" when neither runs
  buf,          \* cached copies of the home blocks
  home,         \* disk: the home blocks
  logged,       \* disk: the log's blocks
  head,         \* disk: the log's header
  nextOp, crashes

procs   == <<pc, depth, op, touched>>
memory  == <<outstanding, committing, lh, buf>>
durable == <<home, logged, head>>
bounds  == <<nextOp, crashes>>
logVars == <<procs, memory, phase, tail, durable, bounds>>

Ops    == 1 .. MaxOps
NoOp   == 0
Phases == {"idle", "write_log", "write_head", "install", "erase", "release",
           "read_head"}

\* A buf: B_VALID, B_DIRTY and the data.
NotCached   == [valid |-> FALSE, dirty |-> FALSE, data |-> {}]
Clean(data) == [valid |-> TRUE, dirty |-> FALSE, data |-> data]
Dirty(data) == [valid |-> TRUE, dirty |-> TRUE, data |-> data]

NoCache == [b \in Blocks |-> NotCached]
NoTx    == [p \in Procs |-> NoOp]

Init ==
  /\ pc = [p \in Procs |-> "run"]
  /\ depth = [p \in Procs |-> 0]
  /\ op = NoTx
  /\ touched = [p \in Procs |-> {}]
  /\ outstanding = 0 /\ committing = FALSE /\ lh = <<>>
  /\ phase = "idle" /\ tail = 1
  /\ buf = NoCache
  /\ home = [b \in Blocks |-> {}]
  /\ logged = [i \in 1 .. NLOG - 1 |-> {}]
  /\ head = <<>>
  /\ nextOp = 1 /\ crashes = 0

-----------------------------------------------------------------------------
(* Operations *)

\* Recovery runs before the first process returns to user space.
Recovering == phase # "idle" /\ ~committing

MaxDepth(p) == IF p \in Nested THEN 2 ELSE 1

\* The contents bread returns.
Current(b) == IF buf[b].valid THEN buf[b].data ELSE home[b]

\* A process runs within the operation it writes for.
Writes(p) == pc[p] = "run" /\ depth[p] = MaxDepth(p)

CallOp(p) == /\ ~Recovering
             /\ pc[p] = "run" /\ depth[p] < MaxDepth(p)
             /\ nextOp <= MaxOps
             /\ pc' = [pc EXCEPT ![p] = "begin"]
             /\ op' = [op EXCEPT ![p] = nextOp]
             /\ nextOp' = nextOp + 1
             /\ UNCHANGED <<depth, touched, memory, phase, tail, durable, crashes>>

\* Seeded fault: what the other operations may still write is not counted.
SpaceFor_OnlyMine == Len(lh) + MAXOPBLOCKS <= LOGSIZE

SpaceFor == Len(lh) + (outstanding + 1) * MAXOPBLOCKS <= LOGSIZE

BeginSleeps(p) == /\ pc[p] = "begin"
                  /\ committing \/ ~SpaceFor
                  /\ pc' = [pc EXCEPT ![p] = "asleep"]
                  /\ UNCHANGED <<depth, op, touched, memory, phase, tail, durable,
                                 bounds>>

BeginOp(p) == /\ pc[p] = "begin"
              /\ ~committing /\ SpaceFor
              /\ outstanding' = outstanding + 1
              /\ pc' = [pc EXCEPT ![p] = "run"]
              /\ depth' = [depth EXCEPT ![p] = @ + 1]
              /\ touched' = [touched EXCEPT ![p] = {}]
              /\ UNCHANGED <<op, committing, lh, buf, phase, tail, durable, bounds>>

LogFull == Len(lh) >= LOGSIZE \/ Len(lh) >= NLOG - 1

\* Seeded fault: B_DIRTY is not set.
WriteBlock_NotPinned(p, b) ==
  /\ ~Recovering /\ Writes(p) /\ ~LogFull
  /\ b \notin touched[p] /\ Cardinality(touched[p]) < OpBlocks
  /\ buf' = [buf EXCEPT ![b] = Clean(Current(b) \cup {op[p]})]
  /\ lh' = IF Contains(lh, b) THEN lh ELSE Append(lh, b)
  /\ touched' = [touched EXCEPT ![p] = @ \cup {b}]
  /\ UNCHANGED <<pc, depth, op, outstanding, committing, phase, tail, durable,
                 bounds>>

\* bread, a change of the data, log_write and brelse.
WriteBlock(p, b) ==
  /\ ~Recovering /\ Writes(p) /\ ~LogFull
  /\ b \notin touched[p] /\ Cardinality(touched[p]) < OpBlocks
  /\ buf' = [buf EXCEPT ![b] = Dirty(Current(b) \cup {op[p]})]
  /\ lh' = IF Contains(lh, b) THEN lh ELSE Append(lh, b)
  /\ touched' = [touched EXCEPT ![p] = @ \cup {b}]
  /\ UNCHANGED <<pc, depth, op, outstanding, committing, phase, tail, durable,
                 bounds>>

\* wakeup(&log), with process p going to state s.
WakeupAnd(p, s) == [q \in Procs |-> CASE q = p -> s
                                      [] pc[q] = "asleep" -> "begin"
                                      [] OTHER -> pc[q]]

Closed(p) == /\ outstanding' = outstanding - 1
             /\ depth' = [depth EXCEPT ![p] = @ - 1]
             /\ op' = [op EXCEPT ![p] = NoOp]
             /\ touched' = [touched EXCEPT ![p] = {}]

\* The last one commits, when there is something to commit.
EndOp(p) ==
  /\ pc[p] = "run" /\ depth[p] > 0
  /\ Closed(p)
  /\ IF outstanding = 1
     THEN /\ committing' = TRUE
          /\ pc' = [pc EXCEPT ![p] = "commit"]
          /\ phase' = IF lh = <<>> THEN "release" ELSE "write_log"
     ELSE /\ pc' = WakeupAnd(p, "run")
          /\ UNCHANGED <<committing, phase>>
  /\ UNCHANGED <<lh, buf, tail, durable, bounds>>

-----------------------------------------------------------------------------
(* Commit: each step ends with one write to the disk. *)

\* The phase after block tail of the header has been written.
Following(here, next) ==
  IF tail < Len(lh) THEN /\ tail' = tail + 1
                         /\ phase' = here
                    ELSE /\ tail' = 1
                         /\ phase' = next

\* Seeded fault: the log's blocks are written after the header.
WriteLog_HeadFirst ==
  /\ phase = "write_log"
  /\ head' = lh
  /\ logged' = [logged EXCEPT ![tail] = Current(lh[tail])]
  /\ Following("write_log", "write_head")
  /\ UNCHANGED <<procs, memory, home, bounds>>

WriteLog ==
  /\ phase = "write_log"
  /\ logged' = [logged EXCEPT ![tail] = Current(lh[tail])]
  /\ Following("write_log", "write_head")
  /\ UNCHANGED <<procs, memory, home, head, bounds>>

\* The true point at which the transaction commits.
WriteHead ==
  /\ phase = "write_head"
  /\ head' = lh
  /\ phase' = "install"
  /\ UNCHANGED <<procs, memory, tail, home, logged, bounds>>

\* install_trans, one block; by commit and by recovery.
InstallTrans ==
  /\ phase = "install"
  /\ home' = [home EXCEPT ![lh[tail]] = logged[tail]]
  /\ buf' = [buf EXCEPT ![lh[tail]] = Clean(logged[tail])]
  /\ Following("install", "erase")
  /\ UNCHANGED <<procs, outstanding, committing, lh, logged, head, bounds>>

\* log.lh.n = 0 and write_head.
Erase ==
  /\ phase = "erase"
  /\ lh' = <<>>
  /\ head' = <<>>
  /\ phase' = IF committing THEN "release" ELSE "idle"
  /\ UNCHANGED <<procs, outstanding, committing, buf, tail, home, logged, bounds>>

\* Seeded fault: nobody is woken after the commit.
Release_NoWakeup(p) ==
  /\ phase = "release" /\ pc[p] = "commit"
  /\ committing' = FALSE
  /\ phase' = "idle"
  /\ pc' = [pc EXCEPT ![p] = "run"]
  /\ UNCHANGED <<depth, op, touched, outstanding, lh, buf, tail, durable, bounds>>

\* The end of end_op, after the commit.
Release(p) ==
  /\ phase = "release" /\ pc[p] = "commit"
  /\ committing' = FALSE
  /\ phase' = "idle"
  /\ pc' = WakeupAnd(p, "run")
  /\ UNCHANGED <<depth, op, touched, outstanding, lh, buf, tail, durable, bounds>>

-----------------------------------------------------------------------------
(* The buffer cache, crashes, recovery *)

\* bread for a file system call that reads; reads need no operation.
Bread(b) == /\ ~Recovering /\ ~buf[b].valid
            /\ buf' = [buf EXCEPT ![b] = Clean(home[b])]
            /\ UNCHANGED <<procs, outstanding, committing, lh, phase, tail, durable,
                           bounds>>

\* bget reuses a buffer nobody holds, unless it is dirty.
Recycle(b) == /\ ~Recovering /\ buf[b].valid /\ ~buf[b].dirty
              /\ buf' = [buf EXCEPT ![b] = NotCached]
              /\ UNCHANGED <<procs, outstanding, committing, lh, phase, tail, durable,
                             bounds>>

\* The machine stops, and starts again with initlog.
Crash == /\ crashes < MaxCrashes
         /\ crashes' = crashes + 1
         /\ pc' = [p \in Procs |-> "run"]
         /\ depth' = [p \in Procs |-> 0]
         /\ op' = NoTx
         /\ touched' = [p \in Procs |-> {}]
         /\ outstanding' = 0 /\ committing' = FALSE /\ lh' = <<>>
         /\ buf' = NoCache
         /\ phase' = "read_head" /\ tail' = 1
         /\ UNCHANGED <<durable, nextOp>>

ReadHead == /\ phase = "read_head"
            /\ lh' = head
            /\ phase' = IF head = <<>> THEN "erase" ELSE "install"
            /\ UNCHANGED <<procs, outstanding, committing, buf, tail, durable, bounds>>

-----------------------------------------------------------------------------
Begins(p)  == CallOp(p) \/ BeginSleeps(p) \/ BeginOp(p)
Disk       == WriteLog \/ WriteHead \/ InstallTrans \/ Erase \/ ReadHead

Next == \/ \E p \in Procs : Begins(p) \/ EndOp(p) \/ Release(p)
        \/ \E p \in Procs, b \in Blocks : WriteBlock(p, b)
        \/ \E b \in Blocks : Bread(b) \/ Recycle(b)
        \/ Disk
        \/ Crash

Spec == Init /\ [][Next]_logVars

\* The scheduler runs every process, the disk answers every request, and every
\* call that has its operation open comes to end_op.
FairSpec == /\ Spec
            /\ WF_logVars(Disk)
            /\ \A p \in Procs : /\ WF_logVars(BeginSleeps(p) \/ BeginOp(p))
                                /\ WF_logVars(EndOp(p))
                                /\ WF_logVars(Release(p))

-----------------------------------------------------------------------------
(* Properties *)

\* Every variable has its type; the header names a block once.
TypeOK ==
  /\ pc \in [Procs -> {"run", "begin", "asleep", "commit"}]
  /\ depth \in [Procs -> 0 .. 2]
  /\ op \in [Procs -> Ops \cup {NoOp}]
  /\ touched \in [Procs -> SUBSET Blocks]
  /\ outstanding \in Nat
  /\ committing \in BOOLEAN
  /\ lh \in Seq(Blocks) /\ IsInjective(lh)
  /\ phase \in Phases
  /\ tail \in 1 .. NLOG
  /\ buf \in [Blocks -> [valid : BOOLEAN, dirty : BOOLEAN, data : SUBSET Ops]]
  /\ home \in [Blocks -> SUBSET Ops]
  /\ logged \in [1 .. NLOG - 1 -> SUBSET Ops]
  /\ head \in Seq(Blocks)
  /\ nextOp \in 1 .. MaxOps + 1
  /\ crashes \in 0 .. MaxCrashes

\* The operations now running, and what each has of its reservation: its n-th
\* block for every n beyond the ones it has written.
InOp   == {p \in Procs : Writes(p)}
Unused == {s \in InOp \X (1 .. MAXOPBLOCKS) : Cardinality(touched[s[1]]) < s[2]}

\* What begin_op reserved is enough: the entries there are, with those that the
\* operations now running may add, fit into the header, and no call of log_write
\* meets a full log.
Reserved ==
  /\ TypeOK
  /\ Len(lh) + Cardinality(Unused) <= LOGSIZE
  /\ \A p \in InOp : Cardinality(touched[p]) < OpBlocks => ~LogFull

\* A clean buffer equals the block on the disk, so that it may be reused; the
\* dirty ones are blocks of the log that are not installed yet.
CleanIsOnDisk ==
  \A b \in Blocks : buf[b].valid =>
    IF buf[b].dirty THEN Contains(lh, b) ELSE buf[b].data = home[b]

\* What recovery would make of the disk.
Recovered ==
  [b \in Blocks |-> IF Contains(head, b)
                    THEN logged[CHOOSE i \in 1 .. Len(head) : head[i] = b]
                    ELSE home[b]]

\* The operations that can write.
Open == {op[p] : p \in {q \in Procs : depth[q] = MaxDepth(q)}}

\* What reads return; during recovery, what they will return.
View == IF Recovering THEN Recovered ELSE [b \in Blocks |-> Current(b)]

Atomic == INSTANCE AtomicDisk WITH
            disk <- Recovered, view <- View, open <- Open

\* The log implements the atomic disk: through every crash, also one during
\* recovery, an update is durable with all the others of its group or not at all.
ImplementsAtomicDisk == Atomic!Spec

\* begin_op, log.c lines 20-21: a call that finds the log close to running out
\* "sleeps until the last outstanding end_op() commits".  Every call gets its
\* operation, unless the machine crashes.
OpsStart == \A p \in Procs :
              (pc[p] = "begin") ~> (pc[p] = "run" \/ phase = "read_head")
=============================================================================
