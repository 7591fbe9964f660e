-------------------------------- MODULE Pipe ---------------------------------
(***************************************************************************)
(* Pipes (pipe.c): a ring of PIPESIZE bytes in a page from kalloc, with    *)
(* two counters that only grow and wrap around as unsigned integers do.    *)
(*                                                                         *)
(* A process in a call is at pc[p]; pipe[p] is the pipe it was given.  One *)
(* step is one critical section of p->lock: from acquire, or the return of *)
(* sleep, to release or the next sleep.  kill() does not take that lock.   *)
(* It may come between the test of killed and the sleep only on a second   *)
(* CPU, since interrupts are off while a lock is held; the kernel is built *)
(* and run with one (CPUS in the Makefile), and so is the model.           *)
(***************************************************************************)
EXTENDS Integers, FiniteSets, Sequences

CONSTANTS Procs, Pages, Bytes,
          PIPESIZE,
          Wrap        \* 2^32 in the code: where nread and nwrite wrap around

NoPage == "no page"

\* 512 divides 2^32.
ASSUME PipeAssumption == /\ IsFiniteSet(Procs) /\ Bytes # {}
                         /\ NoPage \notin Pages
                         /\ PIPESIZE \in Nat \ {0}
                         /\ Wrap \in Nat
                         /\ Wrap % PIPESIZE = 0 /\ Wrap >= 2 * PIPESIZE

VARIABLES
  inUse,                \* the pages that are a pipe
  readopen, writeopen, nread, nwrite, data,   \* struct pipe, per page
  pc, pipe,
  todo, byte,           \* what a read or write still has to move
  killed,
  cut                   \* observed: pipes in which a killed writer stopped half-way

pipes    == <<inUse, readopen, writeopen, nread, nwrite, data>>
transfer == <<pipe, todo, byte>>
pipeVars == <<pipes, pc, transfer, killed, cut>>

Slots   == 0 .. PIPESIZE - 1
AnyByte == CHOOSE b \in Bytes : TRUE

\* Unsigned subtraction.
Count(k) == (nwrite[k] - nread[k]) % Wrap
Full(k)  == nwrite[k] = (nread[k] + PIPESIZE) % Wrap
Empty(k) == nread[k] = nwrite[k]

Least(m, n) == IF m <= n THEN m ELSE n

PipeInit ==
  /\ inUse = {}
  /\ readopen = [k \in Pages |-> FALSE] /\ writeopen = [k \in Pages |-> FALSE]
  /\ nread = [k \in Pages |-> 0] /\ nwrite = [k \in Pages |-> 0]
  /\ data = [k \in Pages |-> [j \in Slots |-> AnyByte]]
  /\ pipe = [p \in Procs |-> NoPage]
  /\ todo = [p \in Procs |-> 0]
  /\ byte = [p \in Procs |-> AnyByte]
  /\ killed = [p \in Procs |-> FALSE]
  /\ cut = {}

\* Nothing is in the pipe, and nothing is remembered of what was.
Blank(k) == /\ nread' = [nread EXCEPT ![k] = 0]
            /\ nwrite' = [nwrite EXCEPT ![k] = 0]
            /\ data' = [data EXCEPT ![k] = [j \in Slots |-> AnyByte]]

\* pipealloc's second half: the page becomes a pipe.
NewPipe(k) == /\ inUse' = inUse \cup {k}
              /\ readopen' = [readopen EXCEPT ![k] = TRUE]
              /\ writeopen' = [writeopen EXCEPT ![k] = TRUE]
              /\ Blank(k)
              /\ cut' = cut \ {k}

\* Sleepers on one channel of pipe k, moved on by wakeup, and the caller's new point.
WakeAnd(p, point, k, asleep, awake) ==
  pc' = [q \in Procs |-> IF q = p THEN point
                         ELSE IF pc[q] = asleep /\ pipe[q] = k THEN awake
                         ELSE pc[q]]
WakeReaders(p, point, k) == WakeAnd(p, point, k, "rsleep", "read")
WakeWriters(p, point, k) == WakeAnd(p, point, k, "wsleep", "write")

Return == "user"

\* The call is over: what it worked on does not matter any more.
Leave(p) == /\ pipe' = [pipe EXCEPT ![p] = NoPage]
            /\ todo' = [todo EXCEPT ![p] = 0]
            /\ byte' = [byte EXCEPT ![p] = AnyByte]

-----------------------------------------------------------------------------
(* pipewrite *)

\* m bytes go in.
Fill(p, k, m) ==
  /\ nwrite' = [nwrite EXCEPT ![k] = (@ + m) % Wrap]
  /\ data' = [data EXCEPT ![k] = [j \in Slots |-> IF (j - nwrite[k]) % PIPESIZE < m
                                                  THEN byte[p] ELSE @[j]]]

Room(k) == PIPESIZE - Count(k)

PipeWriteEnds(p) ==
  /\ pc[p] = "write" /\ todo[p] <= Room(pipe[p])
  /\ Fill(p, pipe[p], todo[p])
  /\ WakeReaders(p, Return, pipe[p])
  /\ Leave(p)
  /\ UNCHANGED <<inUse, readopen, writeopen, nread, killed, cut>>

\* The pipe fills up, and nobody is going to read, or the process has been killed:
\* -1, without a wakeup.
PipeWriteFails(p) ==
  /\ pc[p] = "write" /\ todo[p] > Room(pipe[p])
  /\ ~readopen[pipe[p]] \/ killed[p]
  /\ Fill(p, pipe[p], Room(pipe[p]))
  /\ pc' = [pc EXCEPT ![p] = Return]
  /\ cut' = IF readopen[pipe[p]] THEN cut \cup {pipe[p]} ELSE cut
  /\ Leave(p)
  /\ UNCHANGED <<inUse, readopen, writeopen, nread, killed>>

\* Seeded fault: the writer sleeps without having woken the readers.
PipeWriteSleeps_NoWakeup(p) ==
  /\ pc[p] = "write" /\ todo[p] > Room(pipe[p])
  /\ readopen[pipe[p]] /\ ~killed[p]
  /\ Fill(p, pipe[p], Room(pipe[p]))
  /\ todo' = [todo EXCEPT ![p] = @ - Room(pipe[p])]
  /\ pc' = [pc EXCEPT ![p] = "wsleep"]
  /\ UNCHANGED <<inUse, readopen, writeopen, nread, pipe, byte, killed, cut>>

PipeWriteSleeps(p) ==
  /\ pc[p] = "write" /\ todo[p] > Room(pipe[p])
  /\ readopen[pipe[p]] /\ ~killed[p]
  /\ Fill(p, pipe[p], Room(pipe[p]))
  /\ todo' = [todo EXCEPT ![p] = @ - Room(pipe[p])]
  /\ WakeReaders(p, "wsleep", pipe[p])
  /\ UNCHANGED <<inUse, readopen, writeopen, nread, pipe, byte, killed, cut>>

-----------------------------------------------------------------------------
(* piperead *)

PipeReadSleeps(p) ==
  /\ pc[p] = "read" /\ Empty(pipe[p]) /\ writeopen[pipe[p]] /\ ~killed[p]
  /\ pc' = [pc EXCEPT ![p] = "rsleep"]
  /\ UNCHANGED <<pipes, transfer, killed, cut>>

PipeReadFails(p) ==
  /\ pc[p] = "read" /\ Empty(pipe[p]) /\ writeopen[pipe[p]] /\ killed[p]
  /\ pc' = [pc EXCEPT ![p] = Return]
  /\ Leave(p)
  /\ UNCHANGED <<pipes, killed, cut>>

\* m bytes are taken out, and forgotten.
Drain(k, m) ==
  /\ nread' = [nread EXCEPT ![k] = (@ + m) % Wrap]
  /\ data' = [data EXCEPT ![k] = [j \in Slots |-> IF (j - nread[k]) % PIPESIZE < m
                                                  THEN AnyByte ELSE @[j]]]

\* Seeded fault: the counters are compared as if they did not wrap around.
PipeReadEnds_NoWrap(p) ==
  /\ pc[p] = "read" /\ ~(Empty(pipe[p]) /\ writeopen[pipe[p]])
  /\ LET k == pipe[p] IN
       Drain(k, Least(todo[p], IF nwrite[k] > nread[k] THEN nwrite[k] - nread[k] ELSE PIPESIZE))
  /\ WakeWriters(p, Return, pipe[p])
  /\ Leave(p)
  /\ UNCHANGED <<inUse, readopen, writeopen, nwrite, killed, cut>>

\* At most what is there is copied; nothing, at the end of the file.
PipeReadEnds(p) ==
  /\ pc[p] = "read" /\ ~(Empty(pipe[p]) /\ writeopen[pipe[p]])
  /\ Drain(pipe[p], Least(todo[p], Count(pipe[p])))
  /\ WakeWriters(p, Return, pipe[p])
  /\ Leave(p)
  /\ UNCHANGED <<inUse, readopen, writeopen, nwrite, killed, cut>>

-----------------------------------------------------------------------------
(* pipeclose; the caller is at pc[p] = "close" and goes on to the given point. *)

Freed(k, readers, writers) == ~readers /\ ~writers

PipeClose(p, k, writable, point) ==
  /\ writeopen' = [writeopen EXCEPT ![k] = @ /\ ~writable]
  /\ readopen' = [readopen EXCEPT ![k] = @ /\ writable]
  /\ IF writable THEN WakeReaders(p, point, k) ELSE WakeWriters(p, point, k)
  /\ inUse' = IF Freed(k, readopen'[k], writeopen'[k]) THEN inUse \ {k} ELSE inUse
  /\ IF k \in inUse' THEN UNCHANGED <<nread, nwrite, data>> ELSE Blank(k)
  /\ UNCHANGED <<killed, cut>>

\* kill: a sleeper is woken.
Kill(p) == /\ ~killed[p]
           /\ killed' = [killed EXCEPT ![p] = TRUE]
           /\ pc' = [pc EXCEPT ![p] = CASE @ = "rsleep" -> "read"
                                        [] @ = "wsleep" -> "write"
                                        [] OTHER -> @]
           /\ UNCHANGED <<pipes, transfer, cut>>

\* The calls of a process that go on by themselves.
PipeCall(p) == \/ PipeWriteEnds(p) \/ PipeWriteFails(p) \/ PipeWriteSleeps(p)
               \/ PipeReadSleeps(p) \/ PipeReadFails(p) \/ PipeReadEnds(p)
=============================================================================
