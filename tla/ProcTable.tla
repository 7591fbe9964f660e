----------------------------- MODULE ProcTable -----------------------------
(***************************************************************************)
(* The process table of the lottery-scheduled xv6 (offline3, proc.c):      *)
(* fork, exit, wait, kill, sleep and wakeup, yield, settickets and the     *)
(* scheduler, on several CPUs.                                             *)
(*                                                                         *)
(* Everything between acquire(&ptable.lock) and release is one step, which *)
(* needs the lock free.  The exception is the handoff: scheduler() takes   *)
(* the lock, switches to the winner with the lock held, and the winner     *)
(* goes on inside sched() or forkret() and releases it.  lock names the    *)
(* CPU of a process that is in that part.  What a process does between two *)
(* critical sections of one system call is at[p].                          *)
(*                                                                         *)
(* Left out: page tables, files, directories and kernel stacks (allocation *)
(* may fail at any fork), and tickslock around the reading of ticks, which *)
(* the scheduler takes while it holds ptable.lock: README, "Not modelled".*)
(***************************************************************************)
EXTENDS Lottery

CONSTANTS NPROC,          \* size of the table
          Cpus,
          NoCpu,
          MaxPid,         \* bound: no process is created with a higher pid
          TicketChoices,  \* numbers passed to settickets
          Victims         \* pids passed to kill

ASSUME ProcAssumption == /\ NPROC \in Nat \ {0}
                         /\ NoCpu \notin Cpus
                         /\ MaxPid \in Nat \ {0}
                         /\ TicketChoices \subseteq Nat

VARIABLES
  proc,      \* ptable.proc: the slots' records
  nextpid,
  at,        \* where slot p's kernel thread is, between critical sections
  np,        \* fork's local np, 0 outside fork
  cpu,       \* per CPU: the running slot or 0, and the number drawn or NoDraw
  lock,      \* ptable.lock: the CPU of a process just switched to, or NoCpu
  panicked   \* init has exited

procVars == <<proc, nextpid, at, np, cpu, lock, panicked>>

Slots    == 1 .. NPROC
Null     == 0             \* a null struct proc pointer, a zero chan
initproc == 1             \* userinit takes the first slot
Ticks    == NPROC + 1     \* the channel &ticks
NoDraw   == -1
Idle     == [proc |-> Null, lottery |-> NoDraw]

States == {"UNUSED", "EMBRYO", "SLEEPING", "RUNNABLE", "RUNNING", "ZOMBIE"}
Live   == {"SLEEPING", "RUNNABLE", "RUNNING"}
Points == {"user", "forking", "wait", "tosleep"}

InState(s) == {p \in Slots : proc[p].state = s}
Children(p) == {q \in Slots : proc[q].parent = p}
Zombies(p)  == {q \in Children(p) : proc[q].state = "ZOMBIE"}

Free == [state |-> "UNUSED", pid |-> 0, parent |-> Null, killed |-> FALSE,
         chan |-> Null, tickets |-> 0]

\* After userinit.
Init == /\ proc = [p \in Slots |->
                     IF p = initproc
                     THEN [Free EXCEPT !.state = "RUNNABLE", !.pid = 1, !.tickets = 1]
                     ELSE Free]
        /\ nextpid = 2
        /\ at = [p \in Slots |-> "user"]
        /\ np = [p \in Slots |-> Null]
        /\ cpu = [c \in Cpus |-> Idle]
        /\ lock = NoCpu
        /\ panicked = FALSE

-----------------------------------------------------------------------------
(* Who may take a step. *)

\* Process p runs on CPU c and is not inside sched() or forkret().
Runs(p, c) == /\ ~panicked
              /\ cpu[c].proc = p
              /\ lock # c

\* acquire(&ptable.lock) succeeds.
CanLock == ~panicked /\ lock = NoCpu

\* p enters a system call: a killed process exits instead (trap).
InUser(p, c) == Runs(p, c) /\ at[p] = "user" /\ ~proc[p].killed

Goto(p, to) == at' = [at EXCEPT ![p] = to]

\* p gives CPU c back to the scheduler, which releases the lock.
LeaveCpu(c) == /\ cpu' = [cpu EXCEPT ![c] = Idle]
               /\ lock' = NoCpu

\* wakeup1(chan), on a table.
Wakeup1(table, chans) ==
  [q \in Slots |-> IF table[q].state = "SLEEPING" /\ table[q].chan \in chans
                   THEN [table[q] EXCEPT !.state = "RUNNABLE"] ELSE table[q]]

-----------------------------------------------------------------------------
(* fork *)

\* allocproc: the first UNUSED slot, a new pid, one ticket.  (Without a free
\* slot fork returns -1 and nothing changes.)
AllocProc(p, c) ==
  /\ InUser(p, c) /\ CanLock
  /\ nextpid <= MaxPid
  /\ InState("UNUSED") # {}
  /\ LET q == Min(InState("UNUSED"))
     IN  /\ proc' = [proc EXCEPT ![q].state = "EMBRYO", ![q].pid = nextpid,
                                 ![q].tickets = 1]
         /\ np' = [np EXCEPT ![p] = q]
  /\ nextpid' = nextpid + 1
  /\ Goto(p, "forking")
  /\ UNCHANGED <<cpu, lock, panicked>>

\* kalloc or copyuvm fails: the slot is given back, without the lock.
ForkFails(p, c) ==
  /\ Runs(p, c) /\ at[p] = "forking"
  /\ proc' = [proc EXCEPT ![np[p]].state = "UNUSED"]
  /\ np' = [np EXCEPT ![p] = Null]
  /\ Goto(p, "user")
  /\ UNCHANGED <<nextpid, cpu, lock, panicked>>

\* The child inherits the tickets and becomes RUNNABLE.
ForkSucceeds(p, c) ==
  /\ Runs(p, c) /\ CanLock /\ at[p] = "forking"
  /\ proc' = [proc EXCEPT ![np[p]].parent = p,
                          ![np[p]].tickets = proc[p].tickets,
                          ![np[p]].state = "RUNNABLE"]
  /\ np' = [np EXCEPT ![p] = Null]
  /\ Goto(p, "user")
  /\ UNCHANGED <<nextpid, cpu, lock, panicked>>

-----------------------------------------------------------------------------
(* exit *)

\* Seeded fault: abandoned children keep their parent.
ExitTable_NoReparent(p) ==
  [Wakeup1(proc, {proc[p].parent}) EXCEPT ![p].state = "ZOMBIE"]

\* Seeded fault: init is not woken for the zombies it inherits.
ExitTable_NoWakeInit(p) ==
  LET woken == Wakeup1(proc, {proc[p].parent})
  IN  [q \in Slots |->
         IF q = p THEN [woken[q] EXCEPT !.state = "ZOMBIE"]
         ELSE IF q \in Children(p) THEN [woken[q] EXCEPT !.parent = initproc]
         ELSE woken[q]]

\* The table after exit: the parent woken, the children passed to init, init
\* woken if one of them is a ZOMBIE, and p a ZOMBIE.
ExitTable(p) ==
  LET woken == Wakeup1(proc, {proc[p].parent} \cup
                             (IF Zombies(p) # {} THEN {initproc} ELSE {}))
  IN  [q \in Slots |->
         IF q = p THEN [woken[q] EXCEPT !.state = "ZOMBIE"]
         ELSE IF q \in Children(p) THEN [woken[q] EXCEPT !.parent = initproc]
         ELSE woken[q]]

\* The system call, a kill that has reached user space, or a fault.
Exit(p, c) == /\ Runs(p, c) /\ CanLock /\ at[p] = "user"
              /\ p # initproc
              /\ proc' = ExitTable(p)
              /\ LeaveCpu(c)
              /\ UNCHANGED <<nextpid, at, np, panicked>>

\* init only exits when it was killed: panic("init exiting").
InitExits(p, c) == /\ Runs(p, c) /\ at[p] = "user"
                   /\ p = initproc /\ proc[p].killed
                   /\ panicked' = TRUE
                   /\ UNCHANGED <<proc, nextpid, at, np, cpu, lock>>

-----------------------------------------------------------------------------
(* wait *)

EnterWait(p, c) == /\ InUser(p, c)
                   /\ Goto(p, "wait")
                   /\ UNCHANGED <<proc, nextpid, np, cpu, lock, panicked>>

\* p is about to scan the table: it takes the lock, or has been switched to
\* inside sleep() and still holds it.
Scans(p, c) == /\ ~panicked /\ cpu[c].proc = p /\ at[p] = "wait"
               /\ \/ lock = NoCpu
                  \/ lock = c /\ proc[p].chan = p

Reap(p, c) ==
  /\ Scans(p, c)
  /\ Zombies(p) # {}
  /\ LET z == Min(Zombies(p))
     IN  proc' = [proc EXCEPT ![z].state = "UNUSED", ![z].pid = 0,
                              ![z].parent = Null, ![z].killed = FALSE,
                              ![p].chan = Null]
  /\ lock' = NoCpu
  /\ Goto(p, "user")
  /\ UNCHANGED <<nextpid, np, cpu, panicked>>

NothingToWaitFor(p) == Children(p) = {} \/ proc[p].killed

WaitFails(p, c) == /\ Scans(p, c)
                   /\ Zombies(p) = {}
                   /\ NothingToWaitFor(p)
                   /\ proc' = [proc EXCEPT ![p].chan = Null]
                   /\ lock' = NoCpu
                   /\ Goto(p, "user")
                   /\ UNCHANGED <<nextpid, np, cpu, panicked>>

\* sleep(curproc, &ptable.lock).
WaitSleeps(p, c) == /\ Scans(p, c)
                    /\ Zombies(p) = {}
                    /\ ~NothingToWaitFor(p)
                    /\ proc' = [proc EXCEPT ![p].state = "SLEEPING", ![p].chan = p]
                    /\ LeaveCpu(c)
                    /\ UNCHANGED <<nextpid, at, np, panicked>>

\* One scan of the table by wait, and what it leads to.
Scan(p, c) == Reap(p, c) \/ WaitFails(p, c) \/ WaitSleeps(p, c)

-----------------------------------------------------------------------------
(* sys_sleep, the clock, kill, settickets *)

\* sys_sleep holds tickslock from its test of killed until it is asleep.
TicksLocked == \E p \in Slots : at[p] = "tosleep" /\ proc[p].state = "RUNNING"

EnterSleep(p, c) == /\ InUser(p, c) /\ ~TicksLocked
                    /\ Goto(p, "tosleep")
                    /\ UNCHANGED <<proc, nextpid, np, cpu, lock, panicked>>

\* sleep(&ticks, &tickslock).
SleepOnTicks(p, c) ==
  /\ Runs(p, c) /\ CanLock /\ at[p] = "tosleep"
  /\ proc' = [proc EXCEPT ![p].state = "SLEEPING", ![p].chan = Ticks]
  /\ Goto(p, "user")
  /\ LeaveCpu(c)
  /\ UNCHANGED <<nextpid, np, panicked>>

\* The timer interrupt of the first CPU: wakeup(&ticks).
Tick == /\ CanLock /\ ~TicksLocked
        /\ proc' = Wakeup1(proc, {Ticks})
        /\ UNCHANGED <<nextpid, at, np, cpu, lock, panicked>>

KillTable(q) ==
  [proc EXCEPT ![q].killed = TRUE,
               ![q].state = IF @ = "SLEEPING" THEN "RUNNABLE" ELSE @]

\* The first slot with this pid, whatever its state.
Kill(p, c) ==
  /\ InUser(p, c) /\ CanLock
  /\ \E pid \in Victims :
       LET found == {q \in Slots : proc[q].pid = pid}
       IN  found # {} /\ proc' = KillTable(Min(found))
  /\ UNCHANGED <<nextpid, at, np, cpu, lock, panicked>>

SetTickets(p, c) ==
  /\ InUser(p, c) /\ CanLock
  /\ \E n \in TicketChoices :
       LET found == {q \in Slots : proc[q].pid = proc[p].pid}
       IN  proc' = [proc EXCEPT ![Min(found)].tickets = n]
  /\ UNCHANGED <<nextpid, at, np, cpu, lock, panicked>>

-----------------------------------------------------------------------------
(* yield and the scheduler *)

\* The timer interrupts p: no tick comes while p holds a lock.
Yield(p, c) == /\ Runs(p, c) /\ CanLock /\ at[p] # "tosleep"
               /\ proc' = [proc EXCEPT ![p].state = "RUNNABLE"]
               /\ LeaveCpu(c)
               /\ UNCHANGED <<nextpid, at, np, panicked>>

Tickets == [p \in Slots |-> proc[p].tickets]

\* The first critical section of scheduler() and the draw.
Draw(c) == /\ CanLock
           /\ cpu[c] = Idle
           /\ \E n \in Draws(InState("RUNNABLE"), Tickets) :
                cpu' = [cpu EXCEPT ![c].lottery = n]
           /\ UNCHANGED <<proc, nextpid, at, np, lock, panicked>>

\* The second one: the walk over the table as it is now.
Dispatch(c) ==
  /\ CanLock
  /\ cpu[c].proc = Null /\ cpu[c].lottery # NoDraw
  /\ LET w == Winner(InState("RUNNABLE"), Tickets, cpu[c].lottery)
     IN  IF w = 0 THEN /\ cpu' = [cpu EXCEPT ![c] = Idle]
                       /\ UNCHANGED <<proc, lock>>
                  ELSE /\ cpu' = [cpu EXCEPT ![c] = [proc |-> w, lottery |-> NoDraw]]
                       /\ proc' = [proc EXCEPT ![w].state = "RUNNING"]
                       /\ lock' = c
  /\ UNCHANGED <<nextpid, at, np, panicked>>

\* p goes on in forkret, in yield, or in sleep() on the clock, and releases the
\* lock.  (In wait it scans the table again first: see Scans.)
Resume(p, c) == /\ ~panicked /\ cpu[c].proc = p /\ lock = c
                /\ proc[p].chan # p
                /\ proc' = [proc EXCEPT ![p].chan = Null]
                /\ lock' = NoCpu
                /\ UNCHANGED <<nextpid, at, np, cpu, panicked>>

-----------------------------------------------------------------------------
Syscall(p, c) ==
  \/ AllocProc(p, c) \/ ForkFails(p, c) \/ ForkSucceeds(p, c)
  \/ Exit(p, c) \/ InitExits(p, c)
  \/ EnterWait(p, c) \/ Scan(p, c)
  \/ EnterSleep(p, c) \/ SleepOnTicks(p, c)
  \/ Kill(p, c) \/ SetTickets(p, c)

Halted == panicked /\ UNCHANGED procVars

Next == \/ \E p \in Slots, c \in Cpus : Syscall(p, c) \/ Yield(p, c) \/ Resume(p, c)
        \/ \E c \in Cpus : Draw(c) \/ Dispatch(c)
        \/ Tick
        \/ Halted

Spec == Init /\ [][Next]_procVars

-----------------------------------------------------------------------------
(* Safety *)

\* Every variable has its type; a process has a number of tickets that somebody
\* asked for, or the one it is born with.
TypeOK ==
  /\ proc \in [Slots -> [state : States, pid : 0 .. MaxPid, parent : Slots \cup {Null},
                         killed : BOOLEAN, chan : 0 .. Ticks,
                         tickets : TicketChoices \cup {0, 1}]]
  /\ nextpid \in 1 .. MaxPid + 1
  /\ at \in [Slots -> Points]
  /\ np \in [Slots -> Slots \cup {Null}]
  /\ cpu \in [Cpus -> [proc : Slots \cup {Null}, lottery : Nat \cup {NoDraw}]]
  /\ lock \in Cpus \cup {NoCpu}
  /\ panicked \in BOOLEAN

\* A process is RUNNING exactly while one CPU runs it, and that CPU alone.
OneCpuEach ==
  \A p \in Slots :
    /\ proc[p].state = "RUNNING" <=> \E c \in Cpus : cpu[c].proc = p
    /\ \A c, d \in Cpus : cpu[c].proc = p /\ cpu[d].proc = p => c = d

\* The table agrees with the CPUs; every process but init has a parent that can still
\* wait for it, pids are unique among the processes, and no two forks fill the same
\* slot.
Family ==
  /\ TypeOK
  /\ OneCpuEach
  /\ \A p \in Slots : proc[p].state \in Live \cup {"ZOMBIE"} /\ p # initproc =>
       proc[p].parent # Null /\ proc[proc[p].parent].state \in Live
  /\ \A p, q \in Slots :
       /\ proc[p].state # "UNUSED" /\ proc[q].state # "UNUSED"
       /\ proc[p].pid = proc[q].pid
       => p = q
  /\ \A p \in Slots : proc[p].state = "EMBRYO" =>
       Cardinality({q \in Slots : np[q] = p}) = 1

\* No lost wakeup: a parent never sleeps in wait while it has a ZOMBIE child,
\* its own or one inherited, nor without any child, nor after it was killed.
NoLostChild ==
  \A p \in Slots : proc[p].state = "SLEEPING" /\ proc[p].chan = p =>
    Children(p) # {} /\ Zombies(p) = {} /\ ~proc[p].killed

\* The lottery's promise (README of the offline, line 7): of the numbers that can be drawn,
\* each RUNNABLE process wins for as many as it has tickets.
Shares ==
  \A p \in InState("RUNNABLE") :
    Cardinality(Wins(InState("RUNNABLE"), Tickets, p)) = proc[p].tickets
=============================================================================
