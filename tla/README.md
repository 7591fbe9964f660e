# Verification of operating_sys_314

TLA+ models of the programs in this repository, TLC runs that check them on
small instances, and TLAPS proofs of what matters most for every instance.

The repository holds three unrelated exercises and two shell scripts:

| directory | program | what is hard in it |
|---|---|---|
| `offline2 ipc_using_pthreads` | an airport, simulated with pthreads, semaphores and mutexes, in three versions | every passenger, or every machine, is a thread; locks handed from thread to thread; a shared one-way walkway |
| `offline3_xv6_lottery_scheduler` | the xv6 kernel with a lottery scheduler | several CPUs, a lock passed across context switches, sleep and wakeup, two passes over a changing table |
| `offline4_xv6_memory_mgt` | the xv6 kernel with paging to a swap file per process | two lists, a page table and a file that must agree; system calls that nest; crashes of the file system |
| `offline1 bash_script` | scripts that sort files by type | nothing concurrent |

## 1. The parts and how they interact

**Airport (offline2).** `PassengerLifeCycle` is the thread of one passenger. It
goes through *stations* (the kiosk row, one of N belts, the boarding officer,
the special kiosk) and the *VIP channel*. A station is a pair of counting
semaphores (free places, waiting passengers), a lock and a queue. There is no
thread per station: the thread of some passenger inside takes the lock and
serves whoever is in front of the queue, and then goes on with *its own*
passenger. The channel is a classic readers/writers construction with four
mutexes and two counters, with priority for the left side; mutexes are unlocked
by threads that did not lock them. Correct means: semaphores, queues and locks
agree; nobody walks against the stream; who lost a pass gets it back; everybody
boards. Two earlier programs have the same stations: the *first* without VIPs and
channel, and one in which kiosks, belts and officer are *machines*, threads
without end, that start a passenger's next thread when they have served it and
share one lock for everything.

**Processes and scheduler (offline3).** `ptable` holds the processes; CPUs run
`scheduler()`, which counts the tickets of the RUNNABLE slots under
`ptable.lock`, *releases the lock* to draw a number (`murmur`), takes it again
and looks for the winner. The lock is passed on through `swtch` and released by
the process that wakes up in `sched` or `forkret`. `fork`, `exit`, `wait`, `kill`,
`sleep`, `wakeup` change the table under the same lock. Correct means: no process
on two CPUs, no lost wakeup, no orphan left behind; shares according to tickets are
promised, and not given (section 5).

**Paging (offline4).** A process keeps `page_list` (the pages it has in memory,
in FIFO order) and `meta_list` (the pages in its swap file, with their
offset). `allocuvm` evicts a page when the list is full, `do_the_swap` exchanges
two pages at a fault, `deallocuvm` and `freevm` take pages out of the list *of the
running process*, `fork` copies table, lists and file. Correct means: frames are
neither lost nor freed twice, FIFO names pages that have a frame, slots of the
file are used once, and a program reads what it wrote.

**Log (offline3 and offline4, same code).** File system calls run between
`begin_op` and `end_op`; what they write is collected in a transaction, which the
last `end_op` writes to the log, commits by the header, and installs. After a
crash `initlog` installs the log again. It relies on the buffer cache not to
reuse a buffer that is newer than the disk. In offline4 the paging code calls
the file system (`writeToSwapFile`), also from within `exec`.

**Buffers and disk.** `bread` finds or recycles a buffer under `bcache.lock`, drops
that lock and takes the buffer's sleep lock; `iderw` puts the buffer into a queue and
sleeps until an interrupt has served it. Correct means: a block has one buffer, one
user at a time and one value; nobody sleeps for ever; no buffer leaks.

**Inodes and directories.** Inodes have a reference count (who uses them), a link
count (how many names), a sleep lock and blocks. Calls walk along paths, locking one
inode after the other, and most of the time drop one lock before they take the
next. Correct means: counts agree with what they count, blocks have one owner,
names behave as a tree promises, and no deadlock.

**Open files and pipes.** Descriptors share open files through `dup` and `fork`; a
pipe is a ring in a page with an open flag for each end. Correct means: the page
lives as long as an end is open, bytes stay in order, sleepers have a reason.

**Console.** The keyboard interrupt edits a line in a ring with three indices, from
which processes read; writing moves a cursor. Correct means: a terminal.

**Processes as programs see them.** `init` starts the shell, the shell parses what is
typed and starts programs, which make system calls on all of the above and on
their memory (`sbrk`, `malloc`). `mkfs` makes the first file system, and `usertests`
is the system's own statement of what its calls do. Correct means: these tests
pass whatever the order of processes; memory is given back; every program typed
comes to an end; a line means what it says.

## 2. Modules

| module | models | lines |
|---|---|---|
| `Walkway` | abstract: a walkway used in one direction at a time | specification |
| `VipChannel` | `LeftToRightVIP`, `RightToLeftVIP` | one action per pthread call |
| `Airport` | stations and `PassengerLifeCycle`; extends `VipChannel` | one action per blocking `sem_wait` |
| `Lottery` | the two passes of `scheduler()` as operators | no state |
| `ProcTable` | the process table; extends `Lottery` | one action per critical section of `ptable.lock` |
| `Paging` | address spaces, lists, swap files, frames | one action per `allocuvm` turn, fault or call |
| `AtomicDisk` | abstract: operations that become durable as a whole | specification |
| `Log` | `log.c` over the buffer cache | one action per disk write or critical section of `log.lock` |
| `FirstAirport`, `Machines` | the two earlier airports | as `Airport` |
| `Airports` | one of the three airports is started | composition |
| `BlockStore` | abstract: blocks with one holder and one value | specification |
| `Buffers` | `bio.c`, sleep locks, the queue of `ide.c` | one action per critical section |
| `ByteStreams` | abstract: bounded streams | specification |
| `Pipe`, `Files` | `pipe.c`; open files and descriptors over it | one action per critical section |
| `FileTree` | abstract: names and nodes | specification |
| `Inodes` | `fs.c` and the calls on paths of `sysfile.c` | one action from one lock to the next |
| `Terminal` | abstract: lines that are edited, ended and read | specification |
| `Console` | `console.c` | one action per character or critical section |
| `Scripts` | programs as sequences of calls | no state |
| `Heap`, `UserMemory` | `umalloc.c`; page tables and frames of offline3 | operators |
| `Mkfs` | the image `mkfs` writes | operators |
| `Shell` | `sh.c`: parser, commands, and what a line means | operators |
| `UserTests`, `UserPrograms` | `usertests.c`; the programs of `UPROGS` | operators |
| `SystemCalls` | processes that run programs; extends the five rows above | one action per call |
| `AirportProofs` (with the VIP channel), `ProcTableProofs`, `PagingProofs`, `LogProofs`, `BuffersProofs`, `InodesProofs`, `FilesProofs`, `ConsoleProofs` | theorems and proofs | |
| `MC...` | instances for TLC; each `.cfg` names its bounds | |

In every module a definition called `X_Something`, with the comment "Seeded
fault", is `X` with one plausible mistake. It is used by no specification; the
property it is there to break must fail when it takes the place of `X`.

### VipChannel
`pc[p]` names the side of the channel a passenger stands on or the next pthread
call it makes. A statement under a mutex belongs to the step that takes it.
Mutexes are default ones: a Boolean without owner, as the code needs, for the
last passenger out unlocks what the first one in has locked. `Walkway` is
implemented under the mapping "on the walkway = between the unlock that ends the
entry section and the lock that begins the exit section".

### Airport
`stage[p]` is the station, `step[p]` how far the thread is in its two functions
(`sendTo...` and `start...`); `empty`, `full`, `queue`, `locked` are the C variables
of the same names. `AtStation` is one text for the four copies the code has. The
lock is held during the `sleep` that stands for the service (`Serve`,
`Finish`). Facts about the code that the model shows and a reader may not
expect: one lock serves all kiosks and one all belts (`StationLocks`), so that
only one kiosk, and one belt, works at a time however many there are; a
thread may leave a station before its own passenger was served (with two
kiosks, a thread is at the belts while its passenger still stands at the kiosk,
although the assignment has it check in first).

`startKioskOp` and its like return no value although they are declared to:
nobody uses the value, and the model takes it for a plain return.

### ProcTable
`proc` is `ptable.proc`. A critical section is one step, with the exception of
the handoff: `lock = c` while the process that CPU `c` switched to has not
released `ptable.lock`. `at[p]` tells where a kernel thread is between two critical
sections of the same call (inside `fork`, in `wait`'s loop, before `sleep`), `cpu[c]`
what a CPU runs and the number it has drawn. `murmur` is any number below the
total. `exit` of init (a `kill(1)`) panics the kernel (`InitExits`, `Halted`).

### Paging
A page table entry has `PTE_P`, `PTE_PG` and the contents of its frame; frames
themselves are counted, not named. `mem` is what the process ought to read.
`growproc` is `Sbrk`, a run of `AllocPage` (other processes run while the swap
file is written) and possibly `AllocFails`; a fault is one step. Where the code
runs out of its arrays, uses a null pointer or panics, the model goes to
`broken` and stops: `AllocBreaks` (a sixteenth entry of `meta_list`, or a page
mapped twice), `FaultBreaks` and `ForkBreaks` (no frame left and nobody looks; FIFO
on an empty list, which `wait` makes possible by taking the child's addresses out
of the parent's list). Programs are assumed to touch memory below `sz` only.

### Log
A block's contents are the set of operations that changed it, so that a lost
update is seen. `phase` and `tail` are the program counter of `commit` or of the
recovery; there is one, because `committing` keeps others out. `home`, `logged` and
`head` survive `Crash`; everything else starts again. `AtomicDisk` is implemented
under the mapping "durable = what recovery would make of the disk", with the
write of the header as its commit.

### FirstAirport, Machines, Airports
The functions of the first program are those of `Airport`, so `FirstAirport` only has
its own life cycle. In `Machines` a passenger is at a station and `step` tells how far
its short thread is; `machine[s]` is the endless thread. `Airports` starts one of the three; the variables of the
others stay as they are.

### Buffers
`lru` is the circular list, `idequeue` the queue, `owner` the sleep locks. A process
may hold two buffers, in the order all callers use. `Written` is the set of blocks
changed under the log, whose buffers `log_write` leaves dirty for the commit. The bound of
`MayAsk` is two buffers to a process, nothing else: the log may leave any number
of buffers dirty (`LOGSIZE = NBUF`), and when all are dirty or in use, `bget` panics
(`BgetPanics`) and everything stops. What the properties say holds up to then.

### Files and Pipe
`pipe.c`'s counters count modulo `Wrap`, a multiple of the ring as 2^32 is of 512. kill
does not take the pipe's lock; on one CPU it cannot come between the test of `killed`
and the sleep, because interrupts are off. `cut` marks a full pipe whose
writer was killed: it returns without waking the readers.

### Inodes
`st[p]` is a call in progress: `cur` the inode its walk has reached, `drop` what it has
still to put. The model shows several behaviours of the code that are not what a
reader expects, and the properties are worded around exactly these:
- `iput` decides by the reference count, and gives the count back in a second step. Two
  processes that put the last two references at once both see two and neither frees
  the inode, which stays allocated without a name (until `mkfs`).
- A process inside a removed directory may make files there (`orphans`).
- The `..` of a removed directory still says where its parent was. When the parent is
  removed and freed, too, a process that goes up finds an inode that is free (`ilock`
  panics: `Lockable`) or already something else. When only the lower one is removed while
  somebody makes a directory in it, that directory leads back up to it. The run found
  the first `FileTree`, in which one comes to a node by its name only, too strong for that;
  hence its `Leads`, and that a node is not reclaimed while a directory in it leads there.
- `iput` takes the inode's lock, under another one's, in `dirlink`, `create` and `unlink`:
  two processes may wait for each other. `OnlyPutsDeadlock` says that
  nothing else does.

### Console
The ring has three characters and its indices wrap around as unsigned integers do.

### SystemCalls and what it extends
A program is a sequence of steps (`Scripts`): a call, the result the source insists
on, and what follows on success and on failure. `proc[p].todo` is what is left of it, and
`exec` replaces it by what the program file on the (modelled) disk says. A call is one
step; only `write` is one for each transaction of `filewrite` and each time a pipe
fills up, because other processes see what lies between. What calls do to each
other *inside* is the subject of the other modules. Memory counts in cells, a few
to the page; data counts in units.

`UserTests` has all of `usertests.c` that its `main` calls, with the same order of calls and
the same expected results, loops of 20 to 1000 rounds shortened to `N` or fewer. Its
`main` runs one test after the other; `Usertests` starts any *one* of them after
the other calls of `main`, so that the orders of processes multiply within a test
and not between tests. `TestsPass` fails as soon as a call returns what
the source of a program does not accept.

`Shell` has the parser twice: `ParseCmd` is the code, a recursive descent (written as
recursive functions and folds), and `Meaning` is the grammar: which command, if any,
a sequence of tokens is, by searching for the outermost `;`, `&` and `|`. `ParsedAsMeant`
compares them on every sequence of up to five tokens.

The copies of `sysfile.c`, `file.c`, `pipe.c`, `fs.c` (to line 670), `log.c`, `bio.c` and `ide.c` in
offline3 and offline4 are the same text (two functions of `sysfile.c` lose their
`static`). Each definition is mapped to one copy.

## 3. Runs

Passing runs:

| run | instance | shows |
|---|---|---|
| `vip` | 3 passengers, crossing for ever | `LockInv`: types, counters, mutexes and program points agree; `OneDirection`; `GateClosed`: no right passenger passes the gate while a left one waits or walks; the walkway is implemented; `FirstLeftCrosses`; `EveryoneCrosses` |
| `airport` | 3 passengers (1 VIP), 2 kiosks, 2 belts of 2 places; each of the three programs | semaphores, queues and locks agree (`StationInv`, `MachineBooks`); officer and special kiosk serve their caller (`OwnPass`); everybody boards |
| `proc_safety` | 4 slots, 2 CPUs, 4 pids, `kill` of any pid and of 0 | no process on two CPUs, living parents, unique pids (`Family`); no lost wakeup in `wait`, for children of one's own and inherited ones, and a killed process does not sleep there (`NoLostChild`) |
| `paging` | 2 processes, 3 pages, 6 frames, lists of 2 | frames balance, what is listed is resident, slots are exclusive (`PlacesAgree`); contents are kept (`PagesKept`) |
| `log` | 3 operations, 2 processes, 3 blocks, 2 crashes | reservations suffice; clean buffers equal the disk; the atomic disk is implemented; no call sleeps for ever in `begin_op` |
| `buffers` | 2 processes, 3 buffers, 4 blocks | `CacheInv`; nobody sleeps without somebody to wake it (`SleepersAreWoken`); the block store is implemented; the disk answers, unless `bget` panics before (`DiskAnswers`) |
| `files` | 2 processes, one page, pipe of 2 bytes, counters modulo 4, 3 files, 2 descriptors; one may be killed | pages and ends agree (`PipesLive`), sleepers have a reason, streams are implemented |
| `inodes` | 2 processes, 3 inodes, names `d`, `x`, files of one direct and one indirect block | `CountsAgree`, `BlocksOwned`, `OnlyPutsDeadlock`; the file tree is implemented |
| `console` | 2 readers, one may be killed, ring of 3, page of 3 rows of 2 | indices, sleepers and cursor (`ConsoleInv`); the terminal is implemented; an end of file is read by itself |
| `user` | 6 process slots, 55 frames; eleven sessions at the shell | all tests of `usertests`, `forktest` and `stressfs` pass in every order (`TestsPass`); no frame lost or used twice (`MemoryOwned`); at an idle prompt nothing of any program is left (`NothingLeft`); the parser (`ParsedAsMeant`); every session comes back to the prompt, but for what waits behind a program that spins, as in the test `preempt` (`EveryoneEnds`) |

A run that ends with a counterexample, against a sentence of the repository:

| run | property | what happens |
|---|---|---|
| `proc_shares` | `Shares` | of two RUNNABLE processes with a ticket each, the first wins every draw and the last none |
| `log_nested` | `OpsStart` | `exec` swaps within its own operation: the second write waits for a commit only its own `end_op` can make; one process suffices |

### Bounds, and why they are enough
- *Three passengers*: the counters distinguish first, middle and last, and both
  directions are present at once. The proofs drop the bound.
- *Two places and two belts*: one place makes every queue trivial; two let a
  thread serve another's passenger, and two belts share a lock. The proofs drop
  these bounds too.
- *Four slots on two CPUs*: init, a parent and its child, and a zombie with a
  grandparent, with a race between two CPUs. `MaxPid`
  bounds pids: four, and a slot whose fork failed is taken again. `nextpid` does not wrap in the model.
- *Three pages, lists of two*: every page can be in either place, the second
  eviction meets the shifted lists, six frames let both processes be full and
  fork fail. `Written = {0}`: one page with contents of its own tells a swapped
  page from a fresh and from a junk one.
- *Three operations, two crashes*: a group of two and a single one, a crash in
  the commit and one in the recovery from it. `MAXOPBLOCKS` (3) is larger than
  what a call writes (2), and `NLOG = LOGSIZE`, as in the code (10, at most 7, 30):
  `mkfs` counts the header among the blocks of the log, so the margin is needed.
- *Three buffers, four blocks*: a block must be thrown out while another is kept
  for the log; two processes want the same block, or all buffers at once, and one more
  than there are.
- *A ring of two bytes modulo four*: full, half full and empty at every position,
  and the counters wrap around during one message. One page, so that a new pipe takes
  the page of the old one; two descriptors, so that `pipe` fails half way.
- *Three inodes*: the root, a directory and a file, which may have two names and may be
  freed and allocated again as the other kind. One process makes `d`, goes in and up
  again, and what it makes inside is a directory `d/d` (each path may begin at the root instead); the other removes `d` meanwhile, and
  makes, opens, links (as `x`) and removes `d/x`. The proofs drop the bounds.
- *The user run*: six slots are init, shell and four more, which pipelines of
  three need; `forktest` fills them. `mem` and `sbrktest` take all of the 55 frames there are,
  so that calls fail half way.
  `PIPESIZE` 2, files of 6 units in transactions of 2: writes that take several
  steps, and files that grow too long. Five tokens: the shortest lines
  with two operators and their commands, blocks and redirections of blocks. The sessions
  cover every kind of command and every program at least once.
- `proc_safety` uses symmetry of the CPUs (no liveness there). No other run uses
  symmetry.
- Deadlock is not checked where the system stops rightly: `paging` (a kernel that
  has gone wrong stops), `files` and `console` (all processes have exited or sleep on
  input nobody gives), `user` (nothing more is typed), and `inodes`, where
  `OnlyPutsDeadlock` says which deadlocks the code has.

## 4. Fairness
- *Channel*: weak fairness of every thread that has begun to cross. Nothing is
  assumed of the mutexes for `FirstLeftCrosses`. POSIX does not promise that a
  mutex serves its waiters in turn, so `EveryoneCrosses` has strong fairness of
  the mutexes as a premise (`FairMutexes`). With endless arrivals on the left, right
  passengers starve by design; the crowd of a run is finite and each passenger
  has to walk back before it can come again.
- *Airports*: weak fairness of each thread, of machines too, and strong fairness of keeping the
  pass: `rand()%2` does not cost the same passenger its pass for ever.
- *Log*: the disk answers, processes are scheduled, calls reach `end_op`. The number
  of operations is finite. With endless ones a sleeper could starve: `begin_op`
  does not queue, and another call can take the space first each time.
- *Buffers*: the disk interrupts, and a process that has been woken goes on, as long as
  `bget` has not panicked. Nothing is assumed of those who hold buffers.
- *User*: one CPU, as the Makefiles run it, and one ticket each. A process that has a call to
  make (`Ready`) and wins a number in every draw (`HasNumber`: it is not the last RUNNABLE
  slot, or the only one) gets the processor again and again. The last one among several gets
  nothing: it has to wait until the others sleep or end. It is written `[]<>~(Ready(p) /\
  HasNumber(p)) \/ []<><<Calls(p)>>_vars`, which is weak fairness of `Calls(p)` while both hold,
  with its `ENABLED` in a form TLC evaluates quickly. Every session ends
  under that, for whoever is before the last slot sleeps or ends at last - unless it spins. In `preempt` two
  children spin in earlier slots than the third, which is to write what the parent reads: it
  hangs on this kernel. `EveryoneEnds` says that nothing else does (`BehindSpinners`); without that
  disjunct TLC reports `preempt`.
- The other runs check no liveness: a reader of a pipe or of the console may wait
  for ever when nobody writes.

## 5. Findings
Besides the runs `log_nested` and `proc_shares`, the following was met while reading and modelling. The
models behave as the code does here, or stop where it leaves its arrays.

- Scheduler: `lottery > cummulative_tickets` (offline3 `proc.c:364`) is off by one: the
  last RUNNABLE process has one number fewer than tickets, the first one more; a
  last process with one ticket never wins. The README of offline3 (line 7) promises each
  running process a slice "based on the number of tickets it has": the run `proc_shares`
  refutes it (`Shares`). In consequence the test `preempt` of `usertests` hangs (section 4).
- Buffers: `LOGSIZE = NBUF`: the log may keep as many dirty buffers as there are, and nothing in
  `bio.c` or `log.c` keeps a call from asking for one more; `bget` then panics.
- `kill(0)`, or of the pid of a failed fork, marks an UNUSED slot (`proc.c:570`), and
  `allocproc` does not clear the mark: the next process there dies at birth.
- `settickets` does not reject numbers below one (README of offline3, line 11).
- Channel: a right passenger past the gate enters while a left one waits.
- Paging: `copyuvm` (offline4 `vm.c:412`, `430`) copies the freed frame of a page that is in the
  swap file, so that a child reads junk. `deallocuvm` leaves the entries of
  swapped pages behind. `createSwapFile` leaves its file when the fork fails
  later. `writeToSwapFile` fails beyond the largest file size, and nobody looks.
- The two orders of `tickslock` and `ptable.lock` (section 7).
- Inodes: the leak and the deadlock of section 2; an inode that is open without
  a name when the machine stops is never freed; a removed directory's `..` may
  lead to an inode that is free (`ilock` panics), or has been given to something
  else: even to a directory that `mkdir` is just making, and a `mkdir` in it changes a
  link count that the first one then sets to 1; `NINODE` (50) is less
  than `NFILE` (100), and `iget` panics.
- Shell: `>>` is `>`, and neither truncates nor appends; `a > x > y` makes both files
  and writes to `x`; `a & b` is a syntax error.
- `usertests`: `createdelete` removes the files of another letter than it makes in its
  last loop, and leaves some; `writetest1` accepts a file shorter than it wrote
  except by one block.

## 6. What is proved
The proofs hold for every value of the constants that satisfies the assumption each
module names (`PassengersAssumption`, `LogAssumption`, ...), and are checked by TLAPS to
the last leaf. The assumptions say little: sets of processes are finite, there is one (init), sizes are
numbers and those the code divides by are not zero, and what the code has as a
relation between constants (`LOGSIZE` has room for one operation, the wrap of a counter
is a multiple of its ring, as 2^32 is of 512 and of 128). Theorems with a
hypothesis beside them are those about the lottery (`Holding`: at the moment they speak of,
every RUNNABLE process has a ticket) and those about inodes (`Steady` or `NobodyGoesUp`, below).

In each module the argument has the same form: the property is not inductive; an
invariant that relates where a process is to what it holds is, and TLC checked
that invariant on the run's instance before it was proved. One lemma per action shows that
the action keeps it.

**VIP channel** (`AirportProofs`). That two directions never meet depends on who has
been counted, who has the counter's mutex and who has locked the channel for the
others. `LockInv` says all of it: each counter equals the threads between `++` and `--`; each counter's
mutex is locked exactly while some thread is in that part; the thread that
locks or frees for its direction is alone in it; the two shared mutexes are
locked exactly while some direction or some passenger in the gate owns them.
From it with the types: `TypeCorrect`, `LocksAgree`, `WalkwayOneDirection`, `GateKeepsOut` and, with the
mapping to `Walkway`, `ChannelImplementsWalkway`.

**Airport** (`AirportProofs`). `StationInv` and `OwnPass` with the types are
inductive. `OwnPass` needs the counting: a station with one place never has more
than one passenger inside, so the one in front is the caller.
`AirportUsesChannel`: the airport implements `VipChannel`, each life-cycle step
being a step of the channel or none, so that every theorem of the channel holds
in the airport; `AirportOneDirection` is the first of them. For the machines
(`MachinesAgree`), `MachineInv` books each station separately (`Book`): `empty`, `full` and
the queue count the passengers and the one machine by where they stand; the lock
they share goes with the one machine that serves. `ProgramsAgree` carries the
books of the first airport to `Airports`, the composition the run checks.

**Process table** (`ProcTableProofs`). `TableInv`: the types, one CPU per process, forks and
embryos paired one to one, every process but init with a living parent other than itself,
pids given out once, and `NoLostChild`. Families and wakeups need each other: that a
sleeper in `wait` has a child follows from reparenting, and that nobody forgets to
wake it from the parents. `SharesAmongHolders` says what a draw gives each RUNNABLE process, at every
moment when each of them has a ticket, whatever `settickets` was asked for before: its tickets, one more for the first,
one fewer for the last. `TheLastStarves` draws the conclusion for a last process with one ticket. Both
describe how far the code is from `Shares`, for a table of any size, and rest on sums of tickets as
cardinalities (`Lots`, `TicketSum`).

**Paging** (`PagingProofs`). `PagingInv` adds to the types and `FramesCounted`: the lists are within
their arrays, name each page once, only pages in memory, and the meta list names each
slot of the swap file once (`Lists`); `sz`, the page `growproc` has come to, and its goal are
in order, and nothing is mapped beyond (`Sizes`); and every page below the one
`growproc` has come to, not only below `sz`, is somewhere and reads as written (`Kept`) -
`PagesKept` alone is not inductive, because `sz` jumps when `growproc` ends. From it `PlacesAlwaysAgree` and
`NoPageLost`. `remove_from_page_list` and `deallocuvm` need counting without induction:
`Ranks` numbers the positions of a list that stay, and `SublistFacts` follows from it.

**Log** (`LogProofs`). The invariant follows the blocks of the header phase by
phase from the cache to the log and home (`BlocksInv`), with the two headers (`HeaderInv`), who is
in an operation (`ProcsInv`, `OpsInv`) and the room (`SpaceInv`). From it
`CleanBuffersOnDisk`, `ReservedIsEnough`, `LogIsAtomic` (every step is one of
`AtomicDisk` or changes nothing it shows) and `OperationsWhole`. The proof found
the first wording of `Reserved` false for values no run has (`MAXOPBLOCKS = LOGSIZE =
NLOG`): it said the log is never full while an operation runs, whereas it may be
full once each running operation has written what it may. As it is now it speaks of the
operations that may still write.

**Buffers** (`BuffersProofs`). `Inv`: what a process points to and why (`PointersInv`), what a
buffer contains (`ContentsInv`), users and lock holders (`UsersInv`), the queue without
repetitions (`QueueInv`), the list with every buffer on it (`LruInv`). `CacheCorrect`,
`NoSleeperForgotten`. That `bget` does not panic is not claimed: the callers do not see to it.
`CacheIsAStore` is the refinement of `BlockStore`.

**Inodes** (`InodesProofs`). `Inv` has, beside the types: what the registers of a call hold at
each point (`RegsInv`) and which locks that means it has (`LockInv`); the cache against the disk,
also while an inode is freed (`CacheInv`, `FreeingInv`); that nobody has come to an inode that is
free or in the making (`FreshInv`); what a call still knows of the inodes it came to
(`KnowsInv`); directories with one name and a `..` that leads back (`DirInv`); the link counts, where an
orphan has more links than names (`LinksInv`); no set of directories in which each has its
name in another one (`NoLoops`); and `BlocksOwned`. None of them is inductive alone: that a link
count is right needs that the directory has the type the walk saw, which
needs that it was not freed, which needs the reference count. From it
`CountsAgreeWhileSteady`, `BlocksOwnedWhileSteady` and, because a circle of calls that lock a directory and then
what it names would be a loop of directories, `OnlyPutsDeadlockWhileSteady`. `FileTreeWhileSteady` is the
refinement of `FileTree`: each action changes nothing the tree shows (`TreeStutters`), or one
name, one kind, or whether one inode is in use (`NodeUsed`, `NodeLeft`, `NodeMade`, `NodeLinked`,
`NodeUnlinked`, `NodeReclaimed`). An inode that `ialloc` has taken is none of the tree before its
name is written, and what is freed can no longer be come to: nothing names it, no directory in
it leads up to it, and nobody has it in a register. These theorems have
`[]Steady` as a hypothesis: whoever looks up `..` in a directory without a name finds one
that has a name, or a user. Without it they are false of the code (section 5). `Steady`
is about where programs go, not about what calls do to each other. It holds in every
state of the run `inodes`, where a process does enter a directory that is removed, and goes up;
so does `Inv`. `NeverUpNeverWrong` has no such hypothesis: where no program gives a path with `..`
in it (`NobodyGoesUp`, which speaks of the constants `Calls` and `Links` only), all
four hold of every behaviour of `Spec`, removed directories and orphans included.

**Pipes and files** (`FilesProofs`). `TableInv` leaves the contents of pipes out: reference counts,
what a process holds in the middle of a call (`ProcsInv`, `UsersInv`), and that each open end of a pipe
has one file or one process that closes it (`EndsInv`). From it `PipesLiveWhileUsed`.
With `RingsInv` and `SleepersInv` on top, `PipeSleepersHaveReason` (the exception, a writer killed
on a full pipe, is in the property), and `PipesAreStreams`, where counters and
indices wrap around.

**Console** (`ConsoleProofs`). `ConsoleInv` and its strengthening hold for every ring and every
word that is a multiple of it: distances are taken modulo the word, indices modulo the ring.
`ConsoleIsATerminal` needs `LineOpen`, which no run checks by itself: the part still
edited holds no newline, so that `^U`, which stops at a newline, erases all of it.

Some definitions were given a form that can be reasoned about, each checked against
the same runs and mutants as before: counts as cardinalities of sets of
pairs (`RefsCounted`, `TicketSum`, `Copies`) where there was a sum over a set; a rotation of the
buffer list as a function (`ToFront`); the parts of `page_list` that stay as `Sublist`;
`n` backspaces at once (`Backward`); the blocks of an inode by their place in it
(`BlockAt`); and in the mapping of `Log`, the operations that are `Open`.

Only model-checked:
- Everything about liveness (fairness and `ENABLED` are beyond TLAPS here): `FirstLeftCrosses`,
  `EveryoneCrosses`, `EveryoneBoards`, `OpsStart`, `DiskAnswers`, `EveryoneEnds`.
- `SystemCalls` (`TestsPass`, `MemoryOwned`, `NothingLeft`) and `ParsedAsMeant`: `Heap`, `Shell` and
  the programs are written with recursion, and what a recursive definition
  computes cannot be proved (the induction theorems of the library take an
  operator, which no installed prover can instantiate).

## 7. Not modelled, inside what is modelled
- Printing, wall clock, random arrival times of the airport; `io_lock` (nothing blocks
  while it is held); the printed kiosk number, which is a shared counter.
- Ticks per process, `getpinfo`, and the two acquisitions of `tickslock` inside the
  scheduler. The scheduler takes `tickslock` while it holds `ptable.lock`;
  `sys_sleep` and the timer interrupt take them in the other order. With two
  CPUs that can deadlock; the Makefiles run one.
- Negative numbers of tickets, for which `total_tickets`, an unsigned sum, is not the sum.
- `exec` in `Paging`, frames for tables, stacks and pipes, processes 1 and 2 (which
  do not page), the time a fault sleeps on the disk while it has a frame in hand.
- In `Log`: which clean buffer `bget` takes, the sleep locks of buffers (each block
  is changed in one step): both are in `Buffers`.
- In `Buffers`: a disk that fails (`idewait` reports it, and only a read looks), a second disk.
- In `Files`: files that are inodes, which are in `Inodes` and `SystemCalls`. In `Inodes`: contents of
  files, `fstat`, devices, a full table of open files.
- In `SystemCalls`: what a call does while others are in it (the other modules), ticks, the
  fields of `fstat`, damaged programs, numbers of tickets other than one. Of `usertests`, `dirtest` and
  `fsfull`, which its `main` does not call.
- In the console: how `kbd.c` makes characters of scan codes, the serial line, colours.

Not modelled at all: boot code, interrupt controllers and device registers
(assembly and device programming, stock xv6), spin locks (a critical section is one
step), `printf` and `cprintf`, `getpinfo`, the lock order of section 7, `launchp` (it never
ends), offline4's swap files as files with names, and the scripts of offline1
(sequential, around `cp`, `mv` and `find`).

## 8. Plan
Done: channel, the three airports, process table, paging, log, buffers, pipes and files,
inodes, console, and the system as programs see it; proofs about all but the last. Next:

1. `TickLocks`: the lock order of scheduler, clock and `sys_sleep` on two CPUs.
2. `exec` with the page lists of the old image, composed with `Paging`, and swap files.
