---------------------------- MODULE SystemCalls -----------------------------
(***************************************************************************)
(* The system as its programs see it: processes that make system calls     *)
(* (syscall.c, sysfile.c, sysproc.c) on the file system of mkfs, on open   *)
(* files, pipes and their memory, from init to the shell to what is typed  *)
(* at it.  A call is one step, except that a write is one step for each    *)
(* transaction or each time a pipe fills up; what calls do to each other   *)
(* in between is in Files, Inodes, Log and ProcTable.                      *)
(***************************************************************************)
EXTENDS UserPrograms, UserMemory, Heap, Mkfs

CONSTANTS NPROC, NOFILE, NFILE,
          PIPESIZE, \* units in a pipe
          WRITE,    \* units filewrite puts into one transaction
          NFRAMES,  \* frames of memory
          Disk,     \* the files mkfs is given
          Sessions, \* what may be typed: sequences of lines
          Alphabet, TYPED \* tokens of the line being typed, and how many there are at most

VARIABLES inode, \* the allocated inodes
          ftable, pipe, proc,
          free,  \* the number of free frames
          lines, \* what will be typed
          typed, \* a line that is being typed
          oops   \* a program has found what it did not expect

vars == <<inode, ftable, pipe, proc, free, lines, typed, oops>>

Procs == 1 .. NPROC
Fds   == 0 .. NOFILE - 1
None  == 0

NoProc == [state |-> "UNUSED", parent |-> None, killed |-> FALSE, s |-> Empty, cwd |-> None,
           ofile |-> [d \in Fds |-> None], todo |-> <<>>, reg |-> Variables, buf |-> <<>>,
           done |-> 0, heap |-> NoHeap]
NoFile == [ref |-> 0, type |-> "none", id |-> None, off |-> 0, r |-> FALSE, w |-> FALSE]

\* userinit, with the exec of init done.
Init ==
  LET x == Image(NFRAMES - 1, PGSIZE, <<>>)
  IN  /\ inode = MkfsImage(Disk)
      /\ ftable = [f \in 1 .. NFILE |-> NoFile]
      /\ pipe = <<>>
      /\ proc = [p \in Procs |-> IF p # 1 THEN NoProc
                  ELSE [NoProc EXCEPT !.state = "RUNNABLE", !.s = x.s, !.cwd = ROOTINO,
                                      !.todo = InitMain]]
      /\ free = x.free
      /\ lines \in Sessions
      /\ typed = <<>>
      /\ oops = FALSE

-----------------------------------------------------------------------------
(* The step a process is at, and what follows it.                          *)

Step(p)  == Head(proc[p].todo)
Arg(p)   == Step(p).arg
At_(p, op) == /\ proc[p].state = "RUNNABLE" /\ ~proc[p].killed
              /\ proc[p].todo # <<>> /\ Step(p).op = op

\* Whether the program may get n and data.
Meets(c, n, data, reg) ==
  CASE c.want = "any"  -> TRUE
    [] c.want = "ok"   -> n >= 0
    [] c.want = "fail" -> n < 0
    [] c.want = "n"    -> n = c.val
    [] c.want = "var"  -> n = reg[c.var] + c.val
    [] c.want = "data" -> data = c.data

Again(c, n, reg) == CASE c.again = "no"    -> FALSE
                      [] c.again = "other" -> n >= 0 /\ n # reg[c.var]
                      [] OTHER             -> n > 0
Follows(q, n) ==
  LET c == Head(q.todo)
  IN  IF Again(c, n, q.reg) THEN c.ok \o q.todo
      ELSE (IF n < 0 THEN c.no ELSE IF c.again = "no" THEN c.ok ELSE <<>>) \o Tail(q.todo)

\* The process, back from its call with n and data; it exits if that is not what it wants.
Returned(q, n, data) ==
  LET c == Head(q.todo)
      reg == IF c.to = "" THEN q.reg ELSE (c.to :> n) @@ q.reg
      round == c.again = "count" /\ n > 0
  IN  [q EXCEPT !.reg = IF round THEN [reg EXCEPT !.n = @ + 1] ELSE reg,
                !.buf = IF c.again = "no" THEN data ELSE q.buf \o data,
                !.done = 0,
                !.todo = IF Meets(c, n, data, q.reg) THEN Follows(q, n) ELSE <<>>]

\* procs: the processes as the call leaves them, p not yet returned.
Return(p, procs, n, data) ==
  /\ proc' = [procs EXCEPT ![p] = Returned(@, n, data)]
  /\ oops' = (oops \/ ~Meets(Step(p), n, data, proc[p].reg))
  /\ UNCHANGED <<lines, typed>>

Gets_(p, n) == Return(p, proc, n, <<>>)
Fails(p) == Gets_(p, -1) /\ UNCHANGED <<inode, ftable, pipe, free>>

-----------------------------------------------------------------------------
(* Directories and inodes.                                                 *)

Trunc(name) == IF name = Fifteen THEN Fourteen ELSE name

IsDir(i) == i # None /\ inode[i].type = "dir"
DirLookup(i, name) == IF IsDir(i) /\ Trunc(name) \in DOMAIN inode[i].ent
                      THEN inode[i].ent[Trunc(name)] ELSE None
\* namei and nameiparent.
NameX(p, path) == FoldLeft(DirLookup, IF path.abs THEN ROOTINO ELSE proc[p].cwd, path.elems)
ParentOf(p, path) ==
  LET d == NameX(p, [path EXCEPT !.elems = Front(@)])
  IN  IF path.elems = <<>> \/ ~IsDir(d) THEN None ELSE d
NameOf(path) == Trunc(Last(path.elems))

\* iput: an inode without a name goes when nobody holds it any more.
Held(files, procs) == {files[f].id : f \in {g \in DOMAIN files : files[g].type = "inode"}}
                      \cup {procs[p].cwd : p \in Procs}
Put(ino, files, procs) ==
  Restrict(ino, {i \in DOMAIN ino : ino[i].nlink > 0 \/ i \in Held(files, procs)})

FreeInum == Min((1 .. Cardinality(DOMAIN inode) + 1) \ DOMAIN inode)

\* create: the new inode with its name in d, a directory with its own two names.
Created(d, name, type) ==
  LET i == FreeInum
      new == [Dinode(type) EXCEPT !.ent = IF type = "dir" THEN "." :> i @@ ".." :> d ELSE <<>>]
      up == IF type = "dir" THEN 1 ELSE 0
  IN  (i :> new) @@ [inode EXCEPT ![d].ent = (name :> i) @@ @, ![d].nlink = @ + up]

\* [what create returns, the inodes after it].
Create_(p, path, type) ==
  LET d == ParentOf(p, path)
      i == DirLookup(d, NameOf(path))
  IN  IF d = None THEN [i |-> None, inode |-> inode]
      ELSE IF i # None
           THEN [i |-> IF type = "file" /\ inode[i].type = "file" THEN i ELSE None,
                 inode |-> inode]
      ELSE [i |-> FreeInum, inode |-> Created(d, NameOf(path), type)]

-----------------------------------------------------------------------------
(* Open files, descriptors and pipes.                                      *)

File(p, x) == LET d == proc[p].reg[x] IN IF d \in Fds THEN proc[p].ofile[d] ELSE None
FreeFiles == {f \in DOMAIN ftable : ftable[f].ref = 0}
FreeFds(p) == {d \in Fds : proc[p].ofile[d] = None}

\* pipeclose: the second end gives the frame back.  x: [ftable, pipe, free].
PipeClose(x, id, w) ==
  LET ends == IF w THEN [x.pipe[id] EXCEPT !.w = FALSE] ELSE [x.pipe[id] EXCEPT !.r = FALSE]
  IN  IF ends.r \/ ends.w THEN [x EXCEPT !.pipe[id] = ends]
      ELSE [x EXCEPT !.pipe = Restrict(@, DOMAIN @ \ {id}), !.free = @ + 1]

FileClose(x, f) ==
  LET file == x.ftable[f]
      y == [x EXCEPT !.ftable[f] = IF file.ref > 1 THEN [file EXCEPT !.ref = @ - 1] ELSE NoFile]
  IN  IF file.ref > 1 \/ file.type # "pipe" THEN y ELSE PipeClose(y, file.id, file.w)

Open_ == [ftable |-> ftable, pipe |-> pipe, free |-> free]
SetOpen(x) == ftable' = x.ftable /\ pipe' = x.pipe /\ free' = x.free

SysOpen(p) ==
  /\ At_(p, "open")
  /\ LET mode == Arg(p).mode
         made == Create_(p, Arg(p).path, "file")
         x == IF Create \in mode THEN made ELSE [i |-> NameX(p, Arg(p).path), inode |-> inode]
         bad == x.i # None /\ x.inode[x.i].type = "dir" /\ mode # {}
         f == Min(FreeFiles)
         d == Min(FreeFds(p))
     IN  IF x.i = None \/ bad \/ FreeFiles = {} \/ FreeFds(p) = {}
         THEN Gets_(p, -1) /\ inode' = x.inode /\ UNCHANGED <<ftable, pipe, free>>
         ELSE /\ inode' = x.inode
              /\ ftable' = [ftable EXCEPT ![f] =
                   [ref |-> 1, type |-> "inode", id |-> x.i, off |-> 0,
                    r |-> WrOnly \notin mode, w |-> {WrOnly, RdWr} \cap mode # {}]]
              /\ Return(p, [proc EXCEPT ![p].ofile[d] = f], d, <<>>)
              /\ UNCHANGED <<pipe, free>>

SysClose(p) ==
  /\ At_(p, "close")
  /\ LET f == File(p, Arg(p).fd)
         x == FileClose(Open_, f)
     IN  IF f = None THEN Fails(p)
         ELSE /\ SetOpen(x)
              /\ Return(p, [proc EXCEPT ![p].ofile[proc[p].reg[Arg(p).fd]] = None], 0, <<>>)
              /\ inode' = Put(inode, ftable', proc')

SysDup(p) ==
  /\ At_(p, "dup")
  /\ LET f == File(p, Arg(p).fd)
         d == Min(FreeFds(p))
     IN  IF f = None \/ FreeFds(p) = {} THEN Fails(p)
         ELSE /\ ftable' = [ftable EXCEPT ![f].ref = @ + 1]
              /\ Return(p, [proc EXCEPT ![p].ofile[d] = f], d, <<>>)
              /\ UNCHANGED <<inode, pipe, free>>

\* pipealloc takes two files and a frame or nothing; the frame is where the pipe lives.
SysPipe(p) ==
  /\ At_(p, "pipe")
  /\ LET id == Min((1 .. NFILE) \ DOMAIN pipe)
         f0 == Min(FreeFiles)
         f1 == Min(FreeFiles \ {f0})
         d0 == Min(FreeFds(p))
         d1 == Min(FreeFds(p) \ {d0})
         End(w) == [ref |-> 1, type |-> "pipe", id |-> id, off |-> 0, r |-> ~w, w |-> w]
     IN  IF Cardinality(FreeFiles) < 2 \/ Cardinality(FreeFds(p)) < 2 \/ free = 0 THEN Fails(p)
         ELSE /\ ftable' = [ftable EXCEPT ![f0] = End(FALSE), ![f1] = End(TRUE)]
              /\ pipe' = (id :> [data |-> <<>>, r |-> TRUE, w |-> TRUE]) @@ pipe
              /\ free' = free - 1
              /\ Return(p, [proc EXCEPT ![p].ofile[d0] = f0, ![p].ofile[d1] = f1,
                              ![p].reg = (Arg(p).r :> d0) @@ (Arg(p).w :> d1) @@ @], 0, <<>>)
              /\ UNCHANGED inode

\* fileread: a device is never read here but by gets.
SysRead(p) ==
  /\ At_(p, "read")
  /\ LET f == File(p, Arg(p).fd)
         file == ftable[f]
         have == IF file.type = "pipe" THEN pipe[file.id].data
                 ELSE SubSeq(inode[file.id].data, file.off + 1, Len(inode[file.id].data))
         data == SubSeq(have, 1, Min({Arg(p).n, Len(have)}))
     IN  IF f = None \/ ~file.r \/ Arg(p).n < 0 THEN Fails(p)
         ELSE /\ file.type = "pipe" => have # <<>> \/ ~pipe[file.id].w
              /\ Return(p, proc, Len(data), data)
              /\ IF file.type = "pipe"
                 THEN /\ pipe' = [pipe EXCEPT ![file.id].data =
                                    SubSeq(have, Len(data) + 1, Len(have))]
                      /\ UNCHANGED ftable
                 ELSE /\ ftable' = [ftable EXCEPT ![f].off = @ + Len(data)]
                      /\ UNCHANGED pipe
              /\ UNCHANGED <<inode, free>>

\* The entries of a directory, which programs read one after the other.
SysReadNames(p) ==
  /\ At_(p, "names")
  /\ LET i == ftable[File(p, Arg(p).fd)].id
         names == FoldSet(LAMBDA n, s : Append(s, n), <<>>, DOMAIN inode[i].ent)
     IN  Return(p, proc, Len(names), names)
  /\ UNCHANGED <<inode, ftable, pipe, free>>

\* k more units of a write of n are done.
Written(p, k, n) ==
  IF proc[p].done + k = n THEN Gets_(p, n)
  ELSE proc' = [proc EXCEPT ![p].done = @ + k] /\ UNCHANGED <<lines, typed, oops>>

\* Up to a full pipe; then the process sleeps, unless nobody can read.
PipeWrite(p, id, data) ==
  LET todo == SubSeq(data, proc[p].done + 1, Len(data))
      k == Min({PIPESIZE - Len(pipe[id].data), Len(todo)})
  IN  /\ UNCHANGED <<inode, ftable, free>>
      /\ IF k = 0 /\ ~pipe[id].r /\ todo # <<>> THEN Gets_(p, -1) /\ UNCHANGED pipe
         ELSE /\ k > 0 \/ todo = <<>>
              /\ pipe' = [pipe EXCEPT ![id].data = @ \o SubSeq(todo, 1, k)]
              /\ Written(p, k, Len(data))

\* One transaction of filewrite; beyond the longest file writei fails.
FileWrite(p, f, data) ==
  LET todo == SubSeq(data, proc[p].done + 1, Len(data))
      k == Min({WRITE, Len(todo)})
      file == ftable[f]
      old == inode[file.id].data
      new == [j \in 1 .. Max({Len(old), file.off + k}) |->
                IF j \in file.off + 1 .. file.off + k THEN todo[j - file.off] ELSE old[j]]
  IN  /\ UNCHANGED <<pipe, free>>
      /\ IF file.off + k > UNITS THEN Gets_(p, -1) /\ UNCHANGED <<inode, ftable>>
         ELSE /\ inode' = [inode EXCEPT ![file.id].data = new]
              /\ ftable' = [ftable EXCEPT ![f].off = @ + k]
              /\ Written(p, k, Len(data))

SysWrite(p) ==
  /\ At_(p, "write") \/ At_(p, "writebuf")
  /\ LET f == File(p, Arg(p).fd)
         file == ftable[f]
         data == IF Step(p).op = "write" THEN Arg(p).data ELSE proc[p].buf
     IN  IF f = None \/ ~file.w THEN Fails(p)
         ELSE IF file.type = "pipe" THEN PipeWrite(p, file.id, data)
         ELSE IF inode[file.id].type = "dev"
              THEN Gets_(p, Len(data)) /\ UNCHANGED <<inode, ftable, pipe, free>>
         ELSE FileWrite(p, f, data)

\* mkdir and mknod.
SysMkdir(p) ==
  /\ At_(p, "mkdir") \/ At_(p, "mknod")
  /\ LET x == Create_(p, Arg(p).path, IF Step(p).op = "mkdir" THEN "dir" ELSE "dev")
     IN  Gets_(p, IF x.i = None THEN -1 ELSE 0) /\ inode' = x.inode
  /\ UNCHANGED <<ftable, pipe, free>>

SysChdir(p) ==
  /\ At_(p, "chdir")
  /\ LET i == NameX(p, Arg(p).path)
     IN  IF ~IsDir(i) THEN Fails(p)
         ELSE /\ Return(p, [proc EXCEPT ![p].cwd = i], 0, <<>>)
              /\ inode' = Put(inode, ftable, proc')
              /\ UNCHANGED <<ftable, pipe, free>>

SysLink(p) ==
  /\ At_(p, "link")
  /\ LET i == NameX(p, Arg(p).old)
         d == ParentOf(p, Arg(p).new)
         name == NameOf(Arg(p).new)
     IN  IF i = None \/ IsDir(i) \/ d = None \/ DirLookup(d, name) # None THEN Fails(p)
         ELSE /\ inode' = [inode EXCEPT ![i].nlink = @ + 1, ![d].ent = (name :> i) @@ @]
              /\ Gets_(p, 0)
              /\ UNCHANGED <<ftable, pipe, free>>

\* Seeded fault: a removed directory does not give its ".." back.
Unlinked_Dots(d, name, i) ==
  [inode EXCEPT ![d].ent = Restrict(@, DOMAIN @ \ {name}), ![i].nlink = @ - 1]

Unlinked(d, name, i) ==
  LET ino == [inode EXCEPT ![d].ent = Restrict(@, DOMAIN @ \ {name}), ![i].nlink = @ - 1]
  IN  IF IsDir(i) THEN [ino EXCEPT ![d].nlink = @ - 1] ELSE ino

SysUnlink(p) ==
  /\ At_(p, "unlink")
  /\ LET d == ParentOf(p, Arg(p).path)
         name == NameOf(Arg(p).path)
         i == DirLookup(d, name)
         full == IsDir(i) /\ DOMAIN inode[i].ent \ {".", ".."} # {}
     IN  IF d = None \/ name \in {".", ".."} \/ i = None \/ full THEN Fails(p)
         ELSE /\ inode' = Put(Unlinked(d, name, i), ftable, proc)
              /\ Gets_(p, 0)
              /\ UNCHANGED <<ftable, pipe, free>>

-----------------------------------------------------------------------------
(* Processes and memory.                                                   *)

\* fork: a slot, a kernel stack, a copy of the memory; or nothing.
SysFork(p) ==
  /\ At_(p, "fork")
  /\ LET slots == {c \in Procs : proc[c].state = "UNUSED"}
         c == Min(slots)
         x == CopyUvm(free - 1, proc[p].s)
         child == [proc[p] EXCEPT !.parent = p, !.s = x.s, !.todo = Arg(p).script, !.buf = <<>>,
                                  !.reg = IF Step(p).to = "" THEN @ ELSE (Step(p).to :> 0) @@ @]
     IN  IF slots = {} \/ free = 0 \/ ~x.ok THEN Fails(p)
         ELSE /\ free' = x.free
              /\ ftable' = [f \in DOMAIN ftable |->
                   [ftable[f] EXCEPT !.ref = @ + Cardinality({d \in Fds : proc[p].ofile[d] = f})]]
              /\ Return(p, [proc EXCEPT ![c] = child], c, <<>>)
              /\ UNCHANGED <<inode, pipe>>

\* exec: the new image first, then the old one goes.
SysExec(p) ==
  /\ At_(p, "exec")
  /\ LET i == NameX(p, Arg(p).path)
         runs == i # None /\ inode[i].data # <<>> /\ inode[i].data[1] \in Programs
         x == Image(free, PGSIZE, Arg(p).argv)
     IN  IF ~runs \/ ~x.ok THEN Fails(p)
         ELSE /\ proc' = [proc EXCEPT ![p].s = x.s, ![p].heap = NoHeap, ![p].buf = <<>>,
                            ![p].reg = Variables,
                            ![p].todo = Program(inode[i].data[1], Arg(p).argv)]
              /\ free' = FreeVm(x.free, proc[p].s)
              /\ UNCHANGED <<inode, ftable, pipe, lines, typed, oops>>

\* exit: children go to init; memory and kernel stack stay for wait.
Exited(p) ==
  [q \in Procs |->
     IF q = p THEN [NoProc EXCEPT !.state = "ZOMBIE", !.parent = proc[p].parent, !.s = proc[p].s]
     ELSE IF proc[q].state # "UNUSED" /\ proc[q].parent = p THEN [proc[q] EXCEPT !.parent = 1]
     ELSE proc[q]]

\* By itself, at the end of its program, or killed, at its next step; init never.
SysExit(p) ==
  /\ p # 1
  /\ proc[p].state = "RUNNABLE"
  /\ proc[p].killed \/ proc[p].todo = <<>> \/ At_(p, "exit")
  /\ LET files == [j \in 1 .. NOFILE |-> proc[p].ofile[j - 1]]
         x == FoldLeft(FileClose, Open_, SelectSeq(files, LAMBDA f : f # None))
     IN  SetOpen(x)
  /\ proc' = Exited(p)
  /\ inode' = Put(inode, ftable', proc')
  /\ UNCHANGED <<lines, typed, oops>>

\* wait: any zombie child gives its memory and kernel stack back.
SysWait(p) ==
  /\ At_(p, "wait")
  /\ LET kids == {c \in Procs : proc[c].state # "UNUSED" /\ proc[c].parent = p}
     IN  IF kids = {} THEN Fails(p)
         ELSE \E c \in kids :
                /\ proc[c].state = "ZOMBIE"
                /\ free' = FreeVm(free, proc[c].s) + 1
                /\ Return(p, [proc EXCEPT ![c] = NoProc], c, <<>>)
                /\ UNCHANGED <<inode, ftable, pipe>>

SysKill(p) ==
  /\ At_(p, "kill")
  /\ LET q == proc[p].reg[Arg(p).var]
     IN  IF q \notin Procs \/ proc[q].state = "UNUSED" THEN Fails(p)
         ELSE /\ Return(p, [proc EXCEPT ![q].killed = TRUE], 0, <<>>)
              /\ UNCHANGED <<inode, ftable, pipe, free>>

\* growproc, as sbrk and malloc use it.
SysSbrk(p) ==
  /\ At_(p, "sbrk")
  /\ LET sz == proc[p].s.sz
         n == IF Arg(p).to = "" THEN Arg(p).n ELSE proc[p].reg[Arg(p).to] + Arg(p).n - sz
         x == GrowProc(free, proc[p].s, n)
     IN  /\ Return(p, [proc EXCEPT ![p].s = x.s], IF x.ok THEN sz ELSE -1, <<>>)
         /\ free' = x.free
         /\ UNCHANGED <<inode, ftable, pipe>>

UserMalloc(p) ==
  /\ At_(p, "malloc")
  /\ LET n == Units(Arg(p).n)
         h == proc[p].heap
         a == Fit(h, n, NextOf(h, h.freep))
         x == GrowProc(free, proc[p].s, Max({n, MORE}))
         more == MoreCore(h, n, proc[p].s.sz)
         b == Fit(more, n, NextOf(more, more.freep))
     IN  /\ IF a >= 0
            THEN Return(p, [proc EXCEPT ![p].heap = Take(h, n, a)], 1, <<>>) /\ UNCHANGED free
            ELSE IF x.ok
            THEN /\ Return(p, [proc EXCEPT ![p].heap = Take(more, n, b), ![p].s = x.s], 1, <<>>)
                 /\ free' = x.free
            ELSE Return(p, [proc EXCEPT ![p].s = x.s], -1, <<>>) /\ free' = x.free
         /\ UNCHANGED <<inode, ftable, pipe>>

UserFreeAll(p) ==
  /\ At_(p, "freeall")
  /\ LET h == proc[p].heap
     IN  Return(p, [proc EXCEPT ![p].heap = FoldLeft(Free, [h EXCEPT !.used = <<>>],
                                                     Reverse(h.used))], 0, <<>>)
  /\ UNCHANGED <<inode, ftable, pipe, free>>

-----------------------------------------------------------------------------
(* Calls that change nothing, arguments in bad places, traps.              *)

\* argint and argstr refuse what is not below the size; a string that is, names no file.
BadArgument(p) ==
  /\ At_(p, "sleepat") \/ At_(p, "stringat")
  /\ Step(p).op = "sleepat" => Arg(p).n >= proc[p].s.sz
  /\ Fails(p)

Quick(p) == /\ \/ At_(p, "quick") \/ At_(p, "getpid") \/ At_(p, "has")
               \/ At_(p, "sleepat") /\ Arg(p).n < proc[p].s.sz
            /\ Gets_(p, CASE Step(p).op = "has" -> proc[p].reg[Arg(p).var]
                          [] Step(p).op = "getpid" -> p
                          [] OTHER -> 0)
            /\ UNCHANGED <<inode, ftable, pipe, free>>

\* A page the user may not touch, or an instruction of the kernel: trap() kills.
Trap(p) == proc' = [proc EXCEPT ![p].killed = TRUE]
              /\ UNCHANGED <<inode, ftable, pipe, free, lines, typed, oops>>

Touch_(p) ==
  /\ At_(p, "peek") \/ At_(p, "poke")
  /\ LET addr == proc[p].reg[Arg(p).at] + Arg(p).n
         cell == addr % PGSIZE
     IN  IF ~UserPage(proc[p].s, addr) THEN Trap(p)
         ELSE /\ IF Step(p).op = "peek" THEN Gets_(p, proc[p].s.page[Page(addr)][cell])
                 ELSE Return(p, [proc EXCEPT ![p].s.page[Page(addr)][cell] = Arg(p).c], 0, <<>>)
              /\ UNCHANGED <<inode, ftable, pipe, free>>
Privileged_(p) == At_(p, "privileged") /\ Trap(p)

\* What a program does with its variables and data.
Check(p) ==
  /\ At_(p, "counted") \/ At_(p, "saw") \/ At_(p, "oops")
  /\ LET Count(u) == Cardinality({j \in DOMAIN proc[p].buf : proc[p].buf[j] = u})
         right == CASE Step(p).op = "counted" -> \A u \in DOMAIN Arg(p).count : Count(u) = Arg(p).count[u]
                    [] Step(p).op = "saw"     -> proc[p].buf = Arg(p).data
                    [] OTHER                  -> FALSE
     IN  oops' = (oops \/ ~right)
  /\ proc' = [proc EXCEPT ![p].todo = Tail(@), ![p].buf = <<>>]
  /\ UNCHANGED <<inode, ftable, pipe, free, lines, typed>>

Goes(p, todo) == proc' = [proc EXCEPT ![p].todo = todo \o Tail(@)]
                 /\ UNCHANGED <<inode, ftable, pipe, free, typed, oops>>

Compute(p) ==
  /\ \/ At_(p, "matching") /\ proc' = [proc EXCEPT ![p].buf = SelectSeq(@, LAMBDA u : u = Arg(p).unit),
                                                   ![p].todo = Tail(@)]
        /\ UNCHANGED <<inode, ftable, pipe, free, typed, oops>>
     \/ At_(p, "run") /\ Goes(p, InitLoop)
     \/ At_(p, "times") /\ Goes(p, [j \in 1 .. proc[p].reg.n |-> Arg(p).script[1]])
     \/ At_(p, "oneof") /\ \E j \in DOMAIN Arg(p).scripts : Goes(p, Arg(p).scripts[j])
     \/ At_(p, "onetest") /\ \E t \in DOMAIN Tests : Goes(p, Tests[t])
  /\ UNCHANGED lines

\* A line the user never enters.
Draft == <<"?">>

\* The shell's gets, at the console: the next line that is typed.
ReadLine(p) ==
  /\ At_(p, "gets")
  /\ lines \notin {<<>>, <<Draft>>}
  /\ lines' = Tail(lines)
  /\ Goes(p, OnLine(Head(lines)))

Prompt(p) == At_(p, "gets")

\* A line that is typed and never entered.
TypeToken(t) ==
  /\ lines = <<Draft>> /\ \E p \in Procs : Prompt(p)
  /\ Len(typed) < TYPED
  /\ typed' = Append(typed, t)
  /\ UNCHANGED <<inode, ftable, pipe, proc, free, lines, oops>>

Calls(p) ==
  \/ SysOpen(p) \/ SysClose(p) \/ SysDup(p) \/ SysPipe(p) \/ SysRead(p) \/ SysReadNames(p)
  \/ SysWrite(p) \/ SysMkdir(p) \/ SysChdir(p) \/ SysLink(p) \/ SysUnlink(p) \/ SysFork(p)
  \/ SysExec(p) \/ SysExit(p) \/ SysWait(p) \/ SysKill(p) \/ SysSbrk(p) \/ UserMalloc(p)
  \/ UserFreeAll(p) \/ BadArgument(p) \/ Quick(p) \/ Touch_(p) \/ Privileged_(p) \/ Check(p)
  \/ Compute(p) \/ ReadLine(p)

Next == \/ \E p \in Procs : Calls(p)
        \/ \E t \in Alphabet : TypeToken(t)

\* Where a process sleeps: wait with no zombie, a pipe with nothing or no room in it, the
\* console with no line, a loop around sleep without end.
Sleeps(p) ==
  \/ At_(p, "sleepon")
  \/ At_(p, "gets") /\ lines \in {<<>>, <<Draft>>}
  \/ /\ At_(p, "wait")
     /\ \E c \in Procs : proc[c].state # "UNUSED" /\ proc[c].parent = p
     /\ \A c \in Procs : proc[c].state = "ZOMBIE" => proc[c].parent # p
  \/ /\ At_(p, "read") \/ At_(p, "write") \/ At_(p, "writebuf")
     /\ LET f == File(p, Arg(p).fd)
            end == pipe[ftable[f].id]
        IN  /\ f # None
            /\ ftable[f].type = "pipe"
            /\ IF Step(p).op = "read" THEN ftable[f].r /\ end.data = <<>> /\ end.w
               ELSE ftable[f].w /\ Len(end.data) = PIPESIZE /\ end.r
Spins(p) == At_(p, "spin")

\* p has a call to make: Calls is enabled, in a form that is quick to evaluate.
Ready(p) == proc[p].state = "RUNNABLE" /\ ~Sleeps(p) /\ ~Spins(p)

\* What the lottery gives a process on the one CPU: with one ticket each, the last
\* RUNNABLE slot wins nothing (ProcTable, TheLastStarves), unless it is the only one.
Runnable == {p \in Procs : Ready(p) \/ Spins(p)}
HasNumber(p) == Runnable = {p} \/ \E q \in Runnable : q > p

\* Who has a call to make and a number in every draw gets the processor.
Fairness == \A p \in Procs : []<>~(Ready(p) /\ HasNumber(p)) \/ []<><<Calls(p)>>_vars
Spec == Init /\ [][Next]_vars /\ Fairness
-----------------------------------------------------------------------------
(* Properties.                                                             *)

\* No program of the system, and none of its own tests, gets an answer from a call that
\* it does not expect, however the processes take turns.
TestsPass == ~oops

\* Every frame is free, or is a kernel stack, a pipe, or part of exactly one address space;
\* every space has the pages below its size and the tables over them, and no others but
\* tables of a larger time.
Alive == {p \in Procs : proc[p].state # "UNUSED"}
SpaceAgrees(s) == /\ DOMAIN s.page = PagesIn(0, s.sz)
                  /\ {Table(a) : a \in DOMAIN s.page} \subseteq s.tables
                  /\ s.guard \subseteq DOMAIN s.page
MemoryOwned ==
  /\ free \in Nat
  /\ free + MapThenSumSet(LAMBDA p : 1 + Frames(proc[p].s), Alive)
       + Cardinality(DOMAIN pipe) = NFRAMES
  /\ \A p \in Alive : SpaceAgrees(proc[p].s)

\* When the shell waits for a line and no program runs any more, nothing of any program
\* is left in the system but files with names: the memory, the open files and the pipes
\* are those of init and the shell, and no inode is without the names it counts.
Idle == \E p \in Procs : Prompt(p) /\ Alive = {1, p} /\ At_(1, "wait")
Entries(d) == DOMAIN inode[d].ent \ {".", ".."}
NamesOf(i) == {<<d, n>> \in UNION {{d} \X Entries(d) : d \in DOMAIN inode} :
                 inode[d].ent[n] = i}
Below(i) == {d \in DOMAIN inode : d # ROOTINO /\ IsDir(d) /\ inode[d].ent[".."] = i}
NothingLeft ==
  Idle => /\ pipe = <<>>
          /\ {ftable[f].ref : f \in DOMAIN ftable \ FreeFiles} = {6}
          /\ free = NFRAMES - 2 * (1 + Frames(proc[1].s))
          /\ \A i \in DOMAIN inode :
               inode[i].nlink = Cardinality(NamesOf(i)) + Cardinality(Below(i))
                                + IF i = ROOTINO THEN 1 ELSE 0

\* Somebody has a call to make, and is behind every process that spins.
BehindSpinners == \E p \in Procs : Ready(p) /\ ~HasNumber(p) /\ \E q \in Procs : Spins(q)

\* Whatever is typed, its programs come to an end and are waited for, and the shell comes
\* back: no pipeline, no orphan, no test hangs, although the lottery never chooses the
\* last RUNNABLE slot.  But what waits behind a program that spins may wait for ever: in
\* the test preempt, where two children spin and the third is to write, it does.
EveryoneEnds == <>[](Idle /\ lines \in {<<>>, <<Draft>>}) \/ <>[]BehindSpinners

\* The parser takes a line if and only if it has a meaning, and then finds that meaning.
ParsedAsMeant == LET x == ParseCmd(typed)
                 IN  (IF x.ok THEN x.c ELSE Nonsense) = Meaning(typed)
=============================================================================
