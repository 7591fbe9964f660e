-------------------------------- MODULE Files --------------------------------
(***************************************************************************)
(* Open files (file.c) and descriptors (sysfile.c) over the pipes: pipe,   *)
(* dup, read, write, close, fork and exit, of processes that share files   *)
(* through fork.                                                           *)
(*                                                                         *)
(* One step is one critical section of ftable.lock or of a pipe's lock.  A *)
(* process' own descriptors are nobody else's business, so that what a     *)
(* call does to them belongs to the step before.  fileclose works on its   *)
(* copy of the file once the slot is free again: closing[p].               *)
(* What a free slot still holds is forgotten.  Files that are inodes are   *)
(* the business of module Inodes.                                          *)
(***************************************************************************)
EXTENDS Pipe, FiniteSetsExt

CONSTANTS NFILE, NOFILE,
          First,         \* the process there is at the start
          MayBeKilled,   \* bound: processes that kill is called for
          Lengths,       \* bound: what reads ask for
          Messages       \* bound: what writes write, a number of times a byte

ASSUME FilesAssumption == /\ NFILE \in Nat /\ NOFILE \in Nat
                          /\ First \in Procs
                          /\ MayBeKilled \subseteq Procs
                          /\ Lengths \subseteq Nat
                          /\ Messages \subseteq Nat \X Bytes

FileSlots == 1 .. NFILE
Fds       == 0 .. NOFILE - 1
NoFile    == 0
NoFd      == NOFILE

VARIABLES
  ref, type, fpipe, writable,   \* struct file: readable is ~writable for pipes
  ofile,      \* per process and descriptor
  closing,    \* per process: the copy ff of the file it closes, and its descriptor
  newFile     \* per process: pipealloc's *f0

ftable    == <<ref, type, fpipe, writable>>
filesVars == <<pipeVars, ftable, ofile, closing, newFile>>

NotClosing == [page |-> NoPage, writable |-> FALSE, fd |-> NoFd]
NoFiles    == [fd \in Fds |-> NoFile]

\* The first process has no files yet; the others come from fork.
Init ==
  /\ PipeInit
  /\ pc = [p \in Procs |-> IF p = First THEN "user" ELSE "unused"]
  /\ ref = [f \in FileSlots |-> 0]
  /\ type = [f \in FileSlots |-> "none"]
  /\ fpipe = [f \in FileSlots |-> NoPage]
  /\ writable = [f \in FileSlots |-> FALSE]
  /\ ofile = [p \in Procs |-> NoFiles]
  /\ closing = [p \in Procs |-> NotClosing]
  /\ newFile = [p \in Procs |-> NoFile]

-----------------------------------------------------------------------------
(* Slots and descriptors *)

FreeFiles  == {f \in FileSlots : ref[f] = 0}
FreeFds(p) == {fd \in Fds : ofile[p][fd] = NoFile}

\* argfd: a call is made with a descriptor that is open.  (With another one it
\* returns -1 and changes nothing.)
OpenFds(p) == {fd \in Fds : ofile[p][fd] # NoFile}

\* A system call begins.  A process that has been killed does not return from the
\* one it was in (trap).
Calls(p) == pc[p] = "user" /\ ~killed[p]

-----------------------------------------------------------------------------
(* sys_pipe, sys_dup *)

\* pipealloc takes two slots, one after the other.
PipeFirst(p) == /\ Calls(p) /\ FreeFiles # {}
                /\ ref' = [ref EXCEPT ![Min(FreeFiles)] = 1]
                /\ newFile' = [newFile EXCEPT ![p] = Min(FreeFiles)]
                /\ pc' = [pc EXCEPT ![p] = "pipe"]
                /\ UNCHANGED <<pipes, transfer, killed, cut, type, fpipe, writable, ofile,
                               closing>>

\* No second file, or no page: the label bad.  No two descriptors: sys_pipe closes
\* both files again, and with them the pipe nobody has seen.
PipeFails(p) == FreeFiles = {} \/ inUse = Pages \/ Cardinality(FreeFds(p)) < 2

PipeBad(p) == /\ pc[p] = "pipe"
              /\ PipeFails(p)
              /\ ref' = [ref EXCEPT ![newFile[p]] = 0]
              /\ newFile' = [newFile EXCEPT ![p] = NoFile]
              /\ pc' = [pc EXCEPT ![p] = "user"]
              /\ UNCHANGED <<pipes, transfer, killed, cut, type, fpipe, writable, ofile, closing>>

\* The second slot and the page are there, and so are two descriptors.
PipeSecond(p) ==
  /\ pc[p] = "pipe" /\ ~PipeFails(p)
  /\ \E k \in Pages \ inUse :
       LET rf == newFile[p]
           wf == Min(FreeFiles)
           fd == Min(FreeFds(p)) IN
         /\ NewPipe(k)
         /\ ref' = [ref EXCEPT ![wf] = 1]
         /\ type' = [type EXCEPT ![rf] = "pipe", ![wf] = "pipe"]
         /\ fpipe' = [fpipe EXCEPT ![rf] = k, ![wf] = k]
         /\ writable' = [writable EXCEPT ![rf] = FALSE, ![wf] = TRUE]
         /\ ofile' = [ofile EXCEPT ![p][fd] = rf, ![p][Min(FreeFds(p) \ {fd})] = wf]
  /\ newFile' = [newFile EXCEPT ![p] = NoFile]
  /\ pc' = [pc EXCEPT ![p] = "user"]
  /\ UNCHANGED <<transfer, killed, closing>>

Dup(p) == /\ Calls(p) /\ FreeFds(p) # {}
          /\ \E fd \in OpenFds(p) :
               /\ ofile' = [ofile EXCEPT ![p][Min(FreeFds(p))] = ofile[p][fd]]
               /\ ref' = [ref EXCEPT ![ofile[p][fd]] = @ + 1]
          /\ UNCHANGED <<pipeVars, type, fpipe, writable, closing, newFile>>

-----------------------------------------------------------------------------
(* sys_read, sys_write: into the pipe, if the file is one and the direction fits *)

Begin(p, isWrite, point, n, b) ==
  /\ Calls(p)
  /\ \E fd \in OpenFds(p) :
       LET f == ofile[p][fd] IN
         /\ type[f] = "pipe" /\ writable[f] = isWrite
         /\ pipe' = [pipe EXCEPT ![p] = fpipe[f]]
  /\ todo' = [todo EXCEPT ![p] = n]
  /\ byte' = [byte EXCEPT ![p] = b]
  /\ pc' = [pc EXCEPT ![p] = point]
  /\ UNCHANGED <<pipes, killed, cut, ftable, ofile, closing, newFile>>

Read(p, n)     == Begin(p, FALSE, "read", n, byte[p])
Write(p, n, b) == Begin(p, TRUE, "write", n, b)

-----------------------------------------------------------------------------
(* fileclose, for sys_close and for exit *)

\* Seeded fault: the file is closed for everybody.
LastRef_Always(f) == TRUE

LastRef(f) == ref[f] = 1

\* Under ftable.lock.  Another point than "user" is a call that is not over.
FileClose(p, fd, point, after) ==
  LET f == ofile[p][fd] IN
    /\ ref' = [ref EXCEPT ![f] = IF LastRef(f) THEN 0 ELSE @ - 1]
    /\ type' = [type EXCEPT ![f] = IF LastRef(f) THEN "none" ELSE @]
    /\ fpipe' = [fpipe EXCEPT ![f] = IF LastRef(f) THEN NoPage ELSE @]
    /\ writable' = [writable EXCEPT ![f] = IF LastRef(f) THEN FALSE ELSE @]
    /\ IF LastRef(f) /\ type[f] = "pipe"
       THEN /\ closing' = [closing EXCEPT ![p] = [page |-> fpipe[f], writable |-> writable[f],
                                                  fd |-> fd]]
            /\ pc' = [pc EXCEPT ![p] = point]
       ELSE /\ pc' = [pc EXCEPT ![p] = after]
            /\ UNCHANGED closing

Close(p) == /\ Calls(p)
            /\ \E fd \in OpenFds(p) : /\ FileClose(p, fd, "close", "user")
                                      /\ ofile' = [ofile EXCEPT ![p][fd] = NoFile]
            /\ UNCHANGED <<pipes, transfer, killed, cut, newFile>>

CloseEnds(p) == /\ pc[p] = "close"
                /\ PipeClose(p, closing[p].page, closing[p].writable, "user")
                /\ closing' = [closing EXCEPT ![p] = NotClosing]
                /\ UNCHANGED <<transfer, ftable, ofile, newFile>>

\* exit, called or because the process was killed.
Exit(p) == /\ pc[p] = "user"
           /\ pc' = [pc EXCEPT ![p] = "exit"]
           /\ UNCHANGED <<pipes, transfer, killed, cut, ftable, ofile, closing, newFile>>

\* exit closes first and forgets the descriptor afterwards.
ExitClose(p) ==
  /\ pc[p] = "exit" /\ OpenFds(p) # {}
  /\ LET fd == Min(OpenFds(p)) IN
       /\ FileClose(p, fd, "xclose", "exit")
       /\ ofile' = IF LastRef(ofile[p][fd]) /\ type[ofile[p][fd]] = "pipe" THEN ofile
                   ELSE [ofile EXCEPT ![p][fd] = NoFile]
  /\ UNCHANGED <<pipes, transfer, killed, cut, newFile>>

ExitCloseEnds(p) ==
  /\ pc[p] = "xclose"
  /\ PipeClose(p, closing[p].page, closing[p].writable, "exit")
  /\ ofile' = [ofile EXCEPT ![p][closing[p].fd] = NoFile]
  /\ closing' = [closing EXCEPT ![p] = NotClosing]
  /\ UNCHANGED <<transfer, ftable, newFile>>

\* A zombie, and waited for: wait clears killed.
ExitEnds(p) == /\ pc[p] = "exit" /\ OpenFds(p) = {}
               /\ pc' = [pc EXCEPT ![p] = "unused"]
               /\ killed' = [killed EXCEPT ![p] = FALSE]
               /\ UNCHANGED <<pipes, transfer, cut, ftable, ofile, closing, newFile>>

\* The child gets every descriptor, and a reference for each.  The references are taken
\* one by one, from files the parent keeps open, before the child can run.
Fork(p, q) ==
  /\ Calls(p) /\ pc[q] = "unused"
  /\ ofile' = [ofile EXCEPT ![q] = ofile[p]]
  /\ ref' = [f \in FileSlots |-> ref[f] + Cardinality({fd \in Fds : ofile[p][fd] = f})]
  /\ pc' = [pc EXCEPT ![q] = "user"]
  /\ UNCHANGED <<pipes, transfer, killed, cut, type, fpipe, writable, closing, newFile>>

\* kill of a living process (of another one: module ProcTable).
KillFiles(p) == /\ p \in MayBeKilled /\ pc[p] \notin {"unused", "exit", "xclose"}
                /\ Kill(p)
                /\ UNCHANGED <<ftable, ofile, closing, newFile>>

-----------------------------------------------------------------------------
PipeStep(p) == PipeCall(p) /\ UNCHANGED <<ftable, ofile, closing, newFile>>

\* What a process in the kernel does without being asked again.
Continue(p) == \/ PipeStep(p) \/ PipeBad(p) \/ PipeSecond(p)
               \/ CloseEnds(p) \/ ExitClose(p) \/ ExitCloseEnds(p) \/ ExitEnds(p)

UserCall(p) == \/ PipeFirst(p) \/ Dup(p) \/ Close(p) \/ Exit(p)
               \/ \E n \in Lengths : Read(p, n)
               \/ \E m \in Messages : Write(p, m[1], m[2])
               \/ \E q \in Procs : Fork(p, q)

Next == \E p \in Procs : Continue(p) \/ UserCall(p) \/ KillFiles(p)

Spec == Init /\ [][Next]_filesVars

-----------------------------------------------------------------------------
(* Properties *)

Points == {"unused", "user", "pipe", "read", "rsleep", "write", "wsleep", "close", "exit",
           "xclose"}

TypeOK ==
  /\ inUse \subseteq Pages /\ cut \subseteq Pages
  /\ readopen \in [Pages -> BOOLEAN] /\ writeopen \in [Pages -> BOOLEAN]
  /\ nread \in [Pages -> 0 .. Wrap - 1] /\ nwrite \in [Pages -> 0 .. Wrap - 1]
  /\ data \in [Pages -> [Slots -> Bytes]]
  /\ pc \in [Procs -> Points]
  /\ pipe \in [Procs -> Pages \cup {NoPage}]
  /\ todo \in [Procs -> Nat] /\ byte \in [Procs -> Bytes]
  /\ killed \in [Procs -> BOOLEAN]
  /\ ref \in [FileSlots -> Nat]
  /\ type \in [FileSlots -> {"none", "pipe"}]
  /\ fpipe \in [FileSlots -> Pages \cup {NoPage}]
  /\ writable \in [FileSlots -> BOOLEAN]
  /\ ofile \in [Procs -> [Fds -> FileSlots \cup {NoFile}]]
  /\ closing \in [Procs -> [page : Pages \cup {NoPage}, writable : BOOLEAN, fd : Fds \cup {NoFd}]]
  /\ newFile \in [Procs -> FileSlots \cup {NoFile}]

\* The file a descriptor counts for, or pipealloc's variable, which goes under NoFd: not
\* the descriptor exit is about to forget.
Names(p, i) == IF i = NoFd THEN newFile[p]
               ELSE IF pc[p] = "xclose" /\ closing[p].fd = i THEN NoFile
               ELSE ofile[p][i]

Holders(f) == {x \in Procs \X (Fds \cup {NoFd}) : Names(x[1], x[2]) = f}

\* A file's reference count is the number of descriptors that name it, after any
\* forks, dups, exits and pipe calls that fail half-way: no slot of the table is lost,
\* and none is given out twice.
RefsCounted ==
  /\ TypeOK
  /\ \A f \in FileSlots : ref[f] = Cardinality(Holders(f))

\* An end of a pipe is open just as long as some file, or some fileclose that has its
\* copy of the file, stands for it.
EndHeld(k, w) == \/ \E f \in FileSlots : ref[f] > 0 /\ fpipe[f] = k /\ writable[f] = w
                 \/ \E p \in Procs : closing[p].page = k /\ closing[p].writable = w

\* A pipe's page is in use exactly while an end is open, and then its flags tell which;
\* nobody reads, writes, sleeps in or closes a pipe whose page has been given back.
PipesLive ==
  /\ RefsCounted
  /\ \A k \in inUse : /\ readopen[k] = EndHeld(k, FALSE)
                      /\ writeopen[k] = EndHeld(k, TRUE)
                      /\ readopen[k] \/ writeopen[k]
  /\ \A k \in Pages \ inUse : ~EndHeld(k, FALSE) /\ ~EndHeld(k, TRUE)
  /\ \A p \in Procs : pipe[p] # NoPage => pipe[p] \in inUse

\* Whoever sleeps in a pipe has a reason: a reader finds nothing in it and the write
\* end open, a writer finds it full and the read end open, and neither has been
\* killed.  One exception is in the code: a writer that is killed while the pipe is
\* full returns without waking the readers of what it has written (cut).
PipeSleepersWoken ==
  \A p \in Procs :
    /\ pc[p] = "rsleep" => /\ writeopen[pipe[p]] /\ ~killed[p]
                           /\ Empty(pipe[p]) \/ pipe[p] \in cut
    /\ pc[p] = "wsleep" => readopen[pipe[p]] /\ ~killed[p] /\ Full(pipe[p])

\* What is in the ring, in order.
Content(k) == [i \in 1 .. Count(k) |-> data[k][(nread[k] + i - 1) % PIPESIZE]]
OpenEnds(k) == IF k \notin inUse THEN {}
               ELSE (IF readopen[k] THEN {"read"} ELSE {})
                      \cup (IF writeopen[k] THEN {"write"} ELSE {})

Streams == INSTANCE ByteStreams
             WITH Streams <- Pages, Capacity <- PIPESIZE,
                  stream <- [k \in Pages |-> IF k \in inUse THEN Content(k) ELSE <<>>],
                  open <- [k \in Pages |-> OpenEnds(k)]

\* The rings implement bounded streams, also when the counters wrap around and when
\* several processes share an end: nothing is lost, invented or reordered, and a new
\* pipe in an old page starts empty.
ImplementsStreams == Streams!Spec
=============================================================================
