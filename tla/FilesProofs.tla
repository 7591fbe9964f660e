----------------------------- MODULE FilesProofs -----------------------------
(***************************************************************************)
(* Open files are counted, a pipe lives as long as somebody holds an end   *)
(* of it, nobody sleeps in one without a reason, and what goes in comes    *)
(* out, whatever forks, closes, exits and kills come in between.           *)
(***************************************************************************)
EXTENDS Files, TLAPS, FiniteSetTheorems, NaturalsInduction, WellFoundedInduction,
        SequenceTheorems

-----------------------------------------------------------------------------
(* The invariant *)

\* The points of a call on a pipe.
Moving == {"read", "rsleep", "write", "wsleep"}

\* What a process holds tells where it is.
ProcsInv ==
  \A p \in Procs :
    /\ pc[p] \in Moving <=> pipe[p] # NoPage
    /\ pc[p] = "pipe" <=> newFile[p] # NoFile
    /\ pc[p] \in {"close", "xclose"} <=> closing[p].page # NoPage
    /\ pc[p] = "xclose" => closing[p].fd \in Fds
    /\ pc[p] = "unused" => \A fd \in Fds : ofile[p][fd] = NoFile
    /\ pc[p] \in {"unused", "rsleep", "wsleep"} => ~killed[p]

\* Only the file that pipealloc has in hand is not a pipe yet, and nobody else has it.
FilesInv ==
  /\ \A f \in FileSlots : type[f] = "pipe" <=> fpipe[f] # NoPage
  /\ \A f \in FileSlots : fpipe[f] # NoPage => ref[f] > 0
  /\ \A p \in Procs : newFile[p] # NoFile => ref[newFile[p]] = 1 /\ fpipe[newFile[p]] = NoPage
  /\ \A p \in Procs, fd \in Fds : Names(p, fd) # NoFile => fpipe[Names(p, fd)] # NoPage

\* Who reads or writes a pipe has the end open that it takes.
UsersInv ==
  \A p \in Procs :
    pipe[p] # NoPage => \E fd \in Fds :
        /\ ofile[p][fd] # NoFile
        /\ fpipe[ofile[p][fd]] = pipe[p]
        /\ writable[ofile[p][fd]] = (pc[p] \in {"write", "wsleep"})

Open(k, w) == k \in inUse /\ IF w THEN writeopen[k] ELSE readopen[k]
Held(k, w) == \/ \E f \in FileSlots : fpipe[f] = k /\ writable[f] = w
              \/ \E p \in Procs : closing[p].page = k /\ closing[p].writable = w

\* An end is open while one file, or one process that closes it, holds it.
EndsInv ==
  /\ \A k \in Pages, w \in BOOLEAN : Open(k, w) <=> Held(k, w)
  /\ \A f, g \in FileSlots :
       fpipe[f] # NoPage /\ fpipe[f] = fpipe[g] /\ writable[f] = writable[g] => f = g
  /\ \A p, q \in Procs :
       closing[p].page # NoPage /\ closing[p].page = closing[q].page
         /\ closing[p].writable = closing[q].writable => p = q
  /\ \A f \in FileSlots, p \in Procs :
       fpipe[f] # NoPage /\ fpipe[f] = closing[p].page => writable[f] # closing[p].writable
  /\ \A k \in inUse : readopen[k] \/ writeopen[k]

\* Everything about files: the pipes' contents are not in it.
TableInv == TypeOK /\ RefsCounted /\ ProcsInv /\ FilesInv /\ UsersInv /\ EndsInv

-----------------------------------------------------------------------------
(* Counting *)

Pairs == Procs \X (Fds \cup {NoFd})

\* NoFd and NoFile are none of the others.
LEMMA Nobody == NoFd \notin Fds /\ NoFile \notin FileSlots
BY FilesAssumption DEF NoFd, Fds, NoFile, FileSlots

\* There are finitely many pairs of a process and a descriptor.
LEMMA PairsFinite == IsFiniteSet(Pairs)
<1>1. IsFiniteSet(Fds)
  <2>1. NOFILE - 1 \in Int /\ 0 \in Int BY FilesAssumption
  <2> QED BY <2>1, FS_Interval DEF Fds
<1>2. IsFiniteSet(Fds \cup {NoFd}) BY <1>1, FS_AddElement
<1> QED BY <1>2, PipeAssumption, FS_Product DEF Pairs

\* A file has finitely many holders.
LEMMA HoldersFinite == \A f : Holders(f) \subseteq Pairs /\ IsFiniteSet(Holders(f))
<1> TAKE f
<1>1. Holders(f) \in SUBSET Pairs BY DEF Holders, Pairs
<1> QED BY <1>1, PairsFinite, FS_Subset

\* One more, one less.
LEMMA CountOne ==
  ASSUME NEW S, IsFiniteSet(S), NEW x
  PROVE  /\ x \notin S => Cardinality(S \cup {x}) = Cardinality(S) + 1
         /\ x \in S => Cardinality(S \ {x}) = Cardinality(S) - 1 /\ Cardinality(S) >= 1
         /\ Cardinality(S) \in Nat
<1>1. Cardinality(S) \in Nat /\ Cardinality(S \ {x}) \in Nat
  BY FS_CardinalityType, FS_RemoveElement
<1>2. Cardinality(S \cup {x}) = IF x \in S THEN Cardinality(S) ELSE Cardinality(S) + 1
  BY FS_AddElement
<1>3. Cardinality(S \ {x}) = IF x \in S THEN Cardinality(S) - 1 ELSE Cardinality(S)
  BY FS_RemoveElement
<1>4. x \notin S => Cardinality(S \cup {x}) = Cardinality(S) + 1 BY <1>2
<1>5. x \in S => Cardinality(S \ {x}) = Cardinality(S) - 1 BY <1>3
<1>6. x \in S => Cardinality(S) >= 1 BY <1>1, <1>5
<1> QED BY <1>1, <1>4, <1>5, <1>6

\* A step that changes what no pair names changes no count.
LEMMA SameNames ==
  ASSUME \A x \in Pairs : Names(x[1], x[2])' = Names(x[1], x[2])
  PROVE  \A f : Holders(f)' = Holders(f)
BY DEF Holders, Pairs

\* A step that changes what one pair names.
LEMMA OneName ==
  ASSUME RefsCounted, NEW y \in Pairs, NEW a, NEW b, a # b,
         a = Names(y[1], y[2]), b = Names(y[1], y[2])',
         \A x \in Pairs : x # y => Names(x[1], x[2])' = Names(x[1], x[2])
  PROVE  \A f \in FileSlots :
           Cardinality(Holders(f)') = IF f = b THEN ref[f] + 1
                                      ELSE IF f = a THEN ref[f] - 1 ELSE ref[f]
<1> TAKE f \in FileSlots
<1>1. Cardinality(Holders(f)) = ref[f] BY DEF RefsCounted
<1>2. IsFiniteSet(Holders(f)) BY HoldersFinite
<1>3. CASE f = b
  <2>1. y \notin Holders(f) BY <1>3 DEF Holders
  <2>2. Holders(f)' = Holders(f) \cup {y} BY <1>3 DEF Holders, Pairs
  <2> QED BY <1>1, <1>2, <1>3, <2>1, <2>2, CountOne
<1>4. CASE f # b /\ f = a
  <2>1. y \in Holders(f) BY <1>4 DEF Holders, Pairs
  <2>2. Holders(f)' = Holders(f) \ {y} BY <1>4 DEF Holders, Pairs
  <2> QED BY <1>1, <1>2, <1>4, <2>1, <2>2, CountOne
<1>5. CASE f # b /\ f # a
  <2>1. Holders(f)' = Holders(f) BY <1>5 DEF Holders, Pairs
  <2> QED BY <1>1, <1>5, <2>1
<1> QED BY <1>3, <1>4, <1>5

\* A file with one reference is named once.
LEMMA OneHolder ==
  ASSUME RefsCounted, NEW f \in FileSlots, NEW x \in Holders(f), NEW y \in Holders(f)
  PROVE  /\ ref[f] >= 1
         /\ ref[f] = 1 => x = y
<1>1. Cardinality(Holders(f)) = ref[f] /\ IsFiniteSet(Holders(f))
  BY HoldersFinite DEF RefsCounted
<1>2. ref[f] >= 1 BY <1>1, CountOne
<1>3. ASSUME ref[f] = 1 PROVE x = y
  <2>1. PICK z : Holders(f) = {z} BY <1>1, <1>3, FS_Singleton
  <2> QED BY <2>1
<1> QED BY <1>2, <1>3

\* Whom a free slot belongs to.
LEMMA FreeSlot ==
  ASSUME RefsCounted, NEW f \in FileSlots, ref[f] = 0
  PROVE  Holders(f) = {}
BY HoldersFinite, FS_EmptySet DEF RefsCounted

-----------------------------------------------------------------------------
(* Types *)

\* A descriptor in use is a pipe's, counted, and not what pipealloc has in hand.
LEMMA Descriptor ==
  ASSUME TableInv, NEW p \in Procs, NEW fd \in Fds, pc[p] # "xclose", ofile[p][fd] # NoFile
  PROVE  /\ ofile[p][fd] \in FileSlots
         /\ Names(p, fd) = ofile[p][fd] /\ <<p, fd>> \in Holders(ofile[p][fd])
         /\ <<p, fd>> \in Pairs
         /\ fpipe[ofile[p][fd]] \in Pages /\ type[ofile[p][fd]] = "pipe"
         /\ ref[ofile[p][fd]] \in Nat /\ ref[ofile[p][fd]] >= 1
         /\ \A q \in Procs : newFile[q] # ofile[p][fd]
<1>1. ofile[p][fd] \in FileSlots BY DEF TableInv, TypeOK
<1>2. Names(p, fd) = ofile[p][fd] BY Nobody DEF Names
<1>3. <<p, fd>> \in Pairs /\ <<p, fd>> \in Holders(ofile[p][fd])
  BY <1>2 DEF Holders, Pairs
<1>4. fpipe[ofile[p][fd]] # NoPage /\ type[ofile[p][fd]] = "pipe"
  BY <1>1, <1>2 DEF TableInv, FilesInv
<1>5. fpipe[ofile[p][fd]] \in Pages /\ ref[ofile[p][fd]] \in Nat
  BY <1>1, <1>4 DEF TableInv, TypeOK
<1>6. ref[ofile[p][fd]] >= 1 BY <1>1, <1>3, OneHolder DEF TableInv
<1>7. \A q \in Procs : newFile[q] # ofile[p][fd]
  BY <1>1, <1>4, Nobody DEF TableInv, FilesInv
<1> QED BY <1>1, <1>2, <1>3, <1>4, <1>5, <1>6, <1>7

\* A nonempty set of numbers has a least one.
LEMMA LeastNumber ==
  ASSUME NEW S \in SUBSET Nat, S # {}
  PROVE  Min(S) \in S /\ \A j \in S : Min(S) <= j
<1> DEFINE R == {ss \in Nat \X Nat : ss[1] < ss[2]}
<1>1. IsWellFoundedOn(R, Nat)
  BY NatLessThanWellFounded DEF OpToRel
<1>2. PICK k \in S : \A j \in S : ~ (<<j, k>> \in R)
  BY <1>1, WFMin
<1>3. ASSUME NEW j \in S, j < k PROVE FALSE
  <2>1. <<j, k>> \in R
    BY <1>3
  <2> QED BY <1>2, <2>1
<1>4. \E i \in S : \A j \in S : i <= j BY <1>3
<1> QED BY <1>4 DEF Min

\* What filealloc and fdalloc find is free, and what exit closes first is open.
LEMMA LeastSlots ==
  /\ FreeFiles # {} => Min(FreeFiles) \in FileSlots /\ ref[Min(FreeFiles)] = 0
  /\ \A p \in Procs :
       /\ FreeFds(p) # {} => Min(FreeFds(p)) \in Fds /\ ofile[p][Min(FreeFds(p))] = NoFile
       /\ OpenFds(p) # {} => Min(OpenFds(p)) \in Fds /\ ofile[p][Min(OpenFds(p))] # NoFile
<1>1. FreeFiles \in SUBSET Nat BY FilesAssumption DEF FreeFiles, FileSlots
<1>2. ASSUME NEW p \in Procs PROVE FreeFds(p) \in SUBSET Nat /\ OpenFds(p) \in SUBSET Nat
  BY FilesAssumption DEF FreeFds, OpenFds, Fds
<1>3. FreeFiles # {} => Min(FreeFiles) \in FreeFiles BY <1>1, LeastNumber
<1>4. ASSUME NEW p \in Procs
      PROVE  /\ FreeFds(p) # {} => Min(FreeFds(p)) \in FreeFds(p)
             /\ OpenFds(p) # {} => Min(OpenFds(p)) \in OpenFds(p)
  BY <1>2, LeastNumber
<1> QED BY <1>3, <1>4 DEF FreeFiles, FreeFds, OpenFds

\* Two descriptors that are free.
LEMMA TwoFds ==
  ASSUME NEW p \in Procs, ~(Cardinality(FreeFds(p)) < 2)
  PROVE  /\ Min(FreeFds(p)) \in FreeFds(p)
         /\ Min(FreeFds(p) \ {Min(FreeFds(p))}) \in FreeFds(p) \ {Min(FreeFds(p))}
<1>1. FreeFds(p) \in SUBSET Nat /\ FreeFds(p) \subseteq Fds
  BY FilesAssumption DEF FreeFds, Fds
<1>2. IsFiniteSet(FreeFds(p))
  <2>1. NOFILE - 1 \in Int /\ 0 \in Int BY FilesAssumption
  <2>2. IsFiniteSet(Fds) BY <2>1, FS_Interval DEF Fds
  <2> QED BY <1>1, <2>2, FS_Subset
<1>3. FreeFds(p) # {} BY FS_EmptySet
<1>4. Min(FreeFds(p)) \in FreeFds(p) BY <1>1, <1>3, LeastNumber
<1>5. FreeFds(p) \ {Min(FreeFds(p))} # {}
  <2>1. Cardinality(FreeFds(p) \ {Min(FreeFds(p))}) = Cardinality(FreeFds(p)) - 1
        /\ Cardinality(FreeFds(p)) \in Nat
    BY <1>2, <1>4, CountOne
  <2>2. Cardinality(FreeFds(p) \ {Min(FreeFds(p))}) # 0 BY <2>1
  <2> QED BY <2>2, FS_EmptySet
<1>6. FreeFds(p) \ {Min(FreeFds(p))} \in SUBSET Nat BY <1>1
<1>7. Min(FreeFds(p) \ {Min(FreeFds(p))}) \in FreeFds(p) \ {Min(FreeFds(p))}
  BY <1>5, <1>6, LeastNumber
<1> QED BY <1>4, <1>7

\* The counters and bytes keep their types when bytes are moved.
LEMMA MovesType ==
  ASSUME TypeOK, NEW k \in Pages, NEW m \in Int, NEW p \in Procs
  PROVE  /\ Fill(p, k, m) => nwrite' \in [Pages -> 0 .. Wrap - 1]
                             /\ data' \in [Pages -> [Slots -> Bytes]]
         /\ Drain(k, m) => nread' \in [Pages -> 0 .. Wrap - 1]
                           /\ data' \in [Pages -> [Slots -> Bytes]]
         /\ Blank(k) => /\ nread' \in [Pages -> 0 .. Wrap - 1]
                        /\ nwrite' \in [Pages -> 0 .. Wrap - 1]
                        /\ data' \in [Pages -> [Slots -> Bytes]]
         /\ AnyByte \in Bytes
<1>1. AnyByte \in Bytes BY PipeAssumption DEF AnyByte
<1>2. Wrap \in Nat \ {0} BY PipeAssumption
<1>3. ASSUME NEW x \in 0 .. Wrap - 1 PROVE (x + m) % Wrap \in 0 .. Wrap - 1
  <2>1. x + m \in Int BY <1>2
  <2> QED BY <1>2, <2>1
<1>4. nread[k] \in 0 .. Wrap - 1 /\ nwrite[k] \in 0 .. Wrap - 1 BY DEF TypeOK
<1>5. Fill(p, k, m) => nwrite' \in [Pages -> 0 .. Wrap - 1]
  BY <1>3, <1>4 DEF Fill, TypeOK
<1>6. Fill(p, k, m) => data' \in [Pages -> [Slots -> Bytes]]
  BY DEF Fill, TypeOK
<1>7. Drain(k, m) => nread' \in [Pages -> 0 .. Wrap - 1]
  BY <1>3, <1>4 DEF Drain, TypeOK
<1>8. Drain(k, m) => data' \in [Pages -> [Slots -> Bytes]]
  BY <1>1 DEF Drain, TypeOK
<1>9. Blank(k) => /\ nread' \in [Pages -> 0 .. Wrap - 1]
                  /\ nwrite' \in [Pages -> 0 .. Wrap - 1]
                  /\ data' \in [Pages -> [Slots -> Bytes]]
  <2>1. 0 \in 0 .. Wrap - 1 BY <1>2
  <2> QED BY <1>1, <2>1 DEF Blank, TypeOK
<1> QED BY <1>1, <1>5, <1>6, <1>7, <1>8, <1>9

-----------------------------------------------------------------------------
(* Moving bytes: reads and writes change nothing about files *)

\* The numbers of bytes that calls move.
LEMMA CountIsInt == TypeOK => \A k \in Pages : /\ Count(k) \in 0 .. Wrap - 1
                                             /\ Count(k) \in Int /\ Room(k) \in Int
<1> SUFFICES ASSUME TypeOK, NEW k \in Pages
             PROVE  Count(k) \in 0 .. Wrap - 1 /\ Count(k) \in Int /\ Room(k) \in Int
  OBVIOUS
<1>1. Wrap \in Nat \ {0} /\ PIPESIZE \in Nat BY PipeAssumption
<1>2. nread[k] \in Int /\ nwrite[k] \in Int BY <1>1 DEF TypeOK
<1>3. nwrite[k] - nread[k] \in Int BY <1>2
<1>4. Count(k) \in 0 .. Wrap - 1 BY <1>1, <1>3 DEF Count
<1> QED BY <1>1, <1>4 DEF Room

\* Who is woken goes on where it slept.
Woken(q) == \/ pc'[q] = pc[q]
            \/ pc[q] = "rsleep" /\ pc'[q] = "read"
            \/ pc[q] = "wsleep" /\ pc'[q] = "write"

\* What a read or a write changes: its own process and those it wakes.
LEMMA MoveEffect ==
  ASSUME TypeOK, ProcsInv, NEW p \in Procs, PipeStep(p)
  PROVE  /\ UNCHANGED <<inUse, readopen, writeopen, ftable, ofile, closing, newFile, killed>>
         /\ pipe[p] \in Pages /\ pc[p] \in {"read", "write"}
         /\ TypeOK'
         /\ \A q \in Procs : q # p => pipe'[q] = pipe[q] /\ Woken(q)
         /\ \/ pc'[p] = "user" /\ pipe'[p] = NoPage
            \/ /\ pipe'[p] = pipe[p] /\ ~killed[p]
               /\ \/ pc[p] = "read" /\ pc'[p] = "rsleep"
                  \/ pc[p] = "write" /\ pc'[p] = "wsleep"
<1> USE DEF pipes, transfer, ftable
<1>1. UNCHANGED <<inUse, readopen, writeopen, ftable, ofile, closing, newFile, killed>>
  BY DEF PipeStep, PipeCall, PipeWriteEnds, PipeWriteFails, PipeWriteSleeps, PipeReadSleeps,
         PipeReadFails, PipeReadEnds
<1>2. pc[p] \in {"read", "write"}
  BY DEF PipeStep, PipeCall, PipeWriteEnds, PipeWriteFails, PipeWriteSleeps, PipeReadSleeps,
         PipeReadFails, PipeReadEnds
<1>3. pipe[p] \in Pages BY <1>2 DEF ProcsInv, Moving, TypeOK
<1>4. PICK k \in Pages : k = pipe[p] BY <1>3
<1>5. todo[p] \in Nat /\ Room(k) \in Int /\ Count(k) \in Int /\ Least(todo[p], Count(k)) \in Int
  BY CountIsInt DEF TypeOK, Least
<1>6. AnyByte \in Bytes BY MovesType, <1>5
<1>a. \/ PipeWriteEnds(p) \/ PipeWriteFails(p) \/ PipeWriteSleeps(p)
      \/ PipeReadSleeps(p) \/ PipeReadFails(p) \/ PipeReadEnds(p)
  BY DEF PipeStep, PipeCall
<1>7. nread' \in [Pages -> 0 .. Wrap - 1] /\ nwrite' \in [Pages -> 0 .. Wrap - 1]
      /\ data' \in [Pages -> [Slots -> Bytes]]
  <2>1. CASE PipeWriteEnds(p) \/ PipeWriteFails(p) \/ PipeWriteSleeps(p)
    <3>1. PICK m \in Int : Fill(p, k, m)
      BY <1>4, <1>5, <2>1 DEF PipeWriteEnds, PipeWriteFails, PipeWriteSleeps
    <3>2. nread' = nread BY <2>1 DEF PipeWriteEnds, PipeWriteFails, PipeWriteSleeps
    <3> QED BY <3>1, <3>2, MovesType DEF TypeOK
  <2>2. CASE PipeReadEnds(p)
    <3>1. PICK m \in Int : Drain(k, m) BY <1>4, <1>5, <2>2 DEF PipeReadEnds
    <3>2. nwrite' = nwrite BY <2>2 DEF PipeReadEnds
    <3> QED BY <3>1, <3>2, MovesType DEF TypeOK
  <2>3. CASE PipeReadSleeps(p) \/ PipeReadFails(p)
    BY <2>3 DEF PipeReadSleeps, PipeReadFails, TypeOK
  <2> QED BY <1>a, <2>1, <2>2, <2>3
<1>8. pipe' \in [Procs -> Pages \cup {NoPage}] /\ byte' \in [Procs -> Bytes]
  <2>1. \/ pipe' = pipe /\ byte' = byte
        \/ pipe' = [pipe EXCEPT ![p] = NoPage] /\ byte' = [byte EXCEPT ![p] = AnyByte]
    BY <1>a DEF PipeWriteEnds, PipeWriteFails, PipeWriteSleeps, PipeReadSleeps,
                PipeReadFails, PipeReadEnds, Leave
  <2>2. pipe \in [Procs -> Pages \cup {NoPage}] /\ byte \in [Procs -> Bytes] BY DEF TypeOK
  <2> QED BY ONLY <1>6, <2>1, <2>2
<1>9. todo' \in [Procs -> Nat]
  <2>1. CASE PipeWriteSleeps(p)
    <3>1. todo[p] - Room(k) \in Nat BY <1>4, <1>5, <2>1 DEF PipeWriteSleeps
    <3> QED BY <1>4, <2>1, <3>1 DEF PipeWriteSleeps, TypeOK
  <2>2. CASE ~PipeWriteSleeps(p)
    <3>1. todo' = todo \/ todo' = [todo EXCEPT ![p] = 0]
      BY <1>a, <2>2 DEF PipeWriteEnds, PipeWriteFails, PipeReadSleeps, PipeReadFails,
                        PipeReadEnds, Leave
    <3>2. todo \in [Procs -> Nat] BY DEF TypeOK
    <3>3. [todo EXCEPT ![p] = 0] \in [Procs -> Nat] BY <3>2
    <3> QED BY <3>1, <3>2, <3>3
  <2> QED BY <2>1, <2>2
<1>10. cut' \in SUBSET Pages
  BY <1>a, <1>3 DEF PipeWriteEnds, PipeWriteFails, PipeWriteSleeps, PipeReadSleeps,
                    PipeReadFails, PipeReadEnds, TypeOK
<1>11. /\ pc' \in [Procs -> Points]
       /\ \A q \in Procs : q # p => pipe'[q] = pipe[q] /\ Woken(q)
       /\ \/ pc'[p] = "user" /\ pipe'[p] = NoPage
          \/ /\ pipe'[p] = pipe[p] /\ ~killed[p]
             /\ \/ pc[p] = "read" /\ pc'[p] = "rsleep"
                \/ pc[p] = "write" /\ pc'[p] = "wsleep"
  <2> USE DEF WakeReaders, WakeWriters, WakeAnd, Leave, Return, Woken, Points, TypeOK
  <2>1. CASE PipeWriteEnds(p) BY <2>1 DEF PipeWriteEnds
  <2>2. CASE PipeWriteFails(p) BY <2>2 DEF PipeWriteFails
  <2>3. CASE PipeWriteSleeps(p) BY <2>3 DEF PipeWriteSleeps
  <2>4. CASE PipeReadSleeps(p) BY <2>4 DEF PipeReadSleeps
  <2>5. CASE PipeReadFails(p) BY <2>5 DEF PipeReadFails
  <2>6. CASE PipeReadEnds(p) BY <2>6 DEF PipeReadEnds
  <2> QED BY <1>a, <2>1, <2>2, <2>3, <2>4, <2>5, <2>6
<1>12. TypeOK'
  BY <1>1, <1>7, <1>8, <1>9, <1>10, <1>11 DEF TypeOK
<1> QED BY <1>1, <1>2, <1>3, <1>11, <1>12

\* Steps that change no file, no flag of a pipe and no process that is amid opening or
\* closing one.
Quiet ==
  /\ UNCHANGED <<inUse, readopen, writeopen, ftable, ofile, closing, newFile>>
  /\ \A q \in Procs : \/ pc'[q] = pc[q]
                      \/ {pc[q], pc'[q]} \cap {"pipe", "close", "xclose"} = {}

\* Such a step keeps what is said about files and ends.
LEMMA QuietStep ==
  ASSUME TableInv, TypeOK', Quiet
  PROVE  /\ RefsCounted' /\ FilesInv' /\ EndsInv'
         /\ \A q \in Procs : /\ pc'[q] = "pipe" <=> newFile'[q] # NoFile
                             /\ pc'[q] \in {"close", "xclose"} <=> closing'[q].page # NoPage
                             /\ pc'[q] = "xclose" => closing'[q].fd \in Fds
<1>1. UNCHANGED <<inUse, readopen, writeopen, ref, type, fpipe, writable, ofile, closing, newFile>>
  BY DEF Quiet, ftable
<1>2. \A q \in Procs : pc'[q] = "xclose" <=> pc[q] = "xclose"
  BY DEF Quiet
<1>3. \A q \in Procs : \A i : Names(q, i)' = Names(q, i)
  BY <1>1, <1>2 DEF Names
<1>4. \A f : Holders(f)' = Holders(f)
  <2>1. \A x \in Pairs : Names(x[1], x[2])' = Names(x[1], x[2]) BY <1>3 DEF Pairs
  <2> QED BY <2>1, SameNames
<1>5. RefsCounted' BY <1>1, <1>4 DEF TableInv, RefsCounted
<1>6. FilesInv' BY <1>1, <1>3 DEF TableInv, FilesInv
<1>7. EndsInv' BY <1>1 DEF TableInv, EndsInv, Open, Held
<1>8. ASSUME NEW q \in Procs
      PROVE  /\ pc'[q] = "pipe" <=> newFile'[q] # NoFile
             /\ pc'[q] \in {"close", "xclose"} <=> closing'[q].page # NoPage
             /\ pc'[q] = "xclose" => closing'[q].fd \in Fds
  BY <1>1 DEF Quiet, TableInv, ProcsInv
<1> QED BY <1>5, <1>6, <1>7, <1>8

\* A read or a write.
LEMMA MoveStep ==
  ASSUME TableInv, NEW p \in Procs, PipeStep(p)
  PROVE  TableInv'
<1>1. /\ UNCHANGED <<inUse, readopen, writeopen, ftable, ofile, closing, newFile, killed>>
      /\ pipe[p] \in Pages /\ pc[p] \in {"read", "write"}
      /\ TypeOK'
      /\ \A q \in Procs : q # p => pipe'[q] = pipe[q] /\ Woken(q)
      /\ \/ pc'[p] = "user" /\ pipe'[p] = NoPage
         \/ /\ pipe'[p] = pipe[p] /\ ~killed[p]
            /\ \/ pc[p] = "read" /\ pc'[p] = "rsleep"
               \/ pc[p] = "write" /\ pc'[p] = "wsleep"
  BY MoveEffect DEF TableInv
<1>2. Quiet
  <2>1. ASSUME NEW q \in Procs
        PROVE  \/ pc'[q] = pc[q]
               \/ {pc[q], pc'[q]} \cap {"pipe", "close", "xclose"} = {}
    BY <1>1 DEF Woken
  <2> QED BY <1>1, <2>1 DEF Quiet
<1>3. ASSUME NEW q \in Procs
      PROVE  /\ pc'[q] \in Moving <=> pipe'[q] # NoPage
             /\ pc'[q] = "unused" => pc[q] = "unused"
             /\ pc'[q] \in {"unused", "rsleep", "wsleep"} => ~killed[q]
             /\ pipe'[q] # NoPage
                  => /\ pipe'[q] = pipe[q]
                     /\ pc'[q] \in {"write", "wsleep"} <=> pc[q] \in {"write", "wsleep"}
  <2>1. /\ pc[q] \in Moving <=> pipe[q] # NoPage
        /\ pc[q] \in {"unused", "rsleep", "wsleep"} => ~killed[q]
    BY DEF TableInv, ProcsInv
  <2>2. CASE q = p
    <3>1. NoPage # pipe[p] BY <1>1, PipeAssumption
    <3> QED BY <1>1, <2>2, <3>1 DEF Moving
  <2>3. CASE q # p
    BY <1>1, <2>1, <2>3 DEF Woken, Moving
  <2> QED BY <2>2, <2>3
<1>4. UNCHANGED <<fpipe, writable, ofile, killed>> BY <1>1 DEF ftable
<1>5. ProcsInv'
  <2>1. ASSUME NEW q \in Procs, pc'[q] = "unused" PROVE \A fd \in Fds : ofile'[q][fd] = NoFile
    BY <1>3, <1>4, <2>1 DEF TableInv, ProcsInv
  <2> QED BY <1>1, <1>2, <1>3, <1>4, <2>1, QuietStep DEF ProcsInv
<1>6. UsersInv'
  <2>1. ASSUME NEW q \in Procs, pipe'[q] # NoPage
        PROVE  \E i \in Fds : /\ ofile'[q][i] # NoFile
                             /\ fpipe'[ofile'[q][i]] = pipe'[q]
                             /\ writable'[ofile'[q][i]] = (pc'[q] \in {"write", "wsleep"})
    <3>1. pipe'[q] = pipe[q] /\ (pc'[q] \in {"write", "wsleep"} <=> pc[q] \in {"write", "wsleep"})
      BY <1>3, <2>1
    <3>2. PICK i \in Fds : /\ ofile[q][i] # NoFile
                           /\ fpipe[ofile[q][i]] = pipe[q]
                           /\ writable[ofile[q][i]] = (pc[q] \in {"write", "wsleep"})
      BY <2>1, <3>1 DEF TableInv, UsersInv
    <3>3. (pc'[q] \in {"write", "wsleep"}) = (pc[q] \in {"write", "wsleep"}) BY <3>1
    <3> QED BY <1>4, <3>1, <3>2, <3>3
  <2> QED BY <2>1 DEF UsersInv
<1> QED BY <1>1, <1>2, <1>5, <1>6, QuietStep DEF TableInv

-----------------------------------------------------------------------------
(* Calls that begin, exit's two ends, and kill *)

\* A read or a write begins, with a descriptor that fits.
LEMMA BeginStep ==
  ASSUME TableInv, NEW p \in Procs, NEW isWrite \in BOOLEAN, NEW n \in Nat, NEW b \in Bytes,
         Begin(p, isWrite, IF isWrite THEN "write" ELSE "read", n, b)
  PROVE  TableInv'
<1> DEFINE point == IF isWrite THEN "write" ELSE "read"
<1>1. PICK fd \in OpenFds(p) : /\ type[ofile[p][fd]] = "pipe"
                               /\ writable[ofile[p][fd]] = isWrite
                               /\ pipe' = [pipe EXCEPT ![p] = fpipe[ofile[p][fd]]]
  BY DEF Begin
<1>2. /\ pc[p] = "user" /\ ~killed[p]
      /\ todo' = [todo EXCEPT ![p] = n]
      /\ byte' = [byte EXCEPT ![p] = b]
      /\ pc' = [pc EXCEPT ![p] = point]
      /\ UNCHANGED <<inUse, readopen, writeopen, nread, nwrite, data, killed, cut, ref, type,
                     fpipe, writable, ofile, closing, newFile>>
  BY DEF Begin, Calls, pipes, ftable
<1>3. fd \in Fds /\ ofile[p][fd] # NoFile BY <1>1 DEF OpenFds
<1>4. PICK k \in Pages : k = fpipe[ofile[p][fd]] BY <1>2, <1>3, Descriptor
<1>5. k # NoPage BY PipeAssumption
<1>6. point \in {"read", "write"} OBVIOUS
<1> HIDE DEF point
<1>7. TypeOK'
  BY <1>1, <1>2, <1>4, <1>6 DEF TableInv, TypeOK, Points
<1>8. /\ pc'[p] = point /\ pipe'[p] = k
      /\ \A q \in Procs : q # p => pc'[q] = pc[q] /\ pipe'[q] = pipe[q]
  BY <1>1, <1>2, <1>4 DEF TableInv, TypeOK
<1>9. Quiet
  BY <1>2, <1>6, <1>8 DEF Quiet, ftable
<1>10. ProcsInv'
  <2>1. ASSUME NEW q \in Procs
        PROVE  /\ pc'[q] \in Moving <=> pipe'[q] # NoPage
               /\ pc'[q] = "unused" => \A i \in Fds : ofile'[q][i] = NoFile
               /\ pc'[q] \in {"unused", "rsleep", "wsleep"} => ~killed'[q]
    <3>1. CASE q = p BY <1>2, <1>5, <1>6, <1>8, <3>1 DEF Moving
    <3>2. CASE q # p BY <1>2, <1>8, <3>2 DEF TableInv, ProcsInv
    <3> QED BY <3>1, <3>2
  <2> QED BY <1>7, <1>9, <2>1, QuietStep DEF ProcsInv
<1>11. UsersInv'
  <2>1. ASSUME NEW q \in Procs, pipe'[q] # NoPage
        PROVE  \E i \in Fds : /\ ofile'[q][i] # NoFile
                             /\ fpipe'[ofile'[q][i]] = pipe'[q]
                             /\ writable'[ofile'[q][i]] = (pc'[q] \in {"write", "wsleep"})
    <3>1. CASE q = p
      <4>1. isWrite = (pc'[p] \in {"write", "wsleep"}) BY <1>8 DEF point
      <4> QED BY <1>1, <1>2, <1>3, <1>4, <1>8, <3>1, <4>1
    <3>2. CASE q # p BY <1>2, <1>8, <2>1, <3>2 DEF TableInv, UsersInv
    <3> QED BY <3>1, <3>2
  <2> QED BY <2>1 DEF UsersInv
<1> QED BY <1>7, <1>9, <1>10, <1>11, QuietStep DEF TableInv

\* exit begins and ends, and kill.
LEMMA ExitOrKillStep ==
  ASSUME TableInv, NEW p \in Procs, Exit(p) \/ ExitEnds(p) \/ KillFiles(p)
  PROVE  TableInv'
<1>1. UNCHANGED <<inUse, readopen, writeopen, nread, nwrite, data, pipe, todo, byte, cut,
                  ref, type, fpipe, writable, ofile, closing, newFile>>
  BY DEF Exit, ExitEnds, KillFiles, Kill, pipes, transfer, ftable
<1>2. /\ pc \in [Procs -> Points] /\ killed \in [Procs -> BOOLEAN]
      /\ pc' \in [Procs -> Points] /\ killed' \in [Procs -> BOOLEAN]
  <2> USE DEF Points
  <2>1. pc \in [Procs -> Points] /\ killed \in [Procs -> BOOLEAN]
    BY DEF TableInv, TypeOK
  <2>2. CASE Exit(p) BY <2>1, <2>2 DEF Exit
  <2>3. CASE ExitEnds(p) BY <2>1, <2>3 DEF ExitEnds
  <2>4. CASE KillFiles(p) BY <2>1, <2>4 DEF KillFiles, Kill
  <2> QED BY <2>1, <2>2, <2>3, <2>4
<1>3. TypeOK' BY <1>1, <1>2 DEF TableInv, TypeOK
<1>4. /\ \A q \in Procs : q # p => pc'[q] = pc[q] /\ killed'[q] = killed[q]
      /\ \/ pc[p] = "user" /\ pc'[p] = "exit" /\ killed'[p] = killed[p]
         \/ /\ pc[p] = "exit" /\ pc'[p] = "unused" /\ killed'[p] = FALSE
            /\ \A i \in Fds : ofile[p][i] = NoFile
         \/ /\ pc[p] # "unused" /\ Woken(p) /\ pc'[p] \notin {"rsleep", "wsleep"}
            /\ pc'[p] = pc[p] \/ pc[p] \in {"rsleep", "wsleep"}
  <2>1. CASE Exit(p) BY <1>2, <2>1 DEF Exit
  <2>2. CASE ExitEnds(p) BY <1>2, <2>2 DEF ExitEnds, OpenFds
  <2>3. CASE KillFiles(p) BY <1>2, <2>3 DEF KillFiles, Kill, Woken
  <2> QED BY <2>1, <2>2, <2>3
<1>5. Quiet
  <2>1. ASSUME NEW q \in Procs
        PROVE  \/ pc'[q] = pc[q]
               \/ {pc[q], pc'[q]} \cap {"pipe", "close", "xclose"} = {}
    <3>1. CASE q = p BY <1>4, <3>1 DEF Woken
    <3> QED BY <1>4, <3>1
  <2> QED BY <1>1, <2>1 DEF Quiet, ftable
<1>6. ASSUME NEW q \in Procs
      PROVE  /\ pc'[q] \in Moving <=> pipe'[q] # NoPage
             /\ pc'[q] = "unused" => \A i \in Fds : ofile'[q][i] = NoFile
             /\ pc'[q] \in {"unused", "rsleep", "wsleep"} => ~killed'[q]
             /\ pipe'[q] # NoPage
                  => (pc'[q] \in {"write", "wsleep"} <=> pc[q] \in {"write", "wsleep"})
  <2>1. /\ pc[q] \in Moving <=> pipe[q] # NoPage
        /\ pc[q] = "unused" => \A i \in Fds : ofile[q][i] = NoFile
        /\ pc[q] \in {"unused", "rsleep", "wsleep"} => ~killed[q]
    BY DEF TableInv, ProcsInv
  <2>2. CASE q = p BY <1>1, <1>4, <2>1, <2>2 DEF Moving, Woken
  <2>3. CASE q # p BY <1>1, <1>4, <2>1, <2>3
  <2> QED BY <2>2, <2>3
<1>7. ProcsInv' BY <1>3, <1>5, <1>6, QuietStep DEF ProcsInv
<1>8. UsersInv' BY <1>1, <1>6 DEF TableInv, UsersInv
<1> QED BY <1>3, <1>5, <1>7, <1>8, QuietStep DEF TableInv

-----------------------------------------------------------------------------
(* References that are taken and given up *)

\* Readers and writers keep their descriptors.
LEMMA UsersStay ==
  ASSUME UsersInv,
         ASSUME NEW q \in Procs, pipe'[q] # NoPage
         PROVE  /\ pipe'[q] = pipe[q] /\ ofile'[q] = ofile[q]
                /\ pc'[q] \in {"write", "wsleep"} <=> pc[q] \in {"write", "wsleep"},
         ASSUME NEW q \in Procs, pipe[q] # NoPage,
                NEW fd \in Fds, ofile[q][fd] # NoFile
         PROVE  /\ fpipe'[ofile[q][fd]] = fpipe[ofile[q][fd]]
                /\ writable'[ofile[q][fd]] = writable[ofile[q][fd]]
  PROVE  UsersInv'
<1>1. ASSUME NEW q \in Procs, pipe'[q] # NoPage
      PROVE  \E i \in Fds : /\ ofile'[q][i] # NoFile
                           /\ fpipe'[ofile'[q][i]] = pipe'[q]
                           /\ writable'[ofile'[q][i]] = (pc'[q] \in {"write", "wsleep"})
  <2>1. /\ pipe'[q] = pipe[q] /\ ofile'[q] = ofile[q]
        /\ pc'[q] \in {"write", "wsleep"} <=> pc[q] \in {"write", "wsleep"}
    BY <1>1
  <2>2. PICK i \in Fds : /\ ofile[q][i] # NoFile
                         /\ fpipe[ofile[q][i]] = pipe[q]
                         /\ writable[ofile[q][i]] = (pc[q] \in {"write", "wsleep"})
    BY <1>1, <2>1 DEF UsersInv
  <2>3. (pc'[q] \in {"write", "wsleep"}) = (pc[q] \in {"write", "wsleep"}) BY <2>1
  <2>4. /\ fpipe'[ofile[q][i]] = fpipe[ofile[q][i]]
        /\ writable'[ofile[q][i]] = writable[ofile[q][i]]
    BY <1>1, <2>1, <2>2
  <2> QED BY <2>1, <2>2, <2>3, <2>4
<1> QED BY <1>1 DEF UsersInv

\* pipealloc takes its first file.
LEMMA PipeFirstStep ==
  ASSUME TableInv, NEW p \in Procs, PipeFirst(p)
  PROVE  TableInv'
<1>1. PICK f \in FileSlots : f = Min(FreeFiles) /\ ref[f] = 0
  BY LeastSlots DEF PipeFirst
<1>2. /\ pc[p] = "user" /\ ~killed[p]
      /\ ref' = [ref EXCEPT ![f] = 1]
      /\ newFile' = [newFile EXCEPT ![p] = f]
      /\ pc' = [pc EXCEPT ![p] = "pipe"]
      /\ UNCHANGED <<inUse, readopen, writeopen, nread, nwrite, data, pipe, todo, byte, killed,
                     cut, type, fpipe, writable, ofile, closing>>
  BY <1>1 DEF PipeFirst, Calls, pipes, transfer
<1>3. TypeOK' BY <1>2 DEF TableInv, TypeOK, Points
<1>4. /\ pc'[p] = "pipe" /\ newFile'[p] = f /\ ref'[f] = 1
      /\ \A q \in Procs : q # p => pc'[q] = pc[q] /\ newFile'[q] = newFile[q]
      /\ \A g \in FileSlots : g # f => ref'[g] = ref[g]
      /\ newFile[p] = NoFile /\ f # NoFile /\ pipe[p] = NoPage /\ closing[p].page = NoPage
  BY <1>2, Nobody DEF TableInv, TypeOK, ProcsInv, Moving
<1>5. fpipe[f] = NoPage BY <1>1 DEF TableInv, FilesInv
<1>6. ASSUME NEW q \in Procs, NEW i \in Fds PROVE Names(q, i)' = Names(q, i)
  BY <1>2, <1>4, <1>6, Nobody DEF Names
<1>7. RefsCounted'
  <2>1. <<p, NoFd>> \in Pairs BY DEF Pairs
  <2>2. ASSUME NEW x \in Pairs, x # <<p, NoFd>> PROVE Names(x[1], x[2])' = Names(x[1], x[2])
    <3>1. CASE x[2] \in Fds BY <1>6, <2>2, <3>1 DEF Pairs
    <3>2. CASE x[2] = NoFd
      <4>1. x[1] \in Procs /\ x[1] # p BY <2>2, <3>2 DEF Pairs
      <4> QED BY <1>4, <3>2, <4>1 DEF Names
    <3> QED BY <2>2, <3>1, <3>2 DEF Pairs
  <2>3. Names(p, NoFd) = NoFile /\ Names(p, NoFd)' = f BY <1>4 DEF Names
  <2>4. ASSUME NEW g \in FileSlots
        PROVE  Cardinality(Holders(g)') = IF g = f THEN ref[g] + 1
                                          ELSE IF g = NoFile THEN ref[g] - 1 ELSE ref[g]
    BY <1>4, <2>1, <2>2, <2>3, OneName DEF TableInv
  <2> QED BY <1>1, <1>3, <1>4, <2>4, Nobody DEF RefsCounted
<1>8. ProcsInv'
  BY <1>2, <1>4 DEF TableInv, ProcsInv, Moving
<1>9. FilesInv'
  <2>1. \A g \in FileSlots : fpipe'[g] # NoPage => ref'[g] > 0
    BY <1>2, <1>4 DEF TableInv, FilesInv
  <2>2. ASSUME NEW q \in Procs, newFile'[q] # NoFile
        PROVE  ref'[newFile'[q]] = 1 /\ fpipe'[newFile'[q]] = NoPage
    <3>1. CASE q = p BY <1>2, <1>4, <1>5, <3>1
    <3>2. CASE q # p
      <4>1. newFile[q] \in FileSlots /\ newFile'[q] = newFile[q]
        BY <1>4, <2>2, <3>2 DEF TableInv, TypeOK
      <4>2. ref[newFile[q]] = 1 /\ fpipe[newFile[q]] = NoPage
        BY <2>2, <4>1 DEF TableInv, FilesInv
      <4> QED BY <1>1, <1>2, <1>4, <4>1, <4>2
    <3> QED BY <3>1, <3>2
  <2> QED BY <1>2, <1>6, <2>1, <2>2 DEF TableInv, FilesInv
<1>10. UsersInv'
  BY <1>2, <1>4, UsersStay DEF TableInv
<1>11. EndsInv' BY <1>2 DEF TableInv, EndsInv, Open, Held
<1> QED BY <1>3, <1>7, <1>8, <1>9, <1>10, <1>11 DEF TableInv

\* And gives it back.
LEMMA PipeBadStep ==
  ASSUME TableInv, NEW p \in Procs, PipeBad(p)
  PROVE  TableInv'
<1>1. pc[p] = "pipe" /\ newFile[p] # NoFile BY DEF PipeBad, TableInv, ProcsInv
<1>2. PICK f \in FileSlots : f = newFile[p] BY <1>1 DEF TableInv, TypeOK
<1>3. /\ ref' = [ref EXCEPT ![f] = 0]
      /\ newFile' = [newFile EXCEPT ![p] = NoFile]
      /\ pc' = [pc EXCEPT ![p] = "user"]
      /\ UNCHANGED <<inUse, readopen, writeopen, nread, nwrite, data, pipe, todo, byte, killed,
                     cut, type, fpipe, writable, ofile, closing>>
  BY <1>2 DEF PipeBad, pipes, transfer
<1>4. TypeOK' BY <1>3 DEF TableInv, TypeOK, Points
<1>5. /\ pc'[p] = "user" /\ newFile'[p] = NoFile /\ ref'[f] = 0
      /\ \A q \in Procs : q # p => pc'[q] = pc[q] /\ newFile'[q] = newFile[q]
      /\ \A g \in FileSlots : g # f => ref'[g] = ref[g]
      /\ pipe[p] = NoPage /\ closing[p].page = NoPage /\ f # NoFile
      /\ ref[f] = 1 /\ fpipe[f] = NoPage
  BY <1>1, <1>2, <1>3, Nobody DEF TableInv, TypeOK, ProcsInv, FilesInv, Moving
<1>6. ASSUME NEW q \in Procs, NEW i \in Fds PROVE Names(q, i)' = Names(q, i)
  BY <1>1, <1>3, <1>5, <1>6, Nobody DEF Names
<1>7. RefsCounted'
  <2>1. <<p, NoFd>> \in Pairs BY DEF Pairs
  <2>2. ASSUME NEW x \in Pairs, x # <<p, NoFd>> PROVE Names(x[1], x[2])' = Names(x[1], x[2])
    <3>1. CASE x[2] \in Fds BY <1>6, <2>2, <3>1 DEF Pairs
    <3>2. CASE x[2] = NoFd
      <4>1. x[1] \in Procs /\ x[1] # p BY <2>2, <3>2 DEF Pairs
      <4> QED BY <1>5, <3>2, <4>1 DEF Names
    <3> QED BY <2>2, <3>1, <3>2 DEF Pairs
  <2>3. Names(p, NoFd) = f /\ Names(p, NoFd)' = NoFile BY <1>2, <1>5 DEF Names
  <2>4. ASSUME NEW g \in FileSlots
        PROVE  Cardinality(Holders(g)') = IF g = NoFile THEN ref[g] + 1
                                          ELSE IF g = f THEN ref[g] - 1 ELSE ref[g]
    BY <1>5, <2>1, <2>2, <2>3, OneName DEF TableInv
  <2> QED BY <1>4, <1>5, <2>4, Nobody DEF RefsCounted
<1>8. ProcsInv'
  BY <1>3, <1>5 DEF TableInv, ProcsInv, Moving
<1>9. FilesInv'
  <2>1. \A g \in FileSlots : fpipe'[g] # NoPage => ref'[g] > 0
    BY <1>3, <1>5 DEF TableInv, FilesInv
  <2>2. ASSUME NEW q \in Procs, newFile'[q] # NoFile
        PROVE  ref'[newFile'[q]] = 1 /\ fpipe'[newFile'[q]] = NoPage
    <3>1. q # p /\ newFile'[q] = newFile[q] BY <1>5, <2>2
    <3>2. newFile[q] \in FileSlots BY <2>2, <3>1 DEF TableInv, TypeOK
    <3>3. ref[newFile[q]] = 1 /\ fpipe[newFile[q]] = NoPage
      BY <2>2, <3>1 DEF TableInv, FilesInv
    <3>4. newFile[q] # f
      <4>1. ASSUME newFile[q] = f PROVE FALSE
        <5>1. <<q, NoFd>> \in Holders(f) /\ <<p, NoFd>> \in Holders(f)
          BY <1>2, <4>1 DEF Holders, Names
        <5>2. <<q, NoFd>> = <<p, NoFd>> BY <1>5, <5>1, OneHolder DEF TableInv
        <5> QED BY <3>1, <5>2
      <4> QED BY <4>1
    <3> QED BY <1>3, <1>5, <3>1, <3>2, <3>3, <3>4
  <2> QED BY <1>3, <1>6, <2>1, <2>2 DEF TableInv, FilesInv
<1>10. UsersInv'
  BY <1>3, <1>5, UsersStay DEF TableInv
<1>11. EndsInv' BY <1>3 DEF TableInv, EndsInv, Open, Held
<1> QED BY <1>4, <1>7, <1>8, <1>9, <1>10, <1>11 DEF TableInv

\* dup.
LEMMA DupStep ==
  ASSUME TableInv, NEW p \in Procs, Dup(p)
  PROVE  TableInv'
<1>1. PICK d \in Fds : d = Min(FreeFds(p)) /\ ofile[p][d] = NoFile
  BY LeastSlots DEF Dup
<1>2. PICK fd \in OpenFds(p) :
        /\ ofile' = [ofile EXCEPT ![p][d] = ofile[p][fd]]
        /\ ref' = [ref EXCEPT ![ofile[p][fd]] = @ + 1]
  BY <1>1 DEF Dup
<1>3. /\ pc[p] = "user" /\ ~killed[p]
      /\ UNCHANGED <<inUse, readopen, writeopen, nread, nwrite, data, pc, pipe, todo, byte,
                     killed, cut, type, fpipe, writable, closing, newFile>>
  BY DEF Dup, Calls, pipeVars, pipes, transfer
<1>4. fd \in Fds /\ ofile[p][fd] # NoFile BY <1>2 DEF OpenFds
<1>5. PICK f \in FileSlots : /\ f = ofile[p][fd] /\ fpipe[f] # NoPage /\ f # NoFile
                             /\ \A q \in Procs : newFile[q] # f
  <2>1. /\ ofile[p][fd] \in FileSlots /\ fpipe[ofile[p][fd]] \in Pages
        /\ \A q \in Procs : newFile[q] # ofile[p][fd]
    BY <1>3, <1>4, Descriptor
  <2> QED BY <1>4, <2>1, PipeAssumption
<1>6. TypeOK' BY <1>2, <1>3, <1>5 DEF TableInv, TypeOK
<1>7. /\ ofile'[p][d] = f /\ ref'[f] = ref[f] + 1
      /\ \A i \in Fds : i # d => ofile'[p][i] = ofile[p][i]
      /\ \A q \in Procs : q # p => ofile'[q] = ofile[q]
      /\ \A g \in FileSlots : g # f => ref'[g] = ref[g]
      /\ pipe[p] = NoPage
  <2>1. /\ ofile \in [Procs -> [Fds -> FileSlots \cup {NoFile}]]
        /\ ref \in [FileSlots -> Nat]
    BY DEF TableInv, TypeOK
  <2>2. pipe[p] = NoPage BY <1>3 DEF TableInv, ProcsInv, Moving
  <2> QED BY ONLY <1>1, <1>2, <1>5, <2>1, <2>2
<1>8. d # NoFd /\ Names(p, d) = NoFile /\ Names(p, d)' = f
  BY <1>1, <1>3, <1>7, Nobody DEF Names
<1>9. ASSUME NEW q \in Procs, NEW i \in Fds \cup {NoFd}, ~(q = p /\ i = d)
      PROVE  Names(q, i)' = Names(q, i)
  <2>1. CASE i = NoFd BY <1>3, <2>1 DEF Names
  <2>2. CASE i # NoFd
    <3>1. ofile'[q][i] = ofile[q][i] BY <1>7, <1>9, <2>2
    <3> QED BY <1>3, <2>2, <3>1 DEF Names
  <2> QED BY <2>1, <2>2
<1>10. RefsCounted'
  <2>1. <<p, d>> \in Pairs BY DEF Pairs
  <2>2. ASSUME NEW x \in Pairs, x # <<p, d>> PROVE Names(x[1], x[2])' = Names(x[1], x[2])
    <3>1. x = <<x[1], x[2]>> /\ x[1] \in Procs /\ x[2] \in Fds \cup {NoFd} BY DEF Pairs
    <3> QED BY <1>9, <2>2, <3>1
  <2>3. ASSUME NEW g \in FileSlots
        PROVE  Cardinality(Holders(g)') = IF g = f THEN ref[g] + 1
                                          ELSE IF g = NoFile THEN ref[g] - 1 ELSE ref[g]
    BY <1>5, <1>8, <2>1, <2>2, OneName DEF TableInv
  <2> QED BY <1>6, <1>7, <2>3, Nobody DEF RefsCounted
<1>11. ProcsInv'
  <2>1. ASSUME NEW q \in Procs, pc[q] = "unused" PROVE \A i \in Fds : ofile'[q][i] = NoFile
    BY <1>3, <1>7, <2>1 DEF TableInv, ProcsInv
  <2> QED BY <1>3, <2>1 DEF TableInv, ProcsInv
<1>12. FilesInv'
  <2>1. ASSUME NEW g \in FileSlots, fpipe[g] # NoPage PROVE ref'[g] > 0
    <3>1. ref[g] > 0 /\ ref[g] \in Nat BY <2>1 DEF TableInv, FilesInv, TypeOK
    <3> QED BY <1>7, <3>1
  <2>2. ASSUME NEW q \in Procs, newFile[q] # NoFile
        PROVE  ref'[newFile[q]] = 1 /\ fpipe[newFile[q]] = NoPage
    <3>1. newFile[q] \in FileSlots /\ newFile[q] # f BY <1>5, <2>2 DEF TableInv, TypeOK
    <3> QED BY <1>7, <2>2, <3>1 DEF TableInv, FilesInv
  <2>3. ASSUME NEW q \in Procs, NEW i \in Fds, Names(q, i)' # NoFile
        PROVE  fpipe[Names(q, i)'] # NoPage
    <3>1. CASE q = p /\ i = d BY <1>5, <1>8, <3>1
    <3>2. CASE ~(q = p /\ i = d)
      <4>1. Names(q, i)' = Names(q, i) BY <1>9, <3>2
      <4> QED BY <2>3, <4>1 DEF TableInv, FilesInv
    <3> QED BY <3>1, <3>2
  <2> QED BY <1>3, <2>1, <2>2, <2>3 DEF TableInv, FilesInv
<1>13. UsersInv'
  <2>1. ASSUME NEW q \in Procs, pipe'[q] # NoPage
        PROVE  /\ pipe'[q] = pipe[q] /\ ofile'[q] = ofile[q]
               /\ pc'[q] \in {"write", "wsleep"} <=> pc[q] \in {"write", "wsleep"}
    BY <1>3, <1>7, <2>1
  <2> QED BY <1>3, <2>1, UsersStay DEF TableInv
<1>14. EndsInv' BY <1>3 DEF TableInv, EndsInv, Open, Held
<1> QED BY <1>6, <1>10, <1>11, <1>12, <1>13, <1>14 DEF TableInv

\* fork: the child names what its parent names.
LEMMA ForkStep ==
  ASSUME TableInv, NEW p \in Procs, NEW r \in Procs, Fork(p, r)
  PROVE  TableInv'
<1>1. /\ pc[p] = "user" /\ ~killed[p] /\ pc[r] = "unused"
      /\ ofile' = [ofile EXCEPT ![r] = ofile[p]]
      /\ ref' = [f \in FileSlots |-> ref[f] + Cardinality({fd \in Fds : ofile[p][fd] = f})]
      /\ pc' = [pc EXCEPT ![r] = "user"]
      /\ UNCHANGED <<inUse, readopen, writeopen, nread, nwrite, data, pipe, todo, byte,
                     killed, cut, type, fpipe, writable, closing, newFile>>
  BY DEF Fork, Calls, pipes, transfer
<1> DEFINE Fd(f) == {fd \in Fds : ofile[p][fd] = f}
<1>2. ASSUME NEW f PROVE IsFiniteSet(Fd(f)) /\ Cardinality(Fd(f)) \in Nat
  <2>1. NOFILE - 1 \in Int /\ 0 \in Int BY FilesAssumption
  <2>2. IsFiniteSet(Fds) BY <2>1, FS_Interval DEF Fds
  <2>3. Fd(f) \in SUBSET Fds OBVIOUS
  <2>4. IsFiniteSet(Fd(f)) BY <2>2, <2>3, FS_Subset
  <2> QED BY <2>4, FS_CardinalityType
<1>3. TypeOK'
  <2>1. ASSUME NEW f \in FileSlots PROVE ref[f] + Cardinality(Fd(f)) \in Nat
    <3>1. ref[f] \in Nat BY DEF TableInv, TypeOK
    <3> HIDE DEF Fd
    <3> QED BY <1>2, <3>1
  <2>2. ref' \in [FileSlots -> Nat] BY <1>1, <2>1
  <2> QED BY <1>1, <2>2 DEF TableInv, TypeOK, Points
<1>4. /\ pc'[r] = "user" /\ ofile'[r] = ofile[p] /\ r # p
      /\ \A q \in Procs : q # r => pc'[q] = pc[q] /\ ofile'[q] = ofile[q]
      /\ \A i \in Fds : ofile[r][i] = NoFile
      /\ pipe[r] = NoPage /\ closing[r].page = NoPage /\ newFile[r] = NoFile /\ ~killed[r]
  BY <1>1 DEF TableInv, TypeOK, ProcsInv, Moving
<1>5. ASSUME NEW q \in Procs, NEW i \in Fds \cup {NoFd}
      PROVE  Names(q, i)' = IF q = r /\ i \in Fds THEN ofile[p][i] ELSE Names(q, i)
  BY <1>1, <1>4, Nobody DEF Names
<1>6. ASSUME NEW i \in Fds PROVE Names(r, i) = NoFile /\ Names(p, i) = ofile[p][i]
  BY <1>1, <1>4, Nobody DEF Names
<1>7. RefsCounted'
  <2>1. ASSUME NEW f \in FileSlots
        PROVE  Cardinality(Holders(f)') = ref[f] + Cardinality(Fd(f))
    <3> DEFINE T == {r} \X Fd(f)
    <3>1. Holders(f)' = Holders(f) \cup T
      <4>1. ASSUME NEW x \in Pairs PROVE Names(x[1], x[2])' = f <=> Names(x[1], x[2]) = f \/ x \in T
        <5>1. x = <<x[1], x[2]>> /\ x[1] \in Procs /\ x[2] \in Fds \cup {NoFd} BY DEF Pairs
        <5>2. x \in T <=> x[1] = r /\ x[2] \in Fds /\ ofile[p][x[2]] = f BY <5>1
        <5>3. f # NoFile BY Nobody
        <5> QED BY <1>5, <1>6, <5>1, <5>2, <5>3
      <4>2. T \subseteq Pairs BY DEF Pairs
      <4> QED BY <4>1, <4>2 DEF Holders, Pairs
    <3>2. Holders(f) \cap T = {}
      <4>1. ASSUME NEW i \in Fds, <<r, i>> \in Holders(f) PROVE FALSE
        BY <1>6, <4>1, Nobody DEF Holders
      <4> QED BY <4>1
    <3>3. IsFiniteSet(T) /\ Cardinality(T) = Cardinality(Fd(f))
      <4>1. IsFiniteSet({r}) /\ Cardinality({r}) = 1 BY FS_Singleton
      <4>2. IsFiniteSet(T) /\ Cardinality(T) = Cardinality({r}) * Cardinality(Fd(f))
        BY <1>2, <4>1, FS_Product
      <4>3. Cardinality(Fd(f)) \in Nat BY <1>2
      <4> HIDE DEF Fd
      <4> QED BY <4>1, <4>2, <4>3
    <3>4. Cardinality(Holders(f) \cap T) = 0 BY <3>2, FS_EmptySet
    <3>5. Cardinality(Holders(f)) = ref[f] /\ IsFiniteSet(Holders(f)) /\ ref[f] \in Nat
      BY HoldersFinite DEF TableInv, RefsCounted, TypeOK
    <3>6. Cardinality(Holders(f) \cup T)
            = Cardinality(Holders(f)) + Cardinality(T) - Cardinality(Holders(f) \cap T)
      BY <3>3, <3>5, FS_Union
    <3>7. Cardinality(Fd(f)) \in Nat BY <1>2
    <3> HIDE DEF Fd, T
    <3> QED BY <3>1, <3>3, <3>4, <3>5, <3>6, <3>7
  <2> QED BY <1>1, <1>3, <2>1 DEF RefsCounted
<1>8. ProcsInv'
  <2>1. ASSUME NEW q \in Procs, pc'[q] = "unused" PROVE \A i \in Fds : ofile'[q][i] = NoFile
    <3>1. q # r BY <1>4, <2>1
    <3> QED BY <1>4, <2>1, <3>1 DEF TableInv, ProcsInv
  <2> QED BY <1>1, <1>4, <2>1 DEF TableInv, ProcsInv, Moving
<1>9. FilesInv'
  <2>1. ASSUME NEW f \in FileSlots, fpipe[f] # NoPage PROVE ref'[f] > 0
    <3>1. ref[f] > 0 /\ ref[f] \in Nat BY <2>1 DEF TableInv, FilesInv, TypeOK
    <3>2. ref'[f] = ref[f] + Cardinality(Fd(f)) BY <1>1
    <3> HIDE DEF Fd
    <3> QED BY <1>2, <3>1, <3>2
  <2>2. ASSUME NEW q \in Procs, newFile[q] # NoFile
        PROVE  ref'[newFile[q]] = 1 /\ fpipe[newFile[q]] = NoPage
    <3>1. PICK f \in FileSlots : f = newFile[q] BY <2>2 DEF TableInv, TypeOK
    <3>2. ref[f] = 1 /\ fpipe[f] = NoPage BY <2>2, <3>1 DEF TableInv, FilesInv
    <3>3. Fd(f) = {}
      <4>1. ASSUME NEW i \in Fds, ofile[p][i] = f PROVE FALSE
        <5>1. ofile[p][i] # NoFile BY <4>1, Nobody
        <5>2. newFile[q] # ofile[p][i] BY <1>1, <5>1, Descriptor
        <5> QED BY <3>1, <4>1, <5>2
      <4> QED BY <4>1
    <3>4. ref'[f] = ref[f] + Cardinality(Fd(f)) BY <1>1
    <3>5. Cardinality(Fd(f)) = 0 BY <3>3, FS_EmptySet
    <3> QED BY <3>1, <3>2, <3>4, <3>5
  <2>3. ASSUME NEW q \in Procs, NEW i \in Fds, Names(q, i)' # NoFile
        PROVE  fpipe[Names(q, i)'] # NoPage
    BY <1>5, <1>6, <2>3 DEF TableInv, FilesInv
  <2> QED BY <1>1, <2>1, <2>2, <2>3 DEF TableInv, FilesInv
<1>10. UsersInv'
  <2>1. ASSUME NEW q \in Procs, pipe'[q] # NoPage
        PROVE  /\ pipe'[q] = pipe[q] /\ ofile'[q] = ofile[q]
               /\ pc'[q] \in {"write", "wsleep"} <=> pc[q] \in {"write", "wsleep"}
    BY <1>1, <1>4, <2>1
  <2> QED BY <1>1, <2>1, UsersStay DEF TableInv
<1>11. EndsInv' BY <1>1 DEF TableInv, EndsInv, Open, Held
<1> QED BY <1>3, <1>7, <1>8, <1>9, <1>10, <1>11 DEF TableInv

\* pipealloc takes its second file and a page, and sys_pipe two descriptors.
LEMMA PipeSecondStep ==
  ASSUME TableInv, NEW p \in Procs, PipeSecond(p)
  PROVE  TableInv'
<1>1. pc[p] = "pipe" /\ ~PipeFails(p) BY DEF PipeSecond
<1>2. PICK rf \in FileSlots : rf = newFile[p] /\ ref[rf] = 1 /\ fpipe[rf] = NoPage
  BY <1>1 DEF TableInv, TypeOK, ProcsInv, FilesInv
<1>3. PICK wf \in FileSlots : wf = Min(FreeFiles) /\ ref[wf] = 0
  BY <1>1, LeastSlots DEF PipeFails
<1>4. PICK d1 \in Fds, d2 \in Fds :
        /\ d1 = Min(FreeFds(p)) /\ d2 = Min(FreeFds(p) \ {Min(FreeFds(p))})
        /\ d1 # d2 /\ ofile[p][d1] = NoFile /\ ofile[p][d2] = NoFile
  BY <1>1, TwoFds DEF PipeFails, FreeFds
<1>5. PICK k \in Pages \ inUse :
        /\ NewPipe(k)
        /\ ref' = [ref EXCEPT ![wf] = 1]
        /\ type' = [type EXCEPT ![rf] = "pipe", ![wf] = "pipe"]
        /\ fpipe' = [fpipe EXCEPT ![rf] = k, ![wf] = k]
        /\ writable' = [writable EXCEPT ![rf] = FALSE, ![wf] = TRUE]
        /\ ofile' = [ofile EXCEPT ![p][d1] = rf, ![p][d2] = wf]
  BY <1>2, <1>3, <1>4 DEF PipeSecond
<1>6. /\ newFile' = [newFile EXCEPT ![p] = NoFile]
      /\ pc' = [pc EXCEPT ![p] = "user"]
      /\ UNCHANGED <<pipe, todo, byte, killed, closing>>
  BY DEF PipeSecond, transfer
<1>7. /\ inUse' = inUse \cup {k} /\ cut' = cut \ {k} /\ Blank(k)
      /\ readopen' = [readopen EXCEPT ![k] = TRUE]
      /\ writeopen' = [writeopen EXCEPT ![k] = TRUE]
  BY <1>5 DEF NewPipe
<1>8. TypeOK'
  <2>1. /\ nread' \in [Pages -> 0 .. Wrap - 1] /\ nwrite' \in [Pages -> 0 .. Wrap - 1]
        /\ data' \in [Pages -> [Slots -> Bytes]]
    <3>1. 0 \in Int OBVIOUS
    <3> QED BY <1>7, <3>1, MovesType DEF TableInv
  <2>2. /\ inUse' \subseteq Pages /\ cut' \subseteq Pages
        /\ readopen' \in [Pages -> BOOLEAN] /\ writeopen' \in [Pages -> BOOLEAN]
    BY <1>7 DEF TableInv, TypeOK
  <2>3. /\ ref' \in [FileSlots -> Nat] /\ type' \in [FileSlots -> {"none", "pipe"}]
        /\ fpipe' \in [FileSlots -> Pages \cup {NoPage}] /\ writable' \in [FileSlots -> BOOLEAN]
    BY <1>5 DEF TableInv, TypeOK
  <2>4. ofile' \in [Procs -> [Fds -> FileSlots \cup {NoFile}]]
    BY <1>5 DEF TableInv, TypeOK
  <2>5. pc' \in [Procs -> Points] /\ newFile' \in [Procs -> FileSlots \cup {NoFile}]
    BY <1>6 DEF TableInv, TypeOK, Points
  <2> QED BY <1>6, <2>1, <2>2, <2>3, <2>4, <2>5 DEF TableInv, TypeOK
<1>9. /\ pc'[p] = "user" /\ newFile'[p] = NoFile
      /\ \A q \in Procs : q # p => pc'[q] = pc[q] /\ newFile'[q] = newFile[q] /\ ofile'[q] = ofile[q]
      /\ ofile'[p][d1] = rf /\ ofile'[p][d2] = wf
      /\ \A i \in Fds : i # d1 /\ i # d2 => ofile'[p][i] = ofile[p][i]
  BY <1>4, <1>5, <1>6 DEF TableInv, TypeOK
<1>10. /\ rf # wf /\ rf # NoFile /\ wf # NoFile /\ fpipe[wf] = NoPage /\ k # NoPage
       /\ pipe[p] = NoPage /\ closing[p].page = NoPage /\ newFile[p] # NoFile
       /\ d1 # NoFd /\ d2 # NoFd
  BY <1>1, <1>2, <1>3, Nobody, PipeAssumption DEF TableInv, FilesInv, ProcsInv, Moving
<1>11. /\ ref'[wf] = 1 /\ \A g \in FileSlots : g # wf => ref'[g] = ref[g]
       /\ fpipe'[rf] = k /\ fpipe'[wf] = k /\ type'[rf] = "pipe" /\ type'[wf] = "pipe"
       /\ writable'[rf] = FALSE /\ writable'[wf] = TRUE
       /\ \A g \in FileSlots : g # rf /\ g # wf => /\ fpipe'[g] = fpipe[g] /\ type'[g] = type[g]
                                                  /\ writable'[g] = writable[g]
  BY <1>5, <1>10 DEF TableInv, TypeOK
<1>12. /\ Names(p, d1) = NoFile /\ Names(p, d1)' = rf
       /\ Names(p, d2) = NoFile /\ Names(p, d2)' = wf
       /\ Names(p, NoFd) = rf /\ Names(p, NoFd)' = NoFile
  BY <1>1, <1>2, <1>4, <1>9, <1>10 DEF Names
<1>13. ASSUME NEW q \in Procs, NEW i \in Fds \cup {NoFd}, ~(q = p /\ i \in {d1, d2, NoFd})
       PROVE  Names(q, i)' = Names(q, i)
  <2>1. CASE q = p
    <3>1. i # NoFd /\ i \in Fds /\ i # d1 /\ i # d2 BY <1>13, <2>1
    <3> QED BY <1>1, <1>6, <1>9, <2>1, <3>1 DEF Names
  <2>2. CASE q # p
    BY <1>6, <1>9, <2>2 DEF Names
  <2> QED BY <2>1, <2>2
<1>14. RefsCounted'
  <2>1. ASSUME NEW x \in Pairs
        PROVE  /\ x = <<x[1], x[2]>> /\ x[1] \in Procs /\ x[2] \in Fds \cup {NoFd}
               /\ x = <<p, d1>> \/ x = <<p, d2>> \/ x = <<p, NoFd>>
                  \/ Names(x[1], x[2])' = Names(x[1], x[2])
    <3>1. x = <<x[1], x[2]>> /\ x[1] \in Procs /\ x[2] \in Fds \cup {NoFd} BY DEF Pairs
    <3> QED BY <1>13, <3>1
  <2>2. <<p, d1>> \in Pairs /\ <<p, d2>> \in Pairs /\ <<p, NoFd>> \in Pairs BY DEF Pairs
  <2>3. Holders(rf)' = {<<p, d1>>}
    <3>1. ASSUME NEW x \in Pairs, Names(x[1], x[2]) = rf PROVE x = <<p, NoFd>>
      <4>1. x \in Holders(rf) /\ <<p, NoFd>> \in Holders(rf)
        BY <1>12, <2>2, <3>1 DEF Holders, Pairs
      <4> QED BY <1>2, <4>1, OneHolder DEF TableInv
    <3>2. ASSUME NEW x \in Pairs PROVE Names(x[1], x[2])' = rf <=> x = <<p, d1>>
      BY <1>10, <1>12, <2>1, <3>1
    <3> QED BY <2>2, <3>2 DEF Holders, Pairs
  <2>4. Holders(wf)' = {<<p, d2>>}
    <3>1. ASSUME NEW x \in Pairs PROVE Names(x[1], x[2]) # wf
      <4>1. Holders(wf) = {} BY <1>3, FreeSlot DEF TableInv
      <4> QED BY <4>1 DEF Holders, Pairs
    <3>2. ASSUME NEW x \in Pairs PROVE Names(x[1], x[2])' = wf <=> x = <<p, d2>>
      BY <1>10, <1>12, <2>1, <3>1
    <3> QED BY <2>2, <3>2 DEF Holders, Pairs
  <2>5. ASSUME NEW g \in FileSlots, g # rf, g # wf PROVE Holders(g)' = Holders(g)
    <3>1. g # NoFile BY Nobody
    <3>2. ASSUME NEW x \in Pairs PROVE Names(x[1], x[2])' = g <=> Names(x[1], x[2]) = g
      BY <1>12, <2>1, <2>5, <3>1
    <3> QED BY <3>2 DEF Holders, Pairs
  <2>6. ASSUME NEW g \in FileSlots PROVE ref'[g] = Cardinality(Holders(g)')
    <3>1. CASE g = rf
      <4>1. ref'[rf] = 1 BY <1>2, <1>10, <1>11
      <4> QED BY <2>3, <3>1, <4>1, FS_Singleton
    <3>2. CASE g = wf
      <4>1. ref'[wf] = 1 BY <1>11
      <4> QED BY <2>4, <3>2, <4>1, FS_Singleton
    <3>3. CASE g # rf /\ g # wf BY <1>11, <2>5, <3>3 DEF TableInv, RefsCounted
    <3> QED BY <3>1, <3>2, <3>3
  <2> QED BY <1>8, <2>6 DEF RefsCounted
<1>15. ProcsInv'
  <2>1. ASSUME NEW q \in Procs, pc'[q] = "unused" PROVE \A i \in Fds : ofile'[q][i] = NoFile
    BY <1>9, <2>1 DEF TableInv, ProcsInv
  <2> QED BY <1>6, <1>9, <1>10, <2>1 DEF TableInv, ProcsInv, Moving
<1>16. FilesInv'
  <2>1. ASSUME NEW g \in FileSlots
        PROVE  (type'[g] = "pipe" <=> fpipe'[g] # NoPage) /\ (fpipe'[g] # NoPage => ref'[g] > 0)
    <3>1. CASE g = rf BY <1>2, <1>10, <1>11, <3>1
    <3>2. CASE g = wf BY <1>10, <1>11, <3>2
    <3>3. CASE g # rf /\ g # wf BY <1>11, <3>3 DEF TableInv, FilesInv
    <3> QED BY <3>1, <3>2, <3>3
  <2>2. ASSUME NEW q \in Procs, newFile'[q] # NoFile
        PROVE  ref'[newFile'[q]] = 1 /\ fpipe'[newFile'[q]] = NoPage
    <3>1. q # p /\ newFile'[q] = newFile[q] BY <1>9, <2>2
    <3>2. newFile[q] \in FileSlots BY <2>2, <3>1 DEF TableInv, TypeOK
    <3>3. ref[newFile[q]] = 1 /\ fpipe[newFile[q]] = NoPage
      BY <2>2, <3>1 DEF TableInv, FilesInv
    <3>4. newFile[q] # rf
      <4>1. ASSUME newFile[q] = rf PROVE FALSE
        <5>1. <<q, NoFd>> \in Holders(rf) /\ <<p, NoFd>> \in Holders(rf)
          BY <1>2, <4>1 DEF Holders, Names
        <5>2. <<q, NoFd>> = <<p, NoFd>> BY <1>2, <5>1, OneHolder DEF TableInv
        <5> QED BY <3>1, <5>2
      <4> QED BY <4>1
    <3>5. newFile[q] # wf BY <1>3, <3>3
    <3> QED BY <1>11, <3>1, <3>2, <3>3, <3>4, <3>5
  <2>3. ASSUME NEW q \in Procs, NEW i \in Fds, Names(q, i)' # NoFile
        PROVE  fpipe'[Names(q, i)'] # NoPage
    <3>1. CASE q = p /\ i \in {d1, d2} BY <1>10, <1>11, <1>12, <3>1
    <3>2. CASE ~(q = p /\ i \in {d1, d2})
      <4>1. Names(q, i)' = Names(q, i) BY <1>13, <3>2, Nobody
      <4>2. fpipe[Names(q, i)] # NoPage BY <2>3, <4>1 DEF TableInv, FilesInv
      <4>3. Names(q, i) \in FileSlots
        BY <2>3, <4>1, Nobody DEF Names, TableInv, TypeOK
      <4> QED BY <1>2, <1>10, <1>11, <4>1, <4>2, <4>3
    <3> QED BY <3>1, <3>2
  <2> QED BY <2>1, <2>2, <2>3 DEF FilesInv
<1>17. UsersInv'
  <2>1. ASSUME NEW q \in Procs, pipe'[q] # NoPage
        PROVE  /\ pipe'[q] = pipe[q] /\ ofile'[q] = ofile[q]
               /\ pc'[q] \in {"write", "wsleep"} <=> pc[q] \in {"write", "wsleep"}
    BY <1>6, <1>9, <1>10, <2>1
  <2>2. ASSUME NEW q \in Procs, pipe[q] # NoPage, NEW i \in Fds, ofile[q][i] # NoFile
        PROVE  /\ fpipe'[ofile[q][i]] = fpipe[ofile[q][i]]
               /\ writable'[ofile[q][i]] = writable[ofile[q][i]]
    <3>1. pc[q] # "xclose" BY <2>2 DEF TableInv, ProcsInv, Moving
    <3>2. ofile[q][i] \in FileSlots /\ fpipe[ofile[q][i]] \in Pages
      BY <2>2, <3>1, Descriptor
    <3>3. ofile[q][i] # rf /\ ofile[q][i] # wf BY <1>2, <1>10, <3>2, PipeAssumption
    <3> QED BY <1>11, <3>2, <3>3
  <2> QED BY <2>1, <2>2, UsersStay DEF TableInv
<1>18. EndsInv'
  <2>1. ASSUME NEW w \in BOOLEAN PROVE ~Held(k, w) BY <2>1 DEF TableInv, EndsInv, Open
  <2>2. \A g \in FileSlots : fpipe[g] # k
    <3>1. ASSUME NEW g \in FileSlots, fpipe[g] = k PROVE FALSE
      <4>1. writable[g] \in BOOLEAN BY DEF TableInv, TypeOK
      <4> QED BY <2>1, <3>1, <4>1 DEF Held
    <3> QED BY <3>1
  <2>3. \A q \in Procs : closing[q].page # k
    <3>1. ASSUME NEW q \in Procs, closing[q].page = k PROVE FALSE
      <4>1. closing[q].writable \in BOOLEAN BY DEF TableInv, TypeOK
      <4> QED BY <2>1, <3>1, <4>1 DEF Held
    <3> QED BY <3>1
  <2>4. ASSUME NEW j \in Pages, NEW w \in BOOLEAN PROVE Open(j, w)' <=> Held(j, w)'
    <3>1. CASE j = k
      <4>1. Open(k, w)' BY <1>7 DEF Open, TableInv, TypeOK
      <4>2. Held(k, w)' BY <1>11 DEF Held
      <4> QED BY <3>1, <4>1, <4>2
    <3>2. CASE j # k
      <4>1. Open(j, w)' <=> Open(j, w) BY <1>7, <3>2 DEF Open, TableInv, TypeOK
      <4>2. Held(j, w)' <=> Held(j, w)
        <5>1. j # NoPage BY PipeAssumption
        <5> QED BY <1>2, <1>6, <1>10, <1>11, <3>2, <5>1 DEF Held
      <4> QED BY <4>1, <4>2 DEF TableInv, EndsInv
    <3> QED BY <3>1, <3>2
  <2>5. ASSUME NEW f \in FileSlots, NEW g \in FileSlots,
               fpipe'[f] # NoPage, fpipe'[f] = fpipe'[g], writable'[f] = writable'[g]
        PROVE  f = g
    BY <1>11, <2>2, <2>5 DEF TableInv, EndsInv
  <2>6. ASSUME NEW f \in FileSlots, NEW q \in Procs,
               fpipe'[f] # NoPage, fpipe'[f] = closing'[q].page
        PROVE  writable'[f] # closing'[q].writable
    BY <1>6, <1>11, <2>3, <2>6 DEF TableInv, EndsInv
  <2>7. ASSUME NEW j \in inUse' PROVE readopen'[j] \/ writeopen'[j]
    <3>1. CASE j = k BY <1>7, <3>1 DEF TableInv, TypeOK
    <3>2. CASE j # k BY <1>7, <2>7, <3>2 DEF TableInv, TypeOK, EndsInv
    <3> QED BY <3>1, <3>2
  <2>8. ASSUME NEW q \in Procs, NEW r \in Procs,
               closing'[q].page # NoPage, closing'[q].page = closing'[r].page,
               closing'[q].writable = closing'[r].writable
        PROVE  q = r
    BY <1>6, <2>8 DEF TableInv, EndsInv
  <2> QED BY <2>4, <2>5, <2>6, <2>7, <2>8 DEF EndsInv
<1> QED BY <1>8, <1>14, <1>15, <1>16, <1>17, <1>18 DEF TableInv

\* The steps that close a file, with the ftable locked.
LEMMA CloseStep ==
  ASSUME TableInv, NEW p \in Procs, Close(p) \/ ExitClose(p)
  PROVE  TableInv'
<1> DEFINE point == IF pc[p] = "user" THEN "close" ELSE "xclose"
           after == pc[p]
<1>1. PICK fd \in Fds :
        /\ ofile[p][fd] # NoFile /\ pc[p] \in {"user", "exit"}
        /\ pc[p] = "user" => ~killed[p]
        /\ FileClose(p, fd, point, after)
        /\ ofile' = IF pc[p] = "exit" /\ LastRef(ofile[p][fd]) /\ type[ofile[p][fd]] = "pipe" THEN ofile
                    ELSE [ofile EXCEPT ![p][fd] = NoFile]
  <2>1. CASE Close(p)
    <3>1. PICK fd \in OpenFds(p) : /\ FileClose(p, fd, "close", "user")
                                   /\ ofile' = [ofile EXCEPT ![p][fd] = NoFile]
      BY <2>1 DEF Close
    <3>2. pc[p] = "user" /\ ~killed[p] BY <2>1 DEF Close, Calls
    <3> QED BY <3>1, <3>2 DEF OpenFds
  <2>2. CASE ExitClose(p)
    <3>1. pc[p] = "exit" BY <2>2 DEF ExitClose
    <3>2. Min(OpenFds(p)) \in Fds /\ ofile[p][Min(OpenFds(p))] # NoFile
      BY <2>2, LeastSlots DEF ExitClose
    <3> QED BY <2>2, <3>1, <3>2 DEF ExitClose
  <2> QED BY <2>1, <2>2
<1>2. UNCHANGED <<inUse, readopen, writeopen, nread, nwrite, data, pipe, todo, byte, killed, cut,
                  newFile>>
  BY DEF Close, ExitClose, pipes, transfer
<1>3. PICK f \in FileSlots :
        /\ f = ofile[p][fd] /\ f # NoFile /\ Names(p, fd) = f /\ <<p, fd>> \in Holders(f)
        /\ <<p, fd>> \in Pairs /\ fpipe[f] \in Pages /\ type[f] = "pipe"
        /\ ref[f] \in Nat /\ ref[f] >= 1
        /\ \A q \in Procs : newFile[q] # f
  <2>1. pc[p] # "xclose" BY <1>1
  <2> QED BY <1>1, <2>1, Descriptor
<1>4. /\ fd # NoFd /\ fpipe[f] # NoPage /\ pipe[p] = NoPage /\ closing[p].page = NoPage
      /\ newFile[p] = NoFile
  BY <1>1, <1>3, Nobody, PipeAssumption DEF TableInv, ProcsInv, Moving
<1>5. CASE ref[f] # 1
  <2>1. /\ ref' = [ref EXCEPT ![f] = @ - 1]
        /\ UNCHANGED <<type, fpipe, writable, closing, pc>>
        /\ ofile' = [ofile EXCEPT ![p][fd] = NoFile]
    <3>1. /\ ref' = [ref EXCEPT ![f] = @ - 1]
          /\ type' = [type EXCEPT ![f] = @] /\ fpipe' = [fpipe EXCEPT ![f] = @]
          /\ writable' = [writable EXCEPT ![f] = @]
          /\ pc' = [pc EXCEPT ![p] = pc[p]] /\ UNCHANGED closing
      BY <1>1, <1>3, <1>5 DEF FileClose, LastRef
    <3>2. type' = type /\ fpipe' = fpipe /\ writable' = writable /\ pc' = pc
      BY <3>1 DEF TableInv, TypeOK
    <3>3. ofile' = [ofile EXCEPT ![p][fd] = NoFile] BY <1>1, <1>3, <1>5 DEF LastRef
    <3> QED BY <3>1, <3>2, <3>3
  <2>2. ref[f] - 1 \in Nat /\ ref[f] - 1 > 0 BY <1>3, <1>5
  <2>3. TypeOK' BY <1>2, <2>1, <2>2 DEF TableInv, TypeOK
  <2>4. /\ ofile'[p][fd] = NoFile /\ \A i \in Fds : i # fd => ofile'[p][i] = ofile[p][i]
        /\ \A q \in Procs : q # p => ofile'[q] = ofile[q]
        /\ ref'[f] = ref[f] - 1 /\ \A g \in FileSlots : g # f => ref'[g] = ref[g]
    BY <2>1 DEF TableInv, TypeOK
  <2>5. Names(p, fd)' = NoFile BY <1>1, <1>4, <2>1, <2>4 DEF Names
  <2>6. ASSUME NEW q \in Procs, NEW i \in Fds \cup {NoFd}, ~(q = p /\ i = fd)
        PROVE  Names(q, i)' = Names(q, i)
    <3>1. CASE i = NoFd BY <1>2, <3>1 DEF Names
    <3>2. CASE i # NoFd
      <4>1. ofile'[q][i] = ofile[q][i] BY <2>4, <2>6, <3>2
      <4> QED BY <2>1, <3>2, <4>1 DEF Names
    <3> QED BY <3>1, <3>2
  <2>7. RefsCounted'
    <3>1. ASSUME NEW x \in Pairs, x # <<p, fd>> PROVE Names(x[1], x[2])' = Names(x[1], x[2])
      <4>1. x = <<x[1], x[2]>> /\ x[1] \in Procs /\ x[2] \in Fds \cup {NoFd} BY DEF Pairs
      <4> QED BY <2>6, <3>1, <4>1
    <3>2. ASSUME NEW g \in FileSlots
          PROVE  Cardinality(Holders(g)') = IF g = NoFile THEN ref[g] + 1
                                            ELSE IF g = f THEN ref[g] - 1 ELSE ref[g]
      BY <1>3, <2>5, <3>1, OneName DEF TableInv
    <3> QED BY <2>3, <2>4, <3>2, Nobody DEF RefsCounted
  <2>8. ProcsInv'
    <3>1. ASSUME NEW q \in Procs, pc[q] = "unused" PROVE \A i \in Fds : ofile'[q][i] = NoFile
      BY <1>1, <2>4, <3>1 DEF TableInv, ProcsInv
    <3> QED BY <1>2, <2>1, <3>1 DEF TableInv, ProcsInv
  <2>9. FilesInv'
    <3>1. ASSUME NEW g \in FileSlots, fpipe[g] # NoPage PROVE ref'[g] > 0
      BY <2>2, <2>4, <3>1 DEF TableInv, FilesInv
    <3>2. ASSUME NEW q \in Procs, newFile[q] # NoFile
          PROVE  ref'[newFile[q]] = 1 /\ fpipe[newFile[q]] = NoPage
      <4>1. newFile[q] \in FileSlots /\ newFile[q] # f BY <1>3, <3>2 DEF TableInv, TypeOK
      <4> QED BY <2>4, <3>2, <4>1 DEF TableInv, FilesInv
    <3>3. ASSUME NEW q \in Procs, NEW i \in Fds, Names(q, i)' # NoFile
          PROVE  fpipe[Names(q, i)'] # NoPage
      <4>1. ~(q = p /\ i = fd) BY <2>5, <3>3
      <4>2. Names(q, i)' = Names(q, i) BY <2>6, <4>1
      <4> QED BY <3>3, <4>2 DEF TableInv, FilesInv
    <3> QED BY <1>2, <2>1, <3>1, <3>2, <3>3 DEF TableInv, FilesInv
  <2>10. UsersInv'
    <3>1. ASSUME NEW q \in Procs, pipe'[q] # NoPage
          PROVE  /\ pipe'[q] = pipe[q] /\ ofile'[q] = ofile[q]
                 /\ pc'[q] \in {"write", "wsleep"} <=> pc[q] \in {"write", "wsleep"}
      BY <1>2, <1>4, <2>1, <2>4, <3>1
    <3> QED BY <2>1, <3>1, UsersStay DEF TableInv
  <2>11. EndsInv' BY <1>2, <2>1 DEF TableInv, EndsInv, Open, Held
  <2> QED BY <2>3, <2>7, <2>8, <2>9, <2>10, <2>11 DEF TableInv
<1>6. CASE ref[f] = 1
  <2>1. /\ ref' = [ref EXCEPT ![f] = 0]
        /\ type' = [type EXCEPT ![f] = "none"] /\ fpipe' = [fpipe EXCEPT ![f] = NoPage]
        /\ writable' = [writable EXCEPT ![f] = FALSE]
        /\ closing' = [closing EXCEPT ![p] = [page |-> fpipe[f], writable |-> writable[f], fd |-> fd]]
        /\ pc' = [pc EXCEPT ![p] = point]
        /\ ofile' = IF pc[p] = "exit" THEN ofile ELSE [ofile EXCEPT ![p][fd] = NoFile]
    BY <1>1, <1>3, <1>6 DEF FileClose, LastRef
  <2>2. TypeOK'
    <3>1. [page |-> fpipe[f], writable |-> writable[f], fd |-> fd]
            \in [page : Pages \cup {NoPage}, writable : BOOLEAN, fd : Fds \cup {NoFd}]
      BY <1>3 DEF TableInv, TypeOK
    <3>2. closing' \in [Procs -> [page : Pages \cup {NoPage}, writable : BOOLEAN, fd : Fds \cup {NoFd}]]
      BY <2>1, <3>1 DEF TableInv, TypeOK
    <3>3. ofile' \in [Procs -> [Fds -> FileSlots \cup {NoFile}]]
      BY <2>1 DEF TableInv, TypeOK
    <3>4. pc' \in [Procs -> Points] BY <2>1 DEF TableInv, TypeOK, Points
    <3>5. /\ ref' \in [FileSlots -> Nat] /\ type' \in [FileSlots -> {"none", "pipe"}]
          /\ fpipe' \in [FileSlots -> Pages \cup {NoPage}] /\ writable' \in [FileSlots -> BOOLEAN]
      BY <2>1 DEF TableInv, TypeOK
    <3> QED BY <1>2, <3>2, <3>3, <3>4, <3>5 DEF TableInv, TypeOK
  <2>3. /\ pc'[p] = point /\ \A q \in Procs : q # p => pc'[q] = pc[q] /\ ofile'[q] = ofile[q]
        /\ pc[p] = "user" => ofile'[p][fd] = NoFile
        /\ \A i \in Fds : i # fd => ofile'[p][i] = ofile[p][i]
    BY <1>1, <2>1 DEF TableInv, TypeOK
  <2>4. /\ ref'[f] = 0 /\ type'[f] = "none" /\ fpipe'[f] = NoPage
        /\ \A g \in FileSlots : g # f => /\ ref'[g] = ref[g] /\ type'[g] = type[g]
                                        /\ fpipe'[g] = fpipe[g] /\ writable'[g] = writable[g]
    BY <2>1 DEF TableInv, TypeOK
  <2>5. /\ closing'[p].page = fpipe[f] /\ closing'[p].writable = writable[f] /\ closing'[p].fd = fd
        /\ \A q \in Procs : q # p => closing'[q] = closing[q]
    BY <2>1 DEF TableInv, TypeOK
  <2>6. point = IF pc[p] = "user" THEN "close" ELSE "xclose" OBVIOUS
  <2> HIDE DEF point
  <2>7. Names(p, fd)' = NoFile BY <1>1, <1>4, <2>3, <2>5, <2>6 DEF Names
  <2>8. ASSUME NEW q \in Procs, NEW i \in Fds \cup {NoFd}, ~(q = p /\ i = fd)
        PROVE  Names(q, i)' = Names(q, i)
    <3>1. CASE i = NoFd BY <1>2, <3>1 DEF Names
    <3>2. CASE i # NoFd /\ q = p BY <1>1, <2>3, <2>5, <2>6, <2>8, <3>2 DEF Names
    <3>3. CASE i # NoFd /\ q # p BY <2>3, <2>5, <3>3 DEF Names
    <3> QED BY <3>1, <3>2, <3>3
  <2>9. RefsCounted'
    <3>1. ASSUME NEW x \in Pairs, x # <<p, fd>> PROVE Names(x[1], x[2])' = Names(x[1], x[2])
      <4>1. x = <<x[1], x[2]>> /\ x[1] \in Procs /\ x[2] \in Fds \cup {NoFd} BY DEF Pairs
      <4> QED BY <2>8, <3>1, <4>1
    <3>2. ASSUME NEW g \in FileSlots
          PROVE  Cardinality(Holders(g)') = IF g = NoFile THEN ref[g] + 1
                                            ELSE IF g = f THEN ref[g] - 1 ELSE ref[g]
      BY <1>3, <2>7, <3>1, OneName DEF TableInv
    <3> QED BY <1>6, <2>2, <2>4, <3>2, Nobody DEF RefsCounted
  <2>10. ProcsInv'
    <3>1. ASSUME NEW q \in Procs, pc'[q] = "unused" PROVE \A i \in Fds : ofile'[q][i] = NoFile
      BY <1>1, <2>3, <2>6, <3>1 DEF TableInv, ProcsInv
    <3>2. ASSUME NEW q \in Procs
          PROVE  /\ pc'[q] \in Moving <=> pipe'[q] # NoPage
                 /\ pc'[q] = "pipe" <=> newFile'[q] # NoFile
                 /\ pc'[q] \in {"close", "xclose"} <=> closing'[q].page # NoPage
                 /\ pc'[q] = "xclose" => closing'[q].fd \in Fds
                 /\ pc'[q] \in {"unused", "rsleep", "wsleep"} => ~killed'[q]
      <4>1. CASE q = p BY <1>1, <1>2, <1>4, <2>3, <2>5, <2>6, <4>1 DEF Moving
      <4>2. CASE q # p BY <1>2, <2>3, <2>5, <4>2 DEF TableInv, ProcsInv
      <4> QED BY <4>1, <4>2
    <3> QED BY <3>1, <3>2 DEF ProcsInv
  <2>11. FilesInv'
    <3>1. ASSUME NEW g \in FileSlots
          PROVE  (type'[g] = "pipe" <=> fpipe'[g] # NoPage) /\ (fpipe'[g] # NoPage => ref'[g] > 0)
      <4>1. CASE g = f BY <2>4, <4>1
      <4>2. CASE g # f BY <2>4, <4>2 DEF TableInv, FilesInv
      <4> QED BY <4>1, <4>2
    <3>2. ASSUME NEW q \in Procs, newFile'[q] # NoFile
          PROVE  ref'[newFile'[q]] = 1 /\ fpipe'[newFile'[q]] = NoPage
      <4>1. newFile[q] \in FileSlots /\ newFile[q] # f /\ newFile'[q] = newFile[q]
        BY <1>2, <1>3, <3>2 DEF TableInv, TypeOK
      <4> QED BY <2>4, <3>2, <4>1 DEF TableInv, FilesInv
    <3>3. ASSUME NEW q \in Procs, NEW i \in Fds, Names(q, i)' # NoFile
          PROVE  fpipe'[Names(q, i)'] # NoPage
      <4>1. ~(q = p /\ i = fd) BY <2>7, <3>3
      <4>2. Names(q, i)' = Names(q, i) BY <2>8, <4>1
      <4>3. Names(q, i) \in FileSlots BY <3>3, <4>2, Nobody DEF Names, TableInv, TypeOK
      <4>4. Names(q, i) # f
        <5>1. ASSUME Names(q, i) = f PROVE FALSE
          <6>1. <<q, i>> \in Holders(f) BY <5>1 DEF Holders
          <6>2. <<q, i>> = <<p, fd>> BY <1>3, <1>6, <6>1, OneHolder DEF TableInv
          <6> QED BY <4>1, <6>2
        <5> QED BY <5>1
      <4>5. fpipe[Names(q, i)] # NoPage BY <3>3, <4>2 DEF TableInv, FilesInv
      <4> QED BY <2>4, <4>2, <4>3, <4>4, <4>5
    <3> QED BY <3>1, <3>2, <3>3 DEF FilesInv
  <2>12. UsersInv'
    <3>1. ASSUME NEW q \in Procs, pipe'[q] # NoPage
          PROVE  /\ pipe'[q] = pipe[q] /\ ofile'[q] = ofile[q]
                 /\ pc'[q] \in {"write", "wsleep"} <=> pc[q] \in {"write", "wsleep"}
      BY <1>2, <1>4, <2>3, <3>1
    <3>2. ASSUME NEW q \in Procs, pipe[q] # NoPage, NEW i \in Fds, ofile[q][i] # NoFile
          PROVE  /\ fpipe'[ofile[q][i]] = fpipe[ofile[q][i]]
                 /\ writable'[ofile[q][i]] = writable[ofile[q][i]]
      <4>1. pc[q] # "xclose" /\ q # p BY <1>4, <3>2 DEF TableInv, ProcsInv, Moving
      <4>2. ofile[q][i] \in FileSlots /\ <<q, i>> \in Holders(ofile[q][i])
        BY <3>2, <4>1, Descriptor
      <4>3. ofile[q][i] # f
        <5>1. ASSUME ofile[q][i] = f PROVE FALSE
          <6>1. <<q, i>> = <<p, fd>> BY <1>3, <1>6, <4>2, <5>1, OneHolder DEF TableInv
          <6> QED BY <4>1, <6>1
        <5> QED BY <5>1
      <4> QED BY <2>4, <4>2, <4>3
    <3> QED BY <3>1, <3>2, UsersStay DEF TableInv
  <2>13. EndsInv'
    <3>1. ASSUME NEW j \in Pages, NEW w \in BOOLEAN PROVE Open(j, w)' <=> Held(j, w)'
      <4>1. Open(j, w)' <=> Open(j, w) BY <1>2 DEF Open
      <4>2. Held(j, w) => Held(j, w)'
        <5>1. ASSUME NEW g \in FileSlots, fpipe[g] = j, writable[g] = w PROVE Held(j, w)'
          <6>1. CASE g = f BY <2>5, <5>1, <6>1 DEF Held
          <6>2. CASE g # f BY <2>4, <5>1, <6>2 DEF Held
          <6> QED BY <6>1, <6>2
        <5>2. ASSUME NEW q \in Procs, closing[q].page = j, closing[q].writable = w PROVE Held(j, w)'
          <6>1. q # p BY <1>4, <5>2, PipeAssumption
          <6> QED BY <2>5, <5>2, <6>1 DEF Held
        <5> QED BY <5>1, <5>2 DEF Held
      <4>3. Held(j, w)' => Held(j, w)
        <5>1. ASSUME NEW g \in FileSlots, fpipe'[g] = j, writable'[g] = w PROVE Held(j, w)
          <6>1. g # f BY <2>4, <5>1, PipeAssumption
          <6> QED BY <2>4, <5>1, <6>1 DEF Held
        <5>2. ASSUME NEW q \in Procs, closing'[q].page = j, closing'[q].writable = w PROVE Held(j, w)
          <6>1. CASE q = p BY <2>5, <5>2, <6>1 DEF Held
          <6>2. CASE q # p BY <2>5, <5>2, <6>2 DEF Held
          <6> QED BY <6>1, <6>2
        <5> QED BY <5>1, <5>2 DEF Held
      <4> QED BY <4>1, <4>2, <4>3 DEF TableInv, EndsInv
    <3>2. ASSUME NEW g \in FileSlots, NEW h \in FileSlots,
                 fpipe'[g] # NoPage, fpipe'[g] = fpipe'[h], writable'[g] = writable'[h]
          PROVE  g = h
      <4>1. g # f /\ h # f BY <2>4, <3>2
      <4> QED BY <2>4, <3>2, <4>1 DEF TableInv, EndsInv
    <3>3. ASSUME NEW q \in Procs, NEW r \in Procs,
                 closing'[q].page # NoPage, closing'[q].page = closing'[r].page,
                 closing'[q].writable = closing'[r].writable
          PROVE  q = r
      <4>1. CASE q = p /\ r # p BY <1>4, <2>5, <3>3, <4>1 DEF TableInv, EndsInv
      <4>2. CASE q # p /\ r = p BY <1>4, <2>5, <3>3, <4>2 DEF TableInv, EndsInv
      <4>3. CASE q # p /\ r # p BY <2>5, <3>3, <4>3 DEF TableInv, EndsInv
      <4> QED BY <4>1, <4>2, <4>3
    <3>4. ASSUME NEW g \in FileSlots, NEW q \in Procs,
                 fpipe'[g] # NoPage, fpipe'[g] = closing'[q].page
          PROVE  writable'[g] # closing'[q].writable
      <4>1. g # f BY <2>4, <3>4
      <4>2. CASE q = p BY <1>4, <2>4, <2>5, <3>4, <4>1, <4>2 DEF TableInv, EndsInv
      <4>3. CASE q # p BY <2>4, <2>5, <3>4, <4>1, <4>3 DEF TableInv, EndsInv
      <4> QED BY <4>2, <4>3
    <3>5. \A j \in inUse' : readopen'[j] \/ writeopen'[j] BY <1>2 DEF TableInv, EndsInv
    <3> QED BY <3>1, <3>2, <3>3, <3>4, <3>5 DEF EndsInv
  <2> QED BY <2>2, <2>9, <2>10, <2>11, <2>12, <2>13 DEF TableInv
<1> QED BY <1>5, <1>6

\* What pipeclose does, called from close or from exit.
LEMMA PipeCloseEffect ==
  ASSUME TableInv, NEW p \in Procs, CloseEnds(p) \/ ExitCloseEnds(p)
  PROVE  \E k \in Pages, w \in BOOLEAN :
           /\ pc[p] \in {"close", "xclose"} /\ k = closing[p].page /\ w = closing[p].writable
           /\ k \in inUse /\ Open(k, w)
           /\ pc'[p] = IF pc[p] = "close" THEN "user" ELSE "exit"
           /\ PipeClose(p, k, w, IF pc[p] = "close" THEN "user" ELSE "exit")
           /\ closing' = [closing EXCEPT ![p] = NotClosing]
           /\ ofile' = IF pc[p] = "close" THEN ofile
                       ELSE [ofile EXCEPT ![p][closing[p].fd] = NoFile]
           /\ UNCHANGED <<pipe, todo, byte, killed, cut, ref, type, fpipe, writable, newFile>>
           /\ \A q \in Procs : q # p => Woken(q)
           /\ TypeOK'
<1>1. pc[p] \in {"close", "xclose"} BY DEF CloseEnds, ExitCloseEnds
<1>2. closing[p].page # NoPage BY <1>1 DEF TableInv, ProcsInv
<1>3. PICK k \in Pages, w \in BOOLEAN : k = closing[p].page /\ w = closing[p].writable
  BY <1>2 DEF TableInv, TypeOK
<1>4. Open(k, w) BY <1>3 DEF TableInv, EndsInv, Held
<1>5. k \in inUse BY <1>4 DEF Open
<1> DEFINE point == IF pc[p] = "close" THEN "user" ELSE "exit"
<1>6. /\ PipeClose(p, k, w, point)
      /\ closing' = [closing EXCEPT ![p] = NotClosing]
      /\ ofile' = IF pc[p] = "close" THEN ofile
                  ELSE [ofile EXCEPT ![p][closing[p].fd] = NoFile]
      /\ UNCHANGED <<pipe, todo, byte, ref, type, fpipe, writable, newFile>>
  BY <1>3 DEF CloseEnds, ExitCloseEnds, transfer, ftable
<1>7. point \in {"user", "exit"} OBVIOUS
<1> HIDE DEF point
<1>8. UNCHANGED <<killed, cut>> BY <1>6 DEF PipeClose
<1>9. /\ pc' \in [Procs -> Points] /\ pc'[p] = point
      /\ \A q \in Procs : q # p => Woken(q)
  <2>1. pc \in [Procs -> Points] BY DEF TableInv, TypeOK
  <2>2. \/ pc' = [q \in Procs |-> IF q = p THEN point
                                 ELSE IF pc[q] = "rsleep" /\ pipe[q] = k THEN "read" ELSE pc[q]]
        \/ pc' = [q \in Procs |-> IF q = p THEN point
                                 ELSE IF pc[q] = "wsleep" /\ pipe[q] = k THEN "write" ELSE pc[q]]
    BY <1>6 DEF PipeClose, WakeReaders, WakeWriters, WakeAnd
  <2>3. CASE pc' = [q \in Procs |-> IF q = p THEN point
                                  ELSE IF pc[q] = "rsleep" /\ pipe[q] = k THEN "read" ELSE pc[q]]
    BY <1>7, <2>1, <2>3 DEF Woken, Points
  <2>4. CASE pc' = [q \in Procs |-> IF q = p THEN point
                                  ELSE IF pc[q] = "wsleep" /\ pipe[q] = k THEN "write" ELSE pc[q]]
    BY <1>7, <2>1, <2>4 DEF Woken, Points
  <2> QED BY <2>2, <2>3, <2>4
<1>10. TypeOK'
  <2>1. /\ nread' \in [Pages -> 0 .. Wrap - 1] /\ nwrite' \in [Pages -> 0 .. Wrap - 1]
        /\ data' \in [Pages -> [Slots -> Bytes]]
    <3>1. CASE Blank(k)
      <4>1. 0 \in Int OBVIOUS
      <4> QED BY <3>1, <4>1, MovesType DEF TableInv
    <3>2. CASE UNCHANGED <<nread, nwrite, data>> BY <3>2 DEF TableInv, TypeOK
    <3> QED BY <1>6, <3>1, <3>2 DEF PipeClose
  <2>2. readopen' \in [Pages -> BOOLEAN] /\ writeopen' \in [Pages -> BOOLEAN]
    BY <1>6 DEF PipeClose, TableInv, TypeOK
  <2>3. inUse' \subseteq Pages BY <1>6 DEF PipeClose, TableInv, TypeOK
  <2>4. closing' \in [Procs -> [page : Pages \cup {NoPage}, writable : BOOLEAN, fd : Fds \cup {NoFd}]]
    BY <1>6 DEF TableInv, TypeOK, NotClosing
  <2>5. ofile' \in [Procs -> [Fds -> FileSlots \cup {NoFile}]]
    BY <1>6 DEF TableInv, TypeOK
  <2> QED BY <1>6, <1>8, <1>9, <2>1, <2>2, <2>3, <2>4, <2>5 DEF TableInv, TypeOK
<1> QED BY <1>1, <1>3, <1>4, <1>5, <1>6, <1>8, <1>9, <1>10 DEF point

\* An end of a pipe is closed, and the page freed with the second one.
LEMMA PipeCloseStep ==
  ASSUME TableInv, NEW p \in Procs, CloseEnds(p) \/ ExitCloseEnds(p)
  PROVE  TableInv'
<1> DEFINE point == IF pc[p] = "close" THEN "user" ELSE "exit"
<1>1. PICK k \in Pages, w \in BOOLEAN :
           /\ pc[p] \in {"close", "xclose"} /\ k = closing[p].page /\ w = closing[p].writable
           /\ k \in inUse /\ Open(k, w)
           /\ pc'[p] = point
           /\ PipeClose(p, k, w, point)
           /\ closing' = [closing EXCEPT ![p] = NotClosing]
           /\ ofile' = IF pc[p] = "close" THEN ofile
                       ELSE [ofile EXCEPT ![p][closing[p].fd] = NoFile]
           /\ UNCHANGED <<pipe, todo, byte, killed, cut, ref, type, fpipe, writable, newFile>>
           /\ \A q \in Procs : q # p => Woken(q)
           /\ TypeOK'
  BY PipeCloseEffect
<1>2. point \in {"user", "exit"} OBVIOUS
<1> HIDE DEF point
<1>3. /\ closing'[p].page = NoPage
      /\ \A q \in Procs : q # p => closing'[q] = closing[q] /\ ofile'[q] = ofile[q]
      /\ pc[p] = "close" => ofile'[p] = ofile[p]
      /\ pc[p] = "xclose" => /\ ofile'[p][closing[p].fd] = NoFile
                             /\ \A i \in Fds : i # closing[p].fd => ofile'[p][i] = ofile[p][i]
      /\ closing[p].fd \in Fds \/ pc[p] = "close"
      /\ pipe[p] = NoPage /\ newFile[p] = NoFile
  <2>1. closing \in [Procs -> [page : Pages \cup {NoPage}, writable : BOOLEAN, fd : Fds \cup {NoFd}]]
        /\ ofile \in [Procs -> [Fds -> FileSlots \cup {NoFile}]]
    BY DEF TableInv, TypeOK
  <2>2. closing'[p].page = NoPage BY <1>1, <2>1 DEF NotClosing
  <2>3. \A q \in Procs : q # p => closing'[q] = closing[q] /\ ofile'[q] = ofile[q] BY <1>1, <2>1
  <2>4. pc[p] = "close" => ofile'[p] = ofile[p] BY <1>1
  <2>5. closing[p].fd \in Fds \/ pc[p] = "close" BY <1>1 DEF TableInv, ProcsInv
  <2>6. ASSUME pc[p] = "xclose"
        PROVE  /\ ofile'[p][closing[p].fd] = NoFile
               /\ \A i \in Fds : i # closing[p].fd => ofile'[p][i] = ofile[p][i]
    <3>1. ofile' = [ofile EXCEPT ![p][closing[p].fd] = NoFile] BY <1>1, <2>6
    <3> QED BY <2>1, <2>5, <2>6, <3>1
  <2>7. pipe[p] = NoPage BY <1>1 DEF TableInv, ProcsInv, Moving
  <2>8. newFile[p] = NoFile BY <1>1 DEF TableInv, ProcsInv
  <2> QED BY <2>2, <2>3, <2>4, <2>5, <2>6, <2>7, <2>8
<1>4. ASSUME NEW q \in Procs, NEW i \in Fds \cup {NoFd} PROVE Names(q, i)' = Names(q, i)
  <2>1. CASE q = p
    <3>1. pc'[p] # "xclose" BY <1>1, <1>2
    <3>2. CASE i = NoFd BY <1>1, <3>2 DEF Names
    <3>3. CASE i # NoFd /\ pc[p] = "close" BY <1>1, <1>3, <2>1, <3>1, <3>3 DEF Names
    <3>4. CASE i # NoFd /\ pc[p] = "xclose" BY <1>1, <1>3, <2>1, <3>1, <3>4 DEF Names
    <3> QED BY <1>1, <3>2, <3>3, <3>4
  <2>2. CASE q # p
    <3>1. pc'[q] = "xclose" <=> pc[q] = "xclose" BY <1>1, <2>2 DEF Woken
    <3> QED BY <1>1, <1>3, <2>2, <3>1 DEF Names
  <2> QED BY <2>1, <2>2
<1>5. RefsCounted'
  <2>1. \A x \in Pairs : Names(x[1], x[2])' = Names(x[1], x[2]) BY <1>4 DEF Pairs
  <2>2. \A f : Holders(f)' = Holders(f) BY <2>1, SameNames
  <2> QED BY <1>1, <2>2 DEF TableInv, RefsCounted
<1>6. ProcsInv'
  <2>1. ASSUME NEW q \in Procs
        PROVE  /\ pc'[q] \in Moving <=> pipe'[q] # NoPage
               /\ pc'[q] = "pipe" <=> newFile'[q] # NoFile
               /\ pc'[q] \in {"close", "xclose"} <=> closing'[q].page # NoPage
               /\ pc'[q] = "xclose" => closing'[q].fd \in Fds
               /\ pc'[q] = "unused" => \A i \in Fds : ofile'[q][i] = NoFile
               /\ pc'[q] \in {"unused", "rsleep", "wsleep"} => ~killed'[q]
    <3>1. CASE q = p BY <1>1, <1>2, <1>3, <3>1 DEF Moving
    <3>2. CASE q # p BY <1>1, <1>3, <3>2 DEF TableInv, ProcsInv, Woken, Moving
    <3> QED BY <3>1, <3>2
  <2> QED BY <2>1 DEF ProcsInv
<1>7. FilesInv' BY <1>1, <1>4 DEF TableInv, FilesInv
<1>8. UsersInv'
  <2>1. ASSUME NEW q \in Procs, pipe'[q] # NoPage
        PROVE  /\ pipe'[q] = pipe[q] /\ ofile'[q] = ofile[q]
               /\ pc'[q] \in {"write", "wsleep"} <=> pc[q] \in {"write", "wsleep"}
    BY <1>1, <1>3, <2>1 DEF Woken
  <2> QED BY <1>1, <2>1, UsersStay DEF TableInv
<1>9. EndsInv'
  <2>1. /\ k # NoPage
        /\ readopen' = [readopen EXCEPT ![k] = @ /\ w] /\ writeopen' = [writeopen EXCEPT ![k] = @ /\ ~w]
        /\ inUse' = IF ~readopen'[k] /\ ~writeopen'[k] THEN inUse \ {k} ELSE inUse
    BY <1>1, PipeAssumption DEF PipeClose, Freed
  <2>2. /\ \A j \in Pages : j # k => readopen'[j] = readopen[j] /\ writeopen'[j] = writeopen[j]
        /\ \A j \in Pages : j # k => (j \in inUse' <=> j \in inUse)
        /\ readopen'[k] <=> readopen[k] /\ w
        /\ writeopen'[k] <=> writeopen[k] /\ ~w
        /\ k \in inUse' <=> readopen'[k] \/ writeopen'[k]
    BY <1>1, <2>1 DEF TableInv, TypeOK
  <2>3. ASSUME NEW j \in Pages, NEW v \in BOOLEAN PROVE Open(j, v)' <=> Held(j, v)'
    <3>1. CASE j = k /\ v = w
      <4>1. ~Open(k, w)' BY <2>2 DEF Open
      <4>2. ASSUME Held(k, w)' PROVE FALSE
        <5>1. ASSUME NEW g \in FileSlots, fpipe[g] = k, writable[g] = w PROVE FALSE
          BY <1>1, <2>1, <5>1 DEF TableInv, EndsInv
        <5>2. ASSUME NEW q \in Procs, closing'[q].page = k, closing'[q].writable = w PROVE FALSE
          <6>1. q # p BY <1>3, <2>1, <5>2
          <6>2. closing[q].page = k /\ closing[q].writable = w BY <1>3, <5>2, <6>1
          <6> QED BY <1>1, <2>1, <6>1, <6>2 DEF TableInv, EndsInv
        <5> QED BY <1>1, <4>2, <5>1, <5>2 DEF Held
      <4> QED BY <3>1, <4>1, <4>2
    <3>2. CASE ~(j = k /\ v = w)
      <4>1. Open(j, v)' <=> Open(j, v)
        <5>1. CASE j # k BY <2>2, <5>1 DEF Open
        <5>2. CASE j = k /\ v = ~w BY <1>1, <2>2, <5>2 DEF Open
        <5>3. v = ~w \/ v = w OBVIOUS
        <5> QED BY <3>2, <5>1, <5>2, <5>3
      <4>2. Held(j, v)' <=> Held(j, v)
        <5>1. \A q \in Procs : (closing'[q].page = j /\ closing'[q].writable = v)
                               <=> (closing[q].page = j /\ closing[q].writable = v)
          <6>1. j # NoPage BY PipeAssumption
          <6> QED BY <1>1, <1>3, <3>2, <6>1
        <5> QED BY <1>1, <5>1 DEF Held
      <4> QED BY <4>1, <4>2 DEF TableInv, EndsInv
    <3> QED BY <3>1, <3>2
  <2>4. ASSUME NEW g \in FileSlots, NEW h \in FileSlots,
               fpipe'[g] # NoPage, fpipe'[g] = fpipe'[h], writable'[g] = writable'[h]
        PROVE  g = h
    BY <1>1, <2>4 DEF TableInv, EndsInv
  <2>5. ASSUME NEW q \in Procs, NEW r \in Procs,
               closing'[q].page # NoPage, closing'[q].page = closing'[r].page,
               closing'[q].writable = closing'[r].writable
        PROVE  q = r
    <3>1. q # p /\ r # p BY <1>3, <2>5
    <3> QED BY <1>3, <2>5, <3>1 DEF TableInv, EndsInv
  <2>6. ASSUME NEW g \in FileSlots, NEW q \in Procs,
               fpipe'[g] # NoPage, fpipe'[g] = closing'[q].page
        PROVE  writable'[g] # closing'[q].writable
    <3>1. q # p BY <1>3, <2>6
    <3> QED BY <1>1, <1>3, <2>6, <3>1 DEF TableInv, EndsInv
  <2>7. ASSUME NEW j \in inUse' PROVE readopen'[j] \/ writeopen'[j]
    <3>1. j \in Pages BY <1>1 DEF TypeOK
    <3> QED BY <2>2, <2>7, <3>1 DEF TableInv, EndsInv
  <2> QED BY <2>3, <2>4, <2>5, <2>6, <2>7 DEF EndsInv
<1> QED BY <1>1, <1>5, <1>6, <1>7, <1>8, <1>9 DEF TableInv

-----------------------------------------------------------------------------
(* All steps *)

\* At the start nothing is open.
LEMMA TableInit == Init => TableInv
<1> SUFFICES ASSUME Init PROVE TableInv
  OBVIOUS
<1> USE DEF Init, PipeInit
<1>1. TypeOK
  <2>1. AnyByte \in Bytes BY PipeAssumption DEF AnyByte
  <2>2. 0 \in 0 .. Wrap - 1 BY PipeAssumption
  <2> QED BY <2>1, <2>2 DEF TypeOK, Points, NoFiles, NotClosing
<1>2. \A p \in Procs, i \in Fds \cup {NoFd} : Names(p, i) = NoFile
  BY DEF Names, NoFiles
<1>3. RefsCounted
  <2>1. ASSUME NEW f \in FileSlots PROVE Holders(f) = {} BY <1>2, Nobody DEF Holders
  <2> QED BY <1>1, <2>1, FS_EmptySet DEF RefsCounted
<1>4. ProcsInv BY DEF ProcsInv, Moving, NotClosing, NoFiles
<1>5. FilesInv BY <1>2 DEF FilesInv
<1>6. UsersInv BY DEF UsersInv
<1>7. EndsInv
  <2>1. \A k \in Pages, w \in BOOLEAN : ~Open(k, w) /\ ~Held(k, w)
    BY PipeAssumption DEF Open, Held, NotClosing
  <2> QED BY <2>1 DEF EndsInv, NotClosing
<1> QED BY <1>1, <1>3, <1>4, <1>5, <1>6, <1>7 DEF TableInv

\* Every step keeps the files' invariant.
LEMMA TableStep == TableInv /\ [Next]_filesVars => TableInv'
<1> SUFFICES ASSUME TableInv, [Next]_filesVars PROVE TableInv'
  OBVIOUS
<1>1. ASSUME NEW p \in Procs, Continue(p) PROVE TableInv'
  BY <1>1, MoveStep, PipeBadStep, PipeSecondStep, PipeCloseStep, CloseStep, ExitOrKillStep
  DEF Continue
<1>2. ASSUME NEW p \in Procs, UserCall(p) PROVE TableInv'
  <2>1. ASSUME NEW n \in Lengths, Read(p, n) PROVE TableInv'
    <3>1. n \in Nat /\ byte[p] \in Bytes BY FilesAssumption DEF TableInv, TypeOK
    <3>2. Begin(p, FALSE, IF FALSE THEN "write" ELSE "read", n, byte[p]) BY <2>1 DEF Read
    <3> QED BY <3>1, <3>2, BeginStep
  <2>2. ASSUME NEW m \in Messages, Write(p, m[1], m[2]) PROVE TableInv'
    <3>1. m[1] \in Nat /\ m[2] \in Bytes BY FilesAssumption
    <3>2. Begin(p, TRUE, IF TRUE THEN "write" ELSE "read", m[1], m[2]) BY <2>2 DEF Write
    <3> QED BY <3>1, <3>2, BeginStep
  <2> QED BY <1>2, <2>1, <2>2, PipeFirstStep, DupStep, CloseStep, ExitOrKillStep, ForkStep
      DEF UserCall
<1>3. ASSUME NEW p \in Procs, KillFiles(p) PROVE TableInv'
  BY <1>3, ExitOrKillStep
<1>4. CASE UNCHANGED filesVars
  <2>1. UNCHANGED <<inUse, readopen, writeopen, nread, nwrite, data, pc, pipe, todo, byte, killed,
                    cut, ref, type, fpipe, writable, ofile, closing, newFile>>
    BY <1>4 DEF filesVars, pipeVars, pipes, transfer, ftable
  <2>2. TypeOK' BY <2>1 DEF TableInv, TypeOK
  <2>3. Quiet BY <2>1 DEF Quiet, ftable
  <2>4. ProcsInv' BY <2>1 DEF TableInv, ProcsInv
  <2>5. UsersInv' BY <2>1 DEF TableInv, UsersInv
  <2> QED BY <2>2, <2>3, <2>4, <2>5, QuietStep DEF TableInv
<1> QED BY <1>1, <1>2, <1>3, <1>4 DEF Next

\* A pipe lives while it is used.
LEMMA TableMeans == TableInv => PipesLive
<1> SUFFICES ASSUME TableInv PROVE PipesLive
  OBVIOUS
<1>1. ASSUME NEW k \in Pages, NEW w \in BOOLEAN PROVE EndHeld(k, w) <=> Open(k, w)
  <2>1. EndHeld(k, w) => Held(k, w) BY DEF EndHeld, Held
  <2>2. Held(k, w) => EndHeld(k, w) BY PipeAssumption DEF EndHeld, Held, TableInv, FilesInv
  <2> QED BY <2>1, <2>2 DEF TableInv, EndsInv
<1>2. ASSUME NEW k \in inUse
      PROVE  /\ readopen[k] = EndHeld(k, FALSE) /\ writeopen[k] = EndHeld(k, TRUE)
             /\ readopen[k] \/ writeopen[k]
  <2>1. k \in Pages /\ readopen[k] \in BOOLEAN /\ writeopen[k] \in BOOLEAN
    BY DEF TableInv, TypeOK
  <2>2. EndHeld(k, FALSE) <=> readopen[k] BY <1>1, <2>1 DEF Open
  <2>3. EndHeld(k, TRUE) <=> writeopen[k] BY <1>1, <2>1 DEF Open
  <2>4. EndHeld(k, FALSE) \in BOOLEAN /\ EndHeld(k, TRUE) \in BOOLEAN BY DEF EndHeld
  <2>5. readopen[k] = EndHeld(k, FALSE) BY <2>1, <2>2, <2>4
  <2>6. writeopen[k] = EndHeld(k, TRUE) BY <2>1, <2>3, <2>4
  <2>7. readopen[k] \/ writeopen[k] BY DEF TableInv, EndsInv
  <2> QED BY <2>5, <2>6, <2>7
<1>3. \A k \in Pages \ inUse : ~EndHeld(k, FALSE) /\ ~EndHeld(k, TRUE)
  BY <1>1 DEF Open
<1>4. ASSUME NEW p \in Procs, pipe[p] # NoPage PROVE pipe[p] \in inUse
  <2>1. PICK fd \in Fds : /\ ofile[p][fd] # NoFile /\ fpipe[ofile[p][fd]] = pipe[p]
    BY <1>4 DEF TableInv, UsersInv
  <2>2. PICK f \in FileSlots : f = ofile[p][fd] BY <2>1 DEF TableInv, TypeOK
  <2>3. PICK w \in BOOLEAN : w = writable[f] BY DEF TableInv, TypeOK
  <2>4. PICK k \in Pages : k = pipe[p] BY <1>4 DEF TableInv, TypeOK
  <2>5. Held(k, w) BY <2>1, <2>2, <2>3, <2>4 DEF Held
  <2>6. Open(k, w) BY <2>5 DEF TableInv, EndsInv
  <2> QED BY <2>4, <2>6 DEF Open
<1> QED BY <1>2, <1>3, <1>4 DEF PipesLive, TableInv

\* The files' invariant holds in every state.
THEOREM TableCorrect == Spec => []TableInv
<1>1. Init => TableInv BY TableInit
<1>2. TableInv /\ [Next]_filesVars => TableInv' BY TableStep
<1> QED BY <1>1, <1>2, PTL DEF Spec

\* References count descriptors, and a pipe's page lives exactly as long as an end of it
\* is open, for any number of processes, files, descriptors and pages.
THEOREM PipesLiveWhileUsed == Spec => []PipesLive
BY TableCorrect, TableMeans, PTL

-----------------------------------------------------------------------------
(* Counters that wrap around, twice: at the end of the integers and of the ring *)

\* Quotient and remainder, for a divisor that is not a number yet.
LEMMA Remainder ==
  ASSUME NEW m \in Nat \ {0}, NEW i \in Int
  PROVE  /\ i % m \in 0 .. m - 1
         /\ i \div m \in Int /\ i = (i \div m) * m + (i % m)
OBVIOUS

\* The remainder of what is less than one turn away.
LEMMA SmallRemainder ==
  ASSUME NEW m \in Nat \ {0}, NEW i \in Int, -m <= i, i < 2 * m
  PROVE  i % m = IF i < 0 THEN i + m ELSE IF i < m THEN i ELSE i - m
<1>1. CASE i < 0 BY <1>1
<1>2. CASE 0 <= i /\ i < m BY <1>2
<1>3. CASE m <= i BY <1>3
<1> QED BY <1>1, <1>2, <1>3

\* A remainder is determined by its quotient.
LEMMA RemainderUnique ==
  ASSUME NEW m \in Nat \ {0}, NEW i \in Int, NEW q \in Int, NEW k \in 0 .. m - 1,
         i = q * m + k
  PROVE  i % m = k
OBVIOUS

\* Adding a multiple of the divisor changes no remainder.
LEMMA RemainderOfMultiple ==
  ASSUME NEW m \in Nat \ {0}, NEW i \in Int, NEW j \in Int
  PROVE  (i + j * m) % m = i % m
<1> DEFINE q == i \div m
           k == i % m
<1>1. q \in Int /\ k \in 0 .. m - 1 /\ i = q * m + k BY Remainder
<1> HIDE DEF q, k
<1>2. i + j * m = (q + j) * m + k /\ q + j \in Int /\ i + j * m \in Int BY <1>1
<1>3. (i + j * m) % m = k BY <1>1, <1>2, RemainderUnique
<1> QED BY <1>3 DEF k

\* The sizes are numbers, and the ring is smaller than the integers.
LEMMA Numbers == /\ PIPESIZE \in Nat \ {0} /\ Wrap \in Nat \ {0}
                 /\ PIPESIZE < Wrap /\ 2 * PIPESIZE <= Wrap
BY PipeAssumption

Index      == 0 .. Wrap - 1
Plus(i, n) == (i + n) % Wrap

\* The distance from one counter forward to another, as unsigned subtraction gives it.
Dist(i, j) == (j - i) % Wrap

\* What Dist is, its range, and that only an index is no distance from itself.
LEMMA Distance ==
  ASSUME NEW i \in Index, NEW j \in Index
  PROVE  /\ Dist(i, j) = IF i <= j THEN j - i ELSE j - i + Wrap
         /\ Dist(i, j) \in Index
         /\ Dist(i, j) = 0 <=> i = j
<1> USE Numbers DEF Index
<1>1. j - i \in Int /\ -Wrap <= j - i /\ j - i < 2 * Wrap OBVIOUS
<1>2. (j - i) % Wrap = IF j - i < 0 THEN j - i + Wrap ELSE IF j - i < Wrap THEN j - i ELSE j - i - Wrap
  BY ONLY <1>1, Numbers, SmallRemainder
<1> DEFINE d == Dist(i, j)
<1>3. d = IF i <= j THEN j - i ELSE j - i + Wrap
  BY <1>1, <1>2 DEF Dist
<1> HIDE DEF d
<1>4. d \in Index /\ (d = 0 <=> i = j) BY <1>3
<1> QED BY <1>3, <1>4 DEF d

\* A step of an index, forwards or backwards.
LEMMA Steps ==
  ASSUME NEW i \in Index, NEW n \in Int, -Wrap <= n, n <= Wrap
  PROVE  /\ Plus(i, n) = IF i + n >= Wrap THEN i + n - Wrap
                         ELSE IF i + n < 0 THEN i + n + Wrap ELSE i + n
         /\ Plus(i, n) \in Index
<1> USE Numbers DEF Index
<1>1. i + n \in Int /\ -Wrap <= i + n /\ i + n < 2 * Wrap OBVIOUS
<1>2. (i + n) % Wrap = IF i + n < 0 THEN i + n + Wrap ELSE IF i + n < Wrap THEN i + n ELSE i + n - Wrap
  <2>1. PICK k \in Int : k = i + n BY <1>1
  <2>2. k % Wrap = IF k < 0 THEN k + Wrap ELSE IF k < Wrap THEN k ELSE k - Wrap
    BY ONLY <1>1, <2>1, Numbers, SmallRemainder
  <2> QED BY <2>1, <2>2
<1> DEFINE d == Plus(i, n)
<1>3. d = IF i + n >= Wrap THEN i + n - Wrap ELSE IF i + n < 0 THEN i + n + Wrap ELSE i + n
  BY <1>1, <1>2 DEF Plus
<1> HIDE DEF d
<1>4. d \in Index BY <1>3
<1> QED BY <1>3, <1>4 DEF d

\* An index moves as far as it says.
LEMMA DistanceToStep ==
  ASSUME NEW i \in Index, NEW j \in Index, NEW n \in Int,
         0 <= Dist(i, j) + n, Dist(i, j) + n < Wrap
  PROVE  Dist(i, Plus(j, n)) = Dist(i, j) + n
<1>1. /\ Dist(i, j) = IF i <= j THEN j - i ELSE j - i + Wrap
      /\ Dist(i, j) \in Index
  BY Distance
<1>2. -Wrap <= n /\ n <= Wrap BY <1>1, Numbers DEF Index
<1>3. PICK k \in Index : k = Plus(j, n) BY <1>2, Steps
<1>4. k = IF j + n >= Wrap THEN j + n - Wrap ELSE IF j + n < 0 THEN j + n + Wrap ELSE j + n
  BY <1>2, <1>3, Steps
<1>5. Dist(i, k) = IF i <= k THEN k - i ELSE k - i + Wrap
  BY Distance
<1> QED BY <1>1, <1>3, <1>4, <1>5, Numbers DEF Index

\* And it leaves as much less to go.
LEMMA DistanceFromStep ==
  ASSUME NEW i \in Index, NEW j \in Index, NEW n \in Nat, n <= Dist(i, j)
  PROVE  Dist(Plus(i, n), j) = Dist(i, j) - n
<1>1. /\ Dist(i, j) = IF i <= j THEN j - i ELSE j - i + Wrap
      /\ Dist(i, j) \in Index
  BY Distance
<1>2. n \in Int /\ -Wrap <= n /\ n <= Wrap BY <1>1, Numbers DEF Index
<1>3. PICK k \in Index : k = Plus(i, n) BY <1>2, Steps
<1>4. k = IF i + n >= Wrap THEN i + n - Wrap ELSE IF i + n < 0 THEN i + n + Wrap ELSE i + n
  BY <1>2, <1>3, Steps
<1>5. Dist(k, j) = IF k <= j THEN j - k ELSE j - k + Wrap
  BY Distance
<1> QED BY <1>1, <1>3, <1>4, <1>5, Numbers DEF Index

\* An index is determined by how far away it is.
LEMMA SameDistance ==
  ASSUME NEW i \in Index, NEW j \in Index, NEW k \in Index, Dist(i, j) = Dist(i, k)
  PROVE  j = k
<1>1. Dist(i, j) = IF i <= j THEN j - i ELSE j - i + Wrap BY Distance
<1>2. Dist(i, k) = IF i <= k THEN k - i ELSE k - i + Wrap BY Distance
<1>3. (IF i <= j THEN j - i ELSE j - i + Wrap) = (IF i <= k THEN k - i ELSE k - i + Wrap)
  BY <1>1, <1>2
<1>4. i \in Int /\ 0 <= i /\ i < Wrap /\ j \in Int /\ 0 <= j /\ j < Wrap
      /\ k \in Int /\ 0 <= k /\ k < Wrap /\ Wrap \in Int
  BY Numbers DEF Index
<1>5. CASE i <= j BY ONLY <1>3, <1>4, <1>5
<1>6. CASE ~(i <= j) BY ONLY <1>3, <1>4, <1>6
<1> QED BY <1>5, <1>6

\* A turn of the counters is a number of turns of the ring.
LEMMA WrapTurns ==
  ASSUME NEW u \in {0, 1}
  PROVE  \E z \in Int : u * Wrap = z * PIPESIZE
<1> DEFINE t == Wrap \div PIPESIZE
<1>1. t \in Int /\ Wrap = t * PIPESIZE
  <2>1. Wrap % PIPESIZE = 0 BY PipeAssumption
  <2> QED BY <2>1, Remainder, Numbers
<1> HIDE DEF t
<1>2. u = 0 => u * Wrap = 0 * PIPESIZE BY Numbers
<1>3. u = 1 => u * Wrap = t * PIPESIZE BY <1>1, Numbers
<1> QED BY <1>1, <1>2, <1>3

\* Where a byte lies in the ring, counted from nwrite: the ring does not notice that a
\* counter wraps around, as PIPESIZE divides Wrap.
LEMMA SlotDistance ==
  ASSUME NEW i \in Index, NEW c \in 0 .. PIPESIZE, NEW x \in Int
  PROVE  (((i + x) % PIPESIZE) - Plus(i, c)) % PIPESIZE = (x - c) % PIPESIZE
<1> DEFINE q == (i + x) \div PIPESIZE
<1>2. i \in Int /\ i + x \in Int /\ c \in Int BY Numbers DEF Index
<1>3. q \in Int /\ (i + x) % PIPESIZE \in Int /\ i + x = q * PIPESIZE + ((i + x) % PIPESIZE)
  <2>1. PICK k \in Int : k = i + x BY <1>2
  <2>2. k % PIPESIZE \in 0 .. PIPESIZE - 1 /\ k \div PIPESIZE \in Int
        /\ k = (k \div PIPESIZE) * PIPESIZE + (k % PIPESIZE)
    BY ONLY <2>1, Remainder, Numbers
  <2> QED BY <2>1, <2>2, Numbers
<1> HIDE DEF q
<1>4. PICK u \in {0, 1} : Plus(i, c) = i + c - u * Wrap
  <2>1. -Wrap <= c /\ c <= Wrap /\ ~(i + c < 0) BY <1>2, Numbers DEF Index
  <2>2. Plus(i, c) = IF i + c >= Wrap THEN i + c - Wrap
                     ELSE IF i + c < 0 THEN i + c + Wrap ELSE i + c
    BY <1>2, <2>1, Steps
  <2>3. Plus(i, c) = i + c - 0 * Wrap \/ Plus(i, c) = i + c - 1 * Wrap
    BY <1>2, <2>1, <2>2, Numbers
  <2> QED BY <2>3
<1>5. PICK z \in Int : u * Wrap = z * PIPESIZE BY WrapTurns
<1>6. ((i + x) % PIPESIZE) - Plus(i, c) = (x - c) + (z - q) * PIPESIZE
  <2>1. PICK k \in Int : k = (i + x) % PIPESIZE BY <1>3
  <2>2. PICK l \in Int : l = Plus(i, c) BY <1>2, <1>4, Numbers
  <2>3. PICK m \in Int : m = q * PIPESIZE BY <1>3, Numbers
  <2>4. PICK n \in Int : n = z * PIPESIZE BY Numbers
  <2>5. (z - q) * PIPESIZE = n - m BY <1>3, <2>3, <2>4, Numbers
  <2>6. i + x = m + k /\ l = i + c - n BY <1>3, <1>4, <1>5, <2>1, <2>2, <2>3, <2>4
  <2>7. k - l = (x - c) + (n - m) BY ONLY <1>2, <2>1, <2>2, <2>3, <2>4, <2>6
  <2> QED BY <2>1, <2>2, <2>5, <2>7
<1>7. x - c \in Int /\ z - q \in Int BY <1>2, <1>3
<1>8. ((x - c) + (z - q) * PIPESIZE) % PIPESIZE = (x - c) % PIPESIZE
  BY <1>7, Numbers, RemainderOfMultiple
<1> QED BY <1>6, <1>8

-----------------------------------------------------------------------------
(* The ring of a pipe *)

At(k, j) == (nread[k] + j - 1) % PIPESIZE   \* where the j-th byte lies

RingsInv == \A k \in Pages : Count(k) <= PIPESIZE

\* The counters, as a place and a distance.
LEMMA RingNumbers ==
  ASSUME TypeOK, RingsInv, NEW k \in Pages
  PROVE  /\ nread[k] \in Index /\ nwrite[k] \in Index
         /\ Count(k) = Dist(nread[k], nwrite[k]) /\ Count(k) \in 0 .. PIPESIZE
         /\ Room(k) = PIPESIZE - Count(k) /\ Room(k) \in 0 .. PIPESIZE
         /\ nwrite[k] = Plus(nread[k], Count(k))
         /\ Empty(k) <=> Count(k) = 0
         /\ Full(k) <=> Count(k) = PIPESIZE
<1>1. PICK i \in Index : i = nread[k] BY DEF TypeOK, Index
<1>2. PICK j \in Index : j = nwrite[k] BY DEF TypeOK, Index
<1>3. Count(k) = Dist(i, j) BY <1>1, <1>2 DEF Count, Dist
<1>4. Dist(i, j) \in Index /\ (Dist(i, j) = 0 <=> i = j) BY Distance
<1>5. Count(k) \in 0 .. PIPESIZE BY <1>3, <1>4, Numbers DEF RingsInv, Index
<1>6. ASSUME NEW c \in 0 .. PIPESIZE
      PROVE  Plus(i, c) \in Index /\ (j = Plus(i, c) <=> Dist(i, j) = c)
  <2>1. c \in Int /\ -Wrap <= c /\ c <= Wrap BY Numbers
  <2>2. Plus(i, c) \in Index BY <2>1, Steps
  <2>3. Dist(i, i) = 0 BY Distance
  <2>4. Dist(i, Plus(i, c)) = c
    <3>1. 0 <= Dist(i, i) + c /\ Dist(i, i) + c < Wrap BY <2>3, Numbers
    <3> QED BY <2>1, <2>3, <3>1, DistanceToStep
  <2>5. Dist(i, j) = c => Dist(i, j) = Dist(i, Plus(i, c)) BY <2>4
  <2> QED BY <2>2, <2>4, <2>5, SameDistance
<1>7. j = Plus(i, Count(k)) BY <1>3, <1>5, <1>6
<1>8. Full(k) <=> Count(k) = PIPESIZE
  <2>1. PIPESIZE \in 0 .. PIPESIZE BY Numbers
  <2> QED BY <1>1, <1>2, <1>3, <1>6, <2>1 DEF Full, Plus
<1>9. Room(k) = PIPESIZE - Count(k) /\ Room(k) \in 0 .. PIPESIZE BY <1>5, Numbers DEF Room
<1> QED BY <1>1, <1>2, <1>3, <1>4, <1>5, <1>7, <1>8, <1>9 DEF Empty

\* A byte of the ring, counted from either counter.
LEMMA InRing ==
  ASSUME TypeOK, RingsInv, NEW k \in Pages, NEW j \in 1 .. PIPESIZE
  PROVE  /\ At(k, j) \in Slots
         /\ (At(k, j) - nwrite[k]) % PIPESIZE
              = IF j <= Count(k) THEN j - 1 - Count(k) + PIPESIZE ELSE j - 1 - Count(k)
         /\ (At(k, j) - nread[k]) % PIPESIZE = j - 1
<1>1. PICK i \in Index, c \in 0 .. PIPESIZE : i = nread[k] /\ c = Count(k) /\ nwrite[k] = Plus(i, c)
  BY RingNumbers
<1>2. PICK x \in Int : x = j - 1 BY Numbers
<1>3. i \in Int /\ j \in Int BY Numbers DEF Index
<1>4. At(k, j) = (i + x) % PIPESIZE
  <2>1. i + j - 1 = i + x BY <1>2, <1>3
  <2> QED BY <1>1, <2>1 DEF At
<1>5. At(k, j) \in Slots
  <2>1. PICK z \in Int : z = i + x BY <1>3
  <2>2. z % PIPESIZE \in 0 .. PIPESIZE - 1 BY ONLY <2>1, Numbers, Remainder
  <2> QED BY <1>4, <2>1, <2>2 DEF Slots
<1>6. ASSUME NEW d \in 0 .. PIPESIZE
      PROVE  (((i + x) % PIPESIZE) - Plus(i, d)) % PIPESIZE
               = IF x < d THEN x - d + PIPESIZE ELSE x - d
  <2>1. PICK z \in Int : z = x - d BY Numbers
  <2>2. -PIPESIZE <= z /\ z < PIPESIZE BY <1>2, <2>1, Numbers
  <2>3. z % PIPESIZE = IF z < 0 THEN z + PIPESIZE ELSE IF z < PIPESIZE THEN z ELSE z - PIPESIZE
    <3>1. z < 2 * PIPESIZE BY <2>2, Numbers
    <3> QED BY ONLY <2>1, <2>2, <3>1, Numbers, SmallRemainder
  <2>4. (((i + x) % PIPESIZE) - Plus(i, d)) % PIPESIZE = z % PIPESIZE BY <2>1, SlotDistance
  <2> QED BY <2>1, <2>2, <2>3, <2>4, Numbers
<1>7. (At(k, j) - nwrite[k]) % PIPESIZE = IF j <= c THEN j - 1 - c + PIPESIZE ELSE j - 1 - c
  BY <1>1, <1>2, <1>3, <1>4, <1>6, Numbers
<1>8. (At(k, j) - nread[k]) % PIPESIZE = j - 1
  <2>1. Plus(i, 0) = i
    <3>1. Plus(i, 0) = IF i + 0 >= Wrap THEN i + 0 - Wrap
                       ELSE IF i + 0 < 0 THEN i + 0 + Wrap ELSE i + 0
      BY Steps, Numbers
    <3> QED BY <3>1, Numbers DEF Index
  <2>2. 0 \in 0 .. PIPESIZE BY Numbers
  <2>3. (((i + x) % PIPESIZE) - Plus(i, 0)) % PIPESIZE = IF x < 0 THEN x - 0 + PIPESIZE ELSE x - 0
    BY <1>6, <2>2
  <2> QED BY <1>1, <1>2, <1>4, <2>1, <2>3
<1> QED BY <1>1, <1>5, <1>7, <1>8

\* Bytes go in behind the others.
LEMMA FillRing ==
  ASSUME TypeOK, RingsInv, NEW k \in Pages, NEW p \in Procs, NEW m \in 0 .. Room(k),
         Fill(p, k, m), nread' = nread
  PROVE  /\ Count(k)' = Count(k) + m
         /\ \A j \in 1 .. Count(k) : data'[k][At(k, j)] = data[k][At(k, j)]
         /\ \A j \in Count(k) + 1 .. Count(k) + m : data'[k][At(k, j)] = byte[p]
         /\ \A l \in Pages : l # k => nwrite'[l] = nwrite[l] /\ data'[l] = data[l]
<1>1. /\ nread[k] \in Index /\ nwrite[k] \in Index /\ Count(k) = Dist(nread[k], nwrite[k])
      /\ Count(k) \in 0 .. PIPESIZE /\ Room(k) = PIPESIZE - Count(k)
  BY RingNumbers
<1>2. /\ nwrite'[k] = Plus(nwrite[k], m)
      /\ data'[k] = [j \in Slots |-> IF (j - nwrite[k]) % PIPESIZE < m THEN byte[p] ELSE data[k][j]]
      /\ \A l \in Pages : l # k => nwrite'[l] = nwrite[l] /\ data'[l] = data[l]
  BY DEF Fill, TypeOK, Plus
<1>3. Count(k)' = Count(k) + m
  <2>1. m \in Int /\ 0 <= Dist(nread[k], nwrite[k]) + m /\ Dist(nread[k], nwrite[k]) + m < Wrap
    BY <1>1, Numbers
  <2>2. Dist(nread[k], Plus(nwrite[k], m)) = Dist(nread[k], nwrite[k]) + m
    BY <1>1, <2>1, DistanceToStep
  <2>3. Count(k)' = Dist(nread[k], nwrite'[k]) BY DEF Count, Dist
  <2> QED BY <1>1, <1>2, <2>2, <2>3
<1>4. ASSUME NEW j \in 1 .. Count(k) PROVE data'[k][At(k, j)] = data[k][At(k, j)]
  <2>1. j \in 1 .. PIPESIZE /\ j <= Count(k) BY <1>1, <1>4, Numbers
  <2>2. At(k, j) \in Slots
        /\ (At(k, j) - nwrite[k]) % PIPESIZE = j - 1 - Count(k) + PIPESIZE
    BY <2>1, InRing
  <2>3. ~(j - 1 - Count(k) + PIPESIZE < m) BY <1>1, <1>4, Numbers
  <2> QED BY <1>2, <2>2, <2>3
<1>5. ASSUME NEW j \in Count(k) + 1 .. Count(k) + m PROVE data'[k][At(k, j)] = byte[p]
  <2>1. j \in 1 .. PIPESIZE /\ ~(j <= Count(k)) BY <1>1, <1>5, Numbers
  <2>2. At(k, j) \in Slots
        /\ (At(k, j) - nwrite[k]) % PIPESIZE = j - 1 - Count(k)
    BY <2>1, InRing
  <2>3. j - 1 - Count(k) < m BY <1>1, <1>5, Numbers
  <2> QED BY <1>2, <2>2, <2>3
<1> QED BY <1>2, <1>3, <1>4, <1>5

\* Bytes are taken from the front.
LEMMA DrainRing ==
  ASSUME TypeOK, RingsInv, NEW k \in Pages, NEW m \in 0 .. Count(k), Drain(k, m),
         nwrite' = nwrite
  PROVE  /\ Count(k)' = Count(k) - m
         /\ \A j \in 1 .. Count(k) - m : data'[k][At(k, j)'] = data[k][At(k, m + j)]
         /\ \A l \in Pages : l # k => nread'[l] = nread[l] /\ data'[l] = data[l]
<1>1. /\ nread[k] \in Index /\ nwrite[k] \in Index /\ Count(k) = Dist(nread[k], nwrite[k])
      /\ Count(k) \in 0 .. PIPESIZE
  BY RingNumbers
<1>2. /\ nread'[k] = Plus(nread[k], m)
      /\ data'[k] = [j \in Slots |-> IF (j - nread[k]) % PIPESIZE < m THEN AnyByte ELSE data[k][j]]
      /\ \A l \in Pages : l # k => nread'[l] = nread[l] /\ data'[l] = data[l]
  BY DEF Drain, TypeOK, Plus
<1>3. Count(k)' = Count(k) - m
  <2>1. m \in Nat /\ m <= Dist(nread[k], nwrite[k]) BY <1>1
  <2>2. Dist(Plus(nread[k], m), nwrite[k]) = Dist(nread[k], nwrite[k]) - m
    BY <1>1, <2>1, DistanceFromStep
  <2>3. Count(k)' = Dist(nread'[k], nwrite[k]) BY DEF Count, Dist
  <2> QED BY <1>1, <1>2, <2>2, <2>3
<1>4. ASSUME NEW j \in 1 .. Count(k) - m PROVE data'[k][At(k, j)'] = data[k][At(k, m + j)]
  <2>1. PICK l \in 1 .. PIPESIZE : l = m + j BY <1>1, <1>4, Numbers
  <2>2. At(k, l) \in Slots /\ (At(k, l) - nread[k]) % PIPESIZE = l - 1 BY InRing
  <2>3. At(k, j)' = At(k, l)
    <3>1. PICK i \in Index : i = nread[k] BY <1>1
    <3>2. At(k, j)' = (Plus(i, m) + j - 1) % PIPESIZE BY <1>2, <3>1 DEF At
    <3>3. PICK u \in {0, 1} : Plus(i, m) = i + m - u * Wrap
      <4>1. m \in Int /\ -Wrap <= m /\ m <= Wrap /\ ~(i + m < 0) BY <1>1, Numbers DEF Index
      <4>2. Plus(i, m) = IF i + m >= Wrap THEN i + m - Wrap
                         ELSE IF i + m < 0 THEN i + m + Wrap ELSE i + m
        BY <4>1, Steps
      <4>3. Plus(i, m) = i + m - 0 * Wrap \/ Plus(i, m) = i + m - 1 * Wrap
        BY <4>1, <4>2, Numbers DEF Index
      <4> QED BY <4>3
    <3>4. PICK z \in Int : u * Wrap = z * PIPESIZE BY WrapTurns
    <3>5. PICK y \in Int : y = i + l - 1 BY Numbers DEF Index
    <3>6. Plus(i, m) + j - 1 = y + (-z) * PIPESIZE
      <4>1. PICK n \in Int : n = z * PIPESIZE BY Numbers
      <4>2. (-z) * PIPESIZE = -n BY <4>1, Numbers
      <4> QED BY <1>1, <1>4, <2>1, <3>3, <3>4, <3>5, <4>1, <4>2, Numbers DEF Index
    <3>7. (y + (-z) * PIPESIZE) % PIPESIZE = y % PIPESIZE
      <4>1. -z \in Int OBVIOUS
      <4> QED BY ONLY <3>5, <4>1, Numbers, RemainderOfMultiple
    <3> QED BY <3>1, <3>2, <3>5, <3>6, <3>7 DEF At
  <2>4. ~(l - 1 < m) BY <1>4, <2>1, Numbers
  <2> QED BY <1>2, <2>1, <2>2, <2>3, <2>4
<1> QED BY <1>2, <1>3, <1>4

-----------------------------------------------------------------------------
(* Nobody sleeps without a reason *)

Asleep == {"rsleep", "wsleep"}

\* The reason q has, in the number of bytes there are.
SleepsWell(q) ==
  /\ pc[q] = "rsleep" => writeopen[pipe[q]] /\ (Count(pipe[q]) = 0 \/ pipe[q] \in cut)
  /\ pc[q] = "wsleep" => readopen[pipe[q]] /\ Count(pipe[q]) = PIPESIZE

SleepersInv == RingsInv /\ \A q \in Procs : SleepsWell(q)

\* Whoever is in a call on a pipe has one of its ends open.
LEMMA OwnEnd ==
  ASSUME TableInv, NEW q \in Procs, pc[q] \in Moving
  PROVE  /\ pipe[q] \in Pages /\ pipe[q] \in inUse
         /\ pc[q] \in {"write", "wsleep"} => writeopen[pipe[q]]
         /\ pc[q] \in {"read", "rsleep"} => readopen[pipe[q]]
<1>1. pipe[q] # NoPage BY DEF TableInv, ProcsInv
<1>2. PICK k \in Pages : k = pipe[q] BY <1>1 DEF TableInv, TypeOK
<1>3. PICK fd \in Fds : /\ ofile[q][fd] # NoFile /\ fpipe[ofile[q][fd]] = k
                       /\ writable[ofile[q][fd]] = (pc[q] \in {"write", "wsleep"})
  BY <1>1, <1>2 DEF TableInv, UsersInv
<1>4. PICK f \in FileSlots : f = ofile[q][fd] BY <1>3 DEF TableInv, TypeOK
<1>5. PICK w \in BOOLEAN : w = writable[f] BY DEF TableInv, TypeOK
<1>6. Held(k, w) BY <1>3, <1>4, <1>5 DEF Held
<1>7. Open(k, w) BY <1>6 DEF TableInv, EndsInv
<1>8. w <=> pc[q] \in {"write", "wsleep"} BY <1>3, <1>4, <1>5
<1> QED BY <1>2, <1>7, <1>8 DEF Open

\* A step that leaves the pipes alone, and in which nobody goes to sleep for no reason.
LEMMA StillStep ==
  ASSUME TableInv, SleepersInv, UNCHANGED <<nread, nwrite, readopen, writeopen, cut>>,
         \A q \in Procs : pc'[q] \in Asleep => \/ pc'[q] = pc[q] /\ pipe'[q] = pipe[q]
                                              \/ SleepsWell(q)'
  PROVE  SleepersInv'
<1>1. \A k \in Pages : Count(k)' = Count(k) BY DEF Count
<1>2. RingsInv' BY <1>1 DEF SleepersInv, RingsInv
<1>3. ASSUME NEW q \in Procs PROVE SleepsWell(q)'
  <2>1. CASE pc'[q] \notin Asleep BY <2>1 DEF Asleep, SleepsWell
  <2>2. CASE pc'[q] = pc[q] /\ pipe'[q] = pipe[q] /\ pc[q] \in Asleep
    <3>1. pipe[q] \in Pages BY <2>2, OwnEnd DEF Asleep, Moving
    <3> QED BY <1>1, <2>2, <3>1 DEF SleepersInv, SleepsWell
  <2> QED BY <2>1, <2>2
<1> QED BY <1>2, <1>3 DEF SleepersInv

\* A step that changes one pipe: its sleepers are woken or still have their reason.
LEMMA RingStep ==
  ASSUME TableInv, SleepersInv, NEW k \in Pages, Count(k)' <= PIPESIZE,
         \A l \in Pages : l # k => /\ Count(l)' = Count(l)
                                   /\ readopen'[l] = readopen[l] /\ writeopen'[l] = writeopen[l]
                                   /\ (l \in cut' <=> l \in cut),
         \A q \in Procs : pc'[q] \in Asleep => \/ SleepsWell(q)'
                                              \/ /\ pc'[q] = pc[q] /\ pipe'[q] = pipe[q]
                                                 /\ pipe[q] # k
  PROVE  SleepersInv'
<1>1. RingsInv'
  <2>1. ASSUME NEW l \in Pages PROVE Count(l)' <= PIPESIZE
    BY DEF SleepersInv, RingsInv
  <2> QED BY <2>1 DEF RingsInv
<1>2. ASSUME NEW q \in Procs PROVE SleepsWell(q)'
  <2>1. CASE pc'[q] \notin Asleep BY <2>1 DEF Asleep, SleepsWell
  <2>2. CASE pc'[q] = pc[q] /\ pipe'[q] = pipe[q] /\ pipe[q] # k /\ pc[q] \in Asleep
    <3>1. pipe[q] \in Pages BY <2>2, OwnEnd DEF Asleep, Moving
    <3> QED BY <2>2, <3>1 DEF SleepersInv, SleepsWell
  <2> QED BY <2>1, <2>2
<1> QED BY <1>1, <1>2 DEF SleepersInv

\* The three ways in which writers leave a pipe.
LEMMA WriteKeeps ==
  ASSUME TableInv, SleepersInv, NEW p \in Procs,
         PipeWriteEnds(p) \/ PipeWriteFails(p) \/ PipeWriteSleeps(p)
  PROVE  SleepersInv'
<1>1. pc[p] = "write" /\ pipe[p] \in Pages /\ pipe[p] # NoPage
  <2>1. pc[p] = "write" BY DEF PipeWriteEnds, PipeWriteFails, PipeWriteSleeps
  <2> QED BY <2>1, OwnEnd, PipeAssumption DEF Moving
<1>2. PICK k \in Pages : k = pipe[p] BY <1>1
<1>3. TypeOK /\ RingsInv BY DEF TableInv, SleepersInv
<1>4. Room(k) \in 0 .. PIPESIZE /\ Room(k) = PIPESIZE - Count(k) /\ Count(k) \in 0 .. PIPESIZE
  BY <1>3, RingNumbers
<1>5. todo[p] \in Nat BY <1>3 DEF TypeOK
<1>6. PICK m \in 0 .. Room(k) :
        /\ Fill(p, k, m)
        /\ (PipeWriteFails(p) \/ PipeWriteSleeps(p)) => m = Room(k)
  <2>1. CASE PipeWriteEnds(p)
    <3>1. todo[p] \in 0 .. Room(k) BY <1>2, <1>4, <1>5, <2>1 DEF PipeWriteEnds
    <3>2. ~PipeWriteFails(p) /\ ~PipeWriteSleeps(p)
      BY <1>2, <1>4, <1>5, <2>1 DEF PipeWriteEnds, PipeWriteFails, PipeWriteSleeps
    <3> QED BY <1>2, <2>1, <3>1, <3>2 DEF PipeWriteEnds
  <2>2. CASE PipeWriteFails(p) \/ PipeWriteSleeps(p)
    <3>1. Room(k) \in 0 .. Room(k) BY <1>4
    <3> QED BY <1>2, <2>2, <3>1 DEF PipeWriteFails, PipeWriteSleeps
  <2> QED BY <2>1, <2>2
<1>7. UNCHANGED <<readopen, writeopen, nread>>
  BY DEF PipeWriteEnds, PipeWriteFails, PipeWriteSleeps
<1>8. /\ Count(k)' = Count(k) + m
      /\ \A l \in Pages : l # k => nwrite'[l] = nwrite[l]
  BY <1>3, <1>6, <1>7, FillRing
<1>9. \A l \in Pages : l # k => Count(l)' = Count(l) BY <1>7, <1>8 DEF Count
<1>10. Count(k)' <= PIPESIZE BY <1>4, <1>6, <1>8, Numbers
<1>11. \A l \in Pages : l # k => (l \in cut' <=> l \in cut)
  BY <1>2 DEF PipeWriteEnds, PipeWriteFails, PipeWriteSleeps
<1>12. ASSUME NEW q \in Procs, q # p, pc'[q] \in Asleep
       PROVE  pc'[q] = pc[q] /\ pipe'[q] = pipe[q]
  <2> USE <1>12 DEF Asleep, WakeReaders, WakeAnd, Leave, TableInv, TypeOK
  <2>1. CASE PipeWriteEnds(p) BY <2>1 DEF PipeWriteEnds
  <2>2. CASE PipeWriteFails(p) BY <2>2 DEF PipeWriteFails
  <2>3. CASE PipeWriteSleeps(p) BY <2>3 DEF PipeWriteSleeps
  <2> QED BY <2>1, <2>2, <2>3
<1>13. ASSUME NEW q \in Procs, pc'[q] \in Asleep, q = p \/ pipe[q] = k
       PROVE  SleepsWell(q)'
  <2>1. CASE q = p
    <3>1. PipeWriteSleeps(p)
      BY <1>13, <2>1 DEF PipeWriteEnds, PipeWriteFails, WakeReaders, WakeAnd, Return, Asleep,
                         TableInv, TypeOK
    <3>2. pc'[p] = "wsleep" /\ pipe'[p] = k /\ readopen[k]
      BY <1>2, <3>1 DEF PipeWriteSleeps, WakeReaders, WakeAnd
    <3>3. Count(k)' = PIPESIZE BY <1>4, <1>6, <1>8, <3>1, Numbers
    <3> QED BY <1>7, <2>1, <3>2, <3>3 DEF SleepsWell
  <2>2. CASE q # p /\ pc[q] = "wsleep"
    <3>1. pipe[q] = k /\ pc'[q] = "wsleep" /\ pipe'[q] = k BY <1>12, <1>13, <2>2
    <3>2. readopen[k] /\ Count(k) = PIPESIZE BY <2>2, <3>1 DEF SleepersInv, SleepsWell
    <3>3. Count(k)' = PIPESIZE BY <1>4, <1>6, <1>8, <3>2, Numbers
    <3> QED BY <1>7, <3>1, <3>2, <3>3 DEF SleepsWell
  <2>3. CASE q # p /\ pc[q] = "rsleep"
    <3>1. pipe[q] = k /\ pc'[q] = "rsleep" /\ pipe'[q] = k BY <1>12, <1>13, <2>3
    <3>2. PipeWriteFails(p)
      BY <1>2, <2>3, <3>1 DEF PipeWriteEnds, PipeWriteSleeps, WakeReaders, WakeAnd
    <3>3. readopen[k] BY <2>3, <3>1, OwnEnd DEF Moving
    <3>4. k \in cut' BY <1>2, <3>2, <3>3 DEF PipeWriteFails
    <3>5. writeopen[k] BY <2>3, <3>1 DEF SleepersInv, SleepsWell
    <3> QED BY <1>7, <3>1, <3>4, <3>5 DEF SleepsWell
  <2> QED BY <1>12, <1>13, <2>1, <2>2, <2>3 DEF Asleep
<1> QED BY <1>7, <1>9, <1>10, <1>11, <1>12, <1>13, RingStep

\* A read that is over: it has made room, and the writers know.
LEMMA ReadKeeps ==
  ASSUME TableInv, SleepersInv, NEW p \in Procs, PipeReadEnds(p)
  PROVE  SleepersInv'
<1>1. pc[p] = "read" /\ pipe[p] \in Pages
  <2>1. pc[p] = "read" BY DEF PipeReadEnds
  <2> QED BY <2>1, OwnEnd DEF Moving
<1>2. PICK k \in Pages : k = pipe[p] BY <1>1
<1>3. TypeOK /\ RingsInv BY DEF TableInv, SleepersInv
<1>4. Count(k) \in 0 .. PIPESIZE /\ (Empty(k) <=> Count(k) = 0) BY <1>3, RingNumbers
<1>5. PICK m \in 0 .. Count(k) : Drain(k, m)
  <2>1. todo[p] \in Nat BY <1>3 DEF TypeOK
  <2>2. Least(todo[p], Count(k)) \in 0 .. Count(k) BY <1>4, <2>1 DEF Least
  <2> QED BY <1>2, <2>2 DEF PipeReadEnds
<1>6. UNCHANGED <<readopen, writeopen, nwrite, cut>> BY DEF PipeReadEnds
<1>7. /\ Count(k)' = Count(k) - m
      /\ \A l \in Pages : l # k => nread'[l] = nread[l]
  BY <1>3, <1>5, <1>6, DrainRing
<1>8. \A l \in Pages : l # k => Count(l)' = Count(l) BY <1>6, <1>7 DEF Count
<1>9. Count(k)' <= PIPESIZE BY <1>4, <1>5, <1>7, Numbers
<1>10. ASSUME NEW q \in Procs, pc'[q] \in Asleep
       PROVE  /\ pc'[q] = pc[q] /\ pipe'[q] = pipe[q] /\ q # p
              /\ pipe[q] = k => pc[q] = "rsleep"
  BY <1>2, <1>10 DEF PipeReadEnds, WakeWriters, WakeAnd, Return, Leave, Asleep, TableInv, TypeOK
<1>11. ASSUME NEW q \in Procs, pc'[q] \in Asleep, pipe[q] = k
       PROVE  SleepsWell(q)'
  <2>1. pc[q] = "rsleep" /\ pc'[q] = "rsleep" /\ pipe'[q] = k BY <1>10, <1>11
  <2>2. writeopen[k] /\ (Count(k) = 0 \/ k \in cut)
    BY <1>11, <2>1 DEF SleepersInv, SleepsWell
  <2>3. k \in cut BY <1>2, <1>4, <2>2 DEF PipeReadEnds
  <2> QED BY <1>6, <2>1, <2>2, <2>3 DEF SleepsWell
<1> QED BY <1>6, <1>8, <1>9, <1>10, <1>11, RingStep

\* A reader goes to sleep, on an empty pipe.
LEMMA ReadSleepsKeeps ==
  ASSUME TableInv, SleepersInv, NEW p \in Procs, PipeReadSleeps(p)
  PROVE  SleepersInv'
<1>1. pc[p] = "read" /\ pipe[p] \in Pages
  <2>1. pc[p] = "read" BY DEF PipeReadSleeps
  <2> QED BY <2>1, OwnEnd DEF Moving
<1>2. PICK k \in Pages : k = pipe[p] BY <1>1
<1>3. UNCHANGED <<nread, nwrite, readopen, writeopen, cut, pipe>>
  BY DEF PipeReadSleeps, pipes, transfer
<1>4. pc' = [pc EXCEPT ![p] = "rsleep"] /\ Empty(k) /\ writeopen[k] BY <1>2 DEF PipeReadSleeps
<1>5. Count(k) = 0 BY <1>4, RingNumbers DEF TableInv, SleepersInv
<1>6. pc'[p] = "rsleep" /\ \A q \in Procs : q # p => pc'[q] = pc[q]
  BY <1>4 DEF TableInv, TypeOK
<1>7. Count(k)' = 0 BY <1>3, <1>5 DEF Count
<1>8. SleepsWell(p)' BY <1>2, <1>3, <1>4, <1>6, <1>7 DEF SleepsWell
<1> QED BY <1>3, <1>6, <1>8, StillStep

\* An end is closed: who sleeps at the other one is woken, and nobody sleeps in a page
\* that is given back.
LEMMA CloseKeeps ==
  ASSUME TableInv, TableInv', SleepersInv, NEW p \in Procs, CloseEnds(p) \/ ExitCloseEnds(p)
  PROVE  SleepersInv'
<1>1. PICK k \in Pages, w \in BOOLEAN, point \in {"user", "exit"} :
        PipeClose(p, k, w, point) /\ pipe' = pipe
  <2>1. PICK k \in Pages, w \in BOOLEAN :
             /\ PipeClose(p, k, w, IF pc[p] = "close" THEN "user" ELSE "exit")
             /\ UNCHANGED pipe
    BY PipeCloseEffect
  <2> QED BY <2>1
<1>2. TypeOK /\ RingsInv BY DEF TableInv, SleepersInv
<1>3. UNCHANGED cut BY <1>1 DEF PipeClose
<1>4. /\ \A l \in Pages : l # k => readopen'[l] = readopen[l] /\ writeopen'[l] = writeopen[l]
      /\ w => (readopen'[k] <=> readopen[k])
      /\ ~w => (writeopen'[k] <=> writeopen[k])
  BY <1>1, <1>2 DEF PipeClose, TypeOK
<1>5. /\ \A l \in Pages : l # k => nread'[l] = nread[l] /\ nwrite'[l] = nwrite[l]
      /\ \/ k \in inUse' /\ nread'[k] = nread[k] /\ nwrite'[k] = nwrite[k]
         \/ k \notin inUse' /\ nread'[k] = 0 /\ nwrite'[k] = 0
  BY <1>1, <1>2 DEF PipeClose, Blank, TypeOK
<1>6. \A l \in Pages : l # k => Count(l)' = Count(l) BY <1>5 DEF Count
<1>7. k \in inUse' => Count(k)' = Count(k) BY <1>5 DEF Count
<1>8. Count(k)' <= PIPESIZE
  <2>1. k \notin inUse' => Count(k)' = (0 - 0) % Wrap BY <1>5 DEF Count
  <2>2. (0 - 0) % Wrap = 0
    <3>1. (0 - 0) % Wrap = Dist(0, 0) /\ 0 \in Index BY Numbers DEF Dist, Index
    <3> QED BY <3>1, Distance
  <2> QED BY <1>2, <1>7, <2>1, <2>2, Numbers DEF RingsInv
<1>9. ASSUME NEW q \in Procs, pc'[q] \in Asleep
      PROVE  /\ pc'[q] = pc[q] /\ pipe'[q] = pipe[q]
             /\ pipe[q] = k => (pc[q] = "wsleep" <=> w)
  BY <1>1, <1>9 DEF PipeClose, WakeReaders, WakeWriters, WakeAnd, Asleep, TableInv, TypeOK
<1>10. ASSUME NEW q \in Procs, pc'[q] \in Asleep, pipe[q] = k
       PROVE  SleepsWell(q)'
  <2>1. pc'[q] = pc[q] /\ pipe'[q] = k /\ (pc[q] = "wsleep" <=> w) BY <1>9, <1>10
  <2>2. k \in inUse'
    <3>1. PipesLive' BY TableMeans, PTL
    <3>2. \A r \in Procs : pipe'[r] # NoPage => pipe'[r] \in inUse' BY <3>1 DEF PipesLive
    <3>3. k # NoPage BY PipeAssumption
    <3> QED BY <2>1, <3>2, <3>3
  <2>3. Count(k)' = Count(k) BY <1>7, <2>2
  <2> QED BY <1>3, <1>4, <1>10, <2>1, <2>3 DEF SleepersInv, SleepsWell
<1> QED BY <1>3, <1>4, <1>6, <1>8, <1>9, <1>10, RingStep

\* A page becomes a pipe: nobody slept in it.
LEMMA PipeSecondKeeps ==
  ASSUME TableInv, SleepersInv, NEW p \in Procs, PipeSecond(p)
  PROVE  SleepersInv'
<1>1. PICK k \in Pages : k \notin inUse /\ NewPipe(k) BY DEF PipeSecond
<1>2. pc' = [pc EXCEPT ![p] = "user"] /\ pipe' = pipe BY DEF PipeSecond, transfer
<1>3. /\ \A l \in Pages : l # k => /\ nread'[l] = nread[l] /\ nwrite'[l] = nwrite[l]
                                  /\ readopen'[l] = readopen[l] /\ writeopen'[l] = writeopen[l]
                                  /\ (l \in cut' <=> l \in cut)
      /\ nread'[k] = 0 /\ nwrite'[k] = 0
  BY <1>1 DEF NewPipe, Blank, TableInv, TypeOK
<1>4. \A l \in Pages : l # k => Count(l)' = Count(l) BY <1>3 DEF Count
<1>5. Count(k)' <= PIPESIZE
  <2>1. Count(k)' = Dist(0, 0) /\ 0 \in Index BY <1>3, Numbers DEF Count, Dist, Index
  <2>2. Dist(0, 0) = 0 BY <2>1, Distance
  <2> QED BY <2>1, <2>2, Numbers
<1>6. ASSUME NEW q \in Procs, pc'[q] \in Asleep
      PROVE  pc'[q] = pc[q] /\ pipe'[q] = pipe[q] /\ pipe[q] # k
  <2>1. pc'[q] = pc[q] /\ pipe'[q] = pipe[q] BY <1>2, <1>6 DEF Asleep, TableInv, TypeOK
  <2>2. pipe[q] \in inUse BY <1>6, <2>1, OwnEnd DEF Asleep, Moving
  <2> QED BY <1>1, <2>1, <2>2
<1> QED BY <1>3, <1>4, <1>5, <1>6, RingStep

\* All other steps leave the pipes alone.
LEMMA OthersKeep ==
  ASSUME TableInv, SleepersInv, NEW p \in Procs,
         \/ PipeReadFails(p) \/ PipeBad(p) \/ ExitClose(p) \/ ExitEnds(p) \/ PipeFirst(p)
         \/ Dup(p) \/ Close(p) \/ Exit(p) \/ KillFiles(p)
         \/ \E n \in Lengths : Read(p, n)
         \/ \E m \in Messages : Write(p, m[1], m[2])
         \/ \E q \in Procs : Fork(p, q)
  PROVE  SleepersInv'
<1> USE DEF pipes, transfer, pipeVars, Asleep
<1>1. UNCHANGED <<nread, nwrite, readopen, writeopen, cut>>
  BY DEF PipeReadFails, PipeBad, ExitClose, ExitEnds, PipeFirst, Dup, Close, Exit, KillFiles, Kill,
         Read, Write, Begin, Fork
<1>2. pc \in [Procs -> Points] BY DEF TableInv, TypeOK
<1>3. ASSUME NEW q \in Procs, pc'[q] \in Asleep PROVE pc'[q] = pc[q]
  <2>1. CASE PipeReadFails(p) \/ PipeBad(p) \/ ExitEnds(p) \/ PipeFirst(p) \/ Exit(p)
    BY <1>2, <1>3, <2>1 DEF PipeReadFails, PipeBad, ExitEnds, PipeFirst, Exit, Return
  <2>2. CASE ExitClose(p) \/ Close(p)
    BY <1>2, <1>3, <2>2 DEF ExitClose, Close, FileClose
  <2>3. CASE Dup(p) BY <2>3 DEF Dup
  <2>4. CASE KillFiles(p) BY <1>2, <1>3, <2>4 DEF KillFiles, Kill
  <2>5. CASE (\E n \in Lengths : Read(p, n)) \/ (\E m \in Messages : Write(p, m[1], m[2]))
    BY <1>2, <1>3, <2>5 DEF Read, Write, Begin
  <2>6. CASE \E r \in Procs : Fork(p, r) BY <1>2, <1>3, <2>6 DEF Fork
  <2> QED BY <2>1, <2>2, <2>3, <2>4, <2>5, <2>6
<1>4. ASSUME NEW q \in Procs, pc'[q] \in Asleep PROVE pipe'[q] = pipe[q]
  <2>1. q # p
    <3>1. pc'[q] = pc[q] BY <1>3, <1>4
    <3>2. CASE q = p
      <4>1. KillFiles(p) \/ Dup(p)
        BY <1>4, <3>1, <3>2 DEF PipeReadFails, PipeBad, ExitClose, ExitEnds, PipeFirst, Close, Exit,
           Calls, Read, Write, Begin, Fork
      <4>2. Dup(p) => pc[p] = "user" BY DEF Dup, Calls
      <4>3. KillFiles(p) => pc'[p] # pc[p] \/ pc[p] \notin Asleep
        BY <1>2, <1>4 DEF KillFiles, Kill
      <4> QED BY <1>4, <3>1, <3>2, <4>1, <4>2, <4>3
    <3> QED BY <3>2
  <2>2. pipe' = pipe \/ \E x : pipe' = [pipe EXCEPT ![p] = x]
    BY DEF PipeReadFails, PipeBad, ExitClose, ExitEnds, PipeFirst, Dup, Close, Exit, KillFiles,
           Kill, Read, Write, Begin, Fork, Leave
  <2> QED BY <2>1, <2>2 DEF TableInv, TypeOK
<1> QED BY <1>1, <1>3, <1>4, StillStep

\* No step leaves a sleeper without a reason.
LEMMA SleepersStep ==
  TableInv /\ TableInv' /\ SleepersInv /\ [Next]_filesVars => SleepersInv'
<1> SUFFICES ASSUME TableInv, TableInv', SleepersInv, [Next]_filesVars PROVE SleepersInv'
  OBVIOUS
<1>1. ASSUME NEW p \in Procs, Continue(p) \/ UserCall(p) \/ KillFiles(p) PROVE SleepersInv'
  BY <1>1, WriteKeeps, ReadKeeps, ReadSleepsKeeps, CloseKeeps, PipeSecondKeeps, OthersKeep
  DEF Continue, PipeStep, PipeCall, UserCall
<1>2. CASE UNCHANGED filesVars
  BY <1>2, StillStep DEF filesVars, pipeVars, pipes, transfer
<1> QED BY <1>1, <1>2 DEF Next

\* At the start nobody sleeps, and nothing is in a pipe.
LEMMA SleepersInit == Init => SleepersInv
<1> SUFFICES ASSUME Init PROVE SleepersInv
  OBVIOUS
<1>1. ASSUME NEW k \in Pages PROVE Count(k) <= PIPESIZE
  <2>1. Count(k) = Dist(0, 0) /\ 0 \in Index BY Numbers DEF Init, PipeInit, Count, Dist, Index
  <2>2. Dist(0, 0) = 0 BY <2>1, Distance
  <2> QED BY <2>1, <2>2, Numbers
<1>2. \A q \in Procs : SleepsWell(q) BY DEF Init, SleepsWell
<1> QED BY <1>1, <1>2 DEF SleepersInv, RingsInv

\* What it means.
LEMMA SleepersMeans == TableInv /\ SleepersInv => PipeSleepersWoken
<1> SUFFICES ASSUME TableInv, SleepersInv, NEW p \in Procs
             PROVE  /\ pc[p] = "rsleep" => /\ writeopen[pipe[p]] /\ ~killed[p]
                                           /\ Empty(pipe[p]) \/ pipe[p] \in cut
                    /\ pc[p] = "wsleep" => readopen[pipe[p]] /\ ~killed[p] /\ Full(pipe[p])
  BY DEF PipeSleepersWoken
<1>1. pc[p] \in Asleep => ~killed[p] BY DEF TableInv, ProcsInv, Asleep
<1>2. pc[p] \in Asleep => pipe[p] \in Pages BY OwnEnd DEF Asleep, Moving
<1>3. ASSUME pc[p] \in Asleep
      PROVE  /\ Empty(pipe[p]) <=> Count(pipe[p]) = 0
             /\ Full(pipe[p]) <=> Count(pipe[p]) = PIPESIZE
  <2>1. PICK k \in Pages : k = pipe[p] BY <1>2, <1>3
  <2>2. TypeOK /\ RingsInv BY DEF TableInv, SleepersInv
  <2> QED BY <2>1, <2>2, RingNumbers
<1> QED BY <1>1, <1>3 DEF SleepersInv, SleepsWell, Asleep

\* Nobody sleeps in a pipe without a reason: the bytes there are and the room left are
\* known to whoever could use them, but for the writer that is killed half-way.
THEOREM PipeSleepersHaveReason == Spec => []PipeSleepersWoken
<1>1. Init => TableInv /\ SleepersInv BY TableInit, SleepersInit
<1>2. TableInv /\ SleepersInv /\ [Next]_filesVars => (TableInv /\ SleepersInv)'
  BY TableStep, SleepersStep
<1> QED BY <1>1, <1>2, SleepersMeans, PTL DEF Spec

-----------------------------------------------------------------------------
(* The rings are streams *)

StreamOf(k) == IF k \in inUse THEN Content(k) ELSE <<>>

\* Functions on 1 .. n are sequences.
LEMMA FunctionIsSeq ==
  ASSUME NEW n \in Nat, NEW S, NEW s \in [1 .. n -> S]
  PROVE  s \in Seq(S) /\ Len(s) = n
<1>1. s \in Seq(S) BY SeqDef
<1>2. DOMAIN s = 1 .. Len(s) /\ Len(s) \in Nat BY <1>1, LenProperties
<1>3. DOMAIN s = 1 .. n OBVIOUS
<1>4. PICK l \in Nat : l = Len(s) BY <1>2
<1>5. 1 .. l = 1 .. n BY <1>2, <1>3, <1>4
<1>6. (l >= 1 => l \in 1 .. n) /\ (n >= 1 => n \in 1 .. l) BY <1>5
<1> QED BY <1>1, <1>4, <1>6

ContentShape ==
  \A k \in Pages : /\ Content(k) \in Seq(Bytes) /\ Len(Content(k)) = Count(k)
                   /\ Content(k) = [j \in 1 .. Count(k) |-> data[k][At(k, j)]]

\* What a ring holds is a sequence of bytes.
LEMMA ContentIsSeq == TypeOK /\ RingsInv => ContentShape
<1> SUFFICES ASSUME TypeOK, RingsInv, NEW k \in Pages
             PROVE  /\ Content(k) \in Seq(Bytes) /\ Len(Content(k)) = Count(k)
                    /\ Content(k) = [j \in 1 .. Count(k) |-> data[k][At(k, j)]]
  BY DEF ContentShape
<1>1. Count(k) \in 0 .. PIPESIZE BY RingNumbers
<1>2. PICK c \in Nat : c = Count(k) BY <1>1, Numbers
<1>3. Content(k) = [j \in 1 .. c |-> data[k][At(k, j)]] BY <1>2 DEF Content, At
<1>4. ASSUME NEW j \in 1 .. c PROVE data[k][At(k, j)] \in Bytes
  <2>1. j \in 1 .. PIPESIZE BY <1>1, <1>2, <1>4, Numbers
  <2>2. At(k, j) \in Slots BY <2>1, InRing
  <2> QED BY <2>2 DEF TypeOK
<1>5. Content(k) \in [1 .. c -> Bytes] BY <1>3, <1>4
<1> QED BY <1>2, <1>3, <1>5, FunctionIsSeq

\* A step in which at most one pipe moves or changes its ends.
LEMMA OneStream ==
  ASSUME NEW k \in Pages,
         \A l \in Pages : l # k =>
           /\ nread'[l] = nread[l] /\ nwrite'[l] = nwrite[l] /\ data'[l] = data[l]
           /\ readopen'[l] = readopen[l] /\ writeopen'[l] = writeopen[l]
           /\ (l \in inUse' <=> l \in inUse)
  PROVE  /\ [l \in Pages |-> StreamOf(l)]' = [[l \in Pages |-> StreamOf(l)] EXCEPT ![k] = StreamOf(k)']
         /\ [l \in Pages |-> OpenEnds(l)]' = [[l \in Pages |-> OpenEnds(l)] EXCEPT ![k] = OpenEnds(k)']
<1>1. ASSUME NEW l \in Pages, l # k
      PROVE  StreamOf(l)' = StreamOf(l) /\ OpenEnds(l)' = OpenEnds(l)
  <2>1. /\ nread'[l] = nread[l] /\ nwrite'[l] = nwrite[l] /\ data'[l] = data[l]
        /\ readopen'[l] = readopen[l] /\ writeopen'[l] = writeopen[l]
        /\ (l \in inUse' <=> l \in inUse)
    BY <1>1
  <2>2. Count(l)' = Count(l) BY <2>1 DEF Count
  <2>3. Content(l)' = Content(l) BY <2>1, <2>2 DEF Content
  <2>4. StreamOf(l)' = StreamOf(l) BY <2>1, <2>3 DEF StreamOf
  <2>5. OpenEnds(l)' = OpenEnds(l) BY <2>1 DEF OpenEnds
  <2> QED BY <2>4, <2>5
<1> QED BY <1>1

\* Bytes that go in are the last of the stream.
LEMMA FillAppends ==
  ASSUME TypeOK, RingsInv, TypeOK', RingsInv', NEW k \in Pages, NEW p \in Procs,
         NEW m \in 0 .. Room(k), Fill(p, k, m), nread' = nread
  PROVE  /\ Content(k)' = Content(k) \o [i \in 1 .. m |-> byte[p]]
         /\ m = 0 => Content(k)' = Content(k)
<1> DEFINE s == Content(k)
           t == [i \in 1 .. m |-> byte[p]]
           u == Content(k)'
           c == Count(k)
<1>1. m \in Nat /\ byte[p] \in Bytes BY RingNumbers DEF TypeOK
<1>2. t \in Seq(Bytes) /\ Len(t) = m /\ \A j \in 1 .. m : t[j] = byte[p]
  <2>1. t \in [1 .. m -> Bytes] BY <1>1
  <2> QED BY <1>1, <2>1, FunctionIsSeq
<1>3. s \in Seq(Bytes) /\ Len(s) = c /\ s = [j \in 1 .. c |-> data[k][At(k, j)]]
  BY ContentIsSeq DEF ContentShape
<1>4. ContentShape' BY ContentIsSeq, PTL
<1>5. \A j : At(k, j)' = At(k, j) BY DEF At
<1>6. u \in Seq(Bytes) /\ Len(u) = Count(k)'
      /\ u = [j \in 1 .. Count(k)' |-> data'[k][At(k, j)]]
  BY <1>4, <1>5 DEF ContentShape
<1>7. /\ Count(k)' = c + m
      /\ \A j \in 1 .. c : data'[k][At(k, j)] = data[k][At(k, j)]
      /\ \A j \in c + 1 .. c + m : data'[k][At(k, j)] = byte[p]
  BY FillRing
<1>8. c \in Nat BY RingNumbers, Numbers
<1> HIDE DEF s, t, u, c
<1>9. /\ s \o t \in Seq(Bytes) /\ Len(s \o t) = c + m
      /\ \A j \in 1 .. c + m : (s \o t)[j] = IF j <= c THEN s[j] ELSE t[j - c]
  <2>1. /\ s \o t \in Seq(Bytes) /\ Len(s \o t) = Len(s) + Len(t)
        /\ \A j \in 1 .. Len(s) + Len(t) : (s \o t)[j] = IF j <= Len(s) THEN s[j] ELSE t[j - Len(s)]
    <3>1. s \in Seq(Bytes) /\ t \in Seq(Bytes) BY <1>2, <1>3
    <3> QED BY ONLY <3>1, ConcatProperties
  <2>2. Len(s) = c /\ Len(t) = m BY <1>2, <1>3
  <2> QED BY <2>1, <2>2
<1>10. ASSUME NEW j \in 1 .. c + m PROVE u[j] = (s \o t)[j]
  <2>1. u[j] = data'[k][At(k, j)] BY <1>6, <1>7
  <2>2. CASE j <= c
    <3>1. j \in 1 .. c BY <1>8, <2>2
    <3> QED BY <1>3, <1>7, <1>9, <2>1, <2>2, <3>1
  <2>3. CASE ~(j <= c)
    <3>1. j \in c + 1 .. c + m /\ j - c \in 1 .. m BY <1>1, <1>8, <2>3
    <3> QED BY <1>2, <1>7, <1>9, <2>1, <2>3, <3>1
  <2> QED BY <2>2, <2>3
<1>11. u = s \o t BY <1>6, <1>7, <1>9, <1>10, SeqEqual
<1>12. ASSUME m = 0 PROVE u = s
  <2>1. Count(k)' = c BY <1>7, <1>8, <1>12
  <2> QED BY <1>3, <1>6, <1>7, <2>1
<1> QED BY <1>11, <1>12 DEF s, t, u

\* Bytes that are taken are the first of the stream.
LEMMA DrainTakes ==
  ASSUME TypeOK, RingsInv, TypeOK', RingsInv', NEW k \in Pages, NEW m \in 0 .. Count(k),
         Drain(k, m), nwrite' = nwrite
  PROVE  /\ Content(k)' = SubSeq(Content(k), m + 1, Len(Content(k)))
         /\ m = 0 => Content(k)' = Content(k)
<1> DEFINE s == Content(k)
           u == Content(k)'
           c == Count(k)
<1>1. m \in Nat /\ c \in Nat /\ m <= c BY RingNumbers, Numbers
<1>2. s \in Seq(Bytes) /\ Len(s) = c /\ s = [j \in 1 .. c |-> data[k][At(k, j)]]
  BY ContentIsSeq DEF ContentShape
<1>3. ContentShape' BY ContentIsSeq, PTL
<1>4. u \in Seq(Bytes) /\ Len(u) = Count(k)'
      /\ u = [j \in 1 .. Count(k)' |-> data'[k][At(k, j)']]
  BY <1>3 DEF ContentShape
<1>5. /\ Count(k)' = c - m
      /\ \A j \in 1 .. c - m : data'[k][At(k, j)'] = data[k][At(k, m + j)]
  BY DrainRing
<1>6. \A j \in 1 .. c : s[j] \in Bytes BY <1>2, ElementOfSeq
<1> HIDE DEF s, u, c
<1>7. ASSUME NEW j \in 1 .. c - m PROVE u[j] = s[m + j]
  <2>1. PICK l \in 1 .. c : l = m + j BY <1>1, <1>7
  <2>2. u[j] = data[k][At(k, l)] BY <1>4, <1>5, <1>7, <2>1
  <2> QED BY <1>2, <2>1, <2>2
<1>8. u = SubSeq(s, m + 1, c)
  <2>1. PICK x \in Int, y \in Int : x = m + 1 /\ y = c BY <1>1
  <2>2. \A j \in x .. y : s[j] \in Bytes BY <1>1, <1>6, <2>1
  <2>3. /\ SubSeq(s, x, y) \in Seq(Bytes)
        /\ Len(SubSeq(s, x, y)) = IF x <= y THEN y - x + 1 ELSE 0
        /\ \A j \in 1 .. y - x + 1 : SubSeq(s, x, y)[j] = s[x + j - 1]
    BY <2>2, SubSeqProperties
  <2>4. y - x + 1 = c - m /\ (IF x <= y THEN y - x + 1 ELSE 0) = c - m BY <1>1, <2>1
  <2>5. ASSUME NEW j \in 1 .. c - m PROVE SubSeq(s, x, y)[j] = u[j]
    <3>1. x + j - 1 = m + j BY <1>1, <2>1, <2>5
    <3> QED BY <1>7, <2>3, <2>4, <2>5, <3>1
  <2>6. u = SubSeq(s, x, y) BY <1>4, <1>5, <2>3, <2>4, <2>5, SeqEqual
  <2> QED BY <2>1, <2>6
<1>9. ASSUME m = 0 PROVE u = s
  <2>1. c - m = c /\ \A j \in 1 .. c : m + j = j BY <1>1, <1>9
  <2>2. \A j \in 1 .. c : u[j] = s[j] BY <1>7, <2>1
  <2>3. Len(u) = Len(s) BY <1>2, <1>4, <1>5, <2>1
  <2> QED BY <1>2, <1>4, <2>2, <2>3, SeqEqual
<1> QED BY <1>2, <1>8, <1>9 DEF s, u

\* A write puts bytes into a stream, or nothing.
LEMMA WritePuts ==
  ASSUME TableInv, SleepersInv, TableInv', SleepersInv', NEW p \in Procs,
         PipeWriteEnds(p) \/ PipeWriteFails(p) \/ PipeWriteSleeps(p)
  PROVE  [Streams!Next]_(Streams!streamVars)
<1>1. pc[p] = "write" BY DEF PipeWriteEnds, PipeWriteFails, PipeWriteSleeps
<1>2. PICK k \in Pages : k = pipe[p] /\ k \in inUse /\ writeopen[k]
  BY <1>1, OwnEnd DEF Moving
<1>3. TypeOK /\ RingsInv /\ TypeOK' /\ RingsInv' BY DEF TableInv, SleepersInv
<1>4. /\ Room(k) \in 0 .. PIPESIZE /\ Room(k) = PIPESIZE - Count(k) /\ Count(k) \in 0 .. PIPESIZE
      /\ todo[p] \in Nat /\ byte[p] \in Bytes
  BY <1>3, RingNumbers DEF TypeOK
<1>5. PICK m \in 0 .. Room(k) : Fill(p, k, m)
  <2>1. CASE PipeWriteEnds(p)
    <3>1. todo[p] \in 0 .. Room(k) BY <1>2, <1>4, <2>1 DEF PipeWriteEnds
    <3> QED BY <1>2, <2>1, <3>1 DEF PipeWriteEnds
  <2>2. CASE PipeWriteFails(p) \/ PipeWriteSleeps(p)
    <3>1. Room(k) \in 0 .. Room(k) BY <1>4
    <3> QED BY <1>2, <2>2, <3>1 DEF PipeWriteFails, PipeWriteSleeps
  <2> QED BY <2>1, <2>2
<1>6. UNCHANGED <<inUse, readopen, writeopen, nread>>
  BY DEF PipeWriteEnds, PipeWriteFails, PipeWriteSleeps
<1>7. \A l \in Pages : l # k => nwrite'[l] = nwrite[l] /\ data'[l] = data[l]
  BY <1>3, <1>5, <1>6, FillRing
<1>8. /\ [l \in Pages |-> StreamOf(l)]' = [[l \in Pages |-> StreamOf(l)] EXCEPT ![k] = StreamOf(k)']
      /\ [l \in Pages |-> OpenEnds(l)]' = [l \in Pages |-> OpenEnds(l)]
  <2>1. [l \in Pages |-> StreamOf(l)]' = [[l \in Pages |-> StreamOf(l)] EXCEPT ![k] = StreamOf(k)']
    BY <1>6, <1>7, OneStream
  <2>2. \A l \in Pages : OpenEnds(l)' = OpenEnds(l) BY <1>6 DEF OpenEnds
  <2> QED BY <2>1, <2>2
<1>9. /\ StreamOf(k)' = StreamOf(k) \o [i \in 1 .. m |-> byte[p]]
      /\ m = 0 => StreamOf(k)' = StreamOf(k)
  BY <1>2, <1>3, <1>5, <1>6, FillAppends DEF StreamOf
<1>10. CASE m = 0
  <2>1. [l \in Pages |-> StreamOf(l)]' = [l \in Pages |-> StreamOf(l)] BY <1>8, <1>9, <1>10
  <2> QED BY <1>8, <2>1 DEF Streams!streamVars, StreamOf
<1>11. CASE m # 0
  <2>1. m \in 1 .. PIPESIZE BY <1>4, <1>11, Numbers
  <2>2. "write" \in OpenEnds(k) BY <1>2 DEF OpenEnds
  <2>3. Len(StreamOf(k)) + m <= PIPESIZE
    <3>1. StreamOf(k) = Content(k) BY <1>2 DEF StreamOf
    <3>2. Len(Content(k)) = Count(k) BY <1>3, ContentIsSeq DEF ContentShape
    <3> QED BY <1>4, <3>1, <3>2, Numbers
  <2>4. PICK b \in Bytes : b = byte[p] BY <1>4
  <2>5. Streams!Put(k, m, b) BY <1>8, <1>9, <2>2, <2>3, <2>4 DEF Streams!Put, StreamOf
  <2> QED BY <2>1, <2>5 DEF Streams!Next
<1> QED BY <1>10, <1>11

\* A read that is over has taken bytes from the stream, or found nothing.
LEMMA ReadTakes ==
  ASSUME TableInv, SleepersInv, TableInv', SleepersInv', NEW p \in Procs, PipeReadEnds(p)
  PROVE  [Streams!Next]_(Streams!streamVars)
<1>1. pc[p] = "read" BY DEF PipeReadEnds
<1>2. PICK k \in Pages : k = pipe[p] /\ k \in inUse /\ readopen[k]
  BY <1>1, OwnEnd DEF Moving
<1>3. TypeOK /\ RingsInv /\ TypeOK' /\ RingsInv' BY DEF TableInv, SleepersInv
<1>4. Count(k) \in 0 .. PIPESIZE /\ todo[p] \in Nat BY <1>3, RingNumbers DEF TypeOK
<1>5. PICK m \in 0 .. Count(k) : Drain(k, m)
  <2>1. Least(todo[p], Count(k)) \in 0 .. Count(k) BY <1>4 DEF Least
  <2> QED BY <1>2, <2>1 DEF PipeReadEnds
<1>6. UNCHANGED <<inUse, readopen, writeopen, nwrite>> BY DEF PipeReadEnds
<1>7. \A l \in Pages : l # k => nread'[l] = nread[l] /\ data'[l] = data[l]
  BY <1>3, <1>5, <1>6, DrainRing
<1>8. /\ [l \in Pages |-> StreamOf(l)]' = [[l \in Pages |-> StreamOf(l)] EXCEPT ![k] = StreamOf(k)']
      /\ [l \in Pages |-> OpenEnds(l)]' = [l \in Pages |-> OpenEnds(l)]
  <2>1. [l \in Pages |-> StreamOf(l)]' = [[l \in Pages |-> StreamOf(l)] EXCEPT ![k] = StreamOf(k)']
    BY <1>6, <1>7, OneStream
  <2>2. \A l \in Pages : OpenEnds(l)' = OpenEnds(l) BY <1>6 DEF OpenEnds
  <2> QED BY <2>1, <2>2
<1>9. /\ StreamOf(k)' = SubSeq(StreamOf(k), m + 1, Len(StreamOf(k)))
      /\ m = 0 => StreamOf(k)' = StreamOf(k)
  BY <1>2, <1>3, <1>5, <1>6, DrainTakes DEF StreamOf
<1>10. CASE m = 0
  <2>1. [l \in Pages |-> StreamOf(l)]' = [l \in Pages |-> StreamOf(l)] BY <1>8, <1>9, <1>10
  <2> QED BY <1>8, <2>1 DEF Streams!streamVars, StreamOf
<1>11. CASE m # 0
  <2>1. m \in 1 .. PIPESIZE BY <1>4, <1>11, Numbers
  <2>2. "read" \in OpenEnds(k) BY <1>2 DEF OpenEnds
  <2>3. m <= Len(StreamOf(k))
    <3>1. StreamOf(k) = Content(k) BY <1>2 DEF StreamOf
    <3>2. Len(Content(k)) = Count(k) BY <1>3, ContentIsSeq DEF ContentShape
    <3> QED BY <1>4, <3>1, <3>2, Numbers
  <2>4. Streams!Take(k, m) BY <1>8, <1>9, <2>2, <2>3 DEF Streams!Take, StreamOf
  <2> QED BY <2>1, <2>4 DEF Streams!Next
<1> QED BY <1>10, <1>11

\* fileclose's last reference closes an end.
LEMMA CloseCloses ==
  ASSUME TableInv, TableInv', NEW p \in Procs, CloseEnds(p) \/ ExitCloseEnds(p)
  PROVE  [Streams!Next]_(Streams!streamVars)
<1>1. PICK k \in Pages, w \in BOOLEAN, point \in {"user", "exit"} :
        PipeClose(p, k, w, point) /\ Open(k, w) /\ k \in inUse
  <2>1. PICK k \in Pages, w \in BOOLEAN :
             /\ k \in inUse /\ Open(k, w)
             /\ PipeClose(p, k, w, IF pc[p] = "close" THEN "user" ELSE "exit")
    BY PipeCloseEffect
  <2> QED BY <2>1
<1>2. TypeOK BY DEF TableInv
<1>3. /\ readopen' = [readopen EXCEPT ![k] = @ /\ w] /\ writeopen' = [writeopen EXCEPT ![k] = @ /\ ~w]
      /\ inUse' = IF ~readopen'[k] /\ ~writeopen'[k] THEN inUse \ {k} ELSE inUse
      /\ IF k \in inUse' THEN UNCHANGED <<nread, nwrite, data>> ELSE Blank(k)
  BY <1>1 DEF PipeClose, Freed
<1>4. /\ \A l \in Pages : l # k => readopen'[l] = readopen[l] /\ writeopen'[l] = writeopen[l]
      /\ \A l \in Pages : l # k => (l \in inUse' <=> l \in inUse)
      /\ readopen'[k] <=> readopen[k] /\ w
      /\ writeopen'[k] <=> writeopen[k] /\ ~w
      /\ k \in inUse' <=> readopen'[k] \/ writeopen'[k]
  BY <1>1, <1>2, <1>3 DEF TypeOK
<1>5. \A l \in Pages : l # k => nread'[l] = nread[l] /\ nwrite'[l] = nwrite[l] /\ data'[l] = data[l]
  BY <1>2, <1>3 DEF Blank, TypeOK
<1>6. k \in inUse' => nread'[k] = nread[k] /\ nwrite'[k] = nwrite[k] /\ data'[k] = data[k]
  BY <1>3
<1>7. /\ [l \in Pages |-> StreamOf(l)]' = [[l \in Pages |-> StreamOf(l)] EXCEPT ![k] = StreamOf(k)']
      /\ [l \in Pages |-> OpenEnds(l)]' = [[l \in Pages |-> OpenEnds(l)] EXCEPT ![k] = OpenEnds(k)']
  BY <1>4, <1>5, OneStream
<1> DEFINE end == IF w THEN "write" ELSE "read"
<1>8. end \in OpenEnds(k) BY <1>1 DEF Open, OpenEnds
<1>9. OpenEnds(k)' = OpenEnds(k) \ {end} BY <1>1, <1>4 DEF OpenEnds
<1>10. OpenEnds(k) = {end} <=> k \notin inUse' BY <1>1, <1>4 DEF Open, OpenEnds
<1>11. StreamOf(k)' = IF OpenEnds(k) = {end} THEN <<>> ELSE StreamOf(k)
  <2>1. k \in inUse' => Content(k)' = Content(k) BY <1>6 DEF Content, Count
  <2> QED BY <1>1, <1>10, <2>1 DEF StreamOf
<1>12. Streams!Close(k, end)
  <2>1. [l \in Pages |-> StreamOf(l)]'
          = IF OpenEnds(k) = {end} THEN [[l \in Pages |-> StreamOf(l)] EXCEPT ![k] = <<>>]
            ELSE [l \in Pages |-> StreamOf(l)]
    BY <1>7, <1>11
  <2>2. [l \in Pages |-> OpenEnds(l)]'
          = [[l \in Pages |-> OpenEnds(l)] EXCEPT ![k] = OpenEnds(k) \ {end}]
    BY <1>7, <1>9
  <2>3. [l \in Pages |-> OpenEnds(l)][k] = OpenEnds(k) OBVIOUS
  <2> HIDE DEF end
  <2> QED BY <1>8, <2>1, <2>2, <2>3 DEF Streams!Close, StreamOf
<1>13. end \in {"read", "write"} OBVIOUS
<1> QED BY <1>12, <1>13 DEF Streams!Next

\* pipealloc creates a stream.
LEMMA PipeCreates ==
  ASSUME TableInv, NEW p \in Procs, PipeSecond(p)
  PROVE  [Streams!Next]_(Streams!streamVars)
<1>1. PICK k \in Pages : k \notin inUse /\ NewPipe(k) BY DEF PipeSecond
<1>2. /\ \A l \in Pages : l # k => nread'[l] = nread[l] /\ nwrite'[l] = nwrite[l] /\ data'[l] = data[l]
      /\ \A l \in Pages : l # k => readopen'[l] = readopen[l] /\ writeopen'[l] = writeopen[l]
      /\ \A l \in Pages : l # k => (l \in inUse' <=> l \in inUse)
      /\ k \in inUse' /\ readopen'[k] /\ writeopen'[k] /\ nread'[k] = 0 /\ nwrite'[k] = 0
  BY <1>1 DEF NewPipe, Blank, TableInv, TypeOK
<1>3. /\ [l \in Pages |-> StreamOf(l)]' = [[l \in Pages |-> StreamOf(l)] EXCEPT ![k] = StreamOf(k)']
      /\ [l \in Pages |-> OpenEnds(l)]' = [[l \in Pages |-> OpenEnds(l)] EXCEPT ![k] = OpenEnds(k)']
  BY <1>2, OneStream
<1>4. OpenEnds(k) = {} BY <1>1 DEF OpenEnds
<1>5. OpenEnds(k)' = {"read", "write"} BY <1>2 DEF OpenEnds
<1>6. StreamOf(k)' = <<>>
  <2>1. Count(k)' = Dist(0, 0) /\ 0 \in Index BY <1>2, Numbers DEF Count, Dist, Index
  <2>2. Count(k)' = 0 BY <2>1, Distance
  <2>3. Content(k)' = <<>> BY <2>2 DEF Content
  <2> QED BY <1>2, <2>3 DEF StreamOf
<1>7. Streams!Create(k) BY <1>3, <1>4, <1>5, <1>6 DEF Streams!Create, StreamOf
<1> QED BY <1>7 DEF Streams!Next

\* All other steps do not touch a stream.
LEMMA OthersStutter ==
  ASSUME UNCHANGED <<inUse, nread, nwrite, data, readopen, writeopen>>
  PROVE  UNCHANGED Streams!streamVars
<1>1. \A l \in Pages : Count(l)' = Count(l) BY DEF Count
<1>2. \A l \in Pages : Content(l)' = Content(l) /\ OpenEnds(l)' = OpenEnds(l)
  BY <1>1 DEF Content, OpenEnds
<1> QED BY <1>2 DEF Streams!streamVars

\* The rings implement bounded streams: bytes come out once and in the order in which
\* they went in, through wrapped counters, shared ends, kills and pages used again.
THEOREM PipesAreStreams == Spec => ImplementsStreams
<1>1. Init => Streams!Init
  BY DEF Init, PipeInit, Streams!Init, OpenEnds
<1>2. TableInv /\ TableInv' /\ SleepersInv /\ SleepersInv' /\ [Next]_filesVars
        => [Streams!Next]_(Streams!streamVars)
  <2> SUFFICES ASSUME TableInv, TableInv', SleepersInv, SleepersInv', [Next]_filesVars
               PROVE  [Streams!Next]_(Streams!streamVars)
    OBVIOUS
  <2>1. ASSUME NEW p \in Procs, Continue(p) \/ UserCall(p) \/ KillFiles(p)
        PROVE  [Streams!Next]_(Streams!streamVars)
    <3>1. CASE PipeWriteEnds(p) \/ PipeWriteFails(p) \/ PipeWriteSleeps(p) BY <3>1, WritePuts
    <3>2. CASE PipeReadEnds(p) BY <3>2, ReadTakes
    <3>3. CASE CloseEnds(p) \/ ExitCloseEnds(p) BY <3>3, CloseCloses
    <3>4. CASE PipeSecond(p) BY <3>4, PipeCreates
    <3>5. CASE \/ PipeReadSleeps(p) \/ PipeReadFails(p) \/ PipeBad(p) \/ ExitClose(p) \/ ExitEnds(p)
               \/ UserCall(p) \/ KillFiles(p)
      <4>1. UNCHANGED <<inUse, nread, nwrite, data, readopen, writeopen>>
        BY <3>5 DEF PipeReadSleeps, PipeReadFails, PipeBad, ExitClose, ExitEnds, UserCall, PipeFirst,
                    Dup, Close, Exit, Read, Write, Begin, Fork, KillFiles, Kill, pipes, pipeVars
      <4> QED BY <4>1, OthersStutter
    <3> QED BY <2>1, <3>1, <3>2, <3>3, <3>4, <3>5 DEF Continue, PipeStep, PipeCall
  <2>2. CASE UNCHANGED filesVars
    BY <2>2, OthersStutter DEF filesVars, pipeVars, pipes
  <2> QED BY <2>1, <2>2 DEF Next
<1>3. Init => TableInv /\ SleepersInv BY TableInit, SleepersInit
<1>4. TableInv /\ SleepersInv /\ [Next]_filesVars => (TableInv /\ SleepersInv)'
  BY TableStep, SleepersStep
<1> QED BY <1>1, <1>2, <1>3, <1>4, PTL DEF Spec, ImplementsStreams, Streams!Spec
=============================================================================
