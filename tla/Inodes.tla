------------------------------- MODULE Inodes --------------------------------
(***************************************************************************)
(* Inodes, directories and path names (fs.c) under the calls of sysfile.c: *)
(* open, create, mkdir, link, unlink, chdir, write and close, of processes *)
(* that run them at the same time.                                         *)
(*                                                                         *)
(* A step goes from one lock that may have to be waited for, or one hold   *)
(* of icache.lock, to the next.  A sleep lock that is taken and released   *)
(* within a step is only waited for.  lock[i] is the holder of an inode    *)
(* that stays locked.  A process in a call has its registers in st[p]: cur *)
(* is the inode the path walk has come to, later ip or dp of the code;     *)
(* drop is what it still has to iput before it goes on at then.            *)
(*                                                                         *)
(* Calls are inside a log operation (module Log); block contents go        *)
(* through the buffer cache (module Buffers) and are the same for all.     *)
(* There is one device, and no call in the model has an empty path.        *)
(***************************************************************************)
EXTENDS Naturals, Sequences, FiniteSets, FiniteSetsExt

CONSTANTS Procs,
          Names,        \* names of directory entries other than the two dots
          NINODES,      \* inodes of the disk
          NBLOCKS,      \* its data blocks
          NDIRECT, NINDIRECT,
          Calls, Links  \* bound: <<p, op, path>> and <<p, old, new>> that p may call

Inums   == 1 .. NINODES
Blocks  == 1 .. NBLOCKS
ROOTINO == 1
None    == 0
Dots    == {".", ".."}
Nobody  == "nobody"
Paths   == Seq(Names \cup Dots) \ {<<>>}
OnPaths == {"open", "openr", "chdir", "create", "mkdir", "unlink"}

ASSUME InodesAssumption ==
         /\ IsFiniteSet(Procs) /\ Procs # {} /\ Nobody \notin Procs
         /\ IsFiniteSet(Names) /\ Names \cap Dots = {}
         /\ NINODES \in Nat \ {0} /\ NBLOCKS \in Nat \ {0}
         /\ NDIRECT \in Nat \ {0} /\ NINDIRECT \in Nat \ {0}
         /\ \A c \in Calls : c[2] \in OnPaths /\ c[3] \in Paths
         /\ \A l \in Links : l[2] \in Paths /\ l[3] \in Paths

VARIABLES
  disk,      \* per inode: what its struct dinode says
  mem,       \* per inode: what its entry of the cache says, or Invalid
  ref,       \* its references
  lock,      \* who keeps it locked
  entries,   \* contents of directories: an inode per name, or None
  indirect,  \* per block: the addresses in it, while it is an indirect block
  bitmap,    \* blocks in use
  cwd, file, \* per process: its directory, and an open file or None
  writable,  \* whether that file was opened for writing
  st,        \* registers of the call it is in
  orphans    \* observed: inodes whose last name went with its directory

blockVars == <<indirect, bitmap>>
procVars  == <<cwd, file, writable>>
inodeVars == <<disk, mem, ref, lock, entries, blockVars, procVars, st, orphans>>

NoBlocks  == [n \in 0 .. NDIRECT |-> None]
Blank     == [type |-> "free", nlink |-> 0, addrs |-> NoBlocks]
Invalid   == [Blank EXCEPT !.type = "invalid"]
NoEntries == [n \in Names \cup Dots |-> None]
NoSlots   == [n \in NDIRECT .. NDIRECT + NINDIRECT - 1 |-> None]
AtRest    == [at |-> "user", op |-> "none", cur |-> None, rest |-> <<>>, new |-> <<>>,
              name |-> ".", ip |-> None, drop |-> <<>>, then |-> "user"]

\* mkfs leaves the root directory; everybody is in it.
Init ==
  /\ disk = [i \in Inums |-> IF i = ROOTINO
                             THEN [type |-> "dir", nlink |-> 1,
                                   addrs |-> [NoBlocks EXCEPT ![0] = 1]]
                             ELSE Blank]
  /\ mem = [i \in Inums |-> Invalid]
  /\ ref = [i \in Inums |-> IF i = ROOTINO THEN Cardinality(Procs) ELSE 0]
  /\ lock = [i \in Inums |-> Nobody]
  /\ entries = [i \in Inums |-> IF i = ROOTINO
                                THEN [NoEntries EXCEPT !["."] = ROOTINO, ![".."] = ROOTINO]
                                ELSE NoEntries]
  /\ indirect = [b \in Blocks |-> NoSlots]
  /\ bitmap = {1}
  /\ cwd = [p \in Procs |-> ROOTINO]
  /\ file = [p \in Procs |-> None]
  /\ writable = [p \in Procs |-> FALSE]
  /\ st = [p \in Procs |-> AtRest]
  /\ orphans = {}

-----------------------------------------------------------------------------
(* The inode cache *)

\* ilock: the inode can be locked, and this is what it then says.  (It panics when that
\* is nothing: the directory ".." names may be gone.)
Free(i)     == lock[i] = Nobody
Inode(i)    == IF mem[i] = Invalid THEN disk[i] ELSE mem[i]
Lockable(i) == Free(i) /\ Inode(i).type # "free"

\* iget and idup: an entry that is recycled is not valid.
Get(i, cached) == /\ ref' = [ref EXCEPT ![i] = @ + 1]
                  /\ mem' = IF ref[i] = 0 THEN [cached EXCEPT ![i] = Invalid] ELSE cached

\* The cache after ilock(i) has read the inode.
Read(i) == [mem EXCEPT ![i] = Inode(i)]

\* A field is changed, and iupdate writes the inode through.
Update(changed) == /\ mem' = [i \in Inums |-> IF i \in DOMAIN changed THEN changed[i] ELSE mem[i]]
                   /\ disk' = [i \in Inums |-> IF i \in DOMAIN changed THEN changed[i] ELSE disk[i]]

\* Registers.
Go(p, regs) == st' = [st EXCEPT ![p] = regs] /\ UNCHANGED orphans
At(p, point) == st[p].at = point

\* The call iputs what is in the given registers, in turn, and goes on at point; "user"
\* ends it.  Registers and drop hold an inode as often as the process refers to it.
DropCur(r, point) ==
  [r EXCEPT !.cur = None, !.at = "put", !.drop = <<r.cur>>, !.then = point]
DropIp(r, point) ==
  [r EXCEPT !.ip = None, !.at = "put", !.drop = <<r.ip>>, !.then = point]

-----------------------------------------------------------------------------
(* Blocks of an inode: balloc, bmap, itrunc *)

NewBlock == Min(Blocks \ bitmap)

\* The blocks of an inode: those of the file, in order, and the indirect one.
MAXFILE == NDIRECT + NINDIRECT
BlockAt(d, n) == CASE n < NDIRECT -> d.addrs[n]
                   [] n = MAXFILE -> d.addrs[NDIRECT]
                   [] OTHER -> IF d.addrs[NDIRECT] = None THEN None
                               ELSE indirect[d.addrs[NDIRECT]][n]

\* bfree of the blocks of an inode.
Addrs(d) == {BlockAt(d, n) : n \in 0 .. MAXFILE} \ {None}

Size(d) == Min({n \in 0 .. MAXFILE : n = MAXFILE \/ BlockAt(d, n) = None})

\* Seeded fault: other references are not looked at.
Doomed_AnyRef(i) == mem[i] # Invalid /\ mem[i].nlink = 0

\* iput: the last reference to an inode without a name.  The lock is taken, the count
\* read and icache.lock given back.
Doomed(i) == mem[i] # Invalid /\ mem[i].nlink = 0 /\ ref[i] = 1

Put(p) ==
  /\ At(p, "put")
  /\ LET i == Head(st[p].drop) IN
       /\ Free(i)
       /\ IF Doomed(i)
          THEN /\ lock' = [lock EXCEPT ![i] = p]
               /\ Go(p, [st[p] EXCEPT !.at = "free"])
          ELSE /\ Go(p, [st[p] EXCEPT !.at = "unref"])
               /\ UNCHANGED lock
  /\ UNCHANGED <<disk, mem, ref, entries, blockVars, procVars>>

\* Seeded fault: the indirect block is not freed.
FreeIt_NoIndirect(p) ==
  /\ At(p, "free")
  /\ LET i == Head(st[p].drop) IN
       /\ bitmap' = bitmap \ (Addrs(mem[i]) \ {mem[i].addrs[NDIRECT]})
       /\ entries' = [entries EXCEPT ![i] = NoEntries]
       /\ Update([j \in {i} |-> Blank])
       /\ orphans' = orphans \cup ({entries[i][n] : n \in Names} \ {None})
  /\ st' = [st EXCEPT ![p].at = "invalidate"]
  /\ UNCHANGED <<ref, lock, indirect, procVars>>

\* itrunc, and the type on disk is cleared.
FreeIt(p) ==
  /\ At(p, "free")
  /\ LET i == Head(st[p].drop) IN
       /\ bitmap' = bitmap \ Addrs(mem[i])
       /\ entries' = [entries EXCEPT ![i] = NoEntries]
       /\ Update([j \in {i} |-> Blank])
       /\ orphans' = orphans \cup ({entries[i][n] : n \in Names} \ {None})
  /\ st' = [st EXCEPT ![p].at = "invalidate"]
  /\ UNCHANGED <<ref, lock, indirect, procVars>>

Invalidate(p) ==
  /\ At(p, "invalidate")
  /\ mem' = [mem EXCEPT ![Head(st[p].drop)] = Invalid]
  /\ lock' = [lock EXCEPT ![Head(st[p].drop)] = Nobody]
  /\ Go(p, [st[p] EXCEPT !.at = "unref"])
  /\ UNCHANGED <<disk, ref, entries, blockVars, procVars>>

Unref(p) ==
  /\ At(p, "unref")
  /\ ref' = [ref EXCEPT ![Head(st[p].drop)] = @ - 1]
  /\ LET left == Tail(st[p].drop) IN
       Go(p, IF left # <<>> THEN [st[p] EXCEPT !.at = "put", !.drop = left]
             ELSE IF st[p].then = "user" THEN AtRest
             ELSE [st[p] EXCEPT !.at = st[p].then, !.drop = left, !.then = "user"])
  /\ UNCHANGED <<disk, mem, lock, entries, blockVars, procVars>>

-----------------------------------------------------------------------------
(* namex: one round of its loop *)

\* The calls that stop at the parent directory.
ToParent == {"create", "mkdir", "unlink", "relink"}

\* link that does not find the directory takes its nlink++ back.
Failed(op) == IF op = "relink" THEN "linkbad" ELSE "user"

Walk(p) ==
  /\ At(p, "walk")
  /\ LET r == st[p]
         i == r.cur
         n == Head(r.rest)
         next == entries[i][n] IN
       /\ Lockable(i)
       /\ \/ /\ Inode(i).type # "dir"
             /\ Go(p, DropCur(r, Failed(r.op)))
             /\ mem' = Read(i)
             /\ UNCHANGED ref
          \/ /\ Inode(i).type = "dir" /\ r.op \in ToParent /\ Len(r.rest) = 1
             /\ Go(p, [r EXCEPT !.at = r.op, !.name = n, !.rest = <<>>])
             /\ mem' = Read(i)
             /\ UNCHANGED ref
          \/ /\ Inode(i).type = "dir" /\ ~(r.op \in ToParent /\ Len(r.rest) = 1)
             /\ IF next = None
                THEN /\ Go(p, DropCur(r, Failed(r.op)))
                     /\ mem' = Read(i)
                     /\ UNCHANGED ref
                ELSE /\ Get(next, Read(i))
                     /\ Go(p, [DropCur(r, IF Len(r.rest) = 1 THEN r.op ELSE "walk")
                                 EXCEPT !.cur = next, !.rest = Tail(@)])
  /\ UNCHANGED <<disk, lock, entries, blockVars, procVars>>

\* A path begins at the root or in the process' directory.
Starts(p) == {ROOTINO, cwd[p]}

Begin(p, op, path, new) ==
  /\ At(p, "user")
  /\ \E i \in Starts(p) :
       /\ Get(i, mem)
       /\ Go(p, [AtRest EXCEPT !.at = "walk", !.op = op, !.cur = i, !.rest = path, !.new = new])
  /\ UNCHANGED <<disk, lock, entries, blockVars, procVars>>

-----------------------------------------------------------------------------
(* open of an existing file, chdir, close, write *)

\* fdalloc: the model's processes have one descriptor.
Opened(p, i, w) == /\ file' = [file EXCEPT ![p] = i]
                   /\ writable' = [writable EXCEPT ![p] = w]
                   /\ Go(p, AtRest)
                   /\ UNCHANGED cwd
HasFd(p) == file[p] = None

\* "open" is O_RDWR, "openr" is O_RDONLY.
Open(p) ==
  /\ st[p].at \in {"open", "openr"}
  /\ LET i == st[p].cur IN
       /\ Lockable(i)
       /\ mem' = Read(i)
       /\ IF HasFd(p) /\ ~(Inode(i).type = "dir" /\ st[p].op = "open")
          THEN Opened(p, i, st[p].op = "open")
          ELSE Go(p, DropCur(st[p], "user")) /\ UNCHANGED procVars
  /\ UNCHANGED <<disk, ref, lock, entries, blockVars>>

Chdir(p) ==
  /\ At(p, "chdir")
  /\ LET i == st[p].cur IN
       /\ Lockable(i)
       /\ mem' = Read(i)
       /\ IF Inode(i).type = "dir"
          THEN /\ Go(p, [st[p] EXCEPT !.at = "put", !.drop = <<cwd[p]>>, !.then = "moved"])
               /\ cwd' = [cwd EXCEPT ![p] = None]
          ELSE /\ Go(p, DropCur(st[p], "user"))
               /\ UNCHANGED cwd
  /\ UNCHANGED <<disk, ref, lock, entries, blockVars, file, writable>>

Moved(p) == /\ At(p, "moved")
            /\ cwd' = [cwd EXCEPT ![p] = st[p].cur]
            /\ Go(p, AtRest)
            /\ UNCHANGED <<disk, mem, ref, lock, entries, blockVars, file, writable>>

Close(p) == /\ At(p, "user") /\ file[p] # None
            /\ file' = [file EXCEPT ![p] = None]
            /\ writable' = [writable EXCEPT ![p] = FALSE]
            /\ Go(p, [AtRest EXCEPT !.at = "put", !.drop = <<file[p]>>])
            /\ UNCHANGED <<disk, mem, ref, lock, entries, blockVars, cwd>>

\* writei of one block at the end of the file; bmap allocates, the indirect block first.
\* (balloc panics when there is no block.)
Write(p) ==
  /\ At(p, "user") /\ file[p] # None /\ writable[p]
  /\ LET i == file[p]
         d == Inode(i)
         n == Size(d)
         b == NewBlock
         c == Min(Blocks \ (bitmap \cup {b})) IN
       /\ Lockable(i) /\ n < MAXFILE
       /\ \/ /\ n < NDIRECT /\ bitmap # Blocks
             /\ Update([j \in {i} |-> [d EXCEPT !.addrs[n] = b]])
             /\ bitmap' = bitmap \cup {b}
             /\ UNCHANGED indirect
          \/ /\ n >= NDIRECT /\ d.addrs[NDIRECT] = None
             /\ Cardinality(Blocks \ bitmap) >= 2
             /\ Update([j \in {i} |-> [d EXCEPT !.addrs[NDIRECT] = b]])
             /\ bitmap' = bitmap \cup {b, c}
             /\ indirect' = [indirect EXCEPT ![b] = [NoSlots EXCEPT ![n] = c]]
          \/ /\ n >= NDIRECT /\ d.addrs[NDIRECT] # None /\ bitmap # Blocks
             /\ Update([j \in {i} |-> d])
             /\ bitmap' = bitmap \cup {b}
             /\ indirect' = [indirect EXCEPT ![d.addrs[NDIRECT]][n] = b]
  /\ UNCHANGED <<ref, lock, entries, procVars, st, orphans>>

-----------------------------------------------------------------------------
(* create, for open with O_CREATE and for mkdir *)

\* The name is there already, or ialloc takes an inode.  (It panics when there is none.)
Create(p) ==
  /\ st[p].at \in {"create", "mkdir"}
  /\ LET r == st[p]
         dp == r.cur
         i == entries[dp][r.name]
         new == Min({j \in Inums : disk[j].type = "free"}) IN
       /\ Lockable(dp)
       /\ IF i # None
          THEN /\ Get(i, Read(dp))
               /\ Go(p, [DropCur(r, "exists") EXCEPT !.ip = i])
               /\ UNCHANGED <<disk, lock>>
          ELSE /\ \E j \in Inums : disk[j].type = "free"
               /\ disk' = [disk EXCEPT ![new] = [Blank EXCEPT !.type = IF r.op = "mkdir" THEN "dir"
                                                                       ELSE "file"]]
               /\ Get(new, Read(dp))
               /\ lock' = [lock EXCEPT ![dp] = p]
               /\ Go(p, [r EXCEPT !.at = "fill", !.ip = new])
  /\ UNCHANGED <<entries, blockVars, procVars>>

Exists(p) ==
  /\ At(p, "exists")
  /\ LET i == st[p].ip IN
       /\ Lockable(i)
       /\ mem' = Read(i)
       /\ IF st[p].op = "create" /\ Inode(i).type = "file" /\ HasFd(p)
          THEN Opened(p, i, TRUE)
          ELSE Go(p, DropIp(st[p], "user")) /\ UNCHANGED procVars
  /\ UNCHANGED <<disk, ref, lock, entries, blockVars>>

\* The parent is locked: the new inode is, too, and is filled in and linked.
Fill(p) ==
  /\ At(p, "fill")
  /\ LET r == st[p]
         dp == r.cur
         i == r.ip
         linked == [entries EXCEPT ![dp][r.name] = i] IN
       /\ Lockable(i)
       /\ IF r.op = "mkdir"
          THEN /\ bitmap # Blocks
               /\ Update([j \in {i, dp} |->
                            IF j = i THEN [Inode(i) EXCEPT !.nlink = 1, !.addrs[0] = NewBlock]
                            ELSE [Inode(dp) EXCEPT !.nlink = @ + 1]])
               /\ bitmap' = bitmap \cup {NewBlock}
               /\ entries' = [linked EXCEPT ![i] = [@ EXCEPT !["."] = i, ![".."] = dp]]
          ELSE /\ Update([j \in {i} |-> [Inode(i) EXCEPT !.nlink = 1]])
               /\ entries' = linked
               /\ UNCHANGED bitmap
       /\ lock' = [lock EXCEPT ![dp] = Nobody, ![i] = p]
       /\ Go(p, DropCur(r, "filled"))
  /\ UNCHANGED <<ref, indirect, procVars>>

\* Seeded fault: open does not unlock the file it has made.
Filled_Locked(p) ==
  /\ At(p, "filled")
  /\ LET i == st[p].ip IN
       IF st[p].op = "create" /\ HasFd(p)
       THEN Opened(p, i, TRUE) /\ UNCHANGED lock
       ELSE /\ lock' = [lock EXCEPT ![i] = Nobody]
            /\ Go(p, DropIp(st[p], "user")) /\ UNCHANGED procVars
  /\ UNCHANGED <<disk, mem, ref, entries, blockVars>>

Filled(p) ==
  /\ At(p, "filled")
  /\ LET i == st[p].ip IN
       /\ lock' = [lock EXCEPT ![i] = Nobody]
       /\ IF st[p].op = "create" /\ HasFd(p)
          THEN Opened(p, i, TRUE)
          ELSE Go(p, DropIp(st[p], "user")) /\ UNCHANGED procVars
  /\ UNCHANGED <<disk, mem, ref, entries, blockVars>>

-----------------------------------------------------------------------------
(* sys_unlink *)

\* The parent is locked, and stays so if the name is there.
Unlink(p) ==
  /\ At(p, "unlink")
  /\ LET r == st[p]
         dp == r.cur
         i == entries[dp][r.name] IN
       /\ Lockable(dp)
       /\ IF r.name \in Dots \/ i = None
          THEN /\ mem' = Read(dp)
               /\ Go(p, DropCur(r, "user"))
               /\ UNCHANGED <<ref, lock>>
          ELSE /\ Get(i, Read(dp))
               /\ lock' = [lock EXCEPT ![dp] = p]
               /\ Go(p, [r EXCEPT !.at = "unlink2", !.ip = i])
  /\ UNCHANGED <<disk, entries, blockVars, procVars>>

IsDirEmpty(i) == \A n \in Names : entries[i][n] = None

UnlinkNonempty(p) ==
  /\ At(p, "unlink2")
  /\ LET i == st[p].ip IN
       /\ Lockable(i) /\ Inode(i).type = "dir" /\ ~IsDirEmpty(i)
       /\ mem' = Read(i)
       /\ Go(p, DropIp(st[p], "unlinkbad"))
  /\ UNCHANGED <<disk, ref, lock, entries, blockVars, procVars>>

UnlinkBad(p) == /\ At(p, "unlinkbad")
                /\ lock' = [lock EXCEPT ![st[p].cur] = Nobody]
                /\ Go(p, DropCur(st[p], "user"))
                /\ UNCHANGED <<disk, mem, ref, entries, blockVars, procVars>>

\* The entry is erased; the parent is unlocked and put while ip is locked.
UnlinkEntry(p) ==
  /\ At(p, "unlink2")
  /\ LET r == st[p]
         dp == r.cur
         i == r.ip IN
       /\ Lockable(i) /\ ~(Inode(i).type = "dir" /\ ~IsDirEmpty(i))
       /\ entries' = [entries EXCEPT ![dp][r.name] = None]
       /\ IF Inode(i).type = "dir"
          THEN Update([j \in {i, dp} |-> IF j = i THEN Inode(i)
                                         ELSE [Inode(dp) EXCEPT !.nlink = @ - 1]])
          ELSE mem' = Read(i) /\ UNCHANGED disk
       /\ lock' = [lock EXCEPT ![dp] = Nobody, ![i] = p]
       /\ Go(p, DropCur(r, "unlink3"))
  /\ UNCHANGED <<ref, blockVars, procVars>>

UnlinkInode(p) ==
  /\ At(p, "unlink3")
  /\ LET i == st[p].ip IN
       /\ Update([j \in {i} |-> [Inode(i) EXCEPT !.nlink = @ - 1]])
       /\ lock' = [lock EXCEPT ![i] = Nobody]
       /\ Go(p, DropIp(st[p], "user"))
  /\ UNCHANGED <<ref, entries, blockVars, procVars>>

-----------------------------------------------------------------------------
(* sys_link *)

\* The old name is found: count, then look for the new one's directory.
Link(p) ==
  /\ At(p, "link")
  /\ LET r == st[p]
         i == r.cur IN
       /\ Lockable(i)
       /\ IF Inode(i).type = "dir"
          THEN /\ mem' = Read(i)
               /\ Go(p, DropCur(r, "user"))
               /\ UNCHANGED disk
          ELSE /\ Update([j \in {i} |-> [Inode(i) EXCEPT !.nlink = @ + 1]])
               /\ Go(p, [r EXCEPT !.at = "linkwalk", !.ip = i, !.cur = None])
  /\ UNCHANGED <<ref, lock, entries, blockVars, procVars>>

LinkWalk(p) ==
  /\ At(p, "linkwalk")
  /\ \E i \in Starts(p) :
       /\ Get(i, mem)
       /\ Go(p, [st[p] EXCEPT !.at = "walk", !.op = "relink", !.cur = i,
                            !.rest = st[p].new, !.new = <<>>])
  /\ UNCHANGED <<disk, lock, entries, blockVars, procVars>>

\* dirlink: a name that is there is looked up and put, with the directory locked.
Relink(p) ==
  /\ At(p, "relink")
  /\ LET r == st[p]
         dp == r.cur
         there == entries[dp][r.name] IN
       /\ Lockable(dp)
       /\ IF there # None
          THEN /\ Get(there, Read(dp))
               /\ lock' = [lock EXCEPT ![dp] = p]
               /\ Go(p, [r EXCEPT !.at = "put", !.drop = <<there>>, !.then = "linked"])
               /\ UNCHANGED entries
          ELSE /\ mem' = Read(dp)
               /\ entries' = [entries EXCEPT ![dp][r.name] = r.ip]
               /\ Go(p, [DropCur(r, "user") EXCEPT !.ip = None, !.drop = <<dp, r.ip>>])
               /\ UNCHANGED <<ref, lock>>
  /\ UNCHANGED <<disk, blockVars, procVars>>

\* dirlink has failed.
Linked(p) == /\ At(p, "linked")
             /\ lock' = [lock EXCEPT ![st[p].cur] = Nobody]
             /\ Go(p, DropCur(st[p], "linkbad"))
             /\ UNCHANGED <<disk, mem, ref, entries, blockVars, procVars>>

\* Seeded fault: the count is not taken back.
LinkBad_Counted(p) ==
  /\ At(p, "linkbad")
  /\ LET i == st[p].ip IN
       /\ Lockable(i)
       /\ Update([j \in {i} |-> Inode(i)])
       /\ Go(p, DropIp(st[p], "user"))
  /\ UNCHANGED <<ref, lock, entries, blockVars, procVars>>

LinkBad(p) ==
  /\ At(p, "linkbad")
  /\ LET i == st[p].ip IN
       /\ Lockable(i)
       /\ Update([j \in {i} |-> [Inode(i) EXCEPT !.nlink = @ - 1]])
       /\ Go(p, DropIp(st[p], "user"))
  /\ UNCHANGED <<ref, lock, entries, blockVars, procVars>>

-----------------------------------------------------------------------------
Call(p) == \/ \E c \in Calls : c[1] = p /\ Begin(p, c[2], c[3], <<>>)
           \/ \E l \in Links : l[1] = p /\ Begin(p, "link", l[2], l[3])
           \/ Close(p) \/ Write(p)

Continue(p) == \/ Put(p) \/ FreeIt(p) \/ Invalidate(p) \/ Unref(p)
               \/ Walk(p) \/ Open(p) \/ Chdir(p) \/ Moved(p)
               \/ Create(p) \/ Exists(p) \/ Fill(p) \/ Filled(p)
               \/ Unlink(p) \/ UnlinkNonempty(p) \/ UnlinkBad(p) \/ UnlinkEntry(p) \/ UnlinkInode(p)
               \/ Link(p) \/ LinkWalk(p) \/ Relink(p) \/ Linked(p) \/ LinkBad(p)

Next == \E p \in Procs : Call(p) \/ Continue(p)

Spec == Init /\ [][Next]_inodeVars

-----------------------------------------------------------------------------
(* Properties *)

\* Where a process keeps references to inodes: its directory, its open file, the
\* registers and the (at most two) inodes it is about to put.
Places     == {"cwd", "file", "cur", "ip", "put", "next"}
Held(p, f) == CASE f = "cwd"  -> cwd[p]
                [] f = "file" -> file[p]
                [] f = "put"  -> IF Len(st[p].drop) >= 1 THEN st[p].drop[1] ELSE None
                [] f = "next" -> IF Len(st[p].drop) >= 2 THEN st[p].drop[2] ELSE None
                [] OTHER -> st[p][f]
RefsTo(i)  == {s \in Procs \X Places : Held(s[1], s[2]) = i}

InodeType == [type : {"free", "invalid", "dir", "file"}, nlink : Nat,
              addrs : [0 .. NDIRECT -> Blocks \cup {None}]]
Points    == OnPaths \cup {"user", "walk", "put", "free", "invalidate", "unref", "moved", "exists",
                "fill", "filled", "unlink2", "unlinkbad", "unlink3", "link", "linkwalk", "relink",
                "linked", "linkbad"}
Registers == [at : Points, op : OnPaths \cup {"none", "link", "relink"},
              cur : Inums \cup {None}, ip : Inums \cup {None}, drop : Seq(Inums),
              rest : Seq(Names \cup Dots), new : Seq(Names \cup Dots), name : Names \cup Dots,
              then : Points]

TypeOK ==
  /\ disk \in [Inums -> InodeType] /\ mem \in [Inums -> InodeType]
  /\ ref \in [Inums -> Nat] /\ lock \in [Inums -> Procs \cup {Nobody}]
  /\ entries \in [Inums -> [Names \cup Dots -> Inums \cup {None}]]
  /\ indirect \in [Blocks -> [DOMAIN NoSlots -> Blocks \cup {None}]]
  /\ bitmap \subseteq Blocks
  /\ cwd \in [Procs -> Inums \cup {None}] /\ file \in [Procs -> Inums \cup {None}]
  /\ writable \in [Procs -> BOOLEAN]
  /\ st \in [Procs -> Registers] /\ \A p \in Procs : Len(st[p].drop) <= 2
  /\ orphans \subseteq Inums

\* The references of an inode are those processes have: open files, directories they
\* are in, and what calls in progress have come to.
RefsCounted == TypeOK /\ \A i \in Inums : ref[i] = Cardinality(RefsTo(i))

\* Entries that name an inode.
NamesOf(i) == {s \in Inums \X Names : entries[s[1]][s[2]] = i}
\* Directories below it, and the root itself.
SubDirs(i) == {d \in Inums : entries[d][".."] = i /\ (d = ROOTINO \/ NamesOf(d) # {})}
\* Calls between a change of the directory and the one of the link count.
Linking(i) == {p \in Procs : st[p].ip = i /\ (st[p].op = "relink" \/ st[p].at = "linkwalk")}
Unlinking(i) == {p \in Procs : st[p].ip = i /\ "unlink3" \in {st[p].at, st[p].then}}

\* An inode's link count is the number of entries that name it and, for a directory,
\* of directories in it, whatever calls run at the same time.  One kind of inode is
\* excepted: the code lets a process make a file in a directory that has been removed
\* while the process is in it or on its way there, and the file loses its name with the
\* directory.  And it holds only until somebody goes up from a removed directory whose
\* parent is gone, too: that inode may be free, or be made into another one meanwhile,
\* and a link count may then be overwritten.  The run's calls do not go there, and the
\* theorems have it as a hypothesis.
LinksCounted ==
  \A i \in Inums \ orphans :
    disk[i].nlink = Cardinality(NamesOf(i)) + Cardinality(SubDirs(i))
                      + Cardinality(Linking(i)) + Cardinality(Unlinking(i))

\* The counts of an inode say who needs it: those that hold it, and those that name it.
CountsAgree == RefsCounted /\ LinksCounted

\* Every block in use belongs to one inode, at one place of it, and no other is in use.
BlocksOwned ==
  /\ bitmap = UNION {Addrs(disk[i]) : i \in Inums}
  /\ \A i \in Inums, m \in 0 .. MAXFILE : BlockAt(disk[i], m) # None =>
       \A j \in Inums, n \in 0 .. MAXFILE : BlockAt(disk[i], m) = BlockAt(disk[j], n) => i = j /\ m = n

\* The lock a process goes for next.
Wants(p) == CASE st[p].at = "put" -> Head(st[p].drop)
              [] st[p].at \in {"exists", "fill", "unlink2", "linkbad"} -> st[p].ip
              [] st[p].at \in {"walk", "open", "openr", "chdir", "create", "mkdir", "unlink",
                               "link", "relink"} -> st[p].cur
              [] OTHER -> None
WaitsFor(p, q) == Wants(p) # None /\ lock[Wants(p)] = q

\* The processes of S wait for each other's inodes in a circle, or one for itself.
Circle(S) == \A p \in S : \E q \in S : WaitsFor(p, q)

\* In every circle some process waits to iput an inode while it keeps another one
\* locked: the walks along paths, and the locking of a directory before what it names,
\* do not deadlock by themselves.
OnlyPutsDeadlock == \A S \in (SUBSET Procs) \ {{}} :
                      Circle(S) => \E p \in S : At(p, "put") /\ \E i \in Inums : lock[i] = p

-----------------------------------------------------------------------------
\* An inode counts as free until it has its first name.
InTheMaking(i) == \E p \in Procs : At(p, "fill") /\ st[p].ip = i
KindOf(i) == IF InTheMaking(i) THEN "free" ELSE disk[i].type
\* References that are not on the way out.
Leaving(p, f) == f = "put" /\ st[p].at \in {"free", "invalidate", "unref"}
Uses(p, i) == \E f \in Places : /\ Held(p, f) = i
                              /\ ~Leaving(p, f) /\ ~(f = "ip" /\ At(p, "fill"))
InUse(i)   == \E p \in Procs : Uses(p, i)

TreeKinds == [i \in Inums |-> KindOf(i)]
TreeNames == [i \in Inums |-> [n \in Names |-> entries[i][n]]]
TreeUsed  == {i \in Inums : InUse(i)}
Tree == INSTANCE FileTree WITH Nodes <- Inums, Root <- ROOTINO,
                               kind <- TreeKinds, names <- TreeNames, used <- TreeUsed

\* The calls of different processes, interleaved at every lock, add and remove one name
\* at a time, remove no directory with something in it, and never free what has a name
\* or is in use.
ImplementsFileTree == Tree!Spec

=============================================================================
