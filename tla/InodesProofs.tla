---------------------------- MODULE InodesProofs ----------------------------
EXTENDS Inodes, TLAPS, FiniteSetTheorems, SequenceTheorems, NaturalsInduction, WellFoundedInduction

-----------------------------------------------------------------------------
(* The registers of a call *)

Puts   == {"put", "free", "invalidate", "unref"}
AtPath == OnPaths \cup {"link", "relink"}

\* Where a call is, or will be when it has put what it has to put.
Point(r) == IF r.at \in Puts THEN r.then ELSE r.at

\* What the registers hold tells where the call is; c is the directory of the process.
RegsOK(r, c) ==
  LET x == Point(r) IN
  /\ r.drop = <<>> <=> r.at \notin Puts
  /\ r.at \notin Puts => r.then = "user"
  /\ r.at \in Puts => x \in AtPath \cup {"user", "walk", "moved", "exists", "filled", "unlinkbad",
                                        "unlink3", "linked", "linkbad"}
  /\ r.cur # None <=> x \in AtPath \cup {"walk", "moved", "fill", "unlink2", "unlinkbad", "linked"}
  /\ r.ip # None <=> \/ x \in {"exists", "fill", "filled", "unlink2", "unlink3", "linkwalk",
                               "linked", "linkbad"}
                     \/ x \in {"walk", "relink"} /\ r.op = "relink"
  /\ c = None <=> x = "moved"
  /\ x \in AtPath => r.op = x
  /\ x = "walk" => r.op # "none" /\ r.rest # <<>>
  /\ x \in {"exists", "fill", "filled"} => r.op \in {"create", "mkdir"}
  /\ x \in {"unlink2", "unlink3", "unlinkbad"} => r.op = "unlink"
  /\ x \in {"linked", "linkbad"} => r.op = "relink"
  /\ x = "linkwalk" => r.op = "link"
  /\ r.op = "link" /\ x # "user" => r.new # <<>>

\* The inodes that stay locked.
Keeps(r, i) == \/ r.at \in {"free", "invalidate"} /\ r.drop[1] = i
               \/ Point(r) \in {"fill", "unlink2", "unlinkbad", "linked"} /\ r.cur = i
               \/ Point(r) \in {"filled", "unlink3"} /\ r.ip = i

\* The inode a call is making, the one it is linking and the one it has unlinked.
Making(r)   == IF r.at = "fill" THEN r.ip ELSE None
LinkTo(r)   == IF r.op = "relink" \/ r.at = "linkwalk" THEN r.ip ELSE None
UnlinkTo(r) == IF "unlink3" \in {r.at, r.then} THEN r.ip ELSE None

First(d)  == IF Len(d) >= 1 THEN d[1] ELSE None
Second(d) == IF Len(d) >= 2 THEN d[2] ELSE None
One(b)    == IF b THEN 1 ELSE 0

\* How often a process refers to an inode, with directory c and open file h, and whether
\* it needs it.
Refers(r, c, h, i) == One(c = i) + One(h = i) + One(r.cur = i) + One(r.ip = i)
                        + One(First(r.drop) = i) + One(Second(r.drop) = i)
Needs(r, c, h, i) == \/ i \in {c, h, r.cur, Second(r.drop)}
                     \/ (i = r.ip /\ r.at # "fill")
                     \/ (i = First(r.drop) /\ r.at \notin {"free", "invalidate", "unref"})

\* What a call knows of the inodes it has come to.
Knows(r) ==
  /\ Point(r) \in {"create", "mkdir", "unlink", "relink", "fill", "unlink2", "unlinkbad", "linked"}
       => disk[r.cur].type = "dir"
  /\ LinkTo(r) # None => disk[r.ip].type = "file"
  /\ r.at = "unlink2" => r.name \in Names /\ entries[r.cur][r.name] = r.ip
  /\ r.at = "fill" => /\ r.name \in Names /\ entries[r.cur][r.name] = None
                      /\ disk[r.ip].type = IF r.op = "mkdir" THEN "dir" ELSE "file"

-----------------------------------------------------------------------------
(* The invariant *)

RegsInv  == \A p \in Procs : RegsOK(st[p], cwd[p])
KnowsInv == \A p \in Procs : Knows(st[p])
LockInv  == \A p \in Procs, i \in Inums : lock[i] = p <=> Keeps(st[p], i)

\* The cache agrees with the disk, but for the moment when an inode is freed.
CacheInv == \A i \in Inums : \/ mem[i] = Invalid
                             \/ mem[i] = disk[i] /\ disk[i].type # "free"
                             \/ \E p \in Procs : st[p].at = "invalidate" /\ st[p].drop[1] = i
FreeingInv == \A p \in Procs : st[p].at = "free" =>
                 LET i == st[p].drop[1] IN ref[i] = 1 /\ mem[i] # Invalid /\ mem[i].nlink = 0

\* Nobody has come to an inode that is free or in the making.
Fresh(i) == disk[i].type = "free" \/ InTheMaking(i)
FreshInv ==
  /\ \A i \in Inums : Fresh(i) =>
       /\ disk[i].nlink = 0 /\ disk[i].addrs = NoBlocks
       /\ entries[i] = NoEntries /\ NamesOf(i) = {} /\ i \notin orphans
       /\ ~InUse(i)
  /\ \A p \in Procs : st[p].at = "invalidate" => Fresh(st[p].drop[1])
  /\ \A p, q \in Procs : Making(st[p]) = Making(st[q]) /\ Making(st[p]) # None => p = q
  /\ \A i \in Inums : disk[i].type # "invalid"

\* A directory has one name, in its parent; the root has none.  Only files lose their name
\* with their directory.
DirInv ==
  /\ disk[ROOTINO].type = "dir" /\ NamesOf(ROOTINO) = {} /\ entries[ROOTINO][".."] = ROOTINO
  /\ \A i \in Inums : entries[i] # NoEntries => disk[i].type = "dir"
  /\ \A i \in Inums : disk[i].type = "dir" /\ ~InTheMaking(i) =>
                         entries[i]["."] = i /\ entries[i][".."] # None
  /\ \A i \in Inums : disk[i].type = "dir" =>
                         \A a, b \in NamesOf(i) : a = b /\ entries[i][".."] = a[1]
  /\ \A i \in orphans : disk[i].type = "file"

Count(i) == Cardinality(NamesOf(i)) + Cardinality(SubDirs(i))
              + Cardinality(Linking(i)) + Cardinality(Unlinking(i))
LinksInv == \A i \in Inums : IF i \in orphans THEN disk[i].nlink > Count(i)
                             ELSE disk[i].nlink = Count(i)

\* No set of directories in which each has the name of another one.
NoLoops == \A D \in (SUBSET Inums) \ {{}} : \E d \in D : \A n \in Names : entries[d][n] \notin D

Inv == /\ TypeOK /\ RegsInv /\ LockInv /\ RefsCounted /\ CacheInv /\ FreeingInv /\ FreshInv
       /\ KnowsInv /\ DirInv /\ LinksInv /\ NoLoops /\ BlocksOwned

\* A directory without a name.
Removed(d) == d # ROOTINO /\ NamesOf(d) = {}

\* Whoever looks up ".." in a removed directory finds one that has a name, or a user.
LooksUp(r) == \/ r.at = "walk" /\ Head(r.rest) = ".."
              \/ r.at \in {"create", "mkdir", "relink"} /\ r.name = ".."
Steady == \A p \in Procs : LooksUp(st[p]) /\ Removed(st[p].cur) =>
            LET d == entries[st[p].cur][".."] IN ~Removed(d) \/ InUse(d)

LEMMA Sorts ==
  /\ None \notin Inums /\ ROOTINO \in Inums /\ Inums \subseteq Nat /\ Blocks \subseteq Nat
  /\ None \notin Blocks /\ Nobody \notin Procs
BY InodesAssumption DEF None, Inums, ROOTINO, Blocks

-----------------------------------------------------------------------------
(* References *)

Mine(p, i) == Refers(st[p], cwd[p], file[p], i)

\* The references of the others.
Rest(p, i) == {s \in Procs \X Places : s[1] # p /\ Held(s[1], s[2]) = i}

LEMMA AddIf ==
  ASSUME NEW S, IsFiniteSet(S), NEW x, x \notin S, NEW b \in BOOLEAN
  PROVE  /\ IsFiniteSet(IF b THEN S \cup {x} ELSE S)
         /\ Cardinality(IF b THEN S \cup {x} ELSE S) = Cardinality(S) + One(b)
         /\ Cardinality(S) \in Nat
BY FS_AddElement, FS_CardinalityType DEF One

LEMMA RefsFinite == \A i : IsFiniteSet(RefsTo(i)) /\ \A p : IsFiniteSet(Rest(p, i))
<1>1. IsFiniteSet(Places)
  <2>1. \A x, y : IsFiniteSet({x} \cup {y}) BY FS_Singleton, FS_Union
  <2>2. IsFiniteSet((({"cwd"} \cup {"file"}) \cup ({"cur"} \cup {"ip"})) \cup ({"put"} \cup {"next"}))
    BY <2>1, FS_Union
  <2>3. Places = (({"cwd"} \cup {"file"}) \cup ({"cur"} \cup {"ip"})) \cup ({"put"} \cup {"next"})
    BY DEF Places
  <2> QED BY <2>2, <2>3
<1>2. IsFiniteSet(Procs \X Places) BY <1>1, InodesAssumption, FS_Product
<1> QED BY <1>2, FS_Subset DEF RefsTo, Rest

\* All references to an inode are those of p and those of the others.
RefsAddUp == \A p \in Procs, i \in Inums :
               /\ Cardinality(RefsTo(i)) = Cardinality(Rest(p, i)) + Mine(p, i)
               /\ Cardinality(Rest(p, i)) \in Nat

LEMMA RefsSplit == RefsAddUp
<1> SUFFICES ASSUME NEW p \in Procs, NEW i \in Inums
             PROVE  /\ Cardinality(RefsTo(i)) = Cardinality(Rest(p, i)) + Mine(p, i)
                    /\ Cardinality(Rest(p, i)) \in Nat
  BY DEF RefsAddUp
<1> DEFINE H(f) == Held(p, f) = i
<1>0. PICK S0 : S0 = Rest(p, i) OBVIOUS
<1>1. PICK S1 : S1 = IF H("cwd") THEN S0 \cup {<<p, "cwd">>} ELSE S0 OBVIOUS
<1>2. PICK S2 : S2 = IF H("file") THEN S1 \cup {<<p, "file">>} ELSE S1 OBVIOUS
<1>3. PICK S3 : S3 = IF H("cur") THEN S2 \cup {<<p, "cur">>} ELSE S2 OBVIOUS
<1>4. PICK S4 : S4 = IF H("ip") THEN S3 \cup {<<p, "ip">>} ELSE S3 OBVIOUS
<1>5. PICK S5 : S5 = IF H("put") THEN S4 \cup {<<p, "put">>} ELSE S4 OBVIOUS
<1>6. PICK S6 : S6 = IF H("next") THEN S5 \cup {<<p, "next">>} ELSE S5 OBVIOUS
<1>7. \A s \in S0 : s[1] # p BY <1>0 DEF Rest
<1>8. IsFiniteSet(S0) /\ Cardinality(S0) \in Nat BY <1>0, RefsFinite, FS_CardinalityType
<1>11. IsFiniteSet(S1) /\ Cardinality(S1) = Cardinality(S0) + One(H("cwd"))
  <2>1. <<p, "cwd">> \notin S0 BY <1>7
  <2> QED BY <1>1, <1>8, <2>1, AddIf
<1>12. IsFiniteSet(S2) /\ Cardinality(S2) = Cardinality(S1) + One(H("file"))
  <2>1. <<p, "file">> \notin S1 BY <1>1, <1>7
  <2> QED BY <1>2, <1>11, <2>1, AddIf
<1>13. IsFiniteSet(S3) /\ Cardinality(S3) = Cardinality(S2) + One(H("cur"))
  <2>1. <<p, "cur">> \notin S2 BY <1>1, <1>2, <1>7
  <2> QED BY <1>3, <1>12, <2>1, AddIf
<1>14. IsFiniteSet(S4) /\ Cardinality(S4) = Cardinality(S3) + One(H("ip"))
  <2>1. <<p, "ip">> \notin S3 BY <1>1, <1>2, <1>3, <1>7
  <2> QED BY <1>4, <1>13, <2>1, AddIf
<1>15. IsFiniteSet(S5) /\ Cardinality(S5) = Cardinality(S4) + One(H("put"))
  <2>1. <<p, "put">> \notin S4 BY <1>1, <1>2, <1>3, <1>4, <1>7
  <2> QED BY <1>5, <1>14, <2>1, AddIf
<1>16. IsFiniteSet(S6) /\ Cardinality(S6) = Cardinality(S5) + One(H("next"))
  <2>1. <<p, "next">> \notin S5 BY <1>1, <1>2, <1>3, <1>4, <1>5, <1>7
  <2> QED BY <1>6, <1>15, <2>1, AddIf
<1>17. S6 = RefsTo(i)
  <2>1. ASSUME NEW s \in S6 PROVE s \in RefsTo(i)
    <3>1. \/ s \in S0 \/ \E f \in Places : s = <<p, f>> /\ H(f)
      BY <2>1, <1>1, <1>2, <1>3, <1>4, <1>5, <1>6 DEF Places
    <3> QED BY <3>1, <1>0 DEF Rest, RefsTo
  <2>2. ASSUME NEW s \in RefsTo(i) PROVE s \in S6
    <3>1. PICK q \in Procs, f \in Places : s = <<q, f>> /\ Held(q, f) = i
      BY <2>2 DEF RefsTo
    <3>2. CASE q # p
      <4>1. s \in S0 BY <3>1, <3>2, <1>0 DEF Rest
      <4> QED BY <4>1, <1>1, <1>2, <1>3, <1>4, <1>5, <1>6
    <3>3. CASE q = p
      <4>1. H(f) BY <3>1, <3>3
      <4>2. f \in {"cwd", "file", "cur", "ip", "put", "next"} BY DEF Places
      <4> QED BY <3>1, <3>3, <4>1, <4>2, <1>1, <1>2, <1>3, <1>4, <1>5, <1>6
    <3> QED BY <3>2, <3>3
  <2> QED BY <2>1, <2>2
<1>18. /\ Held(p, "cwd") = cwd[p] /\ Held(p, "file") = file[p]
       /\ Held(p, "cur") = st[p].cur /\ Held(p, "ip") = st[p].ip
       /\ Held(p, "put") = First(st[p].drop) /\ Held(p, "next") = Second(st[p].drop)
  BY DEF Held, First, Second
<1>19. \A b \in BOOLEAN : One(b) \in Nat BY DEF One
<1> HIDE DEF H
<1>20. H("cwd") \in BOOLEAN /\ H("file") \in BOOLEAN /\ H("cur") \in BOOLEAN /\ H("ip") \in BOOLEAN
       /\ H("put") \in BOOLEAN /\ H("next") \in BOOLEAN
  BY DEF H
<1>21. Cardinality(S6) = Cardinality(S0) + (One(H("cwd")) + One(H("file")) + One(H("cur")) + One(H("ip"))
                + One(H("put")) + One(H("next")))
  BY <1>8, <1>11, <1>12, <1>13, <1>14, <1>15, <1>16, <1>19, <1>20
<1>22. Mine(p, i) = One(H("cwd")) + One(H("file")) + One(H("cur")) + One(H("ip"))
                + One(H("put")) + One(H("next"))
  BY <1>18 DEF Mine, Refers, H
<1> QED BY <1>0, <1>8, <1>17, <1>21, <1>22

\* A process uses what it needs.
UsesAre == \A p \in Procs, i \in Inums : Uses(p, i) <=> Needs(st[p], cwd[p], file[p], i)

LEMMA Using == UsesAre
<1> SUFFICES ASSUME NEW p \in Procs, NEW i \in Inums
             PROVE  Uses(p, i) <=> Needs(st[p], cwd[p], file[p], i)
  BY DEF UsesAre
<1>1. /\ Held(p, "cwd") = cwd[p] /\ Held(p, "file") = file[p]
      /\ Held(p, "cur") = st[p].cur /\ Held(p, "ip") = st[p].ip
      /\ Held(p, "put") = First(st[p].drop) /\ Held(p, "next") = Second(st[p].drop)
  BY DEF Held, First, Second
<1>2. Uses(p, i) <=> \/ Held(p, "cwd") = i \/ Held(p, "file") = i \/ Held(p, "cur") = i
                     \/ (Held(p, "ip") = i /\ st[p].at # "fill")
                     \/ (Held(p, "put") = i /\ st[p].at \notin {"free", "invalidate", "unref"})
                     \/ Held(p, "next") = i
  BY DEF Uses, Places, Leaving, At
<1> QED BY <1>1, <1>2 DEF Needs

\* Where linking, unlinking and making stand for.
CallsAre == \A i \in Inums :
              /\ Linking(i) = {p \in Procs : LinkTo(st[p]) = i}
              /\ Unlinking(i) = {p \in Procs : UnlinkTo(st[p]) = i}
              /\ InTheMaking(i) <=> \E p \in Procs : Making(st[p]) = i

LEMMA Calling == CallsAre
BY Sorts DEF CallsAre, Linking, LinkTo, Unlinking, UnlinkTo, InTheMaking, Making, At

LEMMA UsingNext == UsesAre'
BY Using, PTL

LEMMA CallingNext == CallsAre'
BY Calling, PTL

-----------------------------------------------------------------------------
(* A step of p *)

\* The registers of p become r, its directory c and its open file h.
Becomes(p, r, c, h) == /\ st' = [st EXCEPT ![p] = r]
                       /\ cwd' = [cwd EXCEPT ![p] = c] /\ file' = [file EXCEPT ![p] = h]

LEMMA NewRegs ==
  ASSUME TypeOK, NEW p \in Procs, NEW r \in Registers, Len(r.drop) <= 2,
         NEW c \in Inums \cup {None}, NEW h \in Inums \cup {None}, Becomes(p, r, c, h)
  PROVE  /\ \A q \in Procs \ {p} : st'[q] = st[q] /\ cwd'[q] = cwd[q] /\ file'[q] = file[q]
         /\ st'[p] = r /\ cwd'[p] = c /\ file'[p] = h
         /\ st' \in [Procs -> Registers] /\ (\A q \in Procs : Len(st'[q].drop) <= 2)
         /\ cwd' \in [Procs -> Inums \cup {None}] /\ file' \in [Procs -> Inums \cup {None}]
BY DEF Becomes, TypeOK

\* Registers, locks and references after a step of p.
LEMMA LocalStep ==
  ASSUME RegsInv, LockInv, RefsCounted, TypeOK', NEW p \in Procs,
         NEW r \in Registers, Len(r.drop) <= 2,
         NEW c \in Inums \cup {None}, NEW h \in Inums \cup {None}, Becomes(p, r, c, h),
         RegsOK(r, c),
         \A i \in Inums : lock'[i] = p <=> Keeps(r, i),
         \A i \in Inums : \A q \in Procs \ {p} : lock'[i] = q <=> lock[i] = q,
         \A i \in Inums : ref'[i] + Mine(p, i) = ref[i] + Refers(r, c, h, i)
  PROVE  RegsInv' /\ LockInv' /\ RefsCounted'
<1>0. /\ \A q \in Procs \ {p} : st'[q] = st[q] /\ cwd'[q] = cwd[q] /\ file'[q] = file[q]
      /\ st'[p] = r /\ cwd'[p] = c /\ file'[p] = h
  BY NewRegs DEF RefsCounted
<1>1. RegsInv'
  <2> SUFFICES ASSUME NEW q \in Procs PROVE RegsOK(st'[q], cwd'[q]) BY DEF RegsInv
  <2> QED BY <1>0 DEF RegsInv
<1>2. LockInv'
  <2> SUFFICES ASSUME NEW q \in Procs, NEW i \in Inums PROVE lock'[i] = q <=> Keeps(st'[q], i)
    BY DEF LockInv
  <2>1. CASE q = p BY <1>0, <2>1
  <2>2. CASE q # p BY <1>0, <2>2 DEF LockInv
  <2> QED BY <2>1, <2>2
<1>3. \A i \in Inums : ref'[i] = Cardinality(RefsTo(i))'
  <2> TAKE i \in Inums
  <2>1. Rest(p, i)' = Rest(p, i)
    <3>1. \A s \in Procs \X Places : s[1] # p => Held(s[1], s[2])' = Held(s[1], s[2])
      BY <1>0 DEF Held
    <3> QED BY <3>1 DEF Rest
  <2>2. \A j \in Inums : Cardinality(RefsTo(j)) = Cardinality(Rest(p, j)) + Mine(p, j)
                          /\ Cardinality(Rest(p, j)) \in Nat
    BY RefsSplit DEF RefsAddUp
  <2>3. RefsAddUp' BY RefsSplit, PTL
  <2>4. Cardinality(RefsTo(i))' = Cardinality(Rest(p, i))' + Mine(p, i)'
    BY <2>3 DEF RefsAddUp
  <2>5. Mine(p, i)' = Refers(r, c, h, i) BY <1>0 DEF Mine
  <2>6. Mine(p, i) \in Nat /\ Refers(r, c, h, i) \in Nat BY DEF Mine, Refers, One
  <2>7. ref[i] \in Nat /\ ref'[i] \in Nat /\ ref[i] = Cardinality(RefsTo(i)) BY DEF RefsCounted, TypeOK
  <2>8. ref'[i] + Mine(p, i) = ref[i] + Refers(r, c, h, i) OBVIOUS
  <2> QED BY ONLY <2>1, <2>2, <2>4, <2>5, <2>6, <2>7, <2>8
<1> QED BY <1>1, <1>2, <1>3 DEF RefsCounted

\* A step that changes nothing on the disk.
Quiet == UNCHANGED <<disk, entries, indirect, bitmap, orphans>>

LEMMA QuietTree ==
  ASSUME DirInv, LinksInv, NoLoops, BlocksOwned, FreshInv, KnowsInv, Quiet,
         NEW p \in Procs, NEW r, NEW c, NEW h,
         \A q \in Procs \ {p} : st'[q] = st[q] /\ cwd'[q] = cwd[q] /\ file'[q] = file[q],
         st'[p] = r, cwd'[p] = c, file'[p] = h,
         Making(r) = Making(st[p]), LinkTo(r) = LinkTo(st[p]), UnlinkTo(r) = UnlinkTo(st[p]),
         \A i \in Inums : Needs(r, c, h, i) => InUse(i) \/ ~Fresh(i), Knows(r),
         r.at # "invalidate", TypeOK, RegsInv
  PROVE  DirInv' /\ LinksInv' /\ NoLoops' /\ BlocksOwned' /\ FreshInv' /\ KnowsInv'
<1>1. \A q \in Procs : /\ Making(st'[q]) = Making(st[q])
                       /\ LinkTo(st'[q]) = LinkTo(st[q]) /\ UnlinkTo(st'[q]) = UnlinkTo(st[q])
  OBVIOUS
<1>2. \A i \in Inums : Linking(i)' = Linking(i) /\ Unlinking(i)' = Unlinking(i)
  <2> TAKE i \in Inums
  <2>1. Linking(i)' = {q \in Procs : LinkTo(st'[q]) = i} BY CallingNext DEF CallsAre
  <2>2. Unlinking(i)' = {q \in Procs : UnlinkTo(st'[q]) = i} BY CallingNext DEF CallsAre
  <2>3. Linking(i) = {q \in Procs : LinkTo(st[q]) = i} /\ Unlinking(i) = {q \in Procs : UnlinkTo(st[q]) = i}
    BY Calling DEF CallsAre
  <2> QED BY <1>1, <2>1, <2>2, <2>3
<1>3. \A i \in Inums : InTheMaking(i)' <=> InTheMaking(i)
  <2> TAKE i \in Inums
  <2>1. InTheMaking(i)' <=> \E q \in Procs : Making(st'[q]) = i BY CallingNext DEF CallsAre
  <2>2. InTheMaking(i) <=> \E q \in Procs : Making(st[q]) = i BY Calling DEF CallsAre
  <2> QED BY <1>1, <2>1, <2>2
<1>4. \A i : NamesOf(i)' = NamesOf(i) BY DEF NamesOf, Quiet
<1>5. \A i : SubDirs(i)' = SubDirs(i) BY <1>4 DEF SubDirs, Quiet
<1>6. DirInv' BY <1>3, <1>4 DEF DirInv, Quiet
<1>7. LinksInv' BY <1>2, <1>4, <1>5 DEF LinksInv, Count, Quiet
<1>8. NoLoops' BY DEF NoLoops, Quiet
<1>9. BlocksOwned'
  <2>1. \A d, n : BlockAt(d, n)' = BlockAt(d, n) BY DEF BlockAt, Quiet
  <2>2. \A d : Addrs(d)' = Addrs(d) BY <2>1 DEF Addrs
  <2> QED BY <2>1, <2>2 DEF BlocksOwned, Quiet
<1>10. FreshInv'
  <2>1. \A i \in Inums : Fresh(i)' <=> Fresh(i) BY <1>3 DEF Fresh, Quiet
  <2>2. \A i \in Inums : InUse(i)' => InUse(i) \/ ~Fresh(i)
    <3> SUFFICES ASSUME NEW i \in Inums, NEW q \in Procs, Uses(q, i)' PROVE InUse(i) \/ ~Fresh(i)
      BY DEF InUse
    <3>1. Needs(st'[q], cwd'[q], file'[q], i) BY UsingNext DEF UsesAre
    <3>2. CASE q = p BY <3>1, <3>2
    <3>3. CASE q # p
      <4>1. Needs(st[q], cwd[q], file[q], i) BY <3>1, <3>3
      <4> QED BY <4>1, Using DEF UsesAre, InUse
    <3> QED BY <3>2, <3>3
  <2>3. ASSUME NEW q \in Procs, st'[q].at = "invalidate", NEW i, i = st'[q].drop[1] PROVE Fresh(i)'
    <3>1. q # p /\ st'[q] = st[q] BY <2>3
    <3>2. st[q].drop \in Seq(Inums) /\ st[q].drop # <<>>
      BY <2>3, <3>1 DEF TypeOK, Registers, RegsInv, RegsOK, Puts
    <3>3. i \in Inums BY <2>3, <3>1, <3>2
    <3>4. Fresh(i) BY <2>3, <3>1 DEF FreshInv
    <3> QED BY <2>1, <3>3, <3>4
  <2>4. (\A q \in Procs : st[q].at = "invalidate" => Fresh(st[q].drop[1]))'
    BY <2>3
  <2> QED BY <1>1, <1>4, <2>1, <2>2, <2>4 DEF FreshInv, Quiet
<1>11. KnowsInv'
  <2> SUFFICES ASSUME NEW q \in Procs PROVE Knows(st[q])' BY DEF KnowsInv
  <2>1. CASE q = p BY <2>1 DEF Knows, Quiet
  <2>2. CASE q # p BY <2>2 DEF KnowsInv, Knows, Quiet
  <2> QED BY <2>1, <2>2
<1> QED BY <1>6, <1>7, <1>8, <1>9, <1>10, <1>11

\* The cache after a step that reads inodes or forgets them.
LEMMA QuietCache ==
  ASSUME CacheInv, FreeingInv, Quiet, NEW p \in Procs, NEW r,
         \A q \in Procs \ {p} : st'[q] = st[q], st'[p] = r,
         \A i \in Inums : \/ mem'[i] \in {mem[i], Invalid}
                          \/ mem'[i] = disk[i] /\ disk[i].type # "free",
         st[p].at = "invalidate" => mem'[st[p].drop[1]] = Invalid,
         \A q \in Procs \ {p} : st[q].at = "free" =>
             ref'[st[q].drop[1]] = ref[st[q].drop[1]] /\ mem'[st[q].drop[1]] = mem[st[q].drop[1]],
         r.at = "free" => ref'[r.drop[1]] = 1 /\ mem'[r.drop[1]] # Invalid /\ mem'[r.drop[1]].nlink = 0
  PROVE  CacheInv' /\ FreeingInv'
<1>1. CacheInv'
  <2> SUFFICES ASSUME NEW i \in Inums
               PROVE  \/ mem'[i] = Invalid
                      \/ mem'[i] = disk'[i] /\ disk'[i].type # "free"
                      \/ \E q \in Procs : st'[q].at = "invalidate" /\ st'[q].drop[1] = i
    BY DEF CacheInv
  <2>1. CASE \E q \in Procs \ {p} : st[q].at = "invalidate" /\ st[q].drop[1] = i
    BY <2>1
  <2>2. CASE ~\E q \in Procs \ {p} : st[q].at = "invalidate" /\ st[q].drop[1] = i
    BY <2>2 DEF CacheInv, Quiet
  <2> QED BY <2>1, <2>2
<1>2. FreeingInv'
  <2> SUFFICES ASSUME NEW q \in Procs, st'[q].at = "free"
               PROVE  ref'[st'[q].drop[1]] = 1 /\ mem'[st'[q].drop[1]] # Invalid
                        /\ mem'[st'[q].drop[1]].nlink = 0
    BY DEF FreeingInv
  <2>1. CASE q = p BY <2>1
  <2>2. CASE q # p BY <2>2 DEF FreeingInv
  <2> QED BY <2>1, <2>2
<1> QED BY <1>1, <1>2

-----------------------------------------------------------------------------
(* Counting links *)

LEMMA LinkSets ==
  /\ \A i : /\ IsFiniteSet(NamesOf(i)) /\ IsFiniteSet(SubDirs(i))
            /\ IsFiniteSet(Linking(i)) /\ IsFiniteSet(Unlinking(i))
            /\ Cardinality(NamesOf(i)) \in Nat /\ Cardinality(SubDirs(i)) \in Nat
            /\ Cardinality(Linking(i)) \in Nat /\ Cardinality(Unlinking(i)) \in Nat
            /\ Count(i) \in Nat
<1>1. IsFiniteSet(Inums) BY InodesAssumption, FS_Interval DEF Inums
<1>2. IsFiniteSet(Inums \X Names) BY <1>1, InodesAssumption, FS_Product
<1>3. \A i : /\ IsFiniteSet(NamesOf(i)) /\ IsFiniteSet(SubDirs(i))
             /\ IsFiniteSet(Linking(i)) /\ IsFiniteSet(Unlinking(i))
  BY <1>1, <1>2, InodesAssumption, FS_Subset DEF NamesOf, SubDirs, Linking, Unlinking
<1>4. \A i : /\ Cardinality(NamesOf(i)) \in Nat /\ Cardinality(SubDirs(i)) \in Nat
             /\ Cardinality(Linking(i)) \in Nat /\ Cardinality(Unlinking(i)) \in Nat
  BY <1>3, FS_CardinalityType
<1> QED BY <1>3, <1>4 DEF Count

\* What has no links is not named, linked or the directory of anything.
LEMMA NoLinks ==
  ASSUME TypeOK, LinksInv, NEW i \in Inums
  PROVE  /\ disk[i].nlink >= Count(i) /\ disk[i].nlink \in Nat
         /\ disk[i].nlink = 0 => /\ NamesOf(i) = {} /\ SubDirs(i) = {} /\ Linking(i) = {}
                                 /\ Unlinking(i) = {} /\ i \notin orphans
<1>1. disk[i].nlink \in Nat BY DEF TypeOK, InodeType
<1>2. Count(i) \in Nat BY LinkSets
<1>3. disk[i].nlink >= Count(i) /\ (i \in orphans => disk[i].nlink > Count(i))
  BY <1>1, <1>2 DEF LinksInv
<1>4. ASSUME disk[i].nlink = 0
      PROVE  /\ Cardinality(NamesOf(i)) = 0 /\ Cardinality(SubDirs(i)) = 0 
             /\ Cardinality(Linking(i)) = 0 /\ Cardinality(Unlinking(i)) = 0
  BY <1>3, <1>4, LinkSets DEF Count
<1> QED BY <1>1, <1>2, <1>3, <1>4, LinkSets, FS_EmptySet

\* A directory that somebody is in the middle of freeing.
LEMMA OnlyHolder ==
  ASSUME Inv, NEW p \in Procs, st[p].at = "free", NEW i, i = st[p].drop[1]
  PROVE  /\ i \in Inums /\ lock[i] = p /\ ref[i] = 1
         /\ mem[i] = disk[i] /\ disk[i].nlink = 0 /\ disk[i].type # "free"
         /\ \A q \in Procs, f \in Places : Held(q, f) = i => q = p /\ f = "put"
         /\ ~InUse(i) /\ ~InTheMaking(i)
         /\ Len(st[p].drop) >= 1
<1>1. Len(st[p].drop) >= 1 /\ i \in Inums
  BY DEF Inv, TypeOK, RegsInv, RegsOK, Registers, Puts, At
<1>2. Keeps(st[p], i) /\ lock[i] = p BY <1>1 DEF Keeps, Inv, LockInv
<1>3. ref[i] = 1 /\ mem[i] # Invalid /\ mem[i].nlink = 0 BY DEF Inv, FreeingInv
<1>4. \A q \in Procs : ~(st[q].at = "invalidate" /\ st[q].drop[1] = i)
  <2> SUFFICES ASSUME NEW q \in Procs, st[q].at = "invalidate", st[q].drop[1] = i PROVE FALSE
    OBVIOUS
  <2>1. lock[i] = q BY <1>1 DEF Keeps, Inv, LockInv
  <2> QED BY <1>2, <2>1
<1>5. mem[i] = disk[i] /\ disk[i].type # "free" BY <1>1, <1>3, <1>4 DEF Inv, CacheInv
<1>6. Held(p, "put") = i BY <1>1 DEF Held
<1>7. Cardinality(Rest(p, i)) \in Nat /\ Cardinality(Rest(p, i)) + Mine(p, i) = 1
  BY <1>1, <1>3, RefsSplit DEF RefsAddUp, Inv, RefsCounted
<1>8. Cardinality(Rest(p, i)) = 0 /\ cwd[p] # i /\ file[p] # i /\ st[p].cur # i /\ st[p].ip # i
        /\ Held(p, "next") # i
  <2>1. /\ Held(p, "put") = First(st[p].drop) /\ Held(p, "next") = Second(st[p].drop)
    BY DEF Held, First, Second
  <2>2. Mine(p, i) = One(cwd[p] = i) + One(file[p] = i) + One(st[p].cur = i) + One(st[p].ip = i)
                        + One(Held(p, "put") = i) + One(Held(p, "next") = i)
    BY <2>1 DEF Mine, Refers
  <2> QED BY <1>6, <1>7, <2>2 DEF One
<1>9. Rest(p, i) = {} BY <1>8, RefsFinite, FS_EmptySet
<1>10. ASSUME NEW q \in Procs, NEW f \in Places, Held(q, f) = i PROVE q = p /\ f = "put"
  <2>1. q = p
    <3>1. CASE q # p
      <4>1. <<q, f>> \in Rest(p, i) BY <1>10, <3>1 DEF Rest
      <4> QED BY <1>9, <4>1
    <3> QED BY <3>1
  <2>2. Held(p, "cwd") # i /\ Held(p, "file") # i /\ Held(p, "cur") # i /\ Held(p, "ip") # i
    BY <1>8 DEF Held
  <2> QED BY <1>8, <1>10, <2>1, <2>2 DEF Places
<1>11. ~InUse(i) BY <1>10 DEF InUse, Uses, Leaving, At
<1>12. ~InTheMaking(i)
  <2> SUFFICES ASSUME NEW q \in Procs, st[q].at = "fill", st[q].ip = i PROVE FALSE
    BY DEF InTheMaking, At
  <2>1. Held(q, "ip") = i /\ "ip" \in Places BY DEF Held, Places
  <2> QED BY <2>1, <1>10
<1> QED BY <1>1, <1>2, <1>3, <1>5, <1>10, <1>11, <1>12

\* What ilock reads, and what the holder of the lock has read, is what the disk says.
LEMMA InodeIsDisk ==
  ASSUME Inv, NEW i \in Inums,
         lock[i] = Nobody \/ \E p \in Procs : lock[i] = p /\ ~st[p].at = "invalidate"
  PROVE  /\ mem[i] \in {Invalid, disk[i]} /\ Inode(i) = disk[i]
         /\ Lockable(i) => disk[i].type # "free"
<1>1. \A q \in Procs : ~(st[q].at = "invalidate" /\ st[q].drop[1] = i)
  <2> SUFFICES ASSUME NEW q \in Procs, st[q].at = "invalidate", st[q].drop[1] = i PROVE FALSE
    OBVIOUS
  <2>1. lock[i] = q BY DEF Keeps, Inv, LockInv
  <2> QED BY <2>1, Sorts
<1>2. mem[i] \in {Invalid, disk[i]} BY <1>1 DEF Inv, CacheInv
<1> QED BY <1>2 DEF Inode, Lockable

\* Who is in use is there, and nobody is freeing it.
LEMMA InUseIsLive ==
  ASSUME Inv, NEW i \in Inums, InUse(i)
  PROVE  /\ ~Fresh(i) /\ disk[i].type # "free" /\ ~InTheMaking(i)
         /\ \A p \in Procs : st[p].at = "free" => st[p].drop[1] # i
<1>1. ~Fresh(i) BY DEF Inv, FreshInv
<1> QED BY <1>1, OnlyHolder DEF Fresh

\* So is what has a name, and what is the directory of something that has one.
LEMMA LinkedIsLive ==
  ASSUME Inv, NEW i \in Inums, NamesOf(i) # {} \/ SubDirs(i) # {}
  PROVE  /\ ~Fresh(i) /\ \A p \in Procs : st[p].at = "free" => st[p].drop[1] # i
<1>1. disk[i].nlink # 0 BY NoLinks DEF Inv
<1>2. ~Fresh(i) BY <1>1 DEF Inv, FreshInv
<1> QED BY <1>1, <1>2, OnlyHolder

LEMMA RootIsThere == ASSUME Inv PROVE ROOTINO \in SubDirs(ROOTINO)
BY Sorts DEF Inv, DirInv, SubDirs

\* What is looked up in a directory that is in use is there, as long as nobody goes up
\* from a removed directory to one that is gone.
LEMMA FoundIsLive ==
  ASSUME Inv, NEW d \in Inums, InUse(d), disk[d].type = "dir",
         NEW n \in Names \cup Dots, NEW j, j = entries[d][n], j # None,
         n = ".." /\ Removed(d) => ~Removed(j) \/ InUse(j)
  PROVE  /\ j \in Inums /\ ~Fresh(j)
         /\ \A p \in Procs : st[p].at = "free" => st[p].drop[1] # j
<1>1. j \in Inums BY DEF Inv, TypeOK
<1>2. CASE n \in Names
  <2>1. <<d, n>> \in NamesOf(j) BY <1>2 DEF NamesOf
  <2> QED BY <1>1, <2>1, LinkedIsLive
<1>3. CASE n = "."
  <2>1. j = d BY <1>3, InUseIsLive DEF Inv, DirInv
  <2> QED BY <2>1, InUseIsLive
<1>4. CASE n = ".." /\ ~Removed(d)
  <2>1. d \in SubDirs(j) BY <1>4 DEF SubDirs, Removed
  <2> QED BY <1>1, <2>1, LinkedIsLive
<1>5. CASE n = ".." /\ InUse(j) BY <1>1, <1>5, InUseIsLive
<1>6. CASE n = ".." /\ ~Removed(j)
  <2>1. j = ROOTINO \/ NamesOf(j) # {} BY <1>6 DEF Removed
  <2>2. NamesOf(j) # {} \/ SubDirs(j) # {} BY <2>1, RootIsThere
  <2> QED BY <1>1, <2>2, LinkedIsLive
<1> QED BY <1>2, <1>3, <1>4, <1>5, <1>6 DEF Dots

-----------------------------------------------------------------------------
(* Steps that change nothing on the disk *)

\* The cache holds what it held, what the disk says, or nothing, and what the others are
\* freeing is left alone.
Caches(p) ==
  /\ mem' \in [Inums -> InodeType] /\ ref' \in [Inums -> Nat]
  /\ \A i \in Inums : \/ mem'[i] \in {mem[i], Invalid}
                      \/ mem'[i] = disk[i] /\ disk[i].type # "free"
  /\ \A q \in Procs \ {p} : st[q].at = "free" =>
       ref'[st[q].drop[1]] = ref[st[q].drop[1]] /\ mem'[st[q].drop[1]] = mem[st[q].drop[1]]

\* The locks after a step of p that leaves it with registers r.
Locks(p, r) == /\ lock' \in [Inums -> Procs \cup {Nobody}]
               /\ \A i \in Inums : lock'[i] = p <=> Keeps(r, i)
               /\ \A i \in Inums : \A q \in Procs \ {p} : lock'[i] = q <=> lock[i] = q

LEMMA QuietMove ==
  ASSUME Inv, NEW p \in Procs, NEW r \in Registers, Len(r.drop) <= 2,
         NEW c \in Inums \cup {None}, NEW h \in Inums \cup {None}, Becomes(p, r, c, h), Quiet,
         writable' \in [Procs -> BOOLEAN], Caches(p), Locks(p, r), RegsOK(r, c),
         \A i \in Inums : ref'[i] + Refers(st[p], cwd[p], file[p], i) = ref[i] + Refers(r, c, h, i),
         Making(r) = Making(st[p]), LinkTo(r) = LinkTo(st[p]), UnlinkTo(r) = UnlinkTo(st[p]),
         \A i \in Inums : Needs(r, c, h, i) => InUse(i) \/ ~Fresh(i), Knows(r),
         r.at # "invalidate", st[p].at = "invalidate" => mem'[st[p].drop[1]] = Invalid,
         r.at = "free" => ref'[r.drop[1]] = 1 /\ mem'[r.drop[1]] # Invalid /\ mem'[r.drop[1]].nlink = 0
  PROVE  Inv'
<1>1. /\ \A q \in Procs \ {p} : st'[q] = st[q] /\ cwd'[q] = cwd[q] /\ file'[q] = file[q]
      /\ st'[p] = r /\ cwd'[p] = c /\ file'[p] = h
      /\ st' \in [Procs -> Registers] /\ (\A q \in Procs : Len(st'[q].drop) <= 2)
      /\ cwd' \in [Procs -> Inums \cup {None}] /\ file' \in [Procs -> Inums \cup {None}]
  BY NewRegs DEF Inv
<1>2. TypeOK' BY <1>1 DEF TypeOK, Inv, Caches, Locks, Quiet
<1>3. RegsInv' /\ LockInv' /\ RefsCounted'
  BY <1>2, LocalStep DEF Inv, Locks, Mine
<1>4. DirInv' /\ LinksInv' /\ NoLoops' /\ BlocksOwned' /\ FreshInv' /\ KnowsInv'
  BY <1>1, QuietTree DEF Inv
<1>5. CacheInv' /\ FreeingInv'
  BY <1>1, QuietCache DEF Inv, Caches
<1> QED BY <1>2, <1>3, <1>4, <1>5 DEF Inv

\* What the others free is nothing that p has to do with.
LEMMA Elsewhere ==
  ASSUME Inv, NEW p \in Procs, NEW q \in Procs \ {p}, st[q].at = "free"
  PROVE  /\ st[q].drop[1] \in Inums
         /\ st[p].cur # st[q].drop[1] /\ st[p].ip # st[q].drop[1] /\ cwd[p] # st[q].drop[1]
         /\ file[p] # st[q].drop[1]
         /\ First(st[p].drop) # st[q].drop[1] /\ Second(st[p].drop) # st[q].drop[1]
<1>1. \A f \in Places : Held(p, f) # st[q].drop[1] BY OnlyHolder
<1>2. /\ Held(p, "cwd") = cwd[p] /\ Held(p, "file") = file[p]
      /\ Held(p, "cur") = st[p].cur /\ Held(p, "ip") = st[p].ip
      /\ Held(p, "put") = First(st[p].drop) /\ Held(p, "next") = Second(st[p].drop)
  BY DEF Held, First, Second
<1>3. st[q].drop[1] \in Inums BY OnlyHolder
<1> QED BY <1>1, <1>2, <1>3 DEF Places

\* The cache as it is.
LEMMA CachesKept == ASSUME Inv, NEW p \in Procs, mem' = mem, ref' = ref PROVE Caches(p)
BY DEF Caches, Inv, TypeOK

\* An inode has been read.
LEMMA CachesRead ==
  ASSUME Inv, NEW p \in Procs, NEW i \in Inums, Lockable(i), mem' = Read(i), ref' = ref
  PROVE  Caches(p)
<1>1. Inode(i) = disk[i] /\ disk[i].type # "free" BY InodeIsDisk DEF Lockable, Free
<1>2. mem' = [mem EXCEPT ![i] = disk[i]] BY <1>1 DEF Read
<1>3. mem' \in [Inums -> InodeType] BY <1>2 DEF Inv, TypeOK
<1>4. \A q \in Procs : st[q].at = "free" => st[q].drop[1] # i /\ st[q].drop[1] \in Inums
  BY OnlyHolder, Sorts DEF Lockable, Free
<1> QED BY <1>1, <1>2, <1>3, <1>4 DEF Caches, Inv, TypeOK

\* An inode that is there has been got, and maybe another one read before.
LEMMA CachesGot ==
  ASSUME Inv, NEW p \in Procs, NEW i \in Inums, NEW j \in Inums, NEW cached,
         cached = mem \/ (Lockable(i) /\ cached = Read(i)), Get(j, cached),
         \A q \in Procs \ {p} : st[q].at = "free" => st[q].drop[1] # j
  PROVE  Caches(p) /\ \A k \in Inums : ref'[k] = ref[k] + One(k = j)
<1>1. /\ \A k \in Inums : cached[k] = mem[k] \/ (k = i /\ cached[k] = disk[k] /\ disk[k].type # "free")
      /\ cached \in [Inums -> InodeType]
      /\ \A q \in Procs : st[q].at = "free" => /\ st[q].drop[1] \in Inums
                                               /\ cached[st[q].drop[1]] = mem[st[q].drop[1]]
  <2>1. CASE cached = mem
    <3>1. \A q \in Procs : st[q].at = "free" => st[q].drop[1] \in Inums BY OnlyHolder
    <3> QED BY <2>1, <3>1 DEF Inv, TypeOK
  <2>2. CASE Lockable(i) /\ cached = Read(i)
    <3>1. Inode(i) = disk[i] /\ disk[i].type # "free" BY <2>2, InodeIsDisk DEF Lockable, Free
    <3>2. cached = [mem EXCEPT ![i] = disk[i]] BY <2>2, <3>1 DEF Read
    <3>3. cached \in [Inums -> InodeType] BY <3>2 DEF Inv, TypeOK
    <3>4. \A q \in Procs : st[q].at = "free" => st[q].drop[1] # i /\ st[q].drop[1] \in Inums
      BY <2>2, OnlyHolder, Sorts DEF Lockable, Free
    <3> QED BY <3>1, <3>2, <3>3, <3>4 DEF Inv, TypeOK
  <2> QED BY <2>1, <2>2
<1>2. Invalid \in InodeType BY Sorts DEF Invalid, Blank, NoBlocks, InodeType
<1>3. mem' \in [Inums -> InodeType] /\ \A k \in Inums : mem'[k] = cached[k] \/ (k = j /\ mem'[k] = Invalid)
  BY <1>1, <1>2 DEF Get
<1>4. ref' = [ref EXCEPT ![j] = @ + 1] /\ ref \in [Inums -> Nat] BY DEF Get, Inv, TypeOK
<1>5. ref' \in [Inums -> Nat] /\ \A k \in Inums : ref'[k] = ref[k] + One(k = j)
  BY <1>4 DEF One
<1>6. \A q \in Procs \ {p} : st[q].at = "free" =>
       ref'[st[q].drop[1]] = ref[st[q].drop[1]] /\ mem'[st[q].drop[1]] = mem[st[q].drop[1]]
  BY <1>1, <1>3, <1>4
<1>7. \A k \in Inums : \/ mem'[k] \in {mem[k], Invalid} 
                       \/ mem'[k] = disk[k] /\ disk[k].type # "free"
  BY <1>1, <1>3
<1> QED BY <1>3, <1>5, <1>6, <1>7 DEF Caches

\* The registers of a process.
LEMMA RegsAre ==
  ASSUME Inv, NEW p \in Procs
  PROVE  /\ st[p] \in Registers /\ Len(st[p].drop) <= 2 /\ st[p].drop \in Seq(Inums)
         /\ cwd[p] \in Inums \cup {None} /\ file[p] \in Inums \cup {None}
         /\ RegsOK(st[p], cwd[p]) /\ Knows(st[p])
         /\ \A i \in Inums : Needs(st[p], cwd[p], file[p], i) => InUse(i)
         /\ \A i \in Inums : lock[i] = p <=> Keeps(st[p], i)
BY Using DEF UsesAre, InUse, Inv, TypeOK, RegsInv, KnowsInv, LockInv, Registers

LEMMA PutStep ==
  ASSUME Inv, NEW p \in Procs, Put(p)
  PROVE  Inv'
<1>1. /\ st[p].at = "put" /\ st[p] \in Registers /\ RegsOK(st[p], cwd[p])
      /\ st[p].drop \in Seq(Inums) /\ st[p].drop # <<>> /\ Len(st[p].drop) <= 2
  BY RegsAre DEF Put, At, RegsOK, Puts
<1>2. PICK i \in Inums : i = st[p].drop[1] /\ i = Head(st[p].drop) BY <1>1
<1>3. PICK x \in {"free", "unref"} :
        /\ st' = [st EXCEPT ![p] = [st[p] EXCEPT !.at = x]]
        /\ x = "free" => Doomed(i) /\ lock' = [lock EXCEPT ![i] = p]
        /\ x = "unref" => lock' = lock
  BY <1>2 DEF Put, Go
<1>4. UNCHANGED <<disk, mem, ref, entries, indirect, bitmap, cwd, file, writable, orphans>>
      /\ lock[i] = Nobody
  BY <1>2 DEF Put, Go, Free, blockVars, procVars
<1>5. PICK r : r = [st[p] EXCEPT !.at = x] OBVIOUS
<1>6. /\ r \in Registers /\ r.at = x /\ r.then = st[p].then /\ r.drop = st[p].drop
      /\ r.cur = st[p].cur /\ r.ip = st[p].ip /\ r.op = st[p].op
      /\ r.rest = st[p].rest /\ r.new = st[p].new /\ r.name = st[p].name
  BY <1>1, <1>5 DEF Registers, Points
<1>7. Becomes(p, r, cwd[p], file[p]) BY <1>3, <1>4, <1>5 DEF Becomes, Inv, TypeOK
<1>8. Point(r) = Point(st[p]) BY <1>1, <1>6 DEF Point, Puts
<1>9. Making(r) = Making(st[p]) /\ LinkTo(r) = LinkTo(st[p]) /\ UnlinkTo(r) = UnlinkTo(st[p])
  BY <1>1, <1>6 DEF Making, LinkTo, UnlinkTo
<1>10. RegsOK(r, cwd[p]) BY <1>1, <1>6, <1>8 DEF RegsOK, Puts
<1>11. Locks(p, r)
  <2>1. lock \in [Inums -> Procs \cup {Nobody}] /\ \A j \in Inums : lock[j] = p <=> Keeps(st[p], j)
    BY RegsAre DEF Inv, TypeOK
  <2>2. CASE x = "free"
    <3>1. \A j \in Inums : Keeps(r, j) <=> j = i \/ Keeps(st[p], j)
      BY <1>1, <1>2, <1>6, <1>8, <2>2 DEF Keeps
    <3> QED BY <1>3, <1>4, <2>1, <2>2, <3>1, Sorts DEF Locks
  <2>3. CASE x = "unref"
    <3>1. \A j \in Inums : Keeps(r, j) <=> Keeps(st[p], j)
      BY <1>1, <1>6, <1>8, <2>3 DEF Keeps
    <3> QED BY <1>3, <2>1, <2>3, <3>1 DEF Locks
  <2> QED BY <2>2, <2>3
<1>12. Knows(r) BY <1>1, <1>6, <1>8, <1>9, RegsAre DEF Knows
<1>13. \A j \in Inums : Needs(r, cwd[p], file[p], j) => InUse(j)
  <2>1. \A j : Needs(r, cwd[p], file[p], j) => Needs(st[p], cwd[p], file[p], j)
    BY <1>1, <1>6 DEF Needs
  <2> QED BY <2>1, RegsAre
<1>14. \A j \in Inums : ref'[j] + Refers(st[p], cwd[p], file[p], j)
                          = ref[j] + Refers(r, cwd[p], file[p], j)
  BY <1>4, <1>6 DEF Refers
<1>15. r.at = "free" => ref'[r.drop[1]] = 1 /\ mem'[r.drop[1]] # Invalid /\ mem'[r.drop[1]].nlink = 0
  BY <1>2, <1>3, <1>4, <1>6 DEF Doomed
<1>16. Quiet /\ Caches(p) /\ writable' \in [Procs -> BOOLEAN]
  BY <1>4, CachesKept DEF Quiet, Inv, TypeOK
<1>17. cwd[p] \in Inums \cup {None} /\ file[p] \in Inums \cup {None} BY RegsAre
<1> QED BY <1>1, <1>6, <1>7, <1>9, <1>10, <1>11, <1>12, <1>13, <1>14, <1>15, <1>16, <1>17, QuietMove

LEMMA InvalidateStep ==
  ASSUME Inv, NEW p \in Procs, Invalidate(p)
  PROVE  Inv'
<1>1. /\ st[p].at = "invalidate" /\ st[p] \in Registers /\ RegsOK(st[p], cwd[p])
      /\ st[p].drop \in Seq(Inums) /\ st[p].drop # <<>> /\ Len(st[p].drop) <= 2
  BY RegsAre DEF Invalidate, At, RegsOK, Puts
<1>2. PICK i \in Inums : i = st[p].drop[1] /\ i = Head(st[p].drop) BY <1>1
<1>3. PICK r : r = [st[p] EXCEPT !.at = "unref"] OBVIOUS
<1>4. /\ r \in Registers /\ r.at = "unref" /\ r.then = st[p].then /\ r.drop = st[p].drop
      /\ r.cur = st[p].cur /\ r.ip = st[p].ip /\ r.op = st[p].op
      /\ r.rest = st[p].rest /\ r.new = st[p].new /\ r.name = st[p].name
  BY <1>1, <1>3 DEF Registers, Points
<1>5. /\ UNCHANGED <<disk, ref, entries, indirect, bitmap, cwd, file, writable, orphans>>
      /\ st' = [st EXCEPT ![p] = r] /\ mem' = [mem EXCEPT ![i] = Invalid]
      /\ lock' = [lock EXCEPT ![i] = Nobody]
  BY <1>2, <1>3 DEF Invalidate, Go, blockVars, procVars
<1>6. Becomes(p, r, cwd[p], file[p]) BY <1>5 DEF Becomes, Inv, TypeOK
<1>7. Point(r) = Point(st[p]) BY <1>1, <1>4 DEF Point, Puts
<1>8. Making(r) = Making(st[p]) /\ LinkTo(r) = LinkTo(st[p]) /\ UnlinkTo(r) = UnlinkTo(st[p])
  BY <1>1, <1>4 DEF Making, LinkTo, UnlinkTo
<1>9. RegsOK(r, cwd[p]) BY <1>1, <1>4, <1>7 DEF RegsOK, Puts
<1>10. lock[i] = p /\ \A j \in Inums : lock[j] = p <=> Keeps(st[p], j)
  BY <1>1, <1>2, RegsAre DEF Keeps
<1>11. st[p].cur # i /\ st[p].ip # i
  <2>1. ~InUse(i) BY <1>1, <1>2 DEF Inv, FreshInv
  <2>2. ~Needs(st[p], cwd[p], file[p], i) BY <2>1, RegsAre
  <2> QED BY <1>1, <2>2 DEF Needs
<1>12. Locks(p, r)
  <2>1. \A j \in Inums : Keeps(r, j) <=> j # i /\ Keeps(st[p], j)
    BY <1>1, <1>2, <1>4, <1>7, <1>11 DEF Keeps
  <2> QED BY <1>5, <1>10, <2>1, Sorts DEF Locks, Inv, TypeOK
<1>13. Knows(r) BY <1>1, <1>4, <1>7, <1>8, RegsAre DEF Knows
<1>14. \A j \in Inums : Needs(r, cwd[p], file[p], j) => InUse(j)
  <2>1. \A j : Needs(r, cwd[p], file[p], j) => Needs(st[p], cwd[p], file[p], j)
    BY <1>1, <1>4 DEF Needs
  <2> QED BY <2>1, RegsAre
<1>15. \A j \in Inums : ref'[j] + Refers(st[p], cwd[p], file[p], j)
                          = ref[j] + Refers(r, cwd[p], file[p], j)
  BY <1>4, <1>5 DEF Refers
<1>16. Caches(p)
  <2>1. Invalid \in InodeType BY Sorts DEF Invalid, Blank, NoBlocks, InodeType
  <2>2. \A q \in Procs \ {p} : st[q].at = "free" => st[q].drop[1] \in Inums /\ st[q].drop[1] # i
    BY <1>10, OnlyHolder
  <2> QED BY <1>5, <2>1, <2>2 DEF Caches, Inv, TypeOK
<1>17. Quiet /\ writable' \in [Procs -> BOOLEAN] /\ mem'[i] = Invalid
  BY <1>5 DEF Quiet, Inv, TypeOK
<1>18. cwd[p] \in Inums \cup {None} /\ file[p] \in Inums \cup {None} BY RegsAre
<1> QED BY <1>1, <1>2, <1>4, <1>6, <1>8, <1>9, <1>12, <1>13, <1>14, <1>15, <1>16, <1>17, <1>18, QuietMove

LEMMA Empty == ASSUME NEW S, NEW d \in Seq(S), Len(d) = 0 PROVE d = <<>>
BY EmptySeq

LEMMA TailOfOne ==
  ASSUME NEW S, NEW d \in Seq(S), d # <<>>, Len(d) = 1
  PROVE  Len(Tail(d)) = 0 /\ Tail(d) \in Seq(S)
BY HeadTailProperties

LEMMA TailOfTwo ==
  ASSUME NEW S, NEW d \in Seq(S), d # <<>>, Len(d) = 2
  PROVE  Len(Tail(d)) = 1 /\ Tail(d)[1] = d[2] /\ d[2] \in S
<1>1. /\ Tail(d) \in Seq(S) /\ Len(Tail(d)) = Len(d) - 1
      /\ \A k \in 1 .. Len(Tail(d)) : Tail(d)[k] = d[k + 1]
  BY HeadTailProperties
<1>2. Len(Tail(d)) = 1 BY <1>1
<1>3. 1 \in 1 .. Len(Tail(d)) /\ 1 + 1 = 2 BY <1>2
<1>4. Tail(d)[1] = d[2] BY ONLY <1>1, <1>3
<1>5. 2 \in 1 .. Len(d) OBVIOUS
<1>6. d[2] \in S BY <1>5, LenProperties
<1> QED BY <1>2, <1>4, <1>6

LEMMA DropTail ==
  ASSUME NEW d \in Seq(Inums), d # <<>>, Len(d) <= 2
  PROVE  /\ Tail(d) \in Seq(Inums) /\ Len(Tail(d)) <= 1
         /\ First(Tail(d)) = Second(d) /\ Second(Tail(d)) = None
         /\ First(d) = d[1] /\ d[1] \in Inums /\ (Tail(d) = <<>> <=> Second(d) = None)
<1>1. Len(d) \in Nat /\ Len(d) # 0 OBVIOUS
<1>2. Len(d) = 1 \/ Len(d) = 2
  <2>1. PICK n \in Nat : n = Len(d) BY <1>1
  <2>2. n # 0 /\ n <= 2 BY <1>1, <2>1
  <2>3. n = 1 \/ n = 2 BY <2>2
  <2> QED BY <2>1, <2>3
<1>3. d[1] \in Inums /\ First(d) = d[1] BY <1>1, <1>2 DEF First
<1>4. CASE Len(d) = 1
  <2>1. Len(Tail(d)) = 0 /\ Tail(d) \in Seq(Inums) BY <1>4, TailOfOne
  <2>2. Tail(d) = <<>> BY <2>1, Empty
  <2>3. Second(d) = None /\ First(Tail(d)) = None /\ Second(Tail(d)) = None
    BY <1>4, <2>1 DEF First, Second
  <2> QED BY <1>3, <2>1, <2>2, <2>3
<1>5. CASE Len(d) = 2
  <2>1. Len(Tail(d)) = 1 /\ Tail(d)[1] = d[2] /\ d[2] \in Inums BY <1>5, TailOfTwo
  <2>2. Tail(d) \in Seq(Inums) BY HeadTailProperties
  <2>3. Second(d) = d[2] BY <1>5 DEF Second
  <2>4. PICK t : t = Tail(d) OBVIOUS
  <2>5. Len(t) = 1 /\ t[1] = d[2] BY <2>1, <2>4
  <2>6. First(t) = d[2] BY <2>5 DEF First
  <2>7. Second(t) = None BY <2>5 DEF Second
  <2>8. Len(<<>>) = 0 BY EmptySeq
  <2>9. t # <<>> BY <2>5, <2>8
  <2> QED BY <1>3, <2>1, <2>2, <2>3, <2>4, <2>6, <2>7, <2>9, Sorts
<1> QED BY <1>2, <1>4, <1>5

LEMMA UnrefStep ==
  ASSUME Inv, NEW p \in Procs, Unref(p)
  PROVE  Inv'
<1>1. /\ st[p].at = "unref" /\ st[p] \in Registers /\ RegsOK(st[p], cwd[p])
      /\ st[p].drop \in Seq(Inums) /\ st[p].drop # <<>> /\ Len(st[p].drop) <= 2
  BY RegsAre DEF Unref, At, RegsOK, Puts
<1>2. PICK i \in Inums : i = st[p].drop[1] /\ i = Head(st[p].drop) BY <1>1
<1>3. PICK left \in Seq(Inums) : left = Tail(st[p].drop) BY <1>1, DropTail
<1>4. /\ Len(left) <= 1 /\ First(left) = Second(st[p].drop) /\ Second(left) = None
      /\ First(st[p].drop) = i /\ (left = <<>> <=> Second(st[p].drop) = None)
  BY <1>1, <1>2, <1>3, DropTail
<1>5. PICK r : r = IF left # <<>> THEN [st[p] EXCEPT !.at = "put", !.drop = left]
                   ELSE IF st[p].then = "user" THEN AtRest
                   ELSE [st[p] EXCEPT !.at = st[p].then, !.drop = left, !.then = "user"]
  OBVIOUS
<1>6. /\ UNCHANGED <<disk, mem, lock, entries, indirect, bitmap, cwd, file, writable, orphans>>
      /\ st' = [st EXCEPT ![p] = r] /\ ref' = [ref EXCEPT ![i] = @ - 1]
  BY <1>2, <1>3, <1>5 DEF Unref, Go, blockVars, procVars
<1>7. \/ /\ left # <<>> /\ r.at = "put" /\ r.then = st[p].then
         /\ r.cur = st[p].cur /\ r.ip = st[p].ip /\ r.op = st[p].op /\ r.drop = left
         /\ r.rest = st[p].rest /\ r.new = st[p].new /\ r.name = st[p].name
      \/ /\ left = <<>> /\ st[p].then = "user" /\ r = AtRest
         /\ st[p].cur = None /\ st[p].ip = None
      \/ /\ left = <<>> /\ r.at = st[p].then /\ r.then = "user" /\ st[p].then # "user"
         /\ r.cur = st[p].cur /\ r.ip = st[p].ip /\ r.op = st[p].op /\ r.drop = left
         /\ r.rest = st[p].rest /\ r.new = st[p].new /\ r.name = st[p].name
         /\ st[p].then \in AtPath \cup {"walk", "moved", "exists", "filled", "unlinkbad",
                                        "unlink3", "linked", "linkbad"}
  BY <1>1, <1>5 DEF Registers, RegsOK, Point, Puts, AtPath, OnPaths
<1>8. AtRest \in Registers /\ Point(AtRest) = "user"
  BY DEF AtRest, Registers, Points, Dots, Point, Puts, OnPaths
<1>9. r \in Registers /\ r.drop = left /\ Len(r.drop) <= 2
  <2>1. "put" \in Points /\ "user" \in Points /\ st[p].then \in Points
    <3>1. "put" \in Points /\ "user" \in Points BY DEF Points
    <3> QED BY <1>1, <3>1 DEF Registers
  <2>2. CASE left # <<>>
    <3>1. r = [st[p] EXCEPT !.at = "put", !.drop = left] BY <1>5, <2>2
    <3>2. r \in Registers BY <1>1, <2>1, <3>1 DEF Registers
    <3>3. r.drop = left BY <1>1, <3>1 DEF Registers
    <3> QED BY <1>4, <3>2, <3>3
  <2>3. CASE left = <<>> /\ r = AtRest BY <1>8, <2>3 DEF AtRest
  <2>4. CASE left = <<>> /\ r # AtRest
    <3>1. r = [st[p] EXCEPT !.at = st[p].then, !.drop = left, !.then = "user"] BY <1>5, <2>4
    <3>2. r \in Registers BY <1>1, <2>1, <3>1 DEF Registers
    <3>3. r.drop = left BY <1>1, <3>1 DEF Registers
    <3> QED BY <1>4, <3>2, <3>3
  <2> QED BY <2>2, <2>3, <2>4
<1>10. Becomes(p, r, cwd[p], file[p]) BY <1>6 DEF Becomes, Inv, TypeOK
<1>11. Point(r) = Point(st[p]) BY <1>1, <1>7, <1>8 DEF Point, Puts, AtPath, OnPaths
<1>12. Making(r) = Making(st[p]) /\ LinkTo(r) = LinkTo(st[p]) /\ UnlinkTo(r) = UnlinkTo(st[p])
  <2>1. r.at \notin {"fill", "linkwalk"} BY <1>7 DEF AtRest, AtPath, OnPaths
  <2> QED BY <1>1, <1>7, <2>1 DEF Making, LinkTo, UnlinkTo, AtRest
<1>13. RegsOK(r, cwd[p])
  <2>1. CASE r = AtRest
    <3>1. cwd[p] # None BY <1>1, <1>7, <2>1, <1>8, <1>11 DEF RegsOK
    <3> QED BY <2>1, <1>8, <3>1 DEF RegsOK, AtRest, Puts, AtPath, OnPaths
  <2>2. CASE r # AtRest BY <1>1, <1>7, <1>11, <2>2 DEF RegsOK, Puts, AtPath, OnPaths
  <2> QED BY <2>1, <2>2
<1>14. Locks(p, r)
  <2>1. \A j \in Inums : Keeps(r, j) <=> Keeps(st[p], j)
    BY <1>1, <1>7, <1>8, <1>11, Sorts DEF Keeps, AtRest, AtPath, OnPaths
  <2> QED BY <1>6, <2>1, RegsAre DEF Locks, Inv, TypeOK
<1>15. Knows(r)
  <2>1. r.at \notin {"fill", "unlink2"} BY <1>7 DEF AtRest, AtPath, OnPaths
  <2>2. CASE r = AtRest BY <2>2, <1>8 DEF Knows, AtRest, LinkTo
  <2>3. CASE r # AtRest BY <1>7, <1>11, <1>12, <2>1, <2>3, RegsAre, SMTT(30) DEF Knows
  <2> QED BY <2>2, <2>3
<1>16. \A j \in Inums : Needs(r, cwd[p], file[p], j) => InUse(j)
  <2>1. \A j \in Inums : Needs(r, cwd[p], file[p], j) => Needs(st[p], cwd[p], file[p], j)
    BY <1>1, <1>4, <1>7, <1>9, Sorts DEF Needs, AtRest, AtPath, OnPaths
  <2> QED BY <2>1, RegsAre
<1>17. \A j \in Inums : Refers(st[p], cwd[p], file[p], j)
                          = Refers(r, cwd[p], file[p], j) + One(j = i)
  BY <1>1, <1>4, <1>7, <1>9, Sorts DEF Refers, One, AtRest
<1>18. ref[i] >= 1 /\ ref \in [Inums -> Nat]
  <2>1. ref[i] = Cardinality(Rest(p, i)) + Mine(p, i) /\ Cardinality(Rest(p, i)) \in Nat
    BY RefsSplit DEF RefsAddUp, Inv, RefsCounted
  <2>2. Mine(p, i) >= 1 BY <1>17 DEF Mine, Refers, One
  <2> QED BY <2>1, <2>2 DEF Inv, TypeOK, Mine, Refers, One
<1>19. /\ ref' \in [Inums -> Nat] /\ \A j \in Inums : ref'[j] = ref[j] - One(j = i)
  BY <1>6, <1>18 DEF One
<1>20. \A j \in Inums : ref'[j] + Refers(st[p], cwd[p], file[p], j)
                          = ref[j] + Refers(r, cwd[p], file[p], j)
  <2>1. \A j \in Inums : Refers(r, cwd[p], file[p], j) \in Nat /\ One(j = i) \in Nat
    BY DEF Refers, One
  <2> QED BY <1>17, <1>18, <1>19, <2>1
<1>21. Caches(p)
  <2>1. \A q \in Procs \ {p} : st[q].at = "free" => st[q].drop[1] \in Inums /\ st[q].drop[1] # i
    BY <1>4, Elsewhere
  <2> QED BY <1>6, <1>19, <2>1 DEF Caches, Inv, TypeOK
<1>22. Quiet /\ writable' \in [Procs -> BOOLEAN] /\ r.at \notin {"free", "invalidate"}
  BY <1>6, <1>7 DEF Quiet, Inv, TypeOK, AtRest, AtPath, OnPaths
<1>23. cwd[p] \in Inums \cup {None} /\ file[p] \in Inums \cup {None} BY RegsAre
<1> QED BY <1>1, <1>9, <1>10, <1>12, <1>13, <1>14, <1>15, <1>16, <1>20, <1>21, <1>22, <1>23, QuietMove

\* A process that has nothing to put.
LEMMA Idle ==
  ASSUME Inv, NEW p \in Procs, st[p].at \notin Puts
  PROVE  /\ st[p].drop = <<>> /\ st[p].then = "user" /\ Point(st[p]) = st[p].at
         /\ First(st[p].drop) = None /\ Second(st[p].drop) = None
<1>1. st[p].drop = <<>> /\ st[p].then = "user" BY RegsAre DEF RegsOK
<1>2. Len(<<>>) = 0 BY EmptySeq
<1> QED BY <1>1, <1>2 DEF Point, First, Second

LEMMA Singles ==
  ASSUME NEW i \in Inums
  PROVE  /\ <<i>> \in Seq(Inums) /\ <<i>> # <<>> /\ Len(<<i>>) = 1 /\ Len(<<i>>) <= 2 /\ <<i>>[1] = i
         /\ First(<<i>>) = i /\ Second(<<i>>) = None
<1>1. <<i>> \in Seq(Inums) /\ Len(<<i>>) = 1 /\ <<i>>[1] = i OBVIOUS
<1>2. Len(<<>>) = 0 BY EmptySeq
<1> QED BY <1>1, <1>2 DEF First, Second

\* The registers when the process is about to put its current inode, or the other one.
LEMMA DropCurIs ==
  ASSUME NEW s \in Registers, s.cur \in Inums, s.drop = <<>>, NEW x \in Points, NEW r, r = DropCur(s, x)
  PROVE  /\ r \in Registers /\ r.at = "put" /\ r.then = x /\ r.cur = None /\ r.drop = <<s.cur>>
         /\ r.ip = s.ip /\ r.op = s.op /\ r.rest = s.rest /\ r.new = s.new /\ r.name = s.name
         /\ Len(r.drop) <= 2 /\ First(r.drop) = s.cur /\ Second(r.drop) = None /\ r.drop # <<>>
         /\ r.drop[1] = s.cur
<1>1. /\ r.at = "put" /\ r.then = x /\ r.cur = None /\ r.drop = <<s.cur>>
      /\ r.ip = s.ip /\ r.op = s.op /\ r.rest = s.rest /\ r.new = s.new /\ r.name = s.name
  BY DEF DropCur, Registers
<1>2. "put" \in Points BY DEF Points
<1>3. r \in Registers BY <1>2, Singles DEF DropCur, Registers
<1> QED BY <1>1, <1>3, Singles

LEMMA DropIpIs ==
  ASSUME NEW s \in Registers, s.ip \in Inums, s.drop = <<>>, NEW x \in Points, NEW r, r = DropIp(s, x)
  PROVE  /\ r \in Registers /\ r.at = "put" /\ r.then = x /\ r.ip = None /\ r.drop = <<s.ip>>
         /\ r.cur = s.cur /\ r.op = s.op /\ r.rest = s.rest /\ r.new = s.new /\ r.name = s.name
         /\ Len(r.drop) <= 2 /\ First(r.drop) = s.ip /\ Second(r.drop) = None /\ r.drop # <<>>
         /\ r.drop[1] = s.ip
<1>1. /\ r.at = "put" /\ r.then = x /\ r.ip = None /\ r.drop = <<s.ip>>
      /\ r.cur = s.cur /\ r.op = s.op /\ r.rest = s.rest /\ r.new = s.new /\ r.name = s.name
  BY DEF DropIp, Registers
<1>2. "put" \in Points BY DEF Points
<1>3. r \in Registers BY <1>2, Singles DEF DropIp, Registers
<1> QED BY <1>1, <1>3, Singles

\* The call is over, or link is to take its count back, once the current inode is put.
LEMMA DropCurStep ==
  ASSUME Inv, NEW p \in Procs, NEW x \in {"user", "linkbad"},
         st[p].at \in AtPath \cup {"walk", "unlinkbad", "linked"},
         IF x = "linkbad" THEN st[p].op = "relink" /\ st[p].ip # None ELSE st[p].ip = None,
         st' = [st EXCEPT ![p] = DropCur(st[p], x)],
         Quiet, UNCHANGED <<cwd, file, writable, ref>>, Caches(p),
         lock' = IF st[p].at \in {"unlinkbad", "linked"} THEN [lock EXCEPT ![st[p].cur] = Nobody]
                 ELSE lock
  PROVE  Inv'
<1>1. /\ st[p].at \notin Puts /\ st[p].at \notin {"fill", "unlink2", "filled", "unlink3", "linkwalk", "free",
                           "invalidate", "moved", "unref"}
  BY DEF Puts, AtPath, OnPaths
<1>2. /\ st[p] \in Registers /\ RegsOK(st[p], cwd[p])
      /\ st[p].drop = <<>> /\ st[p].then = "user" /\ Point(st[p]) = st[p].at
      /\ First(st[p].drop) = None /\ Second(st[p].drop) = None
      /\ cwd[p] \in Inums \cup {None} /\ file[p] \in Inums \cup {None}
  BY <1>1, Idle, RegsAre
<1>3. PICK i \in Inums : i = st[p].cur
  BY <1>2 DEF RegsOK, Registers
<1>4. PICK r : r = DropCur(st[p], x) OBVIOUS
<1>5. x \in Points /\ x \notin Puts BY DEF Points, Puts
<1>6. /\ r \in Registers /\ r.at = "put" /\ r.then = x /\ r.cur = None /\ r.drop = <<i>>
      /\ r.ip = st[p].ip /\ r.op = st[p].op /\ r.rest = st[p].rest /\ r.new = st[p].new
      /\ r.name = st[p].name /\ r.drop[1] = i
      /\ Len(r.drop) <= 2 /\ First(r.drop) = i /\ Second(r.drop) = None /\ r.drop # <<>>
  BY <1>2, <1>3, <1>4, <1>5, DropCurIs
<1>7. Becomes(p, r, cwd[p], file[p]) BY <1>4 DEF Becomes, Inv, TypeOK
<1>8. Point(r) = x BY <1>6 DEF Point, Puts
<1>9. Making(r) = Making(st[p]) /\ LinkTo(r) = LinkTo(st[p]) /\ UnlinkTo(r) = UnlinkTo(st[p])
  BY <1>1, <1>2, <1>6 DEF Making, LinkTo, UnlinkTo
<1>10. cwd[p] # None BY <1>1, <1>2 DEF RegsOK
<1>11. RegsOK(r, cwd[p]) BY <1>2, <1>5, <1>6, <1>8, <1>10 DEF RegsOK, Puts, AtPath, OnPaths
<1>12. Locks(p, r)
  <2>1. lock \in [Inums -> Procs \cup {Nobody}] /\ \A j \in Inums : lock[j] = p <=> Keeps(st[p], j)
    BY RegsAre DEF Inv, TypeOK
  <2>2. \A j \in Inums : ~Keeps(r, j) BY <1>6, <1>8 DEF Keeps
  <2>3. CASE st[p].at \in {"unlinkbad", "linked"}
    <3>1. \A j \in Inums : Keeps(st[p], j) <=> j = i BY <1>2, <1>3, <2>3 DEF Keeps
    <3> QED BY <1>3, <2>1, <2>2, <2>3, <3>1, Sorts DEF Locks
  <2>4. CASE st[p].at \notin {"unlinkbad", "linked"}
    <3>1. \A j \in Inums : ~Keeps(st[p], j) BY <1>1, <1>2, <2>4 DEF Keeps
    <3> QED BY <2>1, <2>2, <2>4, <3>1 DEF Locks
  <2> QED BY <2>3, <2>4
<1>13. Knows(r) BY <1>6, <1>8, <1>9, RegsAre DEF Knows
<1>14. \A j \in Inums : Needs(r, cwd[p], file[p], j) => InUse(j)
  <2>1. \A j \in Inums : Needs(r, cwd[p], file[p], j) => Needs(st[p], cwd[p], file[p], j)
    BY <1>1, <1>3, <1>6, Sorts DEF Needs
  <2> QED BY <2>1, RegsAre
<1>15. \A j \in Inums : ref'[j] + Refers(st[p], cwd[p], file[p], j)
                          = ref[j] + Refers(r, cwd[p], file[p], j)
  <2>1. \A j \in Inums : Refers(r, cwd[p], file[p], j) = Refers(st[p], cwd[p], file[p], j)
    BY <1>2, <1>3, <1>6, Sorts DEF Refers, One
  <2> QED BY <2>1
<1>16. writable' \in [Procs -> BOOLEAN] BY DEF Inv, TypeOK
<1> QED BY <1>1, <1>2, <1>6, <1>7, <1>9, <1>11, <1>12, <1>13, <1>14, <1>15, <1>16, QuietMove DEF Puts

\* The same for the other inode.
LEMMA DropIpStep ==
  ASSUME Inv, NEW p \in Procs, NEW x \in {"user", "unlinkbad"},
         st[p].at \in {"exists", "filled", "unlink2"}, x = "unlinkbad" <=> st[p].at = "unlink2",
         st' = [st EXCEPT ![p] = DropIp(st[p], x)],
         Quiet, UNCHANGED <<cwd, file, writable, ref>>, Caches(p),
         lock' = IF st[p].at = "filled" THEN [lock EXCEPT ![st[p].ip] = Nobody] ELSE lock
  PROVE  Inv'
<1>1. st[p].at \notin Puts BY DEF Puts
<1>2. /\ st[p] \in Registers /\ RegsOK(st[p], cwd[p])
      /\ st[p].drop = <<>> /\ st[p].then = "user" /\ Point(st[p]) = st[p].at
      /\ First(st[p].drop) = None /\ Second(st[p].drop) = None
      /\ cwd[p] \in Inums \cup {None} /\ file[p] \in Inums \cup {None}
  BY <1>1, Idle, RegsAre
<1>3. PICK i \in Inums : i = st[p].ip
  BY <1>2 DEF RegsOK, Registers
<1>4. PICK r : r = DropIp(st[p], x) OBVIOUS
<1>5. x \in Points /\ x \notin Puts BY DEF Points, Puts
<1>6. /\ r \in Registers /\ r.at = "put" /\ r.then = x /\ r.ip = None /\ r.drop = <<i>>
      /\ r.cur = st[p].cur /\ r.op = st[p].op /\ r.rest = st[p].rest /\ r.new = st[p].new
      /\ r.name = st[p].name /\ r.drop[1] = i
      /\ Len(r.drop) <= 2 /\ First(r.drop) = i /\ Second(r.drop) = None /\ r.drop # <<>>
  BY <1>2, <1>3, <1>4, <1>5, DropIpIs
<1>7. Becomes(p, r, cwd[p], file[p]) BY <1>4 DEF Becomes, Inv, TypeOK
<1>8. Point(r) = x BY <1>6 DEF Point, Puts
<1>9. st[p].op \notin {"relink", "link"} BY <1>2 DEF RegsOK
<1>10. Making(r) = Making(st[p]) /\ LinkTo(r) = LinkTo(st[p]) /\ UnlinkTo(r) = UnlinkTo(st[p])
  BY <1>2, <1>6, <1>9 DEF Making, LinkTo, UnlinkTo
<1>11. RegsOK(r, cwd[p])
  <2>1. cwd[p] # None /\ (st[p].cur # None <=> x = "unlinkbad") BY <1>2 DEF RegsOK, AtPath, OnPaths
  <2> QED BY <1>2, <1>5, <1>6, <1>8, <1>9, <2>1 DEF RegsOK, Puts, AtPath, OnPaths
<1>12. Locks(p, r)
  <2>1. lock \in [Inums -> Procs \cup {Nobody}] /\ \A j \in Inums : lock[j] = p <=> Keeps(st[p], j)
    BY RegsAre DEF Inv, TypeOK
  <2>2. CASE st[p].at = "filled"
    <3>1. \A j \in Inums : Keeps(st[p], j) <=> j = i BY <1>2, <1>3, <2>2 DEF Keeps
    <3>2. \A j \in Inums : ~Keeps(r, j) BY <1>6, <1>8, <2>2 DEF Keeps
    <3> QED BY <1>3, <2>1, <2>2, <3>1, <3>2, Sorts DEF Locks
  <2>3. CASE st[p].at # "filled"
    <3>1. \A j \in Inums : Keeps(st[p], j) <=> Keeps(r, j) BY <1>2, <1>6, <1>8, <2>3 DEF Keeps
    <3> QED BY <2>1, <2>3, <3>1 DEF Locks
  <2> QED BY <2>2, <2>3
<1>13. Knows(r)
  <2>1. LinkTo(r) = None BY <1>6, <1>9 DEF LinkTo
  <2>2. st[p].at = "unlink2" => disk[st[p].cur].type = "dir" BY <1>2, RegsAre DEF Knows
  <2> QED BY <1>6, <1>8, <2>1, <2>2 DEF Knows
<1>14. \A j \in Inums : Needs(r, cwd[p], file[p], j) => InUse(j)
  <2>1. \A j \in Inums : Needs(r, cwd[p], file[p], j) => Needs(st[p], cwd[p], file[p], j)
    BY <1>1, <1>3, <1>6, Sorts DEF Needs
  <2> QED BY <2>1, RegsAre
<1>15. \A j \in Inums : ref'[j] + Refers(st[p], cwd[p], file[p], j)
                          = ref[j] + Refers(r, cwd[p], file[p], j)
  <2>1. \A j \in Inums : Refers(r, cwd[p], file[p], j) = Refers(st[p], cwd[p], file[p], j)
    BY <1>2, <1>3, <1>6, Sorts DEF Refers, One
  <2> QED BY <2>1
<1>16. writable' \in [Procs -> BOOLEAN] BY DEF Inv, TypeOK
<1> QED BY <1>1, <1>2, <1>6, <1>7, <1>10, <1>11, <1>12, <1>13, <1>14, <1>15, <1>16, QuietMove DEF Puts

LEMMA RestIs ==
  /\ AtRest \in Registers /\ AtRest.at = "user" /\ AtRest.then = "user" /\ AtRest.cur = None
  /\ AtRest.drop = <<>> /\ AtRest.ip = None /\ AtRest.op = "none" /\ Len(AtRest.drop) <= 2
  /\ Point(AtRest) = "user" /\ First(AtRest.drop) = None /\ Second(AtRest.drop) = None
<1>1. /\ AtRest.at = "user" /\ AtRest.then = "user" /\ AtRest.cur = None
      /\ AtRest.drop = <<>> /\ AtRest.ip = None /\ AtRest.op = "none"
  BY DEF AtRest
<1>2. AtRest \in Registers BY DEF AtRest, Registers, Points, Dots, OnPaths
<1>3. Len(<<>>) = 0 BY EmptySeq
<1> QED BY <1>1, <1>2, <1>3 DEF Point, First, Second, Puts

\* A call ends with the file it has come to open.
LEMMA OpenedStep ==
  ASSUME Inv, NEW p \in Procs, NEW i \in Inums, NEW w \in BOOLEAN,
         st[p].at \in {"open", "openr", "exists", "filled"},
         i = IF st[p].at \in {"open", "openr"} THEN st[p].cur ELSE st[p].ip,
         file[p] = None, Opened(p, i, w), UNCHANGED <<disk, entries, blockVars, ref>>, Caches(p),
         lock' = IF st[p].at = "filled" THEN [lock EXCEPT ![i] = Nobody] ELSE lock
  PROVE  Inv'
<1>1. st[p].at \notin Puts BY DEF Puts
<1>2. /\ st[p] \in Registers /\ RegsOK(st[p], cwd[p])
      /\ st[p].drop = <<>> /\ st[p].then = "user" /\ Point(st[p]) = st[p].at
      /\ First(st[p].drop) = None /\ Second(st[p].drop) = None
      /\ cwd[p] \in Inums \cup {None} /\ file[p] \in Inums \cup {None}
  BY <1>1, Idle, RegsAre
<1>3. /\ st' = [st EXCEPT ![p] = AtRest] /\ cwd' = cwd /\ file' = [file EXCEPT ![p] = i]
      /\ writable' = [writable EXCEPT ![p] = w]
      /\ UNCHANGED <<disk, entries, indirect, bitmap, orphans, ref>>
  BY DEF Opened, Go, blockVars
<1>4. PICK r : r = AtRest OBVIOUS
<1>5. /\ r \in Registers /\ r.at = "user" /\ r.then = "user" /\ r.cur = None /\ r.drop = <<>>
      /\ r.ip = None /\ r.op = "none" /\ Len(r.drop) <= 2 /\ Point(r) = "user"
      /\ First(r.drop) = None /\ Second(r.drop) = None
  BY <1>4, RestIs
<1>6. Becomes(p, r, cwd[p], i) BY <1>3, <1>4 DEF Becomes, Inv, TypeOK
<1>7. st[p].op \notin {"relink", "link"} BY <1>2 DEF RegsOK, AtPath, OnPaths
<1>8. Making(r) = Making(st[p]) /\ LinkTo(r) = LinkTo(st[p]) /\ UnlinkTo(r) = UnlinkTo(st[p])
  BY <1>2, <1>5, <1>7 DEF Making, LinkTo, UnlinkTo
<1>9. /\ cwd[p] # None
      /\ IF st[p].at \in {"open", "openr"} THEN st[p].ip = None ELSE st[p].cur = None
  BY <1>2 DEF RegsOK, AtPath, OnPaths
<1>10. RegsOK(r, cwd[p]) BY <1>5, <1>9 DEF RegsOK, Puts, AtPath, OnPaths
<1>11. Locks(p, r)
  <2>1. lock \in [Inums -> Procs \cup {Nobody}] /\ \A j \in Inums : lock[j] = p <=> Keeps(st[p], j)
    BY RegsAre DEF Inv, TypeOK
  <2>2. \A j \in Inums : ~Keeps(r, j) BY <1>5 DEF Keeps
  <2>3. CASE st[p].at = "filled"
    <3>1. \A j \in Inums : Keeps(st[p], j) <=> j = i BY <1>2, <2>3 DEF Keeps
    <3> QED BY <2>1, <2>2, <2>3, <3>1, Sorts DEF Locks
  <2>4. CASE st[p].at # "filled"
    <3>1. \A j \in Inums : ~Keeps(st[p], j) BY <1>2, <2>4 DEF Keeps
    <3> QED BY <2>1, <2>2, <2>4, <3>1 DEF Locks
  <2> QED BY <2>3, <2>4
<1>12. Knows(r) BY <1>5 DEF Knows, LinkTo
<1>13. \A j \in Inums : Needs(r, cwd[p], i, j) => InUse(j)
  <2>1. \A j \in Inums : Needs(r, cwd[p], i, j) => Needs(st[p], cwd[p], file[p], j)
    BY <1>5, Sorts DEF Needs
  <2> QED BY <2>1, RegsAre
<1>14. \A j \in Inums : ref'[j] + Refers(st[p], cwd[p], file[p], j)
                          = ref[j] + Refers(r, cwd[p], i, j)
  <2>1. \A j \in Inums : Refers(r, cwd[p], i, j) = Refers(st[p], cwd[p], file[p], j)
    BY <1>2, <1>5, <1>9, Sorts DEF Refers, One
  <2> QED BY <1>3, <2>1
<1>15. Quiet /\ writable' \in [Procs -> BOOLEAN] BY <1>3 DEF Quiet, Inv, TypeOK
<1>16. i \in Inums \cup {None} OBVIOUS
<1> QED BY <1>1, <1>2, <1>5, <1>6, <1>8, <1>10, <1>11, <1>12, <1>13, <1>14, <1>15, <1>16, QuietMove DEF Puts

LEMMA CloseStep ==
  ASSUME Inv, NEW p \in Procs, Close(p)
  PROVE  Inv'
<1>1. st[p].at = "user" /\ st[p].at \notin Puts /\ file[p] # None BY DEF Close, At, Puts
<1>2. /\ st[p] \in Registers /\ RegsOK(st[p], cwd[p])
      /\ st[p].drop = <<>> /\ st[p].then = "user" /\ Point(st[p]) = st[p].at
      /\ First(st[p].drop) = None /\ Second(st[p].drop) = None
      /\ cwd[p] \in Inums \cup {None} /\ file[p] \in Inums \cup {None}
  BY <1>1, Idle, RegsAre
<1>3. PICK i \in Inums : i = file[p] BY <1>1, <1>2
<1>4. PICK r : r = [AtRest EXCEPT !.at = "put", !.drop = <<i>>] OBVIOUS
<1>5. /\ r.at = "put" /\ r.then = "user" /\ r.cur = None /\ r.drop = <<i>> /\ r.ip = None
      /\ r.op = "none" /\ r.rest = <<>> /\ r.new = <<>> /\ r.name = "."
  BY <1>4 DEF AtRest
<1>6. /\ r \in Registers /\ Len(r.drop) <= 2 /\ First(r.drop) = i /\ Second(r.drop) = None
      /\ r.drop # <<>> /\ Point(r) = "user"
  <2>1. "put" \in Points BY DEF Points
  <2>2. r \in Registers BY <1>4, <2>1, Singles, RestIs DEF Registers
  <2> QED BY <1>5, <2>2, Singles DEF Point, Puts
<1>7. /\ st' = [st EXCEPT ![p] = r] /\ cwd' = cwd /\ file' = [file EXCEPT ![p] = None]
      /\ writable' = [writable EXCEPT ![p] = FALSE]
      /\ UNCHANGED <<disk, entries, indirect, bitmap, orphans, mem, ref, lock>>
  BY <1>3, <1>4 DEF Close, Go, blockVars
<1>8. Becomes(p, r, cwd[p], None) BY <1>7 DEF Becomes, Inv, TypeOK
<1>9. st[p].ip = None /\ st[p].cur = None /\ cwd[p] # None BY <1>1, <1>2 DEF RegsOK, AtPath, OnPaths
<1>10. Making(r) = Making(st[p]) /\ LinkTo(r) = LinkTo(st[p]) /\ UnlinkTo(r) = UnlinkTo(st[p])
  BY <1>1, <1>2, <1>5, <1>9 DEF Making, LinkTo, UnlinkTo
<1>11. RegsOK(r, cwd[p]) BY <1>5, <1>6, <1>9 DEF RegsOK, Puts, AtPath, OnPaths
<1>12. Locks(p, r)
  <2>1. \A j \in Inums : ~Keeps(r, j) /\ ~Keeps(st[p], j) BY <1>1, <1>2, <1>5, <1>6 DEF Keeps
  <2> QED BY <1>7, <2>1, RegsAre DEF Locks, Inv, TypeOK
<1>13. Knows(r) BY <1>5, <1>6 DEF Knows, LinkTo
<1>14. \A j \in Inums : Needs(r, cwd[p], None, j) => InUse(j)
  <2>1. \A j \in Inums : Needs(r, cwd[p], None, j) => Needs(st[p], cwd[p], file[p], j)
    BY <1>3, <1>5, <1>6, Sorts DEF Needs
  <2> QED BY <2>1, RegsAre
<1>15. \A j \in Inums : ref'[j] + Refers(st[p], cwd[p], file[p], j)
                          = ref[j] + Refers(r, cwd[p], None, j)
  <2>1. \A j \in Inums : Refers(r, cwd[p], None, j) = Refers(st[p], cwd[p], file[p], j)
    BY <1>2, <1>3, <1>5, <1>6, <1>9, Sorts DEF Refers, One
  <2> QED BY <1>7, <2>1
<1>16. Quiet /\ writable' \in [Procs -> BOOLEAN] /\ Caches(p)
  BY <1>7, CachesKept DEF Quiet, Inv, TypeOK
<1> QED BY <1>1, <1>2, <1>5, <1>6, <1>8, <1>10, <1>11, <1>12, <1>13, <1>14, <1>15, <1>16, QuietMove

LEMMA MovedStep ==
  ASSUME Inv, NEW p \in Procs, Moved(p)
  PROVE  Inv'
<1>1. st[p].at = "moved" /\ st[p].at \notin Puts BY DEF Moved, At, Puts
<1>2. /\ st[p] \in Registers /\ RegsOK(st[p], cwd[p])
      /\ st[p].drop = <<>> /\ st[p].then = "user" /\ Point(st[p]) = st[p].at
      /\ First(st[p].drop) = None /\ Second(st[p].drop) = None
      /\ cwd[p] \in Inums \cup {None} /\ file[p] \in Inums \cup {None}
  BY <1>1, Idle, RegsAre
<1>3. PICK i \in Inums : i = st[p].cur BY <1>1, <1>2 DEF RegsOK, Registers
<1>4. PICK r : r = AtRest OBVIOUS
<1>5. /\ r \in Registers /\ r.at = "user" /\ r.then = "user" /\ r.cur = None /\ r.drop = <<>>
      /\ r.ip = None /\ r.op = "none" /\ Len(r.drop) <= 2 /\ Point(r) = "user"
      /\ First(r.drop) = None /\ Second(r.drop) = None
  BY <1>4, RestIs
<1>6. /\ st' = [st EXCEPT ![p] = r] /\ cwd' = [cwd EXCEPT ![p] = i] /\ file' = file
      /\ writable' = writable
      /\ UNCHANGED <<disk, entries, indirect, bitmap, orphans, mem, ref, lock>>
  BY <1>3, <1>4 DEF Moved, Go, blockVars
<1>7. Becomes(p, r, i, file[p]) BY <1>6 DEF Becomes, Inv, TypeOK
<1>8. st[p].ip = None /\ cwd[p] = None BY <1>1, <1>2 DEF RegsOK, AtPath, OnPaths
<1>9. Making(r) = Making(st[p]) /\ LinkTo(r) = LinkTo(st[p]) /\ UnlinkTo(r) = UnlinkTo(st[p])
  BY <1>1, <1>2, <1>5, <1>8 DEF Making, LinkTo, UnlinkTo
<1>10. RegsOK(r, i) BY <1>5, Sorts DEF RegsOK, Puts, AtPath, OnPaths
<1>11. Locks(p, r)
  <2>1. \A j \in Inums : ~Keeps(r, j) /\ ~Keeps(st[p], j) BY <1>1, <1>2, <1>5 DEF Keeps
  <2> QED BY <1>6, <2>1, RegsAre DEF Locks, Inv, TypeOK
<1>12. Knows(r) BY <1>5 DEF Knows, LinkTo
<1>13. \A j \in Inums : Needs(r, i, file[p], j) => InUse(j)
  <2>1. \A j \in Inums : Needs(r, i, file[p], j) => Needs(st[p], cwd[p], file[p], j)
    BY <1>3, <1>5, Sorts DEF Needs
  <2> QED BY <2>1, RegsAre
<1>14. \A j \in Inums : ref'[j] + Refers(st[p], cwd[p], file[p], j)
                          = ref[j] + Refers(r, i, file[p], j)
  <2>1. \A j \in Inums : Refers(r, i, file[p], j) = Refers(st[p], cwd[p], file[p], j)
    BY <1>2, <1>3, <1>5, <1>8, Sorts DEF Refers, One
  <2> QED BY <1>6, <2>1
<1>15. Quiet /\ writable' \in [Procs -> BOOLEAN] /\ Caches(p)
  BY <1>6, CachesKept DEF Quiet, Inv, TypeOK
<1> QED BY <1>1, <1>2, <1>5, <1>7, <1>9, <1>10, <1>11, <1>12, <1>13, <1>14, <1>15, QuietMove

LEMMA OpenStep ==
  ASSUME Inv, NEW p \in Procs, Open(p)
  PROVE  Inv'
<1>1. st[p].at \in {"open", "openr"} /\ st[p].at \notin Puts BY DEF Open, Puts
<1>2. st[p].ip = None /\ st[p].cur \in Inums
  BY <1>1, Idle, RegsAre DEF RegsOK, AtPath, OnPaths, Registers
<1>3. PICK i \in Inums : i = st[p].cur BY <1>2
<1>4. /\ Lockable(i) /\ mem' = Read(i) /\ ref' = ref /\ lock' = lock
      /\ UNCHANGED <<disk, entries, blockVars>>
      /\ \/ HasFd(p) /\ Opened(p, i, st[p].op = "open")
         \/ Go(p, DropCur(st[p], "user")) /\ UNCHANGED procVars
  BY <1>3 DEF Open
<1>5. Caches(p) BY <1>4, CachesRead
<1>6. CASE HasFd(p) /\ Opened(p, i, st[p].op = "open")
  <2>1. PICK w \in BOOLEAN : w <=> st[p].op = "open" OBVIOUS
  <2>2. Opened(p, i, w) BY <1>6, <2>1 DEF Opened
  <2> QED BY <1>1, <1>3, <1>4, <1>5, <1>6, <2>2, OpenedStep DEF HasFd
<1>7. CASE Go(p, DropCur(st[p], "user")) /\ UNCHANGED procVars
  <2>1. Quiet /\ UNCHANGED <<cwd, file, writable, ref>> /\ st' = [st EXCEPT ![p] = DropCur(st[p], "user")]
    BY <1>4, <1>7 DEF Quiet, Go, blockVars, procVars
  <2> QED BY <1>1, <1>2, <1>4, <1>5, <2>1, DropCurStep DEF AtPath, OnPaths
<1> QED BY <1>4, <1>6, <1>7

LEMMA ExistsStep ==
  ASSUME Inv, NEW p \in Procs, Exists(p)
  PROVE  Inv'
<1>1. st[p].at = "exists" /\ st[p].at \notin Puts BY DEF Exists, At, Puts
<1>2. st[p].ip \in Inums
  BY <1>1, Idle, RegsAre DEF RegsOK, Registers
<1>3. PICK i \in Inums : i = st[p].ip BY <1>2
<1>4. /\ Lockable(i) /\ mem' = Read(i) /\ ref' = ref /\ lock' = lock
      /\ UNCHANGED <<disk, entries, blockVars>>
      /\ \/ HasFd(p) /\ Opened(p, i, TRUE)
         \/ Go(p, DropIp(st[p], "user")) /\ UNCHANGED procVars
  BY <1>3 DEF Exists
<1>5. Caches(p) BY <1>4, CachesRead
<1>6. CASE HasFd(p) /\ Opened(p, i, TRUE)
  BY <1>1, <1>3, <1>4, <1>5, <1>6, OpenedStep DEF HasFd
<1>7. CASE Go(p, DropIp(st[p], "user")) /\ UNCHANGED procVars
  <2>1. Quiet /\ UNCHANGED <<cwd, file, writable, ref>> /\ st' = [st EXCEPT ![p] = DropIp(st[p], "user")]
    BY <1>4, <1>7 DEF Quiet, Go, blockVars, procVars
  <2> QED BY <1>1, <1>2, <1>4, <1>5, <2>1, DropIpStep
<1> QED BY <1>4, <1>6, <1>7

LEMMA FilledStep ==
  ASSUME Inv, NEW p \in Procs, Filled(p)
  PROVE  Inv'
<1>1. st[p].at = "filled" /\ st[p].at \notin Puts BY DEF Filled, At, Puts
<1>2. st[p].ip \in Inums
  BY <1>1, Idle, RegsAre DEF RegsOK, Registers
<1>3. PICK i \in Inums : i = st[p].ip BY <1>2
<1>4. /\ mem' = mem /\ ref' = ref /\ lock' = [lock EXCEPT ![i] = Nobody]
      /\ UNCHANGED <<disk, entries, blockVars>>
      /\ \/ HasFd(p) /\ Opened(p, i, TRUE)
         \/ Go(p, DropIp(st[p], "user")) /\ UNCHANGED procVars
  BY <1>3 DEF Filled
<1>5. Caches(p) BY <1>4, CachesKept
<1>6. CASE HasFd(p) /\ Opened(p, i, TRUE)
  BY <1>1, <1>3, <1>4, <1>5, <1>6, OpenedStep DEF HasFd
<1>7. CASE Go(p, DropIp(st[p], "user")) /\ UNCHANGED procVars
  <2>1. Quiet /\ UNCHANGED <<cwd, file, writable, ref>> /\ st' = [st EXCEPT ![p] = DropIp(st[p], "user")]
    BY <1>4, <1>7 DEF Quiet, Go, blockVars, procVars
  <2> QED BY <1>1, <1>3, <1>4, <1>5, <2>1, DropIpStep
<1> QED BY <1>4, <1>6, <1>7

LEMMA UnlinkNonemptyStep ==
  ASSUME Inv, NEW p \in Procs, UnlinkNonempty(p)
  PROVE  Inv'
<1>1. st[p].at = "unlink2" /\ st[p].at \notin Puts BY DEF UnlinkNonempty, At, Puts
<1>2. st[p].ip \in Inums
  BY <1>1, Idle, RegsAre DEF RegsOK, Registers
<1>3. PICK i \in Inums : i = st[p].ip BY <1>2
<1>4. /\ Lockable(i) /\ mem' = Read(i) /\ ref' = ref /\ lock' = lock
      /\ st' = [st EXCEPT ![p] = DropIp(st[p], "unlinkbad")]
      /\ Quiet /\ UNCHANGED <<cwd, file, writable, ref>>
  BY <1>3 DEF UnlinkNonempty, Quiet, Go, blockVars, procVars
<1>5. Caches(p) BY <1>4, CachesRead
<1> QED BY <1>1, <1>4, <1>5, DropIpStep

LEMMA UnlinkBadStep ==
  ASSUME Inv, NEW p \in Procs, UnlinkBad(p)
  PROVE  Inv'
<1>1. st[p].at = "unlinkbad" /\ st[p].at \notin Puts BY DEF UnlinkBad, At, Puts
<1>2. st[p].ip = None
  BY <1>1, Idle, RegsAre DEF RegsOK
<1>3. /\ mem' = mem /\ ref' = ref /\ lock' = [lock EXCEPT ![st[p].cur] = Nobody]
      /\ st' = [st EXCEPT ![p] = DropCur(st[p], "user")]
      /\ Quiet /\ UNCHANGED <<cwd, file, writable, ref>>
  BY DEF UnlinkBad, Quiet, Go, blockVars, procVars
<1>4. Caches(p) BY <1>3, CachesKept
<1> QED BY <1>1, <1>2, <1>3, <1>4, DropCurStep

LEMMA LinkedStep ==
  ASSUME Inv, NEW p \in Procs, Linked(p)
  PROVE  Inv'
<1>1. st[p].at = "linked" /\ st[p].at \notin Puts BY DEF Linked, At, Puts
<1>2. st[p].ip # None /\ st[p].op = "relink"
  BY <1>1, Idle, RegsAre DEF RegsOK
<1>3. /\ mem' = mem /\ ref' = ref /\ lock' = [lock EXCEPT ![st[p].cur] = Nobody]
      /\ st' = [st EXCEPT ![p] = DropCur(st[p], "linkbad")]
      /\ Quiet /\ UNCHANGED <<cwd, file, writable, ref>>
  BY DEF Linked, Quiet, Go, blockVars, procVars
<1>4. Caches(p) BY <1>3, CachesKept
<1> QED BY <1>1, <1>2, <1>3, <1>4, DropCurStep

LEMMA ChdirStep ==
  ASSUME Inv, NEW p \in Procs, Chdir(p)
  PROVE  Inv'
<1>1. st[p].at = "chdir" /\ st[p].at \notin Puts BY DEF Chdir, At, Puts
<1>2. /\ st[p] \in Registers /\ RegsOK(st[p], cwd[p])
      /\ st[p].drop = <<>> /\ st[p].then = "user" /\ Point(st[p]) = st[p].at
      /\ First(st[p].drop) = None /\ Second(st[p].drop) = None
      /\ cwd[p] \in Inums \cup {None} /\ file[p] \in Inums \cup {None}
  BY <1>1, Idle, RegsAre
<1>3. st[p].ip = None /\ st[p].cur \in Inums /\ cwd[p] # None /\ st[p].op = "chdir"
  BY <1>1, <1>2 DEF RegsOK, AtPath, OnPaths, Registers
<1>4. PICK i \in Inums, k \in Inums : i = st[p].cur /\ k = cwd[p] BY <1>2, <1>3
<1>5. /\ Lockable(i) /\ mem' = Read(i) /\ UNCHANGED <<disk, ref, lock, entries, blockVars, file, writable>>
      /\ \/ /\ Go(p, [st[p] EXCEPT !.at = "put", !.drop = <<k>>, !.then = "moved"])
            /\ cwd' = [cwd EXCEPT ![p] = None]
         \/ Go(p, DropCur(st[p], "user")) /\ cwd' = cwd
  BY <1>4 DEF Chdir
<1>6. Caches(p) BY <1>5, CachesRead
<1>7. CASE Go(p, DropCur(st[p], "user")) /\ cwd' = cwd
  <2>1. Quiet /\ UNCHANGED <<cwd, file, writable, ref>> /\ st' = [st EXCEPT ![p] = DropCur(st[p], "user")]
    BY <1>5, <1>7 DEF Quiet, Go, blockVars
  <2> QED BY <1>1, <1>3, <1>5, <1>6, <2>1, DropCurStep DEF AtPath, OnPaths
<1>8. CASE /\ Go(p, [st[p] EXCEPT !.at = "put", !.drop = <<k>>, !.then = "moved"])
           /\ cwd' = [cwd EXCEPT ![p] = None]
  <2>1. PICK r : r = [st[p] EXCEPT !.at = "put", !.drop = <<k>>, !.then = "moved"] OBVIOUS
  <2>2. /\ r.at = "put" /\ r.then = "moved" /\ r.cur = i /\ r.drop = <<k>> /\ r.ip = None /\ r.op = "chdir"
        /\ r.rest = st[p].rest /\ r.new = st[p].new /\ r.name = st[p].name
    BY <1>2, <1>3, <1>4, <2>1 DEF Registers
  <2>3. /\ r \in Registers /\ Len(r.drop) <= 2 /\ First(r.drop) = k /\ Second(r.drop) = None
        /\ r.drop # <<>> /\ Point(r) = "moved"
    <3>1. "put" \in Points /\ "moved" \in Points BY DEF Points
    <3>2. r \in Registers BY <1>2, <2>1, <3>1, Singles DEF Registers
    <3> QED BY <2>2, <3>2, Singles DEF Point, Puts
  <2>4. st' = [st EXCEPT ![p] = r] /\ Quiet BY <1>5, <1>8, <2>1 DEF Go, Quiet, blockVars
  <2>5. Becomes(p, r, None, file[p]) BY <1>5, <1>8, <2>4 DEF Becomes, Inv, TypeOK
  <2>6. Making(r) = Making(st[p]) /\ LinkTo(r) = LinkTo(st[p]) /\ UnlinkTo(r) = UnlinkTo(st[p])
    BY <1>1, <1>2, <1>3, <2>2 DEF Making, LinkTo, UnlinkTo
  <2>7. RegsOK(r, None) BY <2>2, <2>3, Sorts DEF RegsOK, Puts, AtPath, OnPaths
  <2>8. Locks(p, r)
    <3>1. \A j \in Inums : ~Keeps(r, j) /\ ~Keeps(st[p], j) BY <1>1, <1>2, <2>2, <2>3 DEF Keeps
    <3> QED BY <1>5, <3>1, RegsAre DEF Locks, Inv, TypeOK
  <2>9. Knows(r) BY <2>2, <2>3 DEF Knows, LinkTo
  <2>10. \A j \in Inums : Needs(r, None, file[p], j) => InUse(j)
    <3>1. \A j \in Inums : Needs(r, None, file[p], j) => Needs(st[p], cwd[p], file[p], j)
      BY <1>4, <2>2, <2>3, Sorts DEF Needs
    <3> QED BY <3>1, RegsAre
  <2>11. \A j \in Inums : ref'[j] + Refers(st[p], cwd[p], file[p], j)
                            = ref[j] + Refers(r, None, file[p], j)
    <3>1. \A j \in Inums : Refers(r, None, file[p], j) = Refers(st[p], cwd[p], file[p], j)
      BY <1>2, <1>3, <1>4, <2>2, <2>3, Sorts DEF Refers, One
    <3> QED BY <1>5, <3>1
  <2>12. writable' \in [Procs -> BOOLEAN] BY <1>5 DEF Inv, TypeOK
  <2> QED BY <1>1, <1>2, <1>6, <2>2, <2>3, <2>4, <2>5, <2>6, <2>7, <2>8, <2>9, <2>10, <2>11, <2>12, QuietMove
<1> QED BY <1>5, <1>7, <1>8

\* The inode a path begins at is there.
LEMMA StartIsThere ==
  ASSUME Inv, NEW p \in Procs, cwd[p] # None, NEW i \in Starts(p)
  PROVE  /\ i \in Inums /\ ~Fresh(i)
         /\ \A q \in Procs : st[q].at = "free" => st[q].drop[1] # i
<1>1. CASE i = ROOTINO
  <2>1. NamesOf(i) # {} \/ SubDirs(i) # {} BY <1>1, RootIsThere
  <2> QED BY <1>1, <2>1, Sorts, LinkedIsLive
<1>2. CASE i = cwd[p]
  <2>1. i \in Inums BY <1>2, RegsAre
  <2>2. InUse(i)
    <3>1. Needs(st[p], cwd[p], file[p], i) BY <1>2 DEF Needs
    <3> QED BY <2>1, <3>1, RegsAre
  <2> QED BY <2>1, <2>2, InUseIsLive
<1> QED BY <1>1, <1>2 DEF Starts

LEMMA BeginStep ==
  ASSUME Inv, NEW p \in Procs, NEW op \in OnPaths \cup {"link"}, NEW path \in Paths, NEW new \in Seq(Names \cup Dots),
         op = "link" => new # <<>>, Begin(p, op, path, new)
  PROVE  Inv'
<1>1. st[p].at = "user" /\ st[p].at \notin Puts BY DEF Begin, At, Puts
<1>2. /\ st[p] \in Registers /\ RegsOK(st[p], cwd[p])
      /\ st[p].drop = <<>> /\ st[p].then = "user" /\ Point(st[p]) = st[p].at
      /\ First(st[p].drop) = None /\ Second(st[p].drop) = None
      /\ cwd[p] \in Inums \cup {None} /\ file[p] \in Inums \cup {None}
  BY <1>1, Idle, RegsAre
<1>3. st[p].ip = None /\ st[p].cur = None /\ cwd[p] # None
  BY <1>1, <1>2 DEF RegsOK, AtPath, OnPaths
<1>4. PICK i \in Starts(p) :
        /\ Get(i, mem)
        /\ Go(p, [AtRest EXCEPT !.at = "walk", !.op = op, !.cur = i, !.rest = path, !.new = new])
  BY DEF Begin
<1>19. /\ i \in Inums /\ ~Fresh(i)
       /\ \A q \in Procs : st[q].at = "free" => st[q].drop[1] # i
  BY <1>3, StartIsThere
<1>5. path \in Seq(Names \cup Dots) /\ path # <<>> BY DEF Paths
<1>6. PICK r : r = [AtRest EXCEPT !.at = "walk", !.op = op, !.cur = i, !.rest = path, !.new = new] OBVIOUS
<1>7. /\ r.at = "walk" /\ r.then = "user" /\ r.cur = i /\ r.drop = <<>> /\ r.ip = None
      /\ r.op = op /\ r.rest = path /\ r.new = new /\ r.name = "."
  BY <1>6 DEF AtRest
<1>8. /\ r \in Registers /\ Len(r.drop) <= 2 /\ First(r.drop) = None /\ Second(r.drop) = None
      /\ Point(r) = "walk"
  <2>1. "walk" \in Points BY DEF Points
  <2>2. op \in OnPaths \cup {"none", "link", "relink"} OBVIOUS
  <2>3. r \in Registers BY <1>19, <1>5, <1>6, <2>1, <2>2, RestIs DEF Registers
  <2>4. Len(<<>>) = 0 BY EmptySeq
  <2> QED BY <1>7, <2>3, <2>4 DEF Point, Puts, First, Second
<1>9. /\ st' = [st EXCEPT ![p] = r] /\ Quiet /\ Get(i, mem)
      /\ UNCHANGED <<cwd, file, writable, lock>>
  BY <1>4, <1>6 DEF Begin, Go, Quiet, blockVars, procVars
<1>10. Becomes(p, r, cwd[p], file[p]) BY <1>9 DEF Becomes, Inv, TypeOK
<1>11. Making(r) = Making(st[p]) /\ LinkTo(r) = LinkTo(st[p]) /\ UnlinkTo(r) = UnlinkTo(st[p])
  BY <1>1, <1>2, <1>3, <1>7 DEF Making, LinkTo, UnlinkTo, OnPaths
<1>12. RegsOK(r, cwd[p]) BY <1>19, <1>3, <1>5, <1>7, <1>8, Sorts DEF RegsOK, Puts, AtPath, OnPaths
<1>13. Locks(p, r)
  <2>1. \A j \in Inums : ~Keeps(r, j) /\ ~Keeps(st[p], j) BY <1>1, <1>2, <1>7, <1>8 DEF Keeps
  <2> QED BY <1>9, <2>1, RegsAre DEF Locks, Inv, TypeOK
<1>14. Knows(r) BY <1>7, <1>8 DEF Knows, LinkTo
<1>15. \A j \in Inums : Needs(r, cwd[p], file[p], j) => InUse(j) \/ ~Fresh(j)
  <2>1. \A j \in Inums : Needs(r, cwd[p], file[p], j) => Needs(st[p], cwd[p], file[p], j) \/ j = i
    BY <1>7, <1>8, Sorts DEF Needs
  <2> QED BY <1>19, <2>1, RegsAre
<1>16. Caches(p) /\ \A k \in Inums : ref'[k] = ref[k] + One(k = i)
  BY <1>9, <1>19, CachesGot
<1>17. \A j \in Inums : ref'[j] + Refers(st[p], cwd[p], file[p], j)
                          = ref[j] + Refers(r, cwd[p], file[p], j)
  <2>1. \A j \in Inums : Refers(r, cwd[p], file[p], j) = Refers(st[p], cwd[p], file[p], j) + One(j = i)
    BY <1>19, <1>2, <1>3, <1>7, <1>8, Sorts DEF Refers, One
  <2>2. \A j \in Inums : Refers(st[p], cwd[p], file[p], j) \in Nat /\ One(j = i) \in Nat /\ ref[j] \in Nat
    BY DEF Refers, One, Inv, TypeOK
  <2> QED BY <1>16, <2>1, <2>2
<1>18. writable' \in [Procs -> BOOLEAN] BY <1>9 DEF Inv, TypeOK
<1> QED BY <1>1, <1>2, <1>7, <1>8, <1>9, <1>10, <1>11, <1>12, <1>13, <1>14, <1>15, <1>16, <1>17, <1>18, QuietMove

LEMMA LinkWalkStep ==
  ASSUME Inv, NEW p \in Procs, LinkWalk(p)
  PROVE  Inv'
<1>1. st[p].at = "linkwalk" /\ st[p].at \notin Puts BY DEF LinkWalk, At, Puts
<1>2. /\ st[p] \in Registers /\ RegsOK(st[p], cwd[p])
      /\ st[p].drop = <<>> /\ st[p].then = "user" /\ Point(st[p]) = st[p].at
      /\ First(st[p].drop) = None /\ Second(st[p].drop) = None
      /\ cwd[p] \in Inums \cup {None} /\ file[p] \in Inums \cup {None}
  BY <1>1, Idle, RegsAre
<1>3. st[p].ip # None /\ st[p].cur = None /\ cwd[p] # None /\ st[p].op = "link" /\ st[p].new # <<>>
  BY <1>1, <1>2 DEF RegsOK, AtPath, OnPaths
<1>4. PICK i \in Starts(p) :
        /\ Get(i, mem)
        /\ Go(p, [st[p] EXCEPT !.at = "walk", !.op = "relink", !.cur = i,
                             !.rest = st[p].new, !.new = <<>>])
  BY DEF LinkWalk
<1>18. /\ i \in Inums /\ ~Fresh(i)
       /\ \A q \in Procs : st[q].at = "free" => st[q].drop[1] # i
  BY <1>3, StartIsThere
<1>5. PICK r : r = [st[p] EXCEPT !.at = "walk", !.op = "relink", !.cur = i, !.rest = st[p].new, !.new = <<>>]
  OBVIOUS
<1>6. /\ r.at = "walk" /\ r.then = "user" /\ r.cur = i /\ r.drop = <<>> /\ r.ip = st[p].ip
      /\ r.op = "relink" /\ r.rest = st[p].new /\ r.new = <<>>
  BY <1>2, <1>5 DEF Registers
<1>7. /\ r \in Registers /\ Len(r.drop) <= 2 /\ First(r.drop) = None /\ Second(r.drop) = None
      /\ Point(r) = "walk"
  <2>1. "walk" \in Points BY DEF Points
  <2>2. <<>> \in Seq(Names \cup Dots) BY EmptySeq
  <2>3. r \in Registers BY <1>18, <1>2, <1>5, <2>1, <2>2 DEF Registers
  <2>4. Len(<<>>) = 0 BY EmptySeq
  <2> QED BY <1>6, <2>3, <2>4 DEF Point, Puts, First, Second
<1>8. /\ st' = [st EXCEPT ![p] = r] /\ Quiet /\ Get(i, mem)
      /\ UNCHANGED <<cwd, file, writable, lock>>
  BY <1>4, <1>5 DEF LinkWalk, Go, Quiet, blockVars, procVars
<1>9. Becomes(p, r, cwd[p], file[p]) BY <1>8 DEF Becomes, Inv, TypeOK
<1>10. Making(r) = Making(st[p]) /\ LinkTo(r) = LinkTo(st[p]) /\ UnlinkTo(r) = UnlinkTo(st[p])
  BY <1>1, <1>2, <1>3, <1>6 DEF Making, LinkTo, UnlinkTo, OnPaths
<1>11. RegsOK(r, cwd[p]) BY <1>18, <1>3, <1>6, <1>7, Sorts DEF RegsOK, Puts, AtPath, OnPaths
<1>12. Locks(p, r)
  <2>1. \A j \in Inums : ~Keeps(r, j) /\ ~Keeps(st[p], j) BY <1>1, <1>2, <1>6, <1>7 DEF Keeps
  <2> QED BY <1>8, <2>1, RegsAre DEF Locks, Inv, TypeOK
<1>13. Knows(r)
  <2>1. Knows(st[p]) BY RegsAre
  <2> QED BY <1>6, <1>7, <1>10, <2>1 DEF Knows
<1>14. \A j \in Inums : Needs(r, cwd[p], file[p], j) => InUse(j) \/ ~Fresh(j)
  <2>1. \A j \in Inums : Needs(r, cwd[p], file[p], j) => Needs(st[p], cwd[p], file[p], j) \/ j = i
    BY <1>1, <1>6, <1>7, Sorts DEF Needs
  <2> QED BY <1>18, <2>1, RegsAre
<1>15. Caches(p) /\ \A k \in Inums : ref'[k] = ref[k] + One(k = i)
  BY <1>8, <1>18, CachesGot
<1>16. \A j \in Inums : ref'[j] + Refers(st[p], cwd[p], file[p], j)
                          = ref[j] + Refers(r, cwd[p], file[p], j)
  <2>1. \A j \in Inums : Refers(r, cwd[p], file[p], j) = Refers(st[p], cwd[p], file[p], j) + One(j = i)
    BY <1>18, <1>2, <1>3, <1>6, <1>7, Sorts DEF Refers, One
  <2>2. \A j \in Inums : Refers(st[p], cwd[p], file[p], j) \in Nat /\ One(j = i) \in Nat /\ ref[j] \in Nat
    BY DEF Refers, One, Inv, TypeOK
  <2> QED BY <1>15, <2>1, <2>2
<1>17. writable' \in [Procs -> BOOLEAN] BY <1>8 DEF Inv, TypeOK
<1> QED BY <1>1, <1>2, <1>6, <1>7, <1>8, <1>9, <1>10, <1>11, <1>12, <1>13, <1>14, <1>15, <1>16, <1>17, QuietMove

\* What a process finds in its current directory is there, and it can take hold of it.
LEMMA Finds ==
  ASSUME Inv, Steady, NEW p \in Procs, st[p].cur \in Inums, Lockable(st[p].cur),
         Inode(st[p].cur).type = "dir", NEW n \in Names \cup Dots, NEW j, j = entries[st[p].cur][n], j # None,
         \/ (st[p].at = "walk" /\ n = Head(st[p].rest))
         \/ (st[p].at \in {"create", "mkdir", "relink"} /\ n = st[p].name)
         \/ n \in Names
  PROVE  /\ j \in Inums /\ ~Fresh(j)
         /\ \A q \in Procs : st[q].at = "free" => st[q].drop[1] # j
<1>1. PICK d \in Inums : d = st[p].cur OBVIOUS
<1>2. disk[d].type = "dir" BY <1>1, InodeIsDisk DEF Lockable, Free
<1>3. InUse(d)
  <2>1. Needs(st[p], cwd[p], file[p], d) BY <1>1 DEF Needs
  <2> QED BY <2>1, RegsAre
<1>4. ".." \notin Names BY InodesAssumption DEF Dots
<1>5. n = ".." /\ Removed(d) => ~Removed(j) \/ InUse(j)
  <2> SUFFICES ASSUME n = "..", Removed(d) PROVE ~Removed(j) \/ InUse(j)
    OBVIOUS
  <2>1. LooksUp(st[p]) BY <1>4 DEF LooksUp
  <2>2. LET e == entries[st[p].cur][".."] IN ~Removed(e) \/ InUse(e)
    BY <1>1, <2>1 DEF Steady
  <2> QED BY <2>2
<1>6. j = entries[d][n] BY <1>1
<1> QED BY <1>2, <1>3, <1>5, <1>6, FoundIsLive

LEMMA WalkStep ==
  ASSUME Inv, Steady, NEW p \in Procs, Walk(p)
  PROVE  Inv'
<1>1. st[p].at = "walk" /\ st[p].at \notin Puts BY DEF Walk, At, Puts
<1>2. /\ st[p] \in Registers /\ RegsOK(st[p], cwd[p])
      /\ st[p].drop = <<>> /\ st[p].then = "user" /\ Point(st[p]) = st[p].at
      /\ First(st[p].drop) = None /\ Second(st[p].drop) = None
      /\ cwd[p] \in Inums \cup {None} /\ file[p] \in Inums \cup {None}
  BY <1>1, Idle, RegsAre
<1>3. /\ st[p].cur \in Inums /\ cwd[p] # None /\ st[p].op # "none" /\ st[p].rest # <<>>
      /\ (st[p].ip # None <=> st[p].op = "relink") /\ (st[p].op = "link" => st[p].new # <<>>)
  BY <1>1, <1>2 DEF RegsOK, AtPath, OnPaths, Registers
<1>4. PICK i \in Inums : i = st[p].cur BY <1>3
<1>5. st[p].rest \in Seq(Names \cup Dots) BY <1>2 DEF Registers
<1>6. PICK n \in Names \cup Dots : n = Head(st[p].rest) BY <1>3, <1>5, HeadTailProperties
<1>7. /\ Lockable(i) /\ UNCHANGED <<disk, lock, entries, indirect, bitmap, cwd, file, writable>>
      /\ \/ /\ Go(p, DropCur(st[p], Failed(st[p].op))) /\ mem' = Read(i) /\ ref' = ref
         \/ /\ Inode(i).type = "dir" /\ st[p].op \in ToParent
            /\ Go(p, [st[p] EXCEPT !.at = st[p].op, !.name = n, !.rest = <<>>])
            /\ mem' = Read(i) /\ ref' = ref
         \/ /\ Inode(i).type = "dir" /\ ~(st[p].op \in ToParent /\ Len(st[p].rest) = 1)
            /\ entries[i][n] # None
            /\ Get(entries[i][n], Read(i))
            /\ Go(p, [DropCur(st[p], IF Len(st[p].rest) = 1 THEN st[p].op ELSE "walk")
                        EXCEPT !.cur = entries[i][n], !.rest = Tail(@)])
  BY <1>4, <1>6 DEF Walk, blockVars, procVars
<1>8. Quiet /\ writable' \in [Procs -> BOOLEAN] BY <1>7 DEF Quiet, Go, Inv, TypeOK
<1>9. CASE Go(p, DropCur(st[p], Failed(st[p].op))) /\ mem' = Read(i) /\ ref' = ref
  <2>1. PICK x \in {"user", "linkbad"} : x = Failed(st[p].op) BY DEF Failed
  <2>2. IF x = "linkbad" THEN st[p].op = "relink" /\ st[p].ip # None ELSE st[p].ip = None
    BY <1>3, <2>1 DEF Failed
  <2>3. Caches(p) BY <1>7, <1>9, CachesRead
  <2>4. st' = [st EXCEPT ![p] = DropCur(st[p], x)] BY <1>9, <2>1 DEF Go
  <2> QED BY <1>1, <1>7, <1>8, <1>9, <2>2, <2>3, <2>4, DropCurStep
<1>10. CASE /\ Inode(i).type = "dir" /\ st[p].op \in ToParent
            /\ Go(p, [st[p] EXCEPT !.at = st[p].op, !.name = n, !.rest = <<>>])
            /\ mem' = Read(i) /\ ref' = ref
  <2>1. PICK r : r = [st[p] EXCEPT !.at = st[p].op, !.name = n, !.rest = <<>>] OBVIOUS
  <2>2. /\ r.at = st[p].op /\ r.then = "user" /\ r.cur = i /\ r.drop = <<>> /\ r.ip = st[p].ip
        /\ r.op = st[p].op /\ r.rest = <<>> /\ r.new = st[p].new
    BY <1>2, <1>4, <2>1 DEF Registers
  <2>3. r \in Registers /\ Point(r) = st[p].op
    <3>1. st[p].op \in Points BY <1>10 DEF ToParent, Points, OnPaths
    <3>2. <<>> \in Seq(Names \cup Dots) BY EmptySeq
    <3>3. r \in Registers BY <1>2, <2>1, <3>1, <3>2 DEF Registers
    <3> QED BY <1>10, <2>2, <3>3 DEF Point, Puts, ToParent
  <2>4. /\ Len(r.drop) <= 2 /\ First(r.drop) = None /\ Second(r.drop) = None BY <1>2, <2>2, RegsAre
  <2>5. st' = [st EXCEPT ![p] = r] BY <1>10, <2>1 DEF Go
  <2>6. Becomes(p, r, cwd[p], file[p]) BY <1>7, <2>5 DEF Becomes, Inv, TypeOK
  <2>7. Making(r) = Making(st[p]) /\ LinkTo(r) = LinkTo(st[p]) /\ UnlinkTo(r) = UnlinkTo(st[p])
    BY <1>1, <1>2, <1>10, <2>2 DEF Making, LinkTo, UnlinkTo, ToParent
  <2>8. RegsOK(r, cwd[p])
    BY <1>3, <1>10, <2>2, <2>3, Sorts DEF RegsOK, Puts, AtPath, OnPaths, ToParent
  <2>9. Locks(p, r)
    <3>1. \A j \in Inums : ~Keeps(r, j) /\ ~Keeps(st[p], j)
      BY <1>1, <1>2, <1>10, <2>2, <2>3 DEF Keeps, ToParent
    <3> QED BY <1>7, <3>1, RegsAre DEF Locks, Inv, TypeOK
  <2>10. Knows(r)
    <3>1. Knows(st[p]) BY RegsAre
    <3>2. disk[i].type = "dir" BY <1>7, <1>10, InodeIsDisk DEF Lockable, Free
    <3> QED BY <1>10, <2>2, <2>3, <2>7, <3>1, <3>2 DEF Knows, ToParent
  <2>11. \A j \in Inums : Needs(r, cwd[p], file[p], j) => InUse(j)
    <3>1. \A j \in Inums : Needs(r, cwd[p], file[p], j) => Needs(st[p], cwd[p], file[p], j)
      BY <1>1, <1>4, <2>2, <2>4, Sorts DEF Needs
    <3> QED BY <3>1, RegsAre
  <2>12. \A j \in Inums : ref'[j] + Refers(st[p], cwd[p], file[p], j)
                            = ref[j] + Refers(r, cwd[p], file[p], j)
    <3>1. \A j \in Inums : Refers(r, cwd[p], file[p], j) = Refers(st[p], cwd[p], file[p], j)
      BY <1>2, <1>4, <2>2, <2>4 DEF Refers
    <3> QED BY <1>10, <3>1
  <2>13. Caches(p) BY <1>7, <1>10, CachesRead
  <2>14. r.at \notin Puts BY <1>10, <2>2 DEF ToParent, Puts
  <2> QED BY <1>1, <1>2, <1>8, <2>3, <2>4, <2>6, <2>7, <2>8, <2>9, <2>10, <2>11, <2>12, <2>13, <2>14,
             QuietMove DEF Puts
<1>11. CASE /\ Inode(i).type = "dir" /\ ~(st[p].op \in ToParent /\ Len(st[p].rest) = 1)
            /\ entries[i][n] # None
            /\ Get(entries[i][n], Read(i))
            /\ Go(p, [DropCur(st[p], IF Len(st[p].rest) = 1 THEN st[p].op ELSE "walk")
                        EXCEPT !.cur = entries[i][n], !.rest = Tail(@)])
  <2>0. PICK j : j = entries[i][n] OBVIOUS
  <2>1. j = entries[i][n] /\ j \in Inums /\ ~Fresh(j) /\ \A q \in Procs : st[q].at = "free" => st[q].drop[1] # j
    BY <1>1, <1>3, <1>4, <1>6, <1>7, <1>11, <2>0, Finds
  <2>2. PICK x : x = IF Len(st[p].rest) = 1 THEN st[p].op ELSE "walk" OBVIOUS
  <2>3. (x \in {"open", "openr", "chdir", "link"} /\ x = st[p].op) \/ (x = "walk" /\ Len(st[p].rest) # 1)
    <3>1. st[p].op \in {"open", "openr", "chdir", "link"} \cup ToParent
      BY <1>2, <1>3 DEF Registers, ToParent, OnPaths
    <3>2. CASE Len(st[p].rest) = 1 BY <1>11, <2>2, <3>1, <3>2
    <3>3. CASE Len(st[p].rest) # 1 BY <2>2, <3>3
    <3> QED BY <3>2, <3>3
  <2>4. x \in Points /\ x \notin Puts /\ x \in AtPath \cup {"walk"}
    BY <2>3 DEF Points, OnPaths, Puts, AtPath
  <2>5. PICK t \in Seq(Names \cup Dots) : t = Tail(st[p].rest) BY <1>3, <1>5, HeadTailProperties
  <2>6. x = "walk" => t # <<>>
    <3>1. Len(t) = Len(st[p].rest) - 1 BY <1>3, <1>5, <2>5, HeadTailProperties
    <3>2. Len(<<>>) = 0 BY EmptySeq
    <3>3. Len(st[p].rest) \in Nat BY <1>5
    <3>4. t = <<>> => Len(st[p].rest) = 1 BY <3>1, <3>2, <3>3
    <3> QED BY <2>3, <3>4
  <2>7. PICK r0 : r0 = DropCur(st[p], x) OBVIOUS
  <2>8. /\ r0 \in Registers /\ r0.at = "put" /\ r0.then = x /\ r0.cur = None /\ r0.drop = <<i>>
        /\ r0.ip = st[p].ip /\ r0.op = st[p].op /\ r0.rest = st[p].rest /\ r0.new = st[p].new
        /\ r0.name = st[p].name
        /\ Len(r0.drop) <= 2 /\ First(r0.drop) = i /\ Second(r0.drop) = None /\ r0.drop # <<>>
    BY <1>2, <1>4, <2>4, <2>7, DropCurIs
  <2>9. PICK r : r = [r0 EXCEPT !.cur = j, !.rest = t] OBVIOUS
  <2>10. st' = [st EXCEPT ![p] = r]
    <3>1. r = [DropCur(st[p], x) EXCEPT !.cur = entries[i][n], !.rest = Tail(@)]
      BY <2>1, <2>5, <2>7, <2>8, <2>9
    <3> QED BY <1>11, <2>2, <3>1 DEF Go
  <2>11. /\ r \in Registers /\ r.at = "put" /\ r.then = x /\ r.cur = j /\ r.drop = <<i>>
         /\ r.ip = st[p].ip /\ r.op = st[p].op /\ r.rest = t /\ r.new = st[p].new /\ r.drop # <<>>
         /\ Len(r.drop) <= 2 /\ First(r.drop) = i /\ Second(r.drop) = None
    <3>1. r \in Registers BY <2>1, <2>5, <2>8, <2>9 DEF Registers
    <3>2. /\ r.at = r0.at /\ r.then = r0.then /\ r.cur = j /\ r.drop = r0.drop
          /\ r.ip = r0.ip /\ r.op = r0.op /\ r.rest = t /\ r.new = r0.new
      BY <2>8, <2>9 DEF Registers
    <3> QED BY <2>8, <3>1, <3>2
  <2>12. Point(r) = x BY <2>11 DEF Point, Puts
  <2>13. Becomes(p, r, cwd[p], file[p]) BY <1>7, <2>10 DEF Becomes, Inv, TypeOK
  <2>14. Making(r) = Making(st[p]) /\ LinkTo(r) = LinkTo(st[p]) /\ UnlinkTo(r) = UnlinkTo(st[p])
    BY <1>1, <1>2, <2>3, <2>11 DEF Making, LinkTo, UnlinkTo
  <2>15. RegsOK(r, cwd[p])
    <3>1. j # None BY <2>1, Sorts
    <3>2. CASE x = "walk" BY <1>3, <2>6, <2>11, <2>12, <3>1, <3>2 DEF RegsOK, Puts, AtPath, OnPaths
    <3>3. CASE x # "walk"
      <4>1. st[p].ip = None BY <1>3, <2>3, <3>3
      <4> QED BY <1>3, <2>3, <2>11, <2>12, <3>1, <3>3, <4>1 DEF RegsOK, Puts, AtPath, OnPaths
    <3> QED BY <3>2, <3>3
  <2>16. Locks(p, r)
    <3>1. \A k \in Inums : ~Keeps(r, k) /\ ~Keeps(st[p], k)
      BY <1>1, <1>2, <2>3, <2>11, <2>12 DEF Keeps
    <3> QED BY <1>7, <3>1, RegsAre DEF Locks, Inv, TypeOK
  <2>17. Knows(r)
    <3>1. Knows(st[p]) BY RegsAre
    <3> QED BY <2>3, <2>11, <2>12, <2>14, <3>1 DEF Knows
  <2>18. \A k \in Inums : Needs(r, cwd[p], file[p], k) => InUse(k) \/ ~Fresh(k)
    <3>1. \A k \in Inums : Needs(r, cwd[p], file[p], k) => k = j \/ Needs(st[p], cwd[p], file[p], k)
      BY <1>1, <1>4, <2>11, Sorts DEF Needs
    <3> QED BY <2>1, <3>1, RegsAre
  <2>19. Caches(p) /\ \A k \in Inums : ref'[k] = ref[k] + One(k = j)
    BY <1>7, <1>11, <2>1, CachesGot
  <2>20. \A k \in Inums : ref'[k] + Refers(st[p], cwd[p], file[p], k)
                            = ref[k] + Refers(r, cwd[p], file[p], k)
    <3>1. \A k \in Inums : Refers(r, cwd[p], file[p], k) = Refers(st[p], cwd[p], file[p], k) + One(k = j)
      BY <1>2, <1>4, <2>11, Sorts DEF Refers, One
    <3>2. \A k \in Inums : Refers(st[p], cwd[p], file[p], k) \in Nat /\ One(k = j) \in Nat /\ ref[k] \in Nat
      BY DEF Refers, One, Inv, TypeOK
    <3> QED BY <2>19, <3>1, <3>2
  <2> QED BY <1>1, <1>2, <1>8, <2>11, <2>13, <2>14, <2>15, <2>16, <2>17, <2>18, <2>19, <2>20, QuietMove
<1> QED BY <1>7, <1>9, <1>10, <1>11

\* Registers at a point where the parent directory has been found.
LEMMA AtParent ==
  ASSUME Inv, NEW p \in Procs, st[p].at \in {"create", "mkdir", "unlink", "relink"}
  PROVE  /\ st[p].at \notin Puts /\ st[p] \in Registers /\ RegsOK(st[p], cwd[p])
         /\ st[p].drop = <<>> /\ st[p].then = "user" /\ Point(st[p]) = st[p].at
         /\ First(st[p].drop) = None /\ Second(st[p].drop) = None
         /\ cwd[p] \in Inums /\ file[p] \in Inums \cup {None}
         /\ st[p].op = st[p].at /\ st[p].cur \in Inums /\ disk[st[p].cur].type = "dir"
         /\ (st[p].ip # None <=> st[p].at = "relink")
         /\ Making(st[p]) = None /\ UnlinkTo(st[p]) = None /\ \A j \in Inums : ~Keeps(st[p], j)
         /\ st[p].name \in Names \cup Dots
<1>1. st[p].at \notin Puts BY DEF Puts
<1>2. /\ st[p] \in Registers /\ RegsOK(st[p], cwd[p])
      /\ st[p].drop = <<>> /\ st[p].then = "user" /\ Point(st[p]) = st[p].at
      /\ First(st[p].drop) = None /\ Second(st[p].drop) = None
      /\ cwd[p] \in Inums \cup {None} /\ file[p] \in Inums \cup {None}
  BY <1>1, Idle, RegsAre
<1>3. /\ st[p].op = st[p].at /\ st[p].cur # None /\ cwd[p] # None
      /\ (st[p].ip # None <=> st[p].at = "relink")
  BY <1>2 DEF RegsOK, AtPath, OnPaths
<1>4. st[p].cur \in Inums /\ st[p].name \in Names \cup Dots BY <1>2, <1>3 DEF Registers
<1>5. disk[st[p].cur].type = "dir"
  <2>1. Knows(st[p]) BY RegsAre
  <2> QED BY <1>2, <2>1 DEF Knows
<1>6. Making(st[p]) = None /\ UnlinkTo(st[p]) = None /\ \A j \in Inums : ~Keeps(st[p], j)
  BY <1>2 DEF Making, UnlinkTo, Keeps
<1> QED BY <1>1, <1>2, <1>3, <1>4, <1>5, <1>6

\* create finds the name.
LEMMA CreateFound ==
  ASSUME Inv, Steady, NEW p \in Procs, Create(p), entries[st[p].cur][st[p].name] # None
  PROVE  Inv'
<1>1. st[p].at \in {"create", "mkdir"} BY DEF Create
<1>2. PICK i \in Inums : i = st[p].cur BY <1>1, AtParent
<1>3. PICK j : j = entries[st[p].cur][st[p].name] OBVIOUS
<1>4. /\ Lockable(i) /\ Get(j, Read(i)) /\ Go(p, [DropCur(st[p], "exists") EXCEPT !.ip = j])
      /\ UNCHANGED <<disk, lock, entries, indirect, bitmap, cwd, file, writable>>
  BY <1>2, <1>3 DEF Create, blockVars, procVars
<1>5. j \in Inums /\ ~Fresh(j) /\ \A q \in Procs : st[q].at = "free" => st[q].drop[1] # j
  <2>1. Inode(i).type = "dir" BY <1>1, <1>2, <1>4, AtParent, InodeIsDisk DEF Lockable, Free
  <2> QED BY <1>1, <1>2, <1>3, <1>4, <2>1, AtParent, Finds
<1>6. PICK r0 : r0 = DropCur(st[p], "exists") OBVIOUS
<1>7. /\ r0 \in Registers /\ r0.at = "put" /\ r0.then = "exists" /\ r0.cur = None /\ r0.drop = <<i>>
      /\ r0.ip = st[p].ip /\ r0.op = st[p].op /\ r0.rest = st[p].rest /\ r0.new = st[p].new
      /\ Len(r0.drop) <= 2 /\ First(r0.drop) = i /\ Second(r0.drop) = None /\ r0.drop # <<>>
  <2>1. "exists" \in Points BY DEF Points
  <2>2. st[p] \in Registers /\ st[p].cur \in Inums /\ st[p].drop = <<>> BY <1>1, AtParent
  <2> QED BY <1>2, <1>6, <2>1, <2>2, DropCurIs
<1>8. PICK r : r = [r0 EXCEPT !.ip = j] OBVIOUS
<1>9. r \in Registers BY <1>5, <1>7, <1>8 DEF Registers
<1>10. /\ r.at = "put" /\ r.then = "exists" /\ r.cur = None /\ r.drop = <<i>> /\ r.ip = j
       /\ r.op = st[p].op /\ r.drop # <<>>
       /\ Len(r.drop) <= 2 /\ First(r.drop) = i /\ Second(r.drop) = None
  BY <1>7, <1>8 DEF Registers
<1>11. Point(r) = "exists" BY <1>10 DEF Point, Puts
<1>12. st' = [st EXCEPT ![p] = r] /\ Quiet /\ writable' \in [Procs -> BOOLEAN]
  BY <1>4, <1>6, <1>8 DEF Go, Quiet, Inv, TypeOK
<1>13. Becomes(p, r, cwd[p], file[p]) BY <1>4, <1>12 DEF Becomes, Inv, TypeOK
<1>14. Making(r) = Making(st[p]) /\ LinkTo(r) = LinkTo(st[p]) /\ UnlinkTo(r) = UnlinkTo(st[p])
  BY <1>1, <1>10, AtParent DEF Making, LinkTo, UnlinkTo
<1>15. RegsOK(r, cwd[p])
  BY <1>1, <1>5, <1>10, <1>11, Sorts, AtParent DEF RegsOK, Puts, AtPath, OnPaths
<1>16. Locks(p, r)
  <2>1. \A k \in Inums : ~Keeps(r, k) BY <1>10, <1>11 DEF Keeps
  <2>2. \A k \in Inums : ~Keeps(st[p], k) BY <1>1, AtParent
  <2> QED BY <1>4, <2>1, <2>2, RegsAre DEF Locks, Inv, TypeOK
<1>17. Knows(r)
  <2>1. LinkTo(r) = None BY <1>1, <1>10, AtParent DEF LinkTo
  <2> QED BY <1>10, <1>11, <2>1 DEF Knows
<1>18. \A k \in Inums : Needs(r, cwd[p], file[p], k) => InUse(k) \/ ~Fresh(k)
  <2>1. \A k \in Inums : Needs(r, cwd[p], file[p], k) => k = j \/ Needs(st[p], cwd[p], file[p], k)
    BY <1>2, <1>10, Sorts DEF Needs
  <2> QED BY <1>5, <2>1, RegsAre
<1>19. Caches(p) /\ \A k \in Inums : ref'[k] = ref[k] + One(k = j)
  BY <1>4, <1>5, CachesGot
<1>20. \A k \in Inums : ref'[k] + Refers(st[p], cwd[p], file[p], k)
                          = ref[k] + Refers(r, cwd[p], file[p], k)
  <2>1. st[p].ip = None /\ First(st[p].drop) = None /\ Second(st[p].drop) = None BY <1>1, AtParent
  <2>2. \A k \in Inums : Refers(r, cwd[p], file[p], k) = Refers(st[p], cwd[p], file[p], k) + One(k = j)
    BY <1>2, <1>10, <2>1, Sorts DEF Refers, One
  <2>3. \A k \in Inums : Refers(st[p], cwd[p], file[p], k) \in Nat /\ One(k = j) \in Nat /\ ref[k] \in Nat
    BY DEF Refers, One, Inv, TypeOK
  <2> QED BY <1>19, <2>2, <2>3
<1>21. st[p].at # "invalidate" /\ cwd[p] \in Inums \cup {None} /\ file[p] \in Inums \cup {None}
  BY <1>1, RegsAre
<1> QED BY <1>9, <1>10, <1>12, <1>13, <1>14, <1>15, <1>16, <1>17, <1>18, <1>19, <1>20, <1>21, QuietMove

LEMMA UnlinkStep ==
  ASSUME Inv, Steady, NEW p \in Procs, Unlink(p)
  PROVE  Inv'
<1>1. st[p].at = "unlink" BY DEF Unlink, At
<1>2. PICK i \in Inums : i = st[p].cur BY <1>1, AtParent
<1>3. PICK j : j = entries[st[p].cur][st[p].name] OBVIOUS
<1>4. /\ Lockable(i) /\ UNCHANGED <<disk, entries, indirect, bitmap, cwd, file, writable>>
      /\ \/ mem' = Read(i) /\ Go(p, DropCur(st[p], "user")) /\ ref' = ref /\ lock' = lock
         \/ /\ st[p].name \notin Dots /\ j # None
            /\ Get(j, Read(i)) /\ lock' = [lock EXCEPT ![i] = p]
            /\ Go(p, [st[p] EXCEPT !.at = "unlink2", !.ip = j])
  BY <1>2, <1>3 DEF Unlink, blockVars, procVars
<1>5. CASE mem' = Read(i) /\ Go(p, DropCur(st[p], "user")) /\ ref' = ref /\ lock' = lock
  <2>1. Quiet /\ UNCHANGED <<cwd, file, writable, ref>> /\ st' = [st EXCEPT ![p] = DropCur(st[p], "user")]
    BY <1>4, <1>5 DEF Quiet, Go
  <2>2. Caches(p) BY <1>4, <1>5, CachesRead
  <2>3. st[p].ip = None BY <1>1, AtParent
  <2> QED BY <1>1, <1>5, <2>1, <2>2, <2>3, DropCurStep DEF AtPath, OnPaths
<1>6. CASE /\ st[p].name \notin Dots /\ j # None
           /\ Get(j, Read(i)) /\ lock' = [lock EXCEPT ![i] = p]
           /\ Go(p, [st[p] EXCEPT !.at = "unlink2", !.ip = j])
  <2>1. st[p].name \in Names BY <1>1, <1>6, AtParent
  <2>2. j \in Inums /\ ~Fresh(j) /\ \A q \in Procs : st[q].at = "free" => st[q].drop[1] # j
    <3>1. Inode(i).type = "dir" BY <1>1, <1>2, <1>4, AtParent, InodeIsDisk DEF Lockable, Free
    <3> QED BY <1>2, <1>3, <1>4, <1>6, <2>1, <3>1, Finds
  <2>3. PICK r : r = [st[p] EXCEPT !.at = "unlink2", !.ip = j] OBVIOUS
  <2>4. /\ r \in Registers /\ r.at = "unlink2" /\ r.ip = j /\ r.cur = i /\ r.then = "user" /\ r.drop = <<>>
        /\ r.op = "unlink" /\ r.name = st[p].name
    <3>1. "unlink2" \in Points BY DEF Points
    <3>2. st[p] \in Registers /\ st[p].drop = <<>> /\ st[p].then = "user" /\ st[p].op = "unlink"
      BY <1>1, AtParent
    <3>3. r \in Registers BY <2>2, <2>3, <3>1, <3>2 DEF Registers
    <3> QED BY <1>2, <2>3, <3>2, <3>3 DEF Registers
  <2>5. Len(r.drop) <= 2 /\ First(r.drop) = None /\ Second(r.drop) = None
    <3>1. Len(<<>>) = 0 BY EmptySeq
    <3> QED BY <2>4, <3>1 DEF First, Second
  <2>6. Point(r) = "unlink2" BY <2>4 DEF Point, Puts
  <2>7. st' = [st EXCEPT ![p] = r] /\ Quiet /\ writable' \in [Procs -> BOOLEAN]
    BY <1>4, <1>6, <2>3 DEF Go, Quiet, Inv, TypeOK
  <2>8. Becomes(p, r, cwd[p], file[p]) BY <1>4, <2>7 DEF Becomes, Inv, TypeOK
  <2>9. Making(r) = Making(st[p]) /\ LinkTo(r) = LinkTo(st[p]) /\ UnlinkTo(r) = UnlinkTo(st[p])
    BY <1>1, <2>4, AtParent DEF Making, LinkTo, UnlinkTo
  <2>10. RegsOK(r, cwd[p])
    BY <1>1, <2>2, <2>4, <2>6, Sorts, AtParent DEF RegsOK, Puts, AtPath, OnPaths
  <2>11. Locks(p, r)
    <3>1. \A k \in Inums : Keeps(r, k) <=> k = i BY <2>4, <2>6 DEF Keeps
    <3>2. \A k \in Inums : ~Keeps(st[p], k) BY <1>1, AtParent
    <3>3. \A k \in Inums : lock[k] # p BY <3>2, RegsAre
    <3>4. lock[i] = Nobody BY <1>4 DEF Lockable, Free
    <3> QED BY <1>6, <3>1, <3>3, <3>4, Sorts DEF Locks, Inv, TypeOK
  <2>12. Knows(r)
    <3>1. LinkTo(r) = None BY <2>4 DEF LinkTo
    <3>2. disk[i].type = "dir" BY <1>1, <1>2, AtParent
    <3> QED BY <1>2, <1>3, <2>1, <2>4, <2>6, <3>1, <3>2 DEF Knows
  <2>13. \A k \in Inums : Needs(r, cwd[p], file[p], k) => InUse(k) \/ ~Fresh(k)
    <3>1. \A k \in Inums : Needs(r, cwd[p], file[p], k) => k = j \/ Needs(st[p], cwd[p], file[p], k)
      BY <1>2, <2>4, <2>5, Sorts DEF Needs
    <3> QED BY <2>2, <3>1, RegsAre
  <2>14. Caches(p) /\ \A k \in Inums : ref'[k] = ref[k] + One(k = j)
    BY <1>4, <1>6, <2>2, CachesGot
  <2>15. \A k \in Inums : ref'[k] + Refers(st[p], cwd[p], file[p], k)
                            = ref[k] + Refers(r, cwd[p], file[p], k)
    <3>1. st[p].ip = None /\ First(st[p].drop) = None /\ Second(st[p].drop) = None BY <1>1, AtParent
    <3>2. \A k \in Inums : Refers(r, cwd[p], file[p], k) = Refers(st[p], cwd[p], file[p], k) + One(k = j)
      BY <1>2, <2>4, <2>5, <3>1, Sorts DEF Refers, One
    <3>3. \A k \in Inums : Refers(st[p], cwd[p], file[p], k) \in Nat /\ One(k = j) \in Nat /\ ref[k] \in Nat
      BY DEF Refers, One, Inv, TypeOK
    <3> QED BY <2>14, <3>2, <3>3
  <2>16. st[p].at # "invalidate" /\ cwd[p] \in Inums \cup {None} /\ file[p] \in Inums \cup {None}
    BY <1>1, RegsAre
  <2> QED BY <2>4, <2>5, <2>7, <2>8, <2>9, <2>10, <2>11, <2>12, <2>13, <2>14, <2>15, <2>16, QuietMove
<1> QED BY <1>4, <1>5, <1>6

\* link of a directory fails.
LEMMA LinkOfDir ==
  ASSUME Inv, NEW p \in Procs, Link(p), Inode(st[p].cur).type = "dir"
  PROVE  Inv'
<1>1. st[p].at = "link" /\ st[p].at \notin Puts BY DEF Link, At, Puts
<1>2. st[p].ip = None /\ st[p].cur \in Inums
  BY <1>1, Idle, RegsAre DEF RegsOK, AtPath, OnPaths, Registers
<1>3. PICK i \in Inums : i = st[p].cur BY <1>2
<1>4. /\ Lockable(i) /\ mem' = Read(i) /\ ref' = ref /\ lock' = lock
      /\ st' = [st EXCEPT ![p] = DropCur(st[p], "user")]
      /\ Quiet /\ UNCHANGED <<cwd, file, writable, ref>>
  BY <1>3 DEF Link, Quiet, Go, blockVars, procVars
<1>5. Caches(p) BY <1>4, CachesRead
<1> QED BY <1>1, <1>2, <1>4, <1>5, DropCurStep DEF AtPath, OnPaths

\* link finds the new name there already.
LEMMA RelinkFound ==
  ASSUME Inv, Steady, NEW p \in Procs, Relink(p), entries[st[p].cur][st[p].name] # None
  PROVE  Inv'
<1>1. st[p].at = "relink" BY DEF Relink, At
<1>2. PICK i \in Inums : i = st[p].cur BY <1>1, AtParent
<1>3. PICK j : j = entries[st[p].cur][st[p].name] OBVIOUS
<1>4. /\ Lockable(i) /\ Get(j, Read(i)) /\ lock' = [lock EXCEPT ![i] = p]
      /\ Go(p, [st[p] EXCEPT !.at = "put", !.drop = <<j>>, !.then = "linked"])
      /\ UNCHANGED <<disk, entries, indirect, bitmap, cwd, file, writable>>
  BY <1>2, <1>3 DEF Relink, blockVars, procVars
<1>5. j \in Inums /\ ~Fresh(j) /\ \A q \in Procs : st[q].at = "free" => st[q].drop[1] # j
  <2>1. Inode(i).type = "dir" BY <1>1, <1>2, <1>4, AtParent, InodeIsDisk DEF Lockable, Free
  <2> QED BY <1>1, <1>2, <1>3, <1>4, <2>1, AtParent, Finds
<1>6. PICK r : r = [st[p] EXCEPT !.at = "put", !.drop = <<j>>, !.then = "linked"] OBVIOUS
<1>7. /\ r \in Registers /\ r.at = "put" /\ r.then = "linked" /\ r.cur = i /\ r.drop = <<j>> /\ r.ip = st[p].ip
      /\ r.op = "relink"
  <2>1. "put" \in Points /\ "linked" \in Points BY DEF Points
  <2>2. st[p] \in Registers /\ st[p].op = "relink" BY <1>1, AtParent
  <2>3. r \in Registers BY <1>5, <1>6, <2>1, <2>2, Singles DEF Registers
  <2> QED BY <1>2, <1>6, <2>2, <2>3 DEF Registers
<1>8. Len(r.drop) <= 2 /\ First(r.drop) = j /\ Second(r.drop) = None /\ r.drop # <<>>
  BY <1>5, <1>7, Singles
<1>9. Point(r) = "linked" BY <1>7 DEF Point, Puts
<1>10. st' = [st EXCEPT ![p] = r] /\ Quiet /\ writable' \in [Procs -> BOOLEAN]
  BY <1>4, <1>6 DEF Go, Quiet, Inv, TypeOK
<1>11. Becomes(p, r, cwd[p], file[p]) BY <1>4, <1>10 DEF Becomes, Inv, TypeOK
<1>12. Making(r) = Making(st[p]) /\ LinkTo(r) = LinkTo(st[p]) /\ UnlinkTo(r) = UnlinkTo(st[p])
  BY <1>1, <1>7, AtParent DEF Making, LinkTo, UnlinkTo
<1>13. RegsOK(r, cwd[p])
  BY <1>1, <1>2, <1>7, <1>8, <1>9, Sorts, AtParent DEF RegsOK, Puts, AtPath, OnPaths
<1>14. Locks(p, r)
  <2>1. \A k \in Inums : Keeps(r, k) <=> k = i BY <1>7, <1>9 DEF Keeps
  <2>2. \A k \in Inums : ~Keeps(st[p], k) BY <1>1, AtParent
  <2>3. \A k \in Inums : lock[k] # p BY <2>2, RegsAre
  <2>4. lock[i] = Nobody BY <1>4 DEF Lockable, Free
  <2> QED BY <1>4, <2>1, <2>3, <2>4, Sorts DEF Locks, Inv, TypeOK
<1>15. Knows(r)
  <2>1. Knows(st[p]) BY RegsAre
  <2>2. disk[i].type = "dir" BY <1>1, <1>2, AtParent
  <2> QED BY <1>7, <1>9, <1>12, <2>1, <2>2 DEF Knows
<1>16. \A k \in Inums : Needs(r, cwd[p], file[p], k) => InUse(k) \/ ~Fresh(k)
  <2>1. \A k \in Inums : Needs(r, cwd[p], file[p], k) => k = j \/ Needs(st[p], cwd[p], file[p], k)
    BY <1>1, <1>2, <1>7, <1>8, Sorts DEF Needs
  <2> QED BY <1>5, <2>1, RegsAre
<1>17. Caches(p) /\ \A k \in Inums : ref'[k] = ref[k] + One(k = j)
  BY <1>4, <1>5, CachesGot
<1>18. \A k \in Inums : ref'[k] + Refers(st[p], cwd[p], file[p], k)
                          = ref[k] + Refers(r, cwd[p], file[p], k)
  <2>1. First(st[p].drop) = None /\ Second(st[p].drop) = None BY <1>1, AtParent
  <2>2. \A k \in Inums : Refers(r, cwd[p], file[p], k) = Refers(st[p], cwd[p], file[p], k) + One(k = j)
    BY <1>2, <1>7, <1>8, <2>1, Sorts DEF Refers, One
  <2>3. \A k \in Inums : Refers(st[p], cwd[p], file[p], k) \in Nat /\ One(k = j) \in Nat /\ ref[k] \in Nat
    BY DEF Refers, One, Inv, TypeOK
  <2> QED BY <1>17, <2>2, <2>3
<1>19. st[p].at # "invalidate" /\ cwd[p] \in Inums \cup {None} /\ file[p] \in Inums \cup {None}
  BY <1>1, RegsAre
<1> QED BY <1>7, <1>8, <1>10, <1>11, <1>12, <1>13, <1>14, <1>15, <1>16, <1>17, <1>18, <1>19, QuietMove

-----------------------------------------------------------------------------
(* Steps that change the disk *)

LEMMA CacheMove ==
  ASSUME CacheInv, FreeingInv, NEW p \in Procs, NEW r,
         \A q \in Procs \ {p} : st'[q] = st[q], st'[p] = r, st[p].at # "invalidate", r.at # "free",
         \A i \in Inums : \/ mem'[i] \in {mem[i], Invalid} /\ (disk'[i] = disk[i] \/ disk[i].type = "free")
                          \/ mem'[i] = disk'[i] /\ disk'[i].type # "free"
                          \/ r.at = "invalidate" /\ r.drop[1] = i,
         \A q \in Procs \ {p} : st[q].at = "free" =>
             ref'[st[q].drop[1]] = ref[st[q].drop[1]] /\ mem'[st[q].drop[1]] = mem[st[q].drop[1]]
  PROVE  CacheInv' /\ FreeingInv'
<1>1. CacheInv'
  <2> SUFFICES ASSUME NEW i \in Inums
               PROVE  \/ mem'[i] = Invalid
                      \/ mem'[i] = disk'[i] /\ disk'[i].type # "free"
                      \/ \E q \in Procs : st'[q].at = "invalidate" /\ st'[q].drop[1] = i
    BY DEF CacheInv
  <2>1. CASE \E q \in Procs : st[q].at = "invalidate" /\ st[q].drop[1] = i
    <3>1. PICK q \in Procs : st[q].at = "invalidate" /\ st[q].drop[1] = i BY <2>1
    <3>2. q # p BY <3>1
    <3> QED BY <3>1, <3>2
  <2>2. CASE ~\E q \in Procs : st[q].at = "invalidate" /\ st[q].drop[1] = i
    <3>1. mem[i] = Invalid \/ (mem[i] = disk[i] /\ disk[i].type # "free") BY <2>2 DEF CacheInv
    <3> QED BY <3>1
  <2> QED BY <2>1, <2>2
<1>2. FreeingInv'
  <2> SUFFICES ASSUME NEW q \in Procs, st'[q].at = "free"
               PROVE  ref'[st'[q].drop[1]] = 1 /\ mem'[st'[q].drop[1]] # Invalid
                        /\ mem'[st'[q].drop[1]].nlink = 0
    BY DEF FreeingInv
  <2>1. q # p OBVIOUS
  <2> QED BY <2>1 DEF FreeingInv
<1> QED BY <1>1, <1>2

LEMMA KnowsMove ==
  ASSUME TypeOK, RegsInv, KnowsInv, NEW p \in Procs, NEW r,
         \A q \in Procs \ {p} : st'[q] = st[q], st'[p] = r, Knows(r)',
         \A q \in Procs \ {p} :
           /\ st[q].cur \in Inums => disk'[st[q].cur].type = disk[st[q].cur].type
           /\ st[q].ip \in Inums => disk'[st[q].ip].type = disk[st[q].ip].type
           /\ st[q].at \in {"fill", "unlink2"} =>
                entries'[st[q].cur][st[q].name] = entries[st[q].cur][st[q].name]
  PROVE  KnowsInv'
<1> SUFFICES ASSUME NEW q \in Procs PROVE Knows(st[q])' BY DEF KnowsInv
<1>1. CASE q = p BY <1>1 DEF Knows
<1>2. CASE q # p
  <2>1. Knows(st[q]) /\ RegsOK(st[q], cwd[q]) /\ st[q] \in Registers BY DEF KnowsInv, RegsInv, TypeOK
  <2>2. Point(st[q]) \in {"create", "mkdir", "unlink", "relink", "fill", "unlink2", "unlinkbad", "linked"}
          => st[q].cur \in Inums
    BY <2>1 DEF RegsOK, Registers, AtPath, OnPaths
  <2>3. LinkTo(st[q]) # None => st[q].ip \in Inums BY <2>1 DEF LinkTo, Registers
  <2>4. st[q].at = "fill" => st[q].ip \in Inums BY <2>1 DEF RegsOK, Registers, Point, Puts
  <2>5. st'[q] = st[q] BY <1>2
  <2> QED BY <1>2, <2>1, <2>2, <2>3, <2>4, <2>5 DEF Knows
<1> QED BY <1>1, <1>2

\* The same inodes are free or in the making.
LEMMA FreshKept ==
  ASSUME TypeOK, RegsInv, FreshInv, NEW p \in Procs, NEW r, NEW c, NEW h,
         \A q \in Procs \ {p} : st'[q] = st[q] /\ cwd'[q] = cwd[q] /\ file'[q] = file[q],
         st'[p] = r, cwd'[p] = c, file'[p] = h, Making(r) = Making(st[p]), r.at # "invalidate",
         \A i \in Inums : disk'[i].type = disk[i].type,
         \A i \in Inums : Fresh(i) => disk'[i] = disk[i] /\ entries'[i] = entries[i]
                                        /\ NamesOf(i)' = {} /\ i \notin orphans',
         \A i \in Inums : Needs(r, c, h, i) => InUse(i) \/ ~Fresh(i)
  PROVE  /\ FreshInv' /\ \A i \in Inums : (InTheMaking(i)' <=> InTheMaking(i)) /\ (Fresh(i)' <=> Fresh(i))
<1>1. \A q \in Procs : Making(st'[q]) = Making(st[q]) OBVIOUS
<1>2. \A i \in Inums : InTheMaking(i)' <=> InTheMaking(i)
  <2> TAKE i \in Inums
  <2>1. InTheMaking(i)' <=> \E q \in Procs : Making(st'[q]) = i BY CallingNext DEF CallsAre
  <2>2. InTheMaking(i) <=> \E q \in Procs : Making(st[q]) = i BY Calling DEF CallsAre
  <2> QED BY <1>1, <2>1, <2>2
<1>3. \A i \in Inums : Fresh(i)' <=> Fresh(i) BY <1>2 DEF Fresh
<1>4. \A i \in Inums : InUse(i)' => InUse(i) \/ ~Fresh(i)
  <2> SUFFICES ASSUME NEW i \in Inums, NEW q \in Procs, Uses(q, i)' PROVE InUse(i) \/ ~Fresh(i)
    BY DEF InUse
  <2>1. Needs(st'[q], cwd'[q], file'[q], i) BY UsingNext DEF UsesAre
  <2>2. CASE q = p BY <2>1, <2>2
  <2>3. CASE q # p
    <3>1. Needs(st[q], cwd[q], file[q], i) BY <2>1, <2>3
    <3> QED BY <3>1, Using DEF UsesAre, InUse
  <2> QED BY <2>2, <2>3
<1>5. (\A q \in Procs : st[q].at = "invalidate" => Fresh(st[q].drop[1]))'
  <2> SUFFICES ASSUME NEW q \in Procs, st'[q].at = "invalidate", NEW i, i = st'[q].drop[1] PROVE Fresh(i)'
    OBVIOUS
  <2>1. q # p /\ st'[q] = st[q] OBVIOUS
  <2>2. st[q].drop \in Seq(Inums) /\ st[q].drop # <<>>
    BY <2>1 DEF TypeOK, Registers, RegsInv, RegsOK, Puts
  <2>3. i \in Inums BY <2>1, <2>2
  <2>4. Fresh(i) BY <2>1 DEF FreshInv
  <2> QED BY <1>3, <2>3, <2>4
<1>6. (\A i \in Inums : Fresh(i) =>
       /\ disk[i].nlink = 0 /\ disk[i].addrs = NoBlocks
       /\ entries[i] = NoEntries /\ NamesOf(i) = {} /\ i \notin orphans
       /\ ~InUse(i))'
  <2> SUFFICES ASSUME NEW i \in Inums, Fresh(i)'
               PROVE  /\ disk'[i].nlink = 0 /\ disk'[i].addrs = NoBlocks
                      /\ entries'[i] = NoEntries /\ NamesOf(i)' = {} /\ i \notin orphans'
                      /\ ~InUse(i)'
    OBVIOUS
  <2>1. Fresh(i) BY <1>3
  <2> QED BY <1>4, <2>1 DEF FreshInv
<1>7. (\A q, s \in Procs : Making(st[q]) = Making(st[s]) /\ Making(st[q]) # None => q = s)'
  BY <1>1 DEF FreshInv
<1>8. (\A i \in Inums : disk[i].type # "invalid")' BY DEF FreshInv
<1> QED BY <1>2, <1>3, <1>5, <1>6, <1>7, <1>8 DEF FreshInv

LEMMA BlocksKept ==
  ASSUME BlocksOwned, UNCHANGED <<bitmap, indirect>>, \A i \in Inums : disk'[i].addrs = disk[i].addrs
  PROVE  BlocksOwned'
<1>1. \A i \in Inums : \A n : BlockAt(disk[i], n)' = BlockAt(disk[i], n) BY DEF BlockAt
<1>2. \A i \in Inums : Addrs(disk[i])' = Addrs(disk[i]) BY <1>1 DEF Addrs
<1> QED BY <1>1, <1>2 DEF BlocksOwned

LEMMA LoopsKept ==
  ASSUME NoLoops, NEW i \in Inums,
         \A d \in Inums, n \in Names : entries'[d][n] \in {entries[d][n], None, i},
         \A n \in Names : entries'[i][n] = None
  PROVE  NoLoops'
<1> SUFFICES ASSUME NEW D \in (SUBSET Inums) \ {{}} PROVE \E d \in D : \A n \in Names : entries'[d][n] \notin D
  BY DEF NoLoops
<1>0. D \subseteq Inums OBVIOUS
<1>1. CASE i \in D
  <2>1. None \notin D BY <1>0, Sorts
  <2> QED BY <1>1, <2>1
<1>2. CASE i \notin D
  <2>1. PICK d \in D : \A n \in Names : entries[d][n] \notin D BY DEF NoLoops
  <2>2. None \notin D BY <1>0, Sorts
  <2>3. \A n \in Names : entries'[d][n] \notin D
    <3> TAKE n \in Names
    <3>1. entries'[d][n] \in {entries[d][n], None, i} BY <1>0
    <3> QED BY <1>2, <2>1, <2>2, <3>1
  <2> QED BY <2>3
<1> QED BY <1>1, <1>2

LEMMA LoopsCut ==
  ASSUME NoLoops, \A d \in Inums, n \in Names : entries'[d][n] \in {entries[d][n], None}
  PROVE  NoLoops'
<1> SUFFICES ASSUME NEW D \in (SUBSET Inums) \ {{}} PROVE \E d \in D : \A n \in Names : entries'[d][n] \notin D
  BY DEF NoLoops
<1>1. PICK d \in D : \A n \in Names : entries[d][n] \notin D BY DEF NoLoops
<1> QED BY <1>1, Sorts

CountsNat == \A i : /\ Cardinality(NamesOf(i)) \in Nat /\ Cardinality(SubDirs(i)) \in Nat
                    /\ Cardinality(Linking(i)) \in Nat /\ Cardinality(Unlinking(i)) \in Nat

LEMMA LinkSetsNext == CountsNat'
<1>1. CountsNat BY LinkSets DEF CountsNat
<1> QED BY <1>1, PTL

\* Calls of the others that are about to change a link count.
LinkRest(p, i)   == {q \in Procs : q # p /\ LinkTo(st[q]) = i}
UnlinkRest(p, i) == {q \in Procs : q # p /\ UnlinkTo(st[q]) = i}

CallsAddUp == \A p \in Procs, i \in Inums :
  /\ Cardinality(Linking(i)) = Cardinality(LinkRest(p, i)) + One(LinkTo(st[p]) = i)
  /\ Cardinality(Unlinking(i)) = Cardinality(UnlinkRest(p, i)) + One(UnlinkTo(st[p]) = i)
  /\ Cardinality(LinkRest(p, i)) \in Nat /\ Cardinality(UnlinkRest(p, i)) \in Nat

LEMMA CallsSplit == CallsAddUp
<1> SUFFICES ASSUME NEW p \in Procs, NEW i \in Inums
             PROVE  /\ Cardinality(Linking(i)) = Cardinality(LinkRest(p, i)) + One(LinkTo(st[p]) = i)
                    /\ Cardinality(Unlinking(i)) = Cardinality(UnlinkRest(p, i)) + One(UnlinkTo(st[p]) = i)
                    /\ Cardinality(LinkRest(p, i)) \in Nat /\ Cardinality(UnlinkRest(p, i)) \in Nat
  BY DEF CallsAddUp
<1>1. IsFiniteSet(LinkRest(p, i)) /\ IsFiniteSet(UnlinkRest(p, i))
  BY InodesAssumption, FS_Subset DEF LinkRest, UnlinkRest
<1>2. p \notin LinkRest(p, i) /\ p \notin UnlinkRest(p, i) BY DEF LinkRest, UnlinkRest
<1>3. PICK b \in BOOLEAN : b <=> LinkTo(st[p]) = i OBVIOUS
<1>4. PICK c \in BOOLEAN : c <=> UnlinkTo(st[p]) = i OBVIOUS
<1>5. Linking(i) = IF b THEN LinkRest(p, i) \cup {p} ELSE LinkRest(p, i)
  BY <1>3, Calling DEF CallsAre, LinkRest
<1>6. Unlinking(i) = IF c THEN UnlinkRest(p, i) \cup {p} ELSE UnlinkRest(p, i)
  BY <1>4, Calling DEF CallsAre, UnlinkRest
<1>7. One(b) = One(LinkTo(st[p]) = i) /\ One(c) = One(UnlinkTo(st[p]) = i) BY <1>3, <1>4 DEF One
<1>8. Cardinality(Linking(i)) = Cardinality(LinkRest(p, i)) + One(b) /\ Cardinality(LinkRest(p, i)) \in Nat
  BY <1>1, <1>2, <1>5, AddIf
<1>9. Cardinality(Unlinking(i)) = Cardinality(UnlinkRest(p, i)) + One(c) /\ Cardinality(UnlinkRest(p, i)) \in Nat
  BY <1>1, <1>2, <1>6, AddIf
<1> QED BY <1>7, <1>8, <1>9

LEMMA CallsNext == CallsAddUp'
BY CallsSplit, PTL

\* How many calls are about to change the link count of i, after a step of p.
LEMMA CallsMove ==
  ASSUME NEW p \in Procs, NEW r, \A q \in Procs \ {p} : st'[q] = st[q], st'[p] = r, NEW i \in Inums
  PROVE  /\ Cardinality(Linking(i))' + One(LinkTo(st[p]) = i) = Cardinality(Linking(i)) + One(LinkTo(r) = i)
         /\ Cardinality(Unlinking(i))' + One(UnlinkTo(st[p]) = i)
              = Cardinality(Unlinking(i)) + One(UnlinkTo(r) = i)
         /\ Cardinality(Linking(i))' \in Nat /\ Cardinality(Unlinking(i))' \in Nat
<1>1. LinkRest(p, i)' = LinkRest(p, i) /\ UnlinkRest(p, i)' = UnlinkRest(p, i) BY DEF LinkRest, UnlinkRest
<1>2. /\ Cardinality(Linking(i)) = Cardinality(LinkRest(p, i)) + One(LinkTo(st[p]) = i)
      /\ Cardinality(Unlinking(i)) = Cardinality(UnlinkRest(p, i)) + One(UnlinkTo(st[p]) = i)
      /\ Cardinality(LinkRest(p, i)) \in Nat /\ Cardinality(UnlinkRest(p, i)) \in Nat
  BY CallsSplit DEF CallsAddUp
<1>3. /\ Cardinality(Linking(i))' = Cardinality(LinkRest(p, i))' + One(LinkTo(r) = i)
      /\ Cardinality(Unlinking(i))' = Cardinality(UnlinkRest(p, i))' + One(UnlinkTo(r) = i)
  BY CallsNext DEF CallsAddUp
<1>4. \A b : One(b) \in Nat BY DEF One
<1>5. PICK a, b, c, d \in Nat : /\ a = One(LinkTo(st[p]) = i) /\ b = One(LinkTo(r) = i)
                                /\ c = One(UnlinkTo(st[p]) = i) /\ d = One(UnlinkTo(r) = i)
  BY <1>4
<1> QED BY <1>1, <1>2, <1>3, <1>5

LEMMA Sums ==
  ASSUME NEW n \in Nat, NEW N \in Nat, NEW s \in Nat, NEW k \in Nat, NEW l \in Nat,
         NEW n1 \in Nat, NEW N1 \in Nat, NEW s1 \in Nat, NEW k1 \in Nat, NEW l1 \in Nat,
         NEW a \in Nat, NEW b \in Nat, NEW c \in Nat, NEW d \in Nat,
         k1 + a = k + b, l1 + c = l + d, n1 + N + s + a + c = n + N1 + s1 + b + d
  PROVE  /\ n = N + s + k + l <=> n1 = N1 + s1 + k1 + l1
         /\ n > N + s + k + l <=> n1 > N1 + s1 + k1 + l1
OBVIOUS

LEMMA SumsToo ==
  ASSUME NEW n \in Nat, NEW k \in Nat, NEW N \in Nat, NEW s \in Nat,
         NEW a \in Nat, NEW b \in Nat, NEW c \in Nat, NEW d \in Nat, n + a + c = k + b + d
  PROVE  n + N + s + a + c = k + N + s + b + d
OBVIOUS

\* The link count of an inode still agrees when it changes by what its names, the
\* directories below it and the calls that are about to change it do.
LEMMA LinksMove ==
  ASSUME TypeOK, LinksInv, NEW p \in Procs, NEW r, \A q \in Procs \ {p} : st'[q] = st[q], st'[p] = r,
         NEW i \in Inums, NEW m \in Nat, disk'[i].nlink = m, i \in orphans' <=> i \in orphans,
         m + Cardinality(NamesOf(i)) + Cardinality(SubDirs(i)) + One(LinkTo(st[p]) = i) + One(UnlinkTo(st[p]) = i)
           = disk[i].nlink + Cardinality(NamesOf(i))' + Cardinality(SubDirs(i))'
               + One(LinkTo(r) = i) + One(UnlinkTo(r) = i)
  PROVE  IF i \in orphans' THEN disk'[i].nlink > Count(i)' ELSE disk'[i].nlink = Count(i)'
<1>1. PICK n, N, s, k, l \in Nat :
         /\ n = disk[i].nlink /\ N = Cardinality(NamesOf(i)) /\ s = Cardinality(SubDirs(i))
         /\ k = Cardinality(Linking(i)) /\ l = Cardinality(Unlinking(i))
  BY LinkSets DEF TypeOK, InodeType
<1>2. PICK N1, s1, k1, l1 \in Nat :
         /\ N1 = Cardinality(NamesOf(i))' /\ s1 = Cardinality(SubDirs(i))'
         /\ k1 = Cardinality(Linking(i))' /\ l1 = Cardinality(Unlinking(i))'
  BY LinkSetsNext DEF CountsNat
<1>3. PICK a, b, c, d \in Nat : /\ a = One(LinkTo(st[p]) = i) /\ b = One(LinkTo(r) = i)
                                /\ c = One(UnlinkTo(st[p]) = i) /\ d = One(UnlinkTo(r) = i)
  <2>1. \A x : One(x) \in Nat BY DEF One
  <2> QED BY <2>1
<1>4. k1 + a = k + b /\ l1 + c = l + d
  <2>1. /\ Cardinality(Linking(i))' + One(LinkTo(st[p]) = i) = Cardinality(Linking(i)) + One(LinkTo(r) = i)
        /\ Cardinality(Unlinking(i))' + One(UnlinkTo(st[p]) = i)
              = Cardinality(Unlinking(i)) + One(UnlinkTo(r) = i)
    BY CallsMove
  <2> QED BY <1>1, <1>2, <1>3, <2>1
<1>5. m + N + s + a + c = n + N1 + s1 + b + d BY <1>1, <1>2, <1>3
<1>6. Count(i) = N + s + k + l BY <1>1 DEF Count
<1>7. Count(i)' = N1 + s1 + k1 + l1 BY <1>2 DEF Count
<1>8. IF i \in orphans THEN n > N + s + k + l ELSE n = N + s + k + l BY <1>1, <1>6 DEF LinksInv
<1>9. IF i \in orphans THEN m > N1 + s1 + k1 + l1 ELSE m = N1 + s1 + k1 + l1
  BY <1>4, <1>5, <1>8, Sums
<1> QED BY <1>7, <1>9

LEMMA LinksMoveSame ==
  ASSUME TypeOK, LinksInv, NEW p \in Procs, NEW r, \A q \in Procs \ {p} : st'[q] = st[q], st'[p] = r,
         NEW i \in Inums, NEW m \in Nat, disk'[i].nlink = m, i \in orphans' <=> i \in orphans,
         NamesOf(i)' = NamesOf(i), SubDirs(i)' = SubDirs(i),
         m + One(LinkTo(st[p]) = i) + One(UnlinkTo(st[p]) = i)
           = disk[i].nlink + One(LinkTo(r) = i) + One(UnlinkTo(r) = i)
  PROVE  IF i \in orphans' THEN disk'[i].nlink > Count(i)' ELSE disk'[i].nlink = Count(i)'
<1>1. \A x : One(x) \in Nat BY DEF One
<1>2. PICK N, s, k \in Nat : /\ N = Cardinality(NamesOf(i)) /\ s = Cardinality(SubDirs(i))
                             /\ k = disk[i].nlink
  <2>1. disk[i].nlink \in Nat BY DEF TypeOK, InodeType
  <2>2. Cardinality(NamesOf(i)) \in Nat /\ Cardinality(SubDirs(i)) \in Nat BY LinkSets
  <2> QED BY ONLY <2>1, <2>2, Zenon
<1>3. PICK a, b \in Nat : a = One(LinkTo(st[p]) = i) /\ b = One(LinkTo(r) = i)
  BY ONLY <1>1, Zenon
<1>4. PICK c, d \in Nat : c = One(UnlinkTo(st[p]) = i) /\ d = One(UnlinkTo(r) = i)
  BY ONLY <1>1, Zenon
<1>5. m + a + c = k + b + d BY <1>2, <1>3, <1>4
<1>6. m + N + s + a + c = k + N + s + b + d BY <1>5, SumsToo
<1>7. m + Cardinality(NamesOf(i)) + Cardinality(SubDirs(i)) + One(LinkTo(st[p]) = i) + One(UnlinkTo(st[p]) = i)
        = disk[i].nlink + Cardinality(NamesOf(i))' + Cardinality(SubDirs(i))'
             + One(LinkTo(r) = i) + One(UnlinkTo(r) = i)
  BY <1>2, <1>3, <1>4, <1>6
<1> QED BY <1>7, LinksMove

\* A link count is changed, and the calls that are about to change it.
LEMMA NlinkMove ==
  ASSUME Inv, NEW p \in Procs, NEW r \in Registers, Len(r.drop) <= 2,
         st' = [st EXCEPT ![p] = r], UNCHANGED <<entries, bitmap, indirect, orphans, cwd, file, writable, ref>>,
         NEW i \in Inums, NEW m \in Nat, ~Fresh(i), \A q \in Procs \ {p} : st[q].at = "free" => st[q].drop[1] # i,
         disk' = [disk EXCEPT ![i] = [@ EXCEPT !.nlink = m]], mem' = [mem EXCEPT ![i] = disk'[i]],
         Locks(p, r), RegsOK(r, cwd[p]),
         \A j \in Inums : Refers(st[p], cwd[p], file[p], j) = Refers(r, cwd[p], file[p], j),
         Making(r) = Making(st[p]), r.at \notin {"free", "invalidate"}, st[p].at # "invalidate",
         \A j \in Inums : Needs(r, cwd[p], file[p], j) => InUse(j) \/ ~Fresh(j), Knows(r),
         \A j \in Inums \ {i} : /\ LinkTo(r) = j <=> LinkTo(st[p]) = j
                                /\ UnlinkTo(r) = j <=> UnlinkTo(st[p]) = j,
         disk[i].nlink + One(LinkTo(r) = i) + One(UnlinkTo(r) = i)
           = m + One(LinkTo(st[p]) = i) + One(UnlinkTo(st[p]) = i)
  PROVE  Inv'
<1>1. /\ \A q \in Procs \ {p} : st'[q] = st[q] /\ cwd'[q] = cwd[q] /\ file'[q] = file[q]
      /\ st'[p] = r /\ cwd'[p] = cwd[p] /\ file'[p] = file[p]
      /\ st' \in [Procs -> Registers] /\ (\A q \in Procs : Len(st'[q].drop) <= 2)
      /\ cwd' \in [Procs -> Inums \cup {None}] /\ file' \in [Procs -> Inums \cup {None}]
      /\ Becomes(p, r, cwd[p], file[p]) /\ cwd[p] \in Inums \cup {None} /\ file[p] \in Inums \cup {None}
  BY DEF Inv, TypeOK, Becomes
<1>2. disk[i] \in InodeType /\ disk' \in [Inums -> InodeType] /\ mem' \in [Inums -> InodeType]
  <2>1. disk \in [Inums -> InodeType] /\ mem \in [Inums -> InodeType] BY DEF Inv, TypeOK
  <2>2. PICK v : v = [disk[i] EXCEPT !.nlink = m] OBVIOUS
  <2>3. v \in InodeType BY <2>1, <2>2 DEF InodeType
  <2>4. disk' = [disk EXCEPT ![i] = v] /\ mem' = [mem EXCEPT ![i] = disk'[i]] BY <2>2
  <2>5. disk' \in [Inums -> InodeType] BY ONLY <2>1, <2>3, <2>4
  <2> QED BY ONLY <2>1, <2>4, <2>5
<1>3. /\ disk'[i].nlink = m /\ disk'[i].type = disk[i].type /\ disk'[i].addrs = disk[i].addrs
      /\ \A j \in Inums \ {i} : disk'[j] = disk[j] /\ mem'[j] = mem[j]
      /\ mem'[i] = disk'[i]
  BY <1>2 DEF InodeType, Inv, TypeOK
<1>4. disk[i].type # "free" /\ ~InTheMaking(i) BY DEF Fresh
<1>5. TypeOK' BY <1>1, <1>2 DEF TypeOK, Inv, Locks
<1>6. RegsInv' /\ LockInv' /\ RefsCounted'
  <2>1. \A j \in Inums : ref'[j] + Mine(p, j) = ref[j] + Refers(r, cwd[p], file[p], j) BY DEF Mine
  <2>2. PICK c \in Inums \cup {None}, h \in Inums \cup {None} : c = cwd[p] /\ h = file[p] BY <1>1
  <2>3. Becomes(p, r, c, h) /\ RegsOK(r, c) /\ \A j \in Inums : ref'[j] + Mine(p, j) = ref[j] + Refers(r, c, h, j)
    BY <1>1, <2>1, <2>2
  <2>4. RegsInv /\ LockInv /\ RefsCounted BY DEF Inv
  <2> QED BY <1>5, <2>3, <2>4, LocalStep DEF Locks
<1>7. CacheInv' /\ FreeingInv'
  <2>1. \A q \in Procs \ {p} : st[q].at = "free" =>
           ref'[st[q].drop[1]] = ref[st[q].drop[1]] /\ mem'[st[q].drop[1]] = mem[st[q].drop[1]]
    <3>1. \A q \in Procs : st[q].at = "free" => st[q].drop[1] \in Inums BY OnlyHolder
    <3> QED BY <1>3, <3>1
  <2>2. \A j \in Inums : (mem'[j] = mem[j] /\ disk'[j] = disk[j])
                             \/ (mem'[j] = disk'[j] /\ disk'[j].type # "free")
    BY <1>3, <1>4
  <2> QED BY <1>1, <2>1, <2>2, CacheMove DEF Inv
<1>8. KnowsInv'
  <2>1. \A j \in Inums : disk'[j].type = disk[j].type BY <1>3
  <2>2. \A j : disk'[j].type = disk[j].type BY <2>1 DEF Inv, TypeOK
  <2>3. Knows(r)' BY <2>2 DEF Knows
  <2> QED BY <1>1, <2>1, <2>3, KnowsMove DEF Inv
<1>9. \A j : NamesOf(j)' = NamesOf(j) BY DEF NamesOf
<1>10. \A j : SubDirs(j)' = SubDirs(j) BY <1>9 DEF SubDirs
<1>11. FreshInv' /\ \A j \in Inums : (InTheMaking(j)' <=> InTheMaking(j)) /\ (Fresh(j)' <=> Fresh(j))
  <2>1. \A j \in Inums : Fresh(j) => disk'[j] = disk[j] /\ entries'[j] = entries[j]
                                        /\ NamesOf(j)' = {} /\ j \notin orphans'
    BY <1>3, <1>9 DEF Inv, FreshInv
  <2>2. \A j \in Inums : disk'[j].type = disk[j].type BY <1>3
  <2> QED BY <1>1, <2>1, <2>2, FreshKept DEF Inv
<1>12. DirInv'
  <2>1. \A j \in Inums : disk'[j].type = disk[j].type BY <1>3
  <2> QED BY <1>9, <1>11, <2>1, Sorts DEF Inv, DirInv, TypeOK
<1>13. LinksInv'
  <2> SUFFICES ASSUME NEW j \in Inums
               PROVE IF j \in orphans' THEN disk'[j].nlink > Count(j)' ELSE disk'[j].nlink = Count(j)'
    BY DEF LinksInv
  <2>1. PICK n \in Nat : n = disk'[j].nlink BY <1>2 DEF InodeType
  <2>2. PICK a, b, c, d, k \in Nat :
           /\ k = disk[j].nlink
           /\ a = One(LinkTo(st[p]) = j) /\ b = One(LinkTo(r) = j)
           /\ c = One(UnlinkTo(st[p]) = j) /\ d = One(UnlinkTo(r) = j)
    <3>1. \A x : One(x) \in Nat BY DEF One
    <3>2. disk[j].nlink \in Nat BY DEF Inv, TypeOK, InodeType
    <3>3. PICK a, b \in Nat : a = One(LinkTo(st[p]) = j) /\ b = One(LinkTo(r) = j)
      BY ONLY <3>1, Zenon
    <3>4. PICK c, d \in Nat : c = One(UnlinkTo(st[p]) = j) /\ d = One(UnlinkTo(r) = j)
      BY ONLY <3>1, Zenon
    <3> WITNESS a \in Nat, b \in Nat, c \in Nat, d \in Nat, disk[j].nlink \in Nat
    <3> QED BY ONLY <3>3, <3>4, Zenon
  <2>3. n + a + c = k + b + d
    <3>1. CASE j = i BY <1>3, <2>1, <2>2, <3>1
    <3>2. CASE j # i
      <4>1. b = a /\ d = c BY <2>2, <3>2 DEF One
      <4>2. n = k BY <1>3, <2>1, <2>2, <3>2
      <4> QED BY <4>1, <4>2
    <3> QED BY <3>1, <3>2
  <2>4. n + One(LinkTo(st[p]) = j) + One(UnlinkTo(st[p]) = j)
          = disk[j].nlink + One(LinkTo(r) = j) + One(UnlinkTo(r) = j)
    BY <2>2, <2>3
  <2>5. NamesOf(j)' = NamesOf(j) /\ SubDirs(j)' = SubDirs(j) BY <1>9, <1>10
  <2>6. TypeOK /\ LinksInv BY DEF Inv
  <2> QED BY <1>1, <2>1, <2>4, <2>5, <2>6, LinksMoveSame
<1>14. NoLoops' BY LoopsCut DEF Inv
<1>15. BlocksOwned'
  <2>1. \A j \in Inums : disk'[j].addrs = disk[j].addrs BY <1>3
  <2> QED BY <2>1, BlocksKept DEF Inv
<1> QED BY <1>5, <1>6, <1>7, <1>8, <1>11, <1>12, <1>13, <1>14, <1>15 DEF Inv

LEMMA UpdateOne ==
  ASSUME TypeOK, NEW i \in Inums, NEW v, Update([j \in {i} |-> v])
  PROVE  disk' = [disk EXCEPT ![i] = v] /\ mem' = [mem EXCEPT ![i] = v]
BY DEF TypeOK, Update

\* A call that holds an inode it has linked or unlinked, but not counted.
LEMMA CalledIsCounted ==
  ASSUME Inv, NEW p \in Procs, NEW i \in Inums, LinkTo(st[p]) = i \/ UnlinkTo(st[p]) = i
  PROVE  disk[i].nlink \in Nat \ {0} /\ disk[i].nlink - 1 \in Nat
<1>1. disk[i].nlink \in Nat BY DEF Inv, TypeOK, InodeType
<1>2. p \in Linking(i) \/ p \in Unlinking(i) BY Calling DEF CallsAre
<1>3. disk[i].nlink # 0 BY <1>2, NoLinks DEF Inv
<1>4. PICK n \in Nat : n = disk[i].nlink BY <1>1
<1>5. n # 0 BY <1>3, <1>4
<1>6. n - 1 \in Nat BY <1>5
<1> QED BY <1>1, <1>3, <1>4, <1>6

LEMMA UnlinkInodeStep ==
  ASSUME Inv, NEW p \in Procs, UnlinkInode(p)
  PROVE  Inv'
<1>1. st[p].at = "unlink3" /\ st[p].at \notin Puts BY DEF UnlinkInode, At, Puts
<1>2. /\ st[p] \in Registers /\ RegsOK(st[p], cwd[p])
      /\ st[p].drop = <<>> /\ st[p].then = "user" /\ Point(st[p]) = st[p].at
      /\ First(st[p].drop) = None /\ Second(st[p].drop) = None
      /\ cwd[p] \in Inums \cup {None} /\ file[p] \in Inums \cup {None}
  BY <1>1, Idle, RegsAre
<1>3. st[p].ip \in Inums /\ st[p].cur = None /\ cwd[p] # None /\ st[p].op = "unlink"
  BY <1>1, <1>2 DEF RegsOK, AtPath, OnPaths, Registers
<1>4. PICK i \in Inums : i = st[p].ip BY <1>3
<1>5. \A j \in Inums : Keeps(st[p], j) <=> j = i BY <1>1, <1>2, <1>4 DEF Keeps
<1>6. lock[i] = p BY <1>5, RegsAre
<1>7. Inode(i) = disk[i] BY <1>1, <1>6, InodeIsDisk
<1>8. LinkTo(st[p]) = None /\ UnlinkTo(st[p]) = i /\ Making(st[p]) = None
  BY <1>1, <1>3, <1>4 DEF LinkTo, UnlinkTo, Making
<1>9. PICK m \in Nat : m = disk[i].nlink - 1 /\ disk[i].nlink = m + 1
  <2>1. PICK n \in Nat : n = disk[i].nlink BY DEF Inv, TypeOK, InodeType
  <2>2. n # 0 BY <1>8, <2>1, CalledIsCounted
  <2>3. n - 1 \in Nat /\ n = (n - 1) + 1 BY <2>2
  <2> QED BY <2>1, <2>3
<1>10. PICK r : r = DropIp(st[p], "user") OBVIOUS
<1>11. /\ r \in Registers /\ r.at = "put" /\ r.then = "user" /\ r.ip = None /\ r.drop = <<i>>
       /\ r.cur = None /\ r.op = "unlink" /\ r.new = st[p].new
       /\ Len(r.drop) <= 2 /\ First(r.drop) = i /\ Second(r.drop) = None /\ r.drop # <<>>
  <2>1. "user" \in Points BY DEF Points
  <2> QED BY <1>2, <1>3, <1>4, <1>10, <2>1, DropIpIs
<1>12. Point(r) = "user" BY <1>11 DEF Point, Puts
<1>13. /\ disk' = [disk EXCEPT ![i] = [@ EXCEPT !.nlink = m]] /\ mem' = [mem EXCEPT ![i] = disk'[i]]
       /\ st' = [st EXCEPT ![p] = r] /\ lock' = [lock EXCEPT ![i] = Nobody]
       /\ UNCHANGED <<entries, bitmap, indirect, orphans, cwd, file, writable, ref>>
  <2>1. PICK v : v = [disk[i] EXCEPT !.nlink = m] OBVIOUS
  <2>2. Update([j \in {i} |-> v]) BY <1>4, <1>7, <1>9, <2>1 DEF UnlinkInode
  <2>3. disk' = [disk EXCEPT ![i] = v] /\ mem' = [mem EXCEPT ![i] = v] BY <2>2, UpdateOne DEF Inv
  <2>4. disk'[i] = v BY <2>3 DEF Inv, TypeOK
  <2> QED BY <1>4, <1>10, <2>1, <2>3, <2>4 DEF UnlinkInode, Go, blockVars, procVars
<1>14. RegsOK(r, cwd[p]) BY <1>3, <1>11, <1>12 DEF RegsOK, Puts, AtPath, OnPaths
<1>15. Locks(p, r)
  <2>1. \A j \in Inums : ~Keeps(r, j) BY <1>11, <1>12 DEF Keeps
  <2>2. lock \in [Inums -> Procs \cup {Nobody}] /\ \A j \in Inums : lock[j] = p <=> j = i
    BY <1>5, RegsAre DEF Inv, TypeOK
  <2> QED BY <1>13, <2>1, <2>2, Sorts DEF Locks
<1>16. LinkTo(r) = None /\ UnlinkTo(r) = None /\ Making(r) = None /\ Knows(r)
  <2>1. LinkTo(r) = None /\ UnlinkTo(r) = None /\ Making(r) = None BY <1>11 DEF LinkTo, UnlinkTo, Making
  <2> QED BY <1>11, <1>12, <2>1 DEF Knows
<1>17. \A j \in Inums : Needs(r, cwd[p], file[p], j) => InUse(j)
  <2>1. \A j \in Inums : Needs(r, cwd[p], file[p], j) => Needs(st[p], cwd[p], file[p], j)
    BY <1>1, <1>4, <1>11, Sorts DEF Needs
  <2> QED BY <2>1, RegsAre
<1>18. \A j \in Inums : Refers(st[p], cwd[p], file[p], j) = Refers(r, cwd[p], file[p], j)
  BY <1>2, <1>3, <1>4, <1>11, Sorts DEF Refers, One
<1>19. ~Fresh(i) /\ \A q \in Procs \ {p} : st[q].at = "free" => st[q].drop[1] # i
  <2>1. Needs(st[p], cwd[p], file[p], i) BY <1>1, <1>4 DEF Needs
  <2> QED BY <2>1, RegsAre, InUseIsLive
<1>20. disk[i].nlink + One(LinkTo(r) = i) + One(UnlinkTo(r) = i)
           = m + One(LinkTo(st[p]) = i) + One(UnlinkTo(st[p]) = i)
  BY <1>8, <1>9, <1>16, Sorts DEF One
<1>21. \A j \in Inums \ {i} : /\ LinkTo(r) = j <=> LinkTo(st[p]) = j
                              /\ UnlinkTo(r) = j <=> UnlinkTo(st[p]) = j
  BY <1>8, <1>16, Sorts
<1>22. Making(r) = Making(st[p]) BY <1>8, <1>16
<1> QED BY <1>1, <1>11, <1>13, <1>14, <1>15, <1>16, <1>17, <1>18, <1>19, <1>20, <1>21, <1>22, NlinkMove

LEMMA LinkBadStep ==
  ASSUME Inv, NEW p \in Procs, LinkBad(p)
  PROVE  Inv'
<1>1. st[p].at = "linkbad" /\ st[p].at \notin Puts BY DEF LinkBad, At, Puts
<1>2. /\ st[p] \in Registers /\ RegsOK(st[p], cwd[p])
      /\ st[p].drop = <<>> /\ st[p].then = "user" /\ Point(st[p]) = st[p].at
      /\ First(st[p].drop) = None /\ Second(st[p].drop) = None
      /\ cwd[p] \in Inums \cup {None} /\ file[p] \in Inums \cup {None}
  BY <1>1, Idle, RegsAre
<1>3. st[p].ip \in Inums /\ st[p].cur = None /\ cwd[p] # None /\ st[p].op = "relink"
  BY <1>1, <1>2 DEF RegsOK, AtPath, OnPaths, Registers
<1>4. PICK i \in Inums : i = st[p].ip BY <1>3
<1>5. Lockable(i) BY <1>4 DEF LinkBad
<1>6. Inode(i) = disk[i] BY <1>5, InodeIsDisk DEF Lockable, Free
<1>7. LinkTo(st[p]) = i /\ UnlinkTo(st[p]) = None /\ Making(st[p]) = None
  BY <1>1, <1>2, <1>3, <1>4 DEF LinkTo, UnlinkTo, Making
<1>8. PICK m \in Nat : m = disk[i].nlink - 1 /\ disk[i].nlink = m + 1
  <2>1. PICK n \in Nat : n = disk[i].nlink BY DEF Inv, TypeOK, InodeType
  <2>2. n # 0 BY <1>7, <2>1, CalledIsCounted
  <2>3. n - 1 \in Nat /\ n = (n - 1) + 1 BY <2>2
  <2> QED BY <2>1, <2>3
<1>9. PICK r : r = DropIp(st[p], "user") OBVIOUS
<1>10. /\ r \in Registers /\ r.at = "put" /\ r.then = "user" /\ r.ip = None /\ r.drop = <<i>>
       /\ r.cur = None /\ r.op = "relink" /\ r.new = st[p].new
       /\ Len(r.drop) <= 2 /\ First(r.drop) = i /\ Second(r.drop) = None /\ r.drop # <<>>
  <2>1. "user" \in Points BY DEF Points
  <2> QED BY <1>2, <1>3, <1>4, <1>9, <2>1, DropIpIs
<1>11. Point(r) = "user" BY <1>10 DEF Point, Puts
<1>12. /\ disk' = [disk EXCEPT ![i] = [@ EXCEPT !.nlink = m]] /\ mem' = [mem EXCEPT ![i] = disk'[i]]
       /\ st' = [st EXCEPT ![p] = r]
       /\ UNCHANGED <<entries, bitmap, indirect, orphans, cwd, file, writable, ref, lock>>
  <2>1. PICK v : v = [disk[i] EXCEPT !.nlink = m] OBVIOUS
  <2>2. Update([j \in {i} |-> v]) BY <1>4, <1>6, <1>8, <2>1 DEF LinkBad
  <2>3. disk' = [disk EXCEPT ![i] = v] /\ mem' = [mem EXCEPT ![i] = v] BY <2>2, UpdateOne DEF Inv
  <2>4. disk'[i] = v BY <2>3 DEF Inv, TypeOK
  <2> QED BY <1>4, <1>9, <2>1, <2>3, <2>4 DEF LinkBad, Go, blockVars, procVars
<1>13. RegsOK(r, cwd[p]) BY <1>3, <1>10, <1>11 DEF RegsOK, Puts, AtPath, OnPaths
<1>14. Locks(p, r)
  <2>1. \A j \in Inums : ~Keeps(r, j) /\ ~Keeps(st[p], j) BY <1>1, <1>2, <1>10, <1>11 DEF Keeps
  <2> QED BY <1>12, <2>1, RegsAre DEF Locks, Inv, TypeOK
<1>15. LinkTo(r) = None /\ UnlinkTo(r) = None /\ Making(r) = None /\ Knows(r)
  <2>1. LinkTo(r) = None /\ UnlinkTo(r) = None /\ Making(r) = None BY <1>10 DEF LinkTo, UnlinkTo, Making
  <2> QED BY <1>10, <1>11, <2>1 DEF Knows
<1>16. \A j \in Inums : Needs(r, cwd[p], file[p], j) => InUse(j)
  <2>1. \A j \in Inums : Needs(r, cwd[p], file[p], j) => Needs(st[p], cwd[p], file[p], j)
    BY <1>1, <1>4, <1>10, Sorts DEF Needs
  <2> QED BY <2>1, RegsAre
<1>17. \A j \in Inums : Refers(st[p], cwd[p], file[p], j) = Refers(r, cwd[p], file[p], j)
  BY <1>2, <1>3, <1>4, <1>10, Sorts DEF Refers, One
<1>18. ~Fresh(i) /\ \A q \in Procs \ {p} : st[q].at = "free" => st[q].drop[1] # i
  <2>1. Needs(st[p], cwd[p], file[p], i) BY <1>1, <1>4 DEF Needs
  <2> QED BY <2>1, RegsAre, InUseIsLive
<1>19. disk[i].nlink + One(LinkTo(r) = i) + One(UnlinkTo(r) = i)
           = m + One(LinkTo(st[p]) = i) + One(UnlinkTo(st[p]) = i)
  BY <1>7, <1>8, <1>15, Sorts DEF One
<1>20. \A j \in Inums \ {i} : /\ LinkTo(r) = j <=> LinkTo(st[p]) = j
                              /\ UnlinkTo(r) = j <=> UnlinkTo(st[p]) = j
  BY <1>7, <1>15, Sorts
<1>21. Making(r) = Making(st[p]) BY <1>7, <1>15
<1> QED BY <1>1, <1>10, <1>12, <1>13, <1>14, <1>15, <1>16, <1>17, <1>18, <1>19, <1>20, <1>21, NlinkMove

\* link finds a file.
LEMMA LinkOfFile ==
  ASSUME Inv, NEW p \in Procs, Link(p), Inode(st[p].cur).type # "dir"
  PROVE  Inv'
<1>1. st[p].at = "link" /\ st[p].at \notin Puts BY DEF Link, At, Puts
<1>2. /\ st[p] \in Registers /\ RegsOK(st[p], cwd[p])
      /\ st[p].drop = <<>> /\ st[p].then = "user" /\ Point(st[p]) = st[p].at
      /\ First(st[p].drop) = None /\ Second(st[p].drop) = None
      /\ cwd[p] \in Inums \cup {None} /\ file[p] \in Inums \cup {None}
  BY <1>1, Idle, RegsAre
<1>3. st[p].cur \in Inums /\ st[p].ip = None /\ cwd[p] # None /\ st[p].op = "link" /\ st[p].new # <<>>
  BY <1>1, <1>2 DEF RegsOK, AtPath, OnPaths, Registers
<1>4. PICK i \in Inums : i = st[p].cur BY <1>3
<1>5. Lockable(i) BY <1>4 DEF Link
<1>6. Inode(i) = disk[i] /\ disk[i].type = "file"
  <2>1. Inode(i) = disk[i] /\ disk[i].type # "free" BY <1>5, InodeIsDisk DEF Lockable, Free
  <2>2. disk[i].type \in {"free", "invalid", "dir", "file"} BY DEF Inv, TypeOK, InodeType
  <2>3. disk[i].type # "invalid" BY DEF Inv, FreshInv
  <2> QED BY <1>4, <2>1, <2>2, <2>3
<1>7. LinkTo(st[p]) = None /\ UnlinkTo(st[p]) = None /\ Making(st[p]) = None
  BY <1>1, <1>2, <1>3 DEF LinkTo, UnlinkTo, Making
<1>8. PICK m \in Nat : m = disk[i].nlink + 1
  <2>1. PICK n \in Nat : n = disk[i].nlink BY DEF Inv, TypeOK, InodeType
  <2> QED BY <2>1
<1>9. PICK r : r = [st[p] EXCEPT !.at = "linkwalk", !.ip = i, !.cur = None] OBVIOUS
<1>10. /\ r \in Registers /\ r.at = "linkwalk" /\ r.then = "user" /\ r.ip = i /\ r.drop = <<>>
       /\ r.cur = None /\ r.op = "link" /\ r.new = st[p].new
       /\ Len(r.drop) <= 2 /\ First(r.drop) = None /\ Second(r.drop) = None
  <2>1. "linkwalk" \in Points BY DEF Points
  <2>2. r \in Registers BY <1>2, <1>9, <2>1 DEF Registers
  <2>3. Len(<<>>) = 0 BY EmptySeq
  <2>4. /\ r.at = "linkwalk" /\ r.then = "user" /\ r.ip = i /\ r.drop = <<>>
        /\ r.cur = None /\ r.op = "link" /\ r.new = st[p].new
    BY <1>2, <1>3, <1>9 DEF Registers
  <2> QED BY <2>2, <2>3, <2>4 DEF First, Second
<1>11. Point(r) = "linkwalk" BY <1>10 DEF Point, Puts
<1>12. /\ disk' = [disk EXCEPT ![i] = [@ EXCEPT !.nlink = m]] /\ mem' = [mem EXCEPT ![i] = disk'[i]]
       /\ st' = [st EXCEPT ![p] = r]
       /\ UNCHANGED <<entries, bitmap, indirect, orphans, cwd, file, writable, ref, lock>>
  <2>1. PICK v : v = [disk[i] EXCEPT !.nlink = m] OBVIOUS
  <2>2. Update([j \in {i} |-> v]) BY <1>4, <1>6, <1>8, <2>1 DEF Link
  <2>3. disk' = [disk EXCEPT ![i] = v] /\ mem' = [mem EXCEPT ![i] = v] BY <2>2, UpdateOne DEF Inv
  <2>4. disk'[i] = v BY <2>3 DEF Inv, TypeOK
  <2> QED BY <1>4, <1>6, <1>9, <2>1, <2>3, <2>4 DEF Link, Go, blockVars, procVars
<1>13. RegsOK(r, cwd[p]) BY <1>3, <1>10, <1>11, Sorts DEF RegsOK, Puts, AtPath, OnPaths
<1>14. Locks(p, r)
  <2>1. \A j \in Inums : ~Keeps(r, j) /\ ~Keeps(st[p], j) BY <1>1, <1>2, <1>10, <1>11 DEF Keeps
  <2> QED BY <1>12, <2>1, RegsAre DEF Locks, Inv, TypeOK
<1>15. LinkTo(r) = i /\ UnlinkTo(r) = None /\ Making(r) = None /\ Knows(r)
  <2>1. LinkTo(r) = i /\ UnlinkTo(r) = None /\ Making(r) = None BY <1>10 DEF LinkTo, UnlinkTo, Making
  <2> QED BY <1>6, <1>10, <1>11, <2>1 DEF Knows
<1>16. \A j \in Inums : Needs(r, cwd[p], file[p], j) => InUse(j)
  <2>1. \A j \in Inums : Needs(r, cwd[p], file[p], j) => Needs(st[p], cwd[p], file[p], j)
    BY <1>1, <1>4, <1>10, Sorts DEF Needs
  <2> QED BY <2>1, RegsAre
<1>17. \A j \in Inums : Refers(st[p], cwd[p], file[p], j) = Refers(r, cwd[p], file[p], j)
  BY <1>2, <1>3, <1>4, <1>10, Sorts DEF Refers, One
<1>18. ~Fresh(i) /\ \A q \in Procs \ {p} : st[q].at = "free" => st[q].drop[1] # i
  <2>1. Needs(st[p], cwd[p], file[p], i) BY <1>1, <1>4 DEF Needs
  <2> QED BY <2>1, RegsAre, InUseIsLive
<1>19. disk[i].nlink + One(LinkTo(r) = i) + One(UnlinkTo(r) = i)
           = m + One(LinkTo(st[p]) = i) + One(UnlinkTo(st[p]) = i)
  BY <1>7, <1>8, <1>15, Sorts DEF One
<1>20. \A j \in Inums \ {i} : /\ LinkTo(r) = j <=> LinkTo(st[p]) = j
                              /\ UnlinkTo(r) = j <=> UnlinkTo(st[p]) = j
  BY <1>7, <1>15, Sorts
<1>21. Making(r) = Making(st[p]) BY <1>7, <1>15
<1> QED BY <1>1, <1>10, <1>12, <1>13, <1>14, <1>15, <1>16, <1>17, <1>18, <1>19, <1>20, <1>21, NlinkMove

\* Types, registers, locks and references after a step that leaves the process' directory
\* and file.
LEMMA LocalMove ==
  ASSUME Inv, NEW p \in Procs, NEW r \in Registers, Len(r.drop) <= 2, st' = [st EXCEPT ![p] = r],
         UNCHANGED <<cwd, file, writable>>,
         disk' \in [Inums -> InodeType], mem' \in [Inums -> InodeType], ref' \in [Inums -> Nat],
         entries' \in [Inums -> [Names \cup Dots -> Inums \cup {None}]],
         indirect' \in [Blocks -> [DOMAIN NoSlots -> Blocks \cup {None}]],
         bitmap' \subseteq Blocks, orphans' \subseteq Inums, Locks(p, r), RegsOK(r, cwd[p]),
         \A j \in Inums : ref'[j] + Refers(st[p], cwd[p], file[p], j)
                            = ref[j] + Refers(r, cwd[p], file[p], j)
  PROVE  /\ TypeOK' /\ RegsInv' /\ LockInv' /\ RefsCounted'
         /\ \A q \in Procs \ {p} : st'[q] = st[q] /\ cwd'[q] = cwd[q] /\ file'[q] = file[q]
         /\ st'[p] = r /\ cwd'[p] = cwd[p] /\ file'[p] = file[p]
<1>1. /\ \A q \in Procs \ {p} : st'[q] = st[q] /\ cwd'[q] = cwd[q] /\ file'[q] = file[q]
      /\ st'[p] = r /\ cwd'[p] = cwd[p] /\ file'[p] = file[p]
      /\ st' \in [Procs -> Registers] /\ (\A q \in Procs : Len(st'[q].drop) <= 2)
      /\ cwd' \in [Procs -> Inums \cup {None}] /\ file' \in [Procs -> Inums \cup {None}]
      /\ Becomes(p, r, cwd[p], file[p]) /\ cwd[p] \in Inums \cup {None} /\ file[p] \in Inums \cup {None}
  BY DEF Inv, TypeOK, Becomes
<1>2. TypeOK' BY <1>1 DEF TypeOK, Inv, Locks
<1>3. \A j \in Inums : ref'[j] + Mine(p, j) = ref[j] + Refers(r, cwd[p], file[p], j) BY DEF Mine
<1>4. PICK c \in Inums \cup {None}, h \in Inums \cup {None} : c = cwd[p] /\ h = file[p] BY <1>1
<1>5. Becomes(p, r, c, h) /\ RegsOK(r, c) /\ \A j \in Inums : ref'[j] + Mine(p, j) = ref[j] + Refers(r, c, h, j)
  BY <1>1, <1>3, <1>4
<1>6. RegsInv /\ LockInv /\ RefsCounted BY DEF Inv
<1>7. RegsInv' /\ LockInv' /\ RefsCounted' BY <1>2, <1>5, <1>6, LocalStep DEF Locks
<1> QED BY <1>1, <1>2, <1>7

\* An entry is written in a directory that has none of that name.
LEMMA NamesAdded ==
  ASSUME NEW d \in Inums, NEW n \in Names, NEW i \in Inums, entries[d][n] = None,
         \A e \in Inums, a \in Names : entries'[e][a] = IF e = d /\ a = n THEN i ELSE entries[e][a]
  PROVE  /\ \A j \in Inums \ {i} : NamesOf(j)' = NamesOf(j)
         /\ NamesOf(i)' = NamesOf(i) \cup {<<d, n>>}
         /\ Cardinality(NamesOf(i))' = Cardinality(NamesOf(i)) + 1
<1>1. \A j \in Inums \ {i} : NamesOf(j)' = NamesOf(j)
  <2> TAKE j \in Inums \ {i}
  <2>1. j # None BY Sorts
  <2>2. \A e \in Inums, a \in Names : entries'[e][a] = j <=> entries[e][a] = j BY <2>1
  <2> QED BY ONLY <2>2 DEF NamesOf
<1>2. NamesOf(i)' = NamesOf(i) \cup {<<d, n>>}
  <2>1. ASSUME NEW s \in NamesOf(i)' PROVE s \in NamesOf(i) \cup {<<d, n>>}
    <3>1. PICK e \in Inums, a \in Names : s = <<e, a>> /\ entries'[e][a] = i BY <2>1 DEF NamesOf
    <3>2. CASE e = d /\ a = n BY <3>1, <3>2
    <3>3. CASE ~(e = d /\ a = n)
      <4>1. entries[e][a] = i BY <3>1, <3>3
      <4> QED BY <3>1, <4>1 DEF NamesOf
    <3> QED BY <3>2, <3>3
  <2>2. ASSUME NEW s \in NamesOf(i) PROVE s \in NamesOf(i)'
    <3>1. PICK e \in Inums, a \in Names : s = <<e, a>> /\ entries[e][a] = i BY <2>2 DEF NamesOf
    <3>2. entries'[e][a] = i BY <3>1
    <3> QED BY <3>1, <3>2 DEF NamesOf
  <2>3. <<d, n>> \in NamesOf(i)'
    <3>1. entries'[d][n] = i OBVIOUS
    <3> QED BY <3>1 DEF NamesOf
  <2> QED BY <2>1, <2>2, <2>3
<1>3. <<d, n>> \notin NamesOf(i) BY Sorts DEF NamesOf
<1>4. Cardinality(NamesOf(i) \cup {<<d, n>>}) = Cardinality(NamesOf(i)) + 1
  BY <1>3, LinkSets, FS_AddElement
<1> QED BY <1>1, <1>2, <1>4

\* Nobody writes into a directory that somebody else has locked.
LEMMA OthersElsewhere ==
  ASSUME Inv, NEW p \in Procs,
         \A e \in Inums : lock[e] \in Procs \ {p} => entries'[e] = entries[e]
  PROVE  \A q \in Procs \ {p} : st[q].at \in {"fill", "unlink2"} =>
            entries'[st[q].cur][st[q].name] = entries[st[q].cur][st[q].name]
<1> SUFFICES ASSUME NEW q \in Procs \ {p}, st[q].at \in {"fill", "unlink2"}
             PROVE  entries'[st[q].cur][st[q].name] = entries[st[q].cur][st[q].name]
  OBVIOUS
<1>1. Point(st[q]) = st[q].at BY DEF Point, Puts
<1>2. st[q].cur \in Inums BY <1>1, RegsAre DEF RegsOK, Registers
<1>3. lock[st[q].cur] = q BY <1>1, <1>2, RegsAre DEF Keeps
<1> QED BY <1>2, <1>3

\* A directory that somebody needs has its two dots.
LEMMA DotsThere ==
  ASSUME Inv, NEW d \in Inums, InUse(d), disk[d].type = "dir"
  PROVE  entries[d]["."] = d /\ entries[d][".."] # None
BY InUseIsLive DEF Inv, DirInv

\* link makes the entry.
LEMMA RelinkNew ==
  ASSUME Inv, NEW p \in Procs, Relink(p), entries[st[p].cur][st[p].name] = None
  PROVE  Inv'
<1>1. st[p].at = "relink" BY DEF Relink, At
<1>2. /\ st[p].at \notin Puts /\ st[p] \in Registers /\ RegsOK(st[p], cwd[p])
      /\ st[p].drop = <<>> /\ st[p].then = "user" /\ Point(st[p]) = st[p].at
      /\ First(st[p].drop) = None /\ Second(st[p].drop) = None
      /\ cwd[p] \in Inums /\ file[p] \in Inums \cup {None}
      /\ st[p].op = "relink" /\ st[p].cur \in Inums /\ disk[st[p].cur].type = "dir"
      /\ st[p].ip # None /\ Making(st[p]) = None /\ UnlinkTo(st[p]) = None
      /\ (\A j \in Inums : ~Keeps(st[p], j)) /\ st[p].name \in Names \cup Dots
  BY <1>1, AtParent
<1>3. PICK d \in Inums, i \in Inums : d = st[p].cur /\ i = st[p].ip BY <1>2 DEF Registers
<1>4. LinkTo(st[p]) = i /\ disk[i].type = "file" /\ disk[d].type = "dir" /\ d # i
  <2>1. LinkTo(st[p]) = i BY <1>2, <1>3 DEF LinkTo
  <2>2. Knows(st[p]) BY RegsAre
  <2> QED BY <1>2, <1>3, <2>1, <2>2, Sorts DEF Knows
<1>5. InUse(d) /\ InUse(i)
  <2>1. Needs(st[p], cwd[p], file[p], d) /\ Needs(st[p], cwd[p], file[p], i) BY <1>1, <1>3 DEF Needs
  <2> QED BY <2>1, RegsAre
<1>6. PICK n \in Names : n = st[p].name
  BY <1>2, <1>3, <1>4, <1>5, DotsThere, Sorts DEF Dots
<1>7. entries[d][n] = None /\ n \notin Dots BY <1>3, <1>6, InodesAssumption
<1>8. PICK r : r = [DropCur(st[p], "user") EXCEPT !.ip = None, !.drop = <<d, i>>] OBVIOUS
<1>9. /\ Lockable(d) /\ mem' = Read(d) /\ entries' = [entries EXCEPT ![d][n] = i]
      /\ st' = [st EXCEPT ![p] = r]
      /\ UNCHANGED <<disk, ref, lock, indirect, bitmap, cwd, file, writable, orphans>>
  BY <1>3, <1>6, <1>7, <1>8 DEF Relink, Go, blockVars, procVars
<1>10. /\ r \in Registers /\ r.at = "put" /\ r.then = "user" /\ r.cur = None /\ r.ip = None
       /\ r.drop = <<d, i>> /\ r.op = "relink"
  <2>1. PICK r0 : r0 = DropCur(st[p], "user") OBVIOUS
  <2>2. "user" \in Points BY DEF Points
  <2>3. r0 \in Registers /\ r0.at = "put" /\ r0.then = "user" /\ r0.cur = None /\ r0.op = "relink"
    BY <1>2, <2>1, <2>2, DropCurIs
  <2>4. r = [r0 EXCEPT !.ip = None, !.drop = <<d, i>>] BY <1>8, <2>1
  <2>5. <<d, i>> \in Seq(Inums) OBVIOUS
  <2>6. r \in Registers BY <2>3, <2>4, <2>5 DEF Registers
  <2> QED BY <2>3, <2>4, <2>6 DEF Registers
<1>11. Len(r.drop) <= 2 /\ First(r.drop) = d /\ Second(r.drop) = i /\ r.drop # <<>>
  <2>1. Len(<<d, i>>) = 2 /\ <<d, i>>[1] = d /\ <<d, i>>[2] = i OBVIOUS
  <2> QED BY <1>10, <2>1 DEF First, Second
<1>12. Point(r) = "user" BY <1>10 DEF Point, Puts
<1>13. RegsOK(r, cwd[p]) BY <1>2, <1>10, <1>11, <1>12, Sorts DEF RegsOK, Puts, AtPath, OnPaths
<1>14. Locks(p, r)
  <2>1. \A j \in Inums : ~Keeps(r, j) BY <1>10, <1>12 DEF Keeps
  <2> QED BY <1>2, <1>9, <2>1, RegsAre DEF Locks, Inv, TypeOK
<1>15. LinkTo(r) = None /\ UnlinkTo(r) = None /\ Making(r) = None
  BY <1>10 DEF LinkTo, UnlinkTo, Making
<1>16. \A j \in Inums : Needs(r, cwd[p], file[p], j) => InUse(j)
  <2>1. \A j \in Inums : Needs(r, cwd[p], file[p], j) => Needs(st[p], cwd[p], file[p], j)
    BY <1>1, <1>3, <1>10, <1>11, Sorts DEF Needs
  <2> QED BY <2>1, RegsAre
<1>17. \A j \in Inums : ref'[j] + Refers(st[p], cwd[p], file[p], j) = ref[j] + Refers(r, cwd[p], file[p], j)
  <2>1. \A j \in Inums : Refers(st[p], cwd[p], file[p], j) = Refers(r, cwd[p], file[p], j)
    BY <1>2, <1>3, <1>10, <1>11, Sorts DEF Refers, One
  <2> QED BY <1>9, <2>1
<1>18. Caches(p) BY <1>9, CachesRead
<1>19. /\ entries' \in [Inums -> [Names \cup Dots -> Inums \cup {None}]]
       /\ \A e \in Inums \ {d} : entries'[e] = entries[e]
       /\ \A a \in (Names \cup Dots) \ {n} : entries'[d][a] = entries[d][a]
       /\ entries'[d][n] = i
  BY <1>9 DEF Inv, TypeOK
<1>20. /\ TypeOK' /\ RegsInv' /\ LockInv' /\ RefsCounted'
       /\ \A q \in Procs \ {p} : st'[q] = st[q] /\ cwd'[q] = cwd[q] /\ file'[q] = file[q]
       /\ st'[p] = r /\ cwd'[p] = cwd[p] /\ file'[p] = file[p]
  <2>1. /\ disk' \in [Inums -> InodeType] /\ mem' \in [Inums -> InodeType] /\ ref' \in [Inums -> Nat]
        /\ indirect' \in [Blocks -> [DOMAIN NoSlots -> Blocks \cup {None}]]
        /\ bitmap' \subseteq Blocks /\ orphans' \subseteq Inums
    BY <1>9, <1>18 DEF Caches, Inv, TypeOK
  <2>2. st' = [st EXCEPT ![p] = r] /\ UNCHANGED <<cwd, file, writable>> BY <1>9
  <2>3. entries' \in [Inums -> [Names \cup Dots -> Inums \cup {None}]] BY <1>19
  <2>4. r \in Registers /\ Len(r.drop) <= 2 BY <1>10, <1>11
  <2> QED BY <1>13, <1>14, <1>17, <2>1, <2>2, <2>3, <2>4, LocalMove
<1>21. CacheInv' /\ FreeingInv' BY <1>1, <1>2, <1>9, <1>10, <1>18, <1>20, CacheMove DEF Caches, Inv
<1>22. KnowsInv'
  <2>1. Knows(r)' BY <1>10, <1>12, <1>15 DEF Knows
  <2>2. lock[d] = Nobody BY <1>9 DEF Lockable, Free
  <2>3. \A e \in Inums : lock[e] \in Procs \ {p} => entries'[e] = entries[e] BY <1>19, <2>2, Sorts
  <2> QED BY <1>9, <1>19, <1>20, <2>1, <2>3, OthersElsewhere, KnowsMove, SMTT(30) DEF Inv
<1>23. /\ \A j \in Inums \ {i} : NamesOf(j)' = NamesOf(j)
       /\ NamesOf(i)' = NamesOf(i) \cup {<<d, n>>}
       /\ Cardinality(NamesOf(i))' = Cardinality(NamesOf(i)) + 1
  <2>1. \A e \in Inums, a \in Names : entries'[e][a] = IF e = d /\ a = n THEN i ELSE entries[e][a]
    BY <1>19
  <2> QED BY <1>7, <2>1, NamesAdded
<1>24. entries[i] = NoEntries /\ entries'[i] = NoEntries /\ NoEntries[".."] = None
  <2>1. entries[i] = NoEntries BY <1>4 DEF Inv, DirInv
  <2> QED BY <1>4, <1>19, <2>1 DEF NoEntries, Dots
<1>25. \A j \in Inums : SubDirs(j)' = SubDirs(j)
  <2>1. \A e \in Inums : entries'[e][".."] = entries[e][".."] BY <1>7, <1>19 DEF Dots
  <2> QED BY <1>23, <1>24, <2>1, Sorts DEF SubDirs
<1>26. FreshInv' /\ \A j \in Inums : (InTheMaking(j)' <=> InTheMaking(j)) /\ (Fresh(j)' <=> Fresh(j))
  <2>1. ~Fresh(d) /\ ~Fresh(i) BY <1>5, InUseIsLive
  <2>2. \A j \in Inums : Fresh(j) => disk'[j] = disk[j] /\ entries'[j] = entries[j]
                                        /\ NamesOf(j)' = {} /\ j \notin orphans'
    BY <1>9, <1>19, <1>23, <2>1 DEF Inv, FreshInv
  <2> QED BY <1>2, <1>9, <1>10, <1>15, <1>16, <1>20, <2>2, FreshKept DEF Inv
<1>27. DirInv'
  <2>1. i # ROOTINO BY <1>4 DEF Inv, DirInv
  <2>2. \A j \in Inums : disk[j].type = "dir" => NamesOf(j)' = NamesOf(j) /\ entries'[j]["."] = entries[j]["."]
                                                 /\ entries'[j][".."] = entries[j][".."]
    BY <1>4, <1>7, <1>19, <1>23 DEF Dots
  <2>3. \A j \in Inums : entries'[j] # NoEntries => disk[j].type = "dir" BY <1>4, <1>19 DEF Inv, DirInv
  <2> QED BY <1>9, <1>26, <2>1, <2>2, <2>3, Sorts DEF Inv, DirInv
<1>28. LinksInv'
  <2> SUFFICES ASSUME NEW j \in Inums
               PROVE IF j \in orphans' THEN disk'[j].nlink > Count(j)' ELSE disk'[j].nlink = Count(j)'
    BY DEF LinksInv
  <2>1. PICK m \in Nat : m = disk[j].nlink /\ disk'[j].nlink = m /\ (j \in orphans' <=> j \in orphans)
    BY <1>9 DEF Inv, TypeOK, InodeType
  <2>2. One(UnlinkTo(st[p]) = j) = 0 /\ One(UnlinkTo(r) = j) = 0 /\ One(LinkTo(r) = j) = 0
    BY <1>2, <1>15, Sorts DEF One
  <2>3. CASE j = i
    <3>1. PICK N, s \in Nat : N = Cardinality(NamesOf(j)) /\ s = Cardinality(SubDirs(j))
      BY LinkSets
    <3>2. Cardinality(NamesOf(j))' = N + 1 /\ Cardinality(SubDirs(j))' = s BY <1>23, <1>25, <2>3, <3>1
    <3>3. One(LinkTo(st[p]) = j) = 1 BY <1>4, <2>3 DEF One
    <3>4. m + N + s + 1 + 0 = m + (N + 1) + s + 0 + 0 OBVIOUS
    <3>5. m + Cardinality(NamesOf(j)) + Cardinality(SubDirs(j)) + One(LinkTo(st[p]) = j) + One(UnlinkTo(st[p]) = j)
             = disk[j].nlink + Cardinality(NamesOf(j))' + Cardinality(SubDirs(j))'
               + One(LinkTo(r) = j) + One(UnlinkTo(r) = j)
      BY <2>1, <2>2, <3>1, <3>2, <3>3, <3>4
    <3> QED BY <1>20, <2>1, <3>5, LinksMove DEF Inv
  <2>4. CASE j # i
    <3>1. One(LinkTo(st[p]) = j) = 0 BY <1>4, <2>4 DEF One
    <3>2. NamesOf(j)' = NamesOf(j) /\ SubDirs(j)' = SubDirs(j) BY <1>23, <1>25, <2>4
    <3>3. m + One(LinkTo(st[p]) = j) + One(UnlinkTo(st[p]) = j)
            = disk[j].nlink + One(LinkTo(r) = j) + One(UnlinkTo(r) = j)
      BY <2>1, <2>2, <3>1
    <3> QED BY <1>20, <2>1, <3>2, <3>3, LinksMoveSame DEF Inv
  <2> QED BY <2>3, <2>4
<1>29. NoLoops'
  <2>1. \A e \in Inums, a \in Names : entries'[e][a] \in {entries[e][a], None, i} BY <1>19
  <2>2. \A a \in Names : entries'[i][a] = None BY <1>24 DEF NoEntries
  <2> QED BY <2>1, <2>2, LoopsKept DEF Inv
<1>30. BlocksOwned' BY <1>9, BlocksKept DEF Inv
<1> QED BY <1>20, <1>21, <1>22, <1>26, <1>27, <1>28, <1>29, <1>30 DEF Inv

LEMMA UpdateTwo ==
  ASSUME TypeOK, NEW i \in Inums, NEW d \in Inums, i # d, NEW v \in InodeType, NEW w \in InodeType,
         Update([j \in {i, d} |-> IF j = i THEN v ELSE w])
  PROVE  /\ disk' \in [Inums -> InodeType] /\ mem' \in [Inums -> InodeType]
         /\ disk'[i] = v /\ mem'[i] = v /\ disk'[d] = w /\ mem'[d] = w
         /\ \A j \in Inums \ {i, d} : disk'[j] = disk[j] /\ mem'[j] = mem[j]
BY DEF TypeOK, Update

\* An entry is erased.
LEMMA NamesCut ==
  ASSUME NEW d \in Inums, NEW n \in Names, NEW i \in Inums, entries[d][n] = i,
         \A e \in Inums, a \in Names : entries'[e][a] = IF e = d /\ a = n THEN None ELSE entries[e][a]
  PROVE  /\ \A j \in Inums \ {i} : NamesOf(j)' = NamesOf(j)
         /\ NamesOf(i)' = NamesOf(i) \ {<<d, n>>} /\ <<d, n>> \in NamesOf(i)
         /\ Cardinality(NamesOf(i)) = Cardinality(NamesOf(i))' + 1
<1>1. \A j \in Inums \ {i} : NamesOf(j)' = NamesOf(j) BY Sorts DEF NamesOf
<1>2. <<d, n>> \in NamesOf(i) BY DEF NamesOf
<1>3. NamesOf(i)' = NamesOf(i) \ {<<d, n>>}
  <2>1. ASSUME NEW s \in NamesOf(i)' PROVE s \in NamesOf(i) \ {<<d, n>>}
    <3>1. PICK e \in Inums, a \in Names : s = <<e, a>> /\ entries'[e][a] = i BY <2>1 DEF NamesOf
    <3>2. ~(e = d /\ a = n) BY <3>1, Sorts
    <3>3. entries[e][a] = i BY <3>1, <3>2
    <3> QED BY <3>1, <3>2, <3>3 DEF NamesOf
  <2>2. ASSUME NEW s \in NamesOf(i) \ {<<d, n>>} PROVE s \in NamesOf(i)'
    <3>1. PICK e \in Inums, a \in Names : s = <<e, a>> /\ entries[e][a] = i BY <2>2 DEF NamesOf
    <3>2. ~(e = d /\ a = n) BY <3>1
    <3>3. entries'[e][a] = i BY <3>1, <3>2
    <3> QED BY <3>1, <3>3 DEF NamesOf
  <2> QED BY <2>1, <2>2
<1>4. PICK S : S = NamesOf(i) \ {<<d, n>>} OBVIOUS
<1>5. IsFiniteSet(S) BY <1>4, LinkSets, FS_Subset
<1>6. NamesOf(i) = S \cup {<<d, n>>} /\ <<d, n>> \notin S BY <1>2, <1>4
<1>7. Cardinality(NamesOf(i)) = Cardinality(S) + 1 BY <1>5, <1>6, FS_AddElement
<1> QED BY <1>1, <1>2, <1>3, <1>4, <1>7

LEMMA UnlinkEntryStep ==
  ASSUME Inv, NEW p \in Procs, UnlinkEntry(p)
  PROVE  Inv'
<1>1. st[p].at = "unlink2" /\ st[p].at \notin Puts BY DEF UnlinkEntry, At, Puts
<1>2. /\ st[p] \in Registers /\ RegsOK(st[p], cwd[p])
      /\ st[p].drop = <<>> /\ st[p].then = "user" /\ Point(st[p]) = st[p].at
      /\ First(st[p].drop) = None /\ Second(st[p].drop) = None
      /\ cwd[p] \in Inums \cup {None} /\ file[p] \in Inums \cup {None}
  BY <1>1, Idle, RegsAre
<1>3. st[p].ip \in Inums /\ st[p].cur \in Inums /\ cwd[p] # None /\ st[p].op = "unlink"
  BY <1>1, <1>2 DEF RegsOK, AtPath, OnPaths, Registers
<1>4. PICK i \in Inums, d \in Inums : i = st[p].ip /\ d = st[p].cur BY <1>3
<1>5. \A j \in Inums : Keeps(st[p], j) <=> j = d BY <1>1, <1>2, <1>4 DEF Keeps
<1>6. lock[d] = p /\ \A j \in Inums : lock[j] = p <=> j = d BY <1>5, RegsAre
<1>7. Lockable(i) /\ lock[i] = Nobody /\ i # d BY <1>4, <1>6, Sorts DEF UnlinkEntry, Lockable, Free
<1>8. Inode(i) = disk[i] /\ Inode(d) = disk[d] /\ disk[i].type # "free"
  BY <1>1, <1>6, <1>7, InodeIsDisk
<1>9. /\ disk[d].type = "dir" /\ \E a \in Names : st[p].name = a /\ entries[d][a] = i
  <2>1. Knows(st[p]) BY RegsAre
  <2> QED BY <1>1, <1>2, <1>4, <2>1 DEF Knows
<1>10. PICK n \in Names : st[p].name = n /\ entries[d][n] = i BY <1>9
<1>11. n \notin Dots BY InodesAssumption
<1>12. LinkTo(st[p]) = None /\ UnlinkTo(st[p]) = None /\ Making(st[p]) = None
  BY <1>1, <1>2, <1>3 DEF LinkTo, UnlinkTo, Making
<1>13. PICK r : r = DropCur(st[p], "unlink3") OBVIOUS
<1>14. /\ r \in Registers /\ r.at = "put" /\ r.then = "unlink3" /\ r.cur = None /\ r.drop = <<d>>
       /\ r.ip = i /\ r.op = "unlink"
       /\ Len(r.drop) <= 2 /\ First(r.drop) = d /\ Second(r.drop) = None /\ r.drop # <<>>
  <2>1. "unlink3" \in Points BY DEF Points
  <2> QED BY <1>2, <1>3, <1>4, <1>13, <2>1, DropCurIs
<1>15. Point(r) = "unlink3" BY <1>14 DEF Point, Puts
<1>16. LinkTo(r) = None /\ UnlinkTo(r) = i /\ Making(r) = None BY <1>14 DEF LinkTo, UnlinkTo, Making
<1>17. /\ entries' = [entries EXCEPT ![d][n] = None]
       /\ lock' = [lock EXCEPT ![d] = Nobody, ![i] = p] /\ st' = [st EXCEPT ![p] = r]
       /\ UNCHANGED <<ref, indirect, bitmap, cwd, file, writable, orphans>>
  BY <1>4, <1>10, <1>13 DEF UnlinkEntry, Go, blockVars, procVars
<1>18. /\ entries' \in [Inums -> [Names \cup Dots -> Inums \cup {None}]]
       /\ \A e \in Inums \ {d} : entries'[e] = entries[e]
       /\ \A a \in (Names \cup Dots) \ {n} : entries'[d][a] = entries[d][a]
       /\ entries'[d][n] = None
  BY <1>17 DEF Inv, TypeOK
<1>19. /\ \A j \in Inums \ {i} : NamesOf(j)' = NamesOf(j)
       /\ NamesOf(i)' = NamesOf(i) \ {<<d, n>>} /\ <<d, n>> \in NamesOf(i)
       /\ Cardinality(NamesOf(i)) = Cardinality(NamesOf(i))' + 1
  <2>1. \A e \in Inums, a \in Names : entries'[e][a] = IF e = d /\ a = n THEN None ELSE entries[e][a]
    BY <1>18
  <2> QED BY <1>10, <2>1, NamesCut
<1>20. \A e \in Inums : entries'[e][".."] = entries[e][".."] /\ entries'[e]["."] = entries[e]["."]
  BY <1>11, <1>18 DEF Dots
<1>21. InUse(d) /\ InUse(i) /\ ~Fresh(d) /\ ~Fresh(i)
  <2>1. Needs(st[p], cwd[p], file[p], d) /\ Needs(st[p], cwd[p], file[p], i) BY <1>1, <1>4 DEF Needs
  <2> QED BY <2>1, RegsAre, InUseIsLive
<1>22. /\ \A j \in Inums \ {d} : SubDirs(j)' = SubDirs(j)
       /\ disk[i].type = "dir" => SubDirs(d)' = SubDirs(d) \ {i} /\ i \in SubDirs(d)
       /\ disk[i].type # "dir" => SubDirs(d)' = SubDirs(d)
  <2>1. CASE disk[i].type = "dir"
    <3>1. NamesOf(i) = {<<d, n>>} /\ entries[i][".."] = d BY <1>19, <2>1 DEF Inv, DirInv
    <3>2. NamesOf(i)' = {} /\ i # ROOTINO BY <1>19, <3>1 DEF Inv, DirInv
    <3>3. i \in SubDirs(d) BY <3>1 DEF SubDirs
    <3>4. \A j \in Inums \ {d} : SubDirs(j)' = SubDirs(j)
      BY <1>19, <1>20, <3>1 DEF SubDirs
    <3>5. SubDirs(d)' = SubDirs(d) \ {i} BY <1>19, <1>20, <3>1, <3>2 DEF SubDirs
    <3> QED BY <2>1, <3>3, <3>4, <3>5
  <2>2. CASE disk[i].type # "dir"
    <3>1. entries[i] = NoEntries BY <2>2 DEF Inv, DirInv
    <3>2. entries[i][".."] = None BY <3>1 DEF NoEntries, Dots
    <3>3. \A j \in Inums : SubDirs(j)' = SubDirs(j) BY <1>19, <1>20, <3>2, Sorts DEF SubDirs
    <3> QED BY <2>2, <3>3
  <2> QED BY <2>1, <2>2
<1>23. disk[i].type = "dir" => Cardinality(SubDirs(d)) = Cardinality(SubDirs(d))' + 1
  <2> SUFFICES ASSUME disk[i].type = "dir" PROVE Cardinality(SubDirs(d)) = Cardinality(SubDirs(d))' + 1
    OBVIOUS
  <2>1. PICK S : S = SubDirs(d) \ {i} OBVIOUS
  <2>2. IsFiniteSet(S) BY <2>1, LinkSets, FS_Subset
  <2>3. SubDirs(d) = S \cup {i} /\ i \notin S BY <1>22, <2>1
  <2>4. Cardinality(SubDirs(d)) = Cardinality(S) + 1 BY <2>2, <2>3, FS_AddElement
  <2> QED BY <1>22, <2>1, <2>4
<1>24. PICK k \in Nat : k = disk[d].nlink BY DEF Inv, TypeOK, InodeType
<1>25. PICK m \in Nat : IF disk[i].type = "dir" THEN k = m + 1 ELSE m = k
  <2>1. CASE disk[i].type = "dir"
    <3>1. k # 0 BY <1>22, <1>24, <2>1, NoLinks DEF Inv
    <3>2. k - 1 \in Nat /\ k = (k - 1) + 1 BY <3>1
    <3> QED BY <2>1, <3>2
  <2>2. CASE disk[i].type # "dir" BY <2>2
  <2> QED BY <2>1, <2>2
<1>26. /\ disk' \in [Inums -> InodeType] /\ mem' \in [Inums -> InodeType]
       /\ \A j \in Inums \ {d} : disk'[j] = disk[j]
       /\ disk'[d] = [disk[d] EXCEPT !.nlink = m]
       /\ \A j \in Inums \ {d, i} : mem'[j] = mem[j]
       /\ mem'[i] = disk[i] /\ ((mem'[d] = mem[d] /\ disk'[d] = disk[d]) \/ mem'[d] = disk'[d])
  <2>0. disk[d] \in InodeType /\ disk[i] \in InodeType BY DEF Inv, TypeOK
  <2>1. CASE disk[i].type = "dir"
    <3>1. Update([j \in {i, d} |-> IF j = i THEN Inode(i) ELSE [Inode(d) EXCEPT !.nlink = @ - 1]])
      BY <1>4, <1>8, <2>1 DEF UnlinkEntry
    <3>2. disk[d].nlink - 1 = m BY <1>24, <1>25, <2>1
    <3>3. PICK v, w \in InodeType : v = disk[i] /\ w = [disk[d] EXCEPT !.nlink = m]
      BY <2>0 DEF InodeType
    <3>4. Update([j \in {i, d} |-> IF j = i THEN v ELSE w]) BY <1>8, <3>1, <3>2, <3>3
    <3> QED BY <1>7, <3>3, <3>4, UpdateTwo DEF Inv
  <2>2. CASE disk[i].type # "dir"
    <3>1. mem' = Read(i) /\ disk' = disk BY <1>4, <1>8, <2>2 DEF UnlinkEntry
    <3>2. mem' = [mem EXCEPT ![i] = disk[i]] BY <1>8, <3>1 DEF Read
    <3>3. disk[d] = [disk[d] EXCEPT !.nlink = m] BY <1>24, <1>25, <2>0, <2>2 DEF InodeType
    <3> QED BY <1>7, <3>1, <3>2, <3>3, <2>0 DEF Inv, TypeOK
  <2> QED BY <2>1, <2>2
<1>27. /\ disk'[d].nlink = m /\ disk'[d].type = disk[d].type /\ disk'[d].addrs = disk[d].addrs
  BY <1>26 DEF Inv, TypeOK, InodeType
<1>28. \A j \in Inums : disk'[j].type = disk[j].type /\ disk'[j].addrs = disk[j].addrs
  BY <1>26, <1>27
<1>29. RegsOK(r, cwd[p]) BY <1>3, <1>14, <1>15, Sorts DEF RegsOK, Puts, AtPath, OnPaths
<1>30. Locks(p, r)
  <2>1. \A j \in Inums : Keeps(r, j) <=> j = i BY <1>14, <1>15 DEF Keeps
  <2>2. lock \in [Inums -> Procs \cup {Nobody}] BY DEF Inv, TypeOK
  <2> QED BY <1>6, <1>7, <1>17, <2>1, <2>2, Sorts DEF Locks
<1>31. \A j \in Inums : Needs(r, cwd[p], file[p], j) => InUse(j)
  <2>1. \A j \in Inums : Needs(r, cwd[p], file[p], j) => Needs(st[p], cwd[p], file[p], j)
    BY <1>1, <1>4, <1>14, Sorts DEF Needs
  <2> QED BY <2>1, RegsAre
<1>32. \A j \in Inums : ref'[j] + Refers(st[p], cwd[p], file[p], j) = ref[j] + Refers(r, cwd[p], file[p], j)
  <2>1. \A j \in Inums : Refers(st[p], cwd[p], file[p], j) = Refers(r, cwd[p], file[p], j)
    BY <1>2, <1>3, <1>4, <1>14, Sorts DEF Refers, One
  <2> QED BY <1>17, <2>1
<1>33. /\ TypeOK' /\ RegsInv' /\ LockInv' /\ RefsCounted'
       /\ \A q \in Procs \ {p} : st'[q] = st[q] /\ cwd'[q] = cwd[q] /\ file'[q] = file[q]
       /\ st'[p] = r /\ cwd'[p] = cwd[p] /\ file'[p] = file[p]
  <2>1. /\ ref' \in [Inums -> Nat]
        /\ indirect' \in [Blocks -> [DOMAIN NoSlots -> Blocks \cup {None}]]
        /\ bitmap' \subseteq Blocks /\ orphans' \subseteq Inums
    BY <1>17 DEF Inv, TypeOK
  <2>2. st' = [st EXCEPT ![p] = r] /\ UNCHANGED <<cwd, file, writable>> BY <1>17
  <2>3. entries' \in [Inums -> [Names \cup Dots -> Inums \cup {None}]] BY <1>18
  <2>4. r \in Registers /\ Len(r.drop) <= 2 BY <1>14
  <2>5. disk' \in [Inums -> InodeType] /\ mem' \in [Inums -> InodeType] BY <1>26
  <2> QED BY <1>29, <1>30, <1>32, <2>1, <2>2, <2>3, <2>4, <2>5, LocalMove
<1>34. CacheInv' /\ FreeingInv'
  <2>1. \A q \in Procs \ {p} : st[q].at = "free" =>
           ref'[st[q].drop[1]] = ref[st[q].drop[1]] /\ mem'[st[q].drop[1]] = mem[st[q].drop[1]]
    <3>1. \A q \in Procs \ {p} : st[q].at = "free" => /\ st[q].drop[1] \in Inums
                                                      /\ st[q].drop[1] \notin {d, i}
      BY <1>4, Elsewhere
    <3> QED BY <1>17, <1>26, <3>1
  <2>2. \A j \in Inums : \/ mem'[j] = mem[j] /\ disk'[j] = disk[j]
                         \/ mem'[j] = disk'[j] /\ disk'[j].type # "free"
    <3> TAKE j \in Inums
    <3>1. CASE j = i BY <1>7, <1>8, <1>26, <3>1
    <3>2. CASE j = d BY <1>9, <1>26, <1>27, <3>2
    <3>3. CASE j \notin {i, d} BY <1>26, <3>3
    <3> QED BY <3>1, <3>2, <3>3
  <2> QED BY <1>1, <1>14, <1>33, <2>1, <2>2, CacheMove DEF Inv
<1>35. KnowsInv'
  <2>1. Knows(r)' BY <1>14, <1>15, <1>16 DEF Knows
  <2>2. \A e \in Inums : lock[e] \in Procs \ {p} => entries'[e] = entries[e] BY <1>6, <1>18
  <2> QED BY <1>28, <1>33, <2>1, <2>2, OthersElsewhere, KnowsMove DEF Inv
<1>36. FreshInv' /\ \A j \in Inums : (InTheMaking(j)' <=> InTheMaking(j)) /\ (Fresh(j)' <=> Fresh(j))
  <2>1. \A j \in Inums : Fresh(j) => disk'[j] = disk[j] /\ entries'[j] = entries[j]
                                        /\ NamesOf(j)' = {} /\ j \notin orphans'
    BY <1>17, <1>18, <1>19, <1>21, <1>26 DEF Inv, FreshInv
  <2> QED BY <1>12, <1>14, <1>16, <1>28, <1>31, <1>33, <2>1, FreshKept DEF Inv
<1>37. DirInv'
  <2>1. \A j \in Inums : entries'[j] # NoEntries => disk[j].type = "dir" BY <1>9, <1>18 DEF Inv, DirInv
  <2>2. NamesOf(ROOTINO)' = {} BY <1>19, Sorts DEF Inv, DirInv
  <2>3. \A j \in Inums : NamesOf(j)' \subseteq NamesOf(j) BY <1>19
  <2>4. \A j \in Inums : disk[j].type = "dir" => \A a, b \in NamesOf(j)' : a = b /\ entries'[j][".."] = a[1]
    BY <1>20, <2>3 DEF Inv, DirInv
  <2>5. \A j \in orphans' : disk'[j].type = "file" BY <1>17, <1>28 DEF Inv, DirInv, TypeOK
  <2>6. disk'[ROOTINO].type = "dir" /\ entries'[ROOTINO][".."] = ROOTINO
    BY <1>20, <1>28, Sorts DEF Inv, DirInv
  <2>7. \A j \in Inums : disk'[j].type = "dir" /\ ~InTheMaking(j)' =>
                            entries'[j]["."] = j /\ entries'[j][".."] # None
    BY <1>20, <1>28, <1>36 DEF Inv, DirInv
  <2> QED BY ONLY <1>28, <2>1, <2>2, <2>4, <2>5, <2>6, <2>7 DEF DirInv
<1>38. LinksInv'
  <2> SUFFICES ASSUME NEW j \in Inums
               PROVE IF j \in orphans' THEN disk'[j].nlink > Count(j)' ELSE disk'[j].nlink = Count(j)'
    BY DEF LinksInv
  <2>1. PICK c, x \in Nat : c = disk[j].nlink /\ disk'[j].nlink = x /\ (j \in orphans' <=> j \in orphans)
    BY <1>17, <1>26 DEF Inv, TypeOK, InodeType
  <2>2. One(UnlinkTo(st[p]) = j) = 0 /\ One(LinkTo(st[p]) = j) = 0 /\ One(LinkTo(r) = j) = 0
    BY <1>12, <1>16, Sorts DEF One
  <2>3. PICK N, s, N1, s1 \in Nat : /\ N = Cardinality(NamesOf(j)) /\ s = Cardinality(SubDirs(j))
                                    /\ N1 = Cardinality(NamesOf(j))' /\ s1 = Cardinality(SubDirs(j))'
    BY LinkSets, LinkSetsNext DEF CountsNat
  <2>4. CASE j = i
    <3>1. N = N1 + 1 /\ s1 = s /\ x = c BY <1>7, <1>19, <1>22, <1>26, <2>1, <2>3, <2>4
    <3>2. One(UnlinkTo(r) = j) = 1 BY <1>16, <2>4 DEF One
    <3>3. x + N + s + 0 + 0 = c + N1 + s1 + 0 + 1 BY <3>1
    <3>4. x + Cardinality(NamesOf(j)) + Cardinality(SubDirs(j)) + One(LinkTo(st[p]) = j) + One(UnlinkTo(st[p]) = j)
             = disk[j].nlink + Cardinality(NamesOf(j))' + Cardinality(SubDirs(j))'
               + One(LinkTo(r) = j) + One(UnlinkTo(r) = j)
      BY <2>1, <2>2, <2>3, <3>2, <3>3
    <3> QED BY <1>33, <2>1, <3>4, LinksMove DEF Inv
  <2>5. CASE j = d /\ disk[i].type = "dir"
    <3>1. N = N1 /\ s = s1 + 1 /\ c = x + 1
      BY <1>7, <1>19, <1>23, <1>24, <1>25, <1>27, <2>1, <2>3, <2>5
    <3>2. One(UnlinkTo(r) = j) = 0 BY <1>7, <1>16, <2>5 DEF One
    <3>3. x + N + s + 0 + 0 = c + N1 + s1 + 0 + 0 BY <3>1
    <3>4. x + Cardinality(NamesOf(j)) + Cardinality(SubDirs(j)) + One(LinkTo(st[p]) = j) + One(UnlinkTo(st[p]) = j)
             = disk[j].nlink + Cardinality(NamesOf(j))' + Cardinality(SubDirs(j))'
               + One(LinkTo(r) = j) + One(UnlinkTo(r) = j)
      BY <2>1, <2>2, <2>3, <3>2, <3>3
    <3> QED BY <1>33, <2>1, <3>4, LinksMove DEF Inv
  <2>6. CASE j # i /\ ~(j = d /\ disk[i].type = "dir")
    <3>1. NamesOf(j)' = NamesOf(j) /\ SubDirs(j)' = SubDirs(j) BY <1>19, <1>22, <2>6
    <3>2. x = c BY <1>24, <1>25, <1>26, <1>27, <2>1, <2>6
    <3>3. One(UnlinkTo(r) = j) = 0 BY <1>16, <2>6 DEF One
    <3>4. x + One(LinkTo(st[p]) = j) + One(UnlinkTo(st[p]) = j)
            = disk[j].nlink + One(LinkTo(r) = j) + One(UnlinkTo(r) = j)
      BY <2>1, <2>2, <3>2, <3>3
    <3> QED BY <1>33, <2>1, <3>1, <3>4, LinksMoveSame DEF Inv
  <2> QED BY <2>4, <2>5, <2>6
<1>39. NoLoops'
  <2>1. \A e \in Inums, a \in Names : entries'[e][a] \in {entries[e][a], None} BY <1>18
  <2> QED BY <2>1, LoopsCut DEF Inv
<1>40. BlocksOwned' BY <1>17, <1>28, BlocksKept DEF Inv
<1> QED BY <1>33, <1>34, <1>35, <1>36, <1>37, <1>38, <1>39, <1>40 DEF Inv

\* A nonempty set of numbers has a least one.
LEMMA LeastNumber ==
  ASSUME NEW S \in SUBSET Nat, S # {}
  PROVE  Min(S) \in S
<1> DEFINE R == {ss \in Nat \X Nat : ss[1] < ss[2]}
<1>1. IsWellFoundedOn(R, Nat)
  BY NatLessThanWellFounded DEF OpToRel
<1>2. PICK k \in S : \A j \in S : ~ (<<j, k>> \in R)
  BY <1>1, WFMin
<1>3. ASSUME NEW j \in S, j < k PROVE FALSE
  <2>1. <<j, k>> \in R
    BY <1>3
  <2> QED BY <1>2, <2>1
<1>4. \E i \in S : \A j \in S : i <= j BY <1>3
<1> QED BY <1>4 DEF Min

\* The block at each place of each inode, and what it is to own them.
Layout == [j \in Inums |-> [k \in 0 .. MAXFILE |-> BlockAt(disk[j], k)]]
Owned(f, B) ==
  /\ B = UNION {{f[j][k] : k \in 0 .. MAXFILE} \ {None} : j \in Inums}
  /\ \A i, j \in Inums, m, n \in 0 .. MAXFILE :
       f[i][m] = f[j][n] /\ f[i][m] # None => i = j /\ m = n
OwnedAsLaidOut == BlocksOwned <=> Owned(Layout, bitmap)

LEMMA Owning == OwnedAsLaidOut
<1>1. \A j \in Inums, k \in 0 .. MAXFILE : Layout[j][k] = BlockAt(disk[j], k) BY DEF Layout
<1>2. \A j \in Inums : Addrs(disk[j]) = {Layout[j][k] : k \in 0 .. MAXFILE} \ {None}
  BY <1>1 DEF Addrs
<1>3. {Addrs(disk[j]) : j \in Inums} = {{Layout[j][k] : k \in 0 .. MAXFILE} \ {None} : j \in Inums}
  BY <1>2
<1>4. (\A i \in Inums, m \in 0 .. MAXFILE : BlockAt(disk[i], m) # None =>
         \A j \in Inums, n \in 0 .. MAXFILE :
           BlockAt(disk[i], m) = BlockAt(disk[j], n) => i = j /\ m = n)
      <=> (\A i, j \in Inums, m, n \in 0 .. MAXFILE :
             Layout[i][m] = Layout[j][n] /\ Layout[i][m] # None => i = j /\ m = n)
  BY <1>1
<1>5. UNION {Addrs(disk[j]) : j \in Inums}
        = UNION {{Layout[j][k] : k \in 0 .. MAXFILE} \ {None} : j \in Inums}
  BY <1>3
<1> HIDE DEF Layout
<1> QED BY <1>4, <1>5 DEF OwnedAsLaidOut, BlocksOwned, Owned

LEMMA OwningNext == OwnedAsLaidOut'
BY Owning, PTL

\* One or two new blocks are put in places where there were none.
LEMMA OwnedMore ==
  ASSUME NEW f, NEW g, NEW B, Owned(f, B), NEW i \in Inums, NEW m \in 0 .. MAXFILE, NEW n \in 0 .. MAXFILE,
         NEW b, NEW c, b \notin B, c \notin B, b # None, c # None, b = c <=> m = n,
         f[i][m] = None, f[i][n] = None,
         \A j \in Inums, k \in 0 .. MAXFILE :
            g[j][k] = IF j = i /\ k = m THEN b ELSE IF j = i /\ k = n THEN c ELSE f[j][k]
  PROVE  Owned(g, B \cup {b, c})
<1>1. \A j \in Inums, k \in 0 .. MAXFILE : f[j][k] # None => f[j][k] \in B BY DEF Owned
<1>2. \A x \in B : \E j \in Inums, k \in 0 .. MAXFILE : x = f[j][k] /\ x # None BY DEF Owned
<1>0. \A j, l \in Inums, k, h \in 0 .. MAXFILE : f[j][k] = f[l][h] /\ f[j][k] # None => j = l /\ k = h
  BY DEF Owned
<1>3. g[i][m] = b /\ g[i][n] = c OBVIOUS
<1>4. ASSUME NEW x \in B \cup {b, c} PROVE \E j \in Inums, k \in 0 .. MAXFILE : x = g[j][k] /\ x # None
  <2>1. CASE x \in B
    <3>1. PICK j \in Inums, k \in 0 .. MAXFILE : x = f[j][k] /\ x # None BY <1>2, <2>1
    <3>2. g[j][k] = x BY <3>1
    <3> QED BY <3>1, <3>2
  <2>2. CASE x \in {b, c} BY <1>3, <2>2
  <2> QED BY <2>1, <2>2
<1>5. ASSUME NEW j \in Inums, NEW k \in 0 .. MAXFILE, g[j][k] # None PROVE g[j][k] \in B \cup {b, c}
  <2>1. g[j][k] \in {b, c, f[j][k]} OBVIOUS
  <2> QED BY <1>1, <1>5, <2>1
<1>6. B \cup {b, c} = UNION {{g[j][k] : k \in 0 .. MAXFILE} \ {None} : j \in Inums}
  BY <1>4, <1>5
<1>7. ASSUME NEW j \in Inums, NEW l \in Inums, NEW k \in 0 .. MAXFILE, NEW h \in 0 .. MAXFILE,
             g[j][k] = g[l][h], g[j][k] # None
      PROVE  j = l /\ k = h
  <2>1. CASE g[j][k] \in {b, c}
    <3>1. j = i /\ l = i
      <4>1. \A e \in Inums, a \in 0 .. MAXFILE : e # i => g[e][a] = f[e][a] OBVIOUS
      <4> QED BY <1>1, <1>7, <2>1, <4>1
    <3>2. \A a \in 0 .. MAXFILE : g[i][a] = b => a = m
      <4> SUFFICES ASSUME NEW a \in 0 .. MAXFILE, g[i][a] = b, a # m PROVE FALSE
        OBVIOUS
      <4>1. CASE a = n BY <4>1
      <4>2. CASE a # n
        <5>1. g[i][a] = f[i][a] BY <4>2
        <5> QED BY <1>1, <5>1
      <4> QED BY <4>1, <4>2
    <3>3. \A a \in 0 .. MAXFILE : g[i][a] = c => a = n
      <4> SUFFICES ASSUME NEW a \in 0 .. MAXFILE, g[i][a] = c, a # n PROVE FALSE
        OBVIOUS
      <4>1. CASE a = m BY <4>1
      <4>2. CASE a # m
        <5>1. g[i][a] = f[i][a] BY <4>2
        <5> QED BY <1>1, <5>1
      <4> QED BY <4>1, <4>2
    <3> QED BY <1>7, <2>1, <3>1, <3>2, <3>3
  <2>2. CASE g[j][k] \notin {b, c}
    <3>1. \A e \in Inums, a \in 0 .. MAXFILE : g[e][a] \notin {b, c} => g[e][a] = f[e][a] OBVIOUS
    <3>2. g[j][k] = f[j][k] /\ g[l][h] = f[l][h] BY <1>7, <2>2, <3>1
    <3>3. f[j][k] = f[l][h] /\ f[j][k] # None BY <1>7, <3>2
    <3> QED BY <1>0, <1>7, <3>3
  <2> QED BY <2>1, <2>2
<1> QED BY <1>6, <1>7 DEF Owned

\* An inode loses its blocks.
LEMMA OwnedLess ==
  ASSUME NEW f, NEW g, NEW B, Owned(f, B), NEW i \in Inums,
         \A j \in Inums, k \in 0 .. MAXFILE : g[j][k] = IF j = i THEN None ELSE f[j][k]
  PROVE  Owned(g, B \ ({f[i][k] : k \in 0 .. MAXFILE} \ {None}))
<1> DEFINE F == {f[i][k] : k \in 0 .. MAXFILE} \ {None}
<1>1. \A j \in Inums, k \in 0 .. MAXFILE : f[j][k] # None => f[j][k] \in B BY DEF Owned
<1>2. \A x \in B : \E j \in Inums, k \in 0 .. MAXFILE : x = f[j][k] /\ x # None BY DEF Owned
<1>0. \A j, l \in Inums, k, h \in 0 .. MAXFILE : f[j][k] = f[l][h] /\ f[j][k] # None => j = l /\ k = h
  BY DEF Owned
<1>3. ASSUME NEW x \in B \ F PROVE \E j \in Inums, k \in 0 .. MAXFILE : x = g[j][k] /\ x # None
  <2>1. PICK j \in Inums, k \in 0 .. MAXFILE : x = f[j][k] /\ x # None BY <1>2
  <2>2. j # i BY <2>1
  <2>3. g[j][k] = x BY <2>1, <2>2
  <2> QED BY <2>1, <2>3
<1>4. ASSUME NEW j \in Inums, NEW k \in 0 .. MAXFILE, g[j][k] # None PROVE g[j][k] \in B \ F
  <2>1. j # i /\ g[j][k] = f[j][k] BY <1>4
  <2>2. g[j][k] \notin F
    <3> SUFFICES ASSUME NEW h \in 0 .. MAXFILE, f[j][k] = f[i][h] PROVE FALSE BY <2>1
    <3> QED BY <1>4, <2>1 DEF Owned
  <2> QED BY <1>1, <1>4, <2>1, <2>2
<1>5. B \ F = UNION {{g[j][k] : k \in 0 .. MAXFILE} \ {None} : j \in Inums} BY <1>3, <1>4
<1>6. ASSUME NEW j \in Inums, NEW l \in Inums, NEW k \in 0 .. MAXFILE, NEW h \in 0 .. MAXFILE,
             g[j][k] = g[l][h], g[j][k] # None
      PROVE  j = l /\ k = h
  <2>1. j # i /\ l # i BY <1>6
  <2>2. g[j][k] = f[j][k] /\ g[l][h] = f[l][h] BY <2>1
  <2>3. f[j][k] = f[l][h] /\ f[j][k] # None BY <1>6, <2>2
  <2> QED BY <1>0, <1>6, <2>3
<1> QED BY <1>5, <1>6 DEF Owned

\* The same of the inodes.
LEMMA BlocksAdded ==
  ASSUME BlocksOwned, NEW i \in Inums, NEW m \in 0 .. MAXFILE, NEW n \in 0 .. MAXFILE,
         NEW b \in Blocks \ bitmap, NEW c \in Blocks \ bitmap, b = c <=> m = n,
         BlockAt(disk[i], m) = None, BlockAt(disk[i], n) = None,
         \A j \in Inums, k \in 0 .. MAXFILE :
            BlockAt(disk[j], k)' = IF j = i /\ k = m THEN b ELSE IF j = i /\ k = n THEN c
                                   ELSE BlockAt(disk[j], k),
         bitmap' = bitmap \cup {b, c}
  PROVE  BlocksOwned'
<1>1. PICK f : f = Layout OBVIOUS
<1>2. PICK g : g = Layout' OBVIOUS
<1>3. PICK B : B = bitmap OBVIOUS
<1>4. \A j \in Inums, k \in 0 .. MAXFILE : f[j][k] = BlockAt(disk[j], k) BY <1>1 DEF Layout
<1>5. \A j \in Inums, k \in 0 .. MAXFILE : g[j][k] = BlockAt(disk[j], k)' BY <1>2 DEF Layout
<1>6. Owned(f, B) BY <1>1, <1>3, Owning DEF OwnedAsLaidOut
<1>7. \A j \in Inums, k \in 0 .. MAXFILE :
            g[j][k] = IF j = i /\ k = m THEN b ELSE IF j = i /\ k = n THEN c ELSE f[j][k]
  BY <1>4, <1>5
<1>8. b \notin B /\ c \notin B /\ b # None /\ c # None BY <1>3, Sorts
<1>9. f[i][m] = None /\ f[i][n] = None BY <1>4
<1>10. Owned(g, B \cup {b, c}) BY <1>6, <1>7, <1>8, <1>9, OwnedMore
<1>11. Owned(Layout, bitmap)' BY <1>2, <1>3, <1>10 DEF Owned
<1> QED BY <1>11, OwningNext DEF OwnedAsLaidOut

LEMMA BlocksFreed ==
  ASSUME BlocksOwned, NEW i \in Inums,
         \A j \in Inums, k \in 0 .. MAXFILE :
            BlockAt(disk[j], k)' = IF j = i THEN None ELSE BlockAt(disk[j], k),
         bitmap' = bitmap \ Addrs(disk[i])
  PROVE  BlocksOwned'
<1>1. PICK f : f = Layout OBVIOUS
<1>2. PICK g : g = Layout' OBVIOUS
<1>3. PICK B : B = bitmap OBVIOUS
<1>4. \A j \in Inums, k \in 0 .. MAXFILE : f[j][k] = BlockAt(disk[j], k) BY <1>1 DEF Layout
<1>5. \A j \in Inums, k \in 0 .. MAXFILE : g[j][k] = BlockAt(disk[j], k)' BY <1>2 DEF Layout
<1>6. Owned(f, B) BY <1>1, <1>3, Owning DEF OwnedAsLaidOut
<1>7. \A j \in Inums, k \in 0 .. MAXFILE : g[j][k] = IF j = i THEN None ELSE f[j][k] BY <1>4, <1>5
<1>8. Owned(g, B \ ({f[i][k] : k \in 0 .. MAXFILE} \ {None})) BY <1>6, <1>7, OwnedLess
<1>9. Addrs(disk[i]) = {f[i][k] : k \in 0 .. MAXFILE} \ {None} BY <1>4 DEF Addrs
<1>10. Owned(Layout, bitmap)' BY <1>2, <1>3, <1>8, <1>9 DEF Owned
<1> QED BY <1>10, OwningNext DEF OwnedAsLaidOut

\* Places of an inode.
LEMMA PlacesAre ==
  /\ NDIRECT \in Nat /\ NINDIRECT \in Nat /\ MAXFILE \in Nat /\ 0 < NDIRECT /\ NDIRECT < MAXFILE
  /\ NDIRECT + NINDIRECT = MAXFILE
BY InodesAssumption DEF MAXFILE

\* balloc takes a block that is not in use.
LEMMA NewBlockIs == ASSUME Inv, bitmap # Blocks PROVE NewBlock \in Blocks \ bitmap
<1>1. Blocks \ bitmap # {} /\ Blocks \ bitmap \in SUBSET Nat BY Sorts DEF Inv, TypeOK
<1> QED BY <1>1, LeastNumber DEF NewBlock

\* A new inode gets its first name.
LEMMA FillStep ==
  ASSUME Inv, NEW p \in Procs, Fill(p)
  PROVE  Inv'
<1>1. st[p].at = "fill" /\ st[p].at \notin Puts BY DEF Fill, At, Puts
<1>2. /\ st[p] \in Registers /\ RegsOK(st[p], cwd[p])
      /\ st[p].drop = <<>> /\ st[p].then = "user" /\ Point(st[p]) = st[p].at
      /\ First(st[p].drop) = None /\ Second(st[p].drop) = None
      /\ cwd[p] \in Inums \cup {None} /\ file[p] \in Inums \cup {None}
  BY <1>1, Idle, RegsAre
<1>3. st[p].ip \in Inums /\ st[p].cur \in Inums /\ cwd[p] # None /\ st[p].op \in {"create", "mkdir"}
  BY <1>1, <1>2 DEF RegsOK, AtPath, OnPaths, Registers
<1>4. PICK i \in Inums, d \in Inums : i = st[p].ip /\ d = st[p].cur BY <1>3
<1>5. \A j \in Inums : Keeps(st[p], j) <=> j = d BY <1>1, <1>2, <1>4 DEF Keeps
<1>6. lock[d] = p /\ \A j \in Inums : lock[j] = p <=> j = d BY <1>5, RegsAre
<1>7. Lockable(i) /\ lock[i] = Nobody /\ i # d BY <1>4, <1>6, Sorts DEF Fill, Lockable, Free
<1>8. Inode(i) = disk[i] /\ Inode(d) = disk[d] BY <1>1, <1>6, <1>7, InodeIsDisk
<1>9. /\ disk[d].type = "dir" /\ disk[i].type = IF st[p].op = "mkdir" THEN "dir" ELSE "file"
      /\ \E a \in Names : st[p].name = a /\ entries[d][a] = None
  <2>1. Knows(st[p]) BY RegsAre
  <2> QED BY <1>1, <1>2, <1>4, <2>1 DEF Knows
<1>10. PICK n \in Names : st[p].name = n /\ entries[d][n] = None BY <1>9
<1>11. n \notin Dots BY InodesAssumption
<1>12. LinkTo(st[p]) = None /\ UnlinkTo(st[p]) = None /\ Making(st[p]) = i
  BY <1>1, <1>2, <1>3, <1>4 DEF LinkTo, UnlinkTo, Making
<1>13. /\ InTheMaking(i) /\ Fresh(i) /\ disk[i].nlink = 0 /\ disk[i].addrs = NoBlocks
       /\ entries[i] = NoEntries /\ NamesOf(i) = {} /\ i \notin orphans /\ ~InUse(i)
  <2>1. InTheMaking(i) BY <1>12, Calling DEF CallsAre
  <2> QED BY <2>1 DEF Inv, FreshInv, Fresh
<1>14. InUse(d) /\ ~Fresh(d) /\ ~InTheMaking(d)
  <2>1. Needs(st[p], cwd[p], file[p], d) BY <1>4 DEF Needs
  <2> QED BY <2>1, RegsAre, InUseIsLive
<1>15. PICK r : r = DropCur(st[p], "filled") OBVIOUS
<1>16. /\ r \in Registers /\ r.at = "put" /\ r.then = "filled" /\ r.cur = None /\ r.drop = <<d>>
       /\ r.ip = i /\ r.op = st[p].op
       /\ Len(r.drop) <= 2 /\ First(r.drop) = d /\ Second(r.drop) = None /\ r.drop # <<>>
  <2>1. "filled" \in Points BY DEF Points
  <2> QED BY <1>2, <1>3, <1>4, <1>15, <2>1, DropCurIs
<1>17. Point(r) = "filled" BY <1>16 DEF Point, Puts
<1>18. LinkTo(r) = None /\ UnlinkTo(r) = None /\ Making(r) = None
  BY <1>3, <1>16 DEF LinkTo, UnlinkTo, Making
<1>19. PICK M \in BOOLEAN : M <=> st[p].op = "mkdir" OBVIOUS
<1>20. PICK b : /\ M => b = NewBlock /\ b \in Blocks \ bitmap
                /\ ~M => b = None
  <2>1. CASE M
    <3>1. bitmap # Blocks BY <1>19, <2>1 DEF Fill
    <3> QED BY <2>1, <3>1, NewBlockIs
  <2>2. CASE ~M BY <2>2
  <2> QED BY <2>1, <2>2
<1>21. /\ lock' = [lock EXCEPT ![d] = Nobody, ![i] = p] /\ st' = [st EXCEPT ![p] = r]
       /\ UNCHANGED <<ref, indirect, cwd, file, writable, orphans>>
  BY <1>4, <1>15 DEF Fill, Go, procVars
<1>22. bitmap' = (IF M THEN bitmap \cup {b} ELSE bitmap) /\ bitmap' \subseteq Blocks
  <2>1. bitmap \subseteq Blocks BY DEF Inv, TypeOK
  <2> QED BY <1>19, <1>20, <2>1 DEF Fill
<1>23. /\ entries' \in [Inums -> [Names \cup Dots -> Inums \cup {None}]]
       /\ \A e \in Inums \ {d, i} : entries'[e] = entries[e]
       /\ \A a \in (Names \cup Dots) \ {n} : entries'[d][a] = entries[d][a]
       /\ entries'[d][n] = i
       /\ M => entries'[i] = [NoEntries EXCEPT !["."] = i, ![".."] = d]
       /\ ~M => entries'[i] = NoEntries
  <2>0. entries \in [Inums -> [Names \cup Dots -> Inums \cup {None}]] BY DEF Inv, TypeOK
  <2>1. CASE M
    <3>1. entries' = [[entries EXCEPT ![d][n] = i] EXCEPT ![i] = [@ EXCEPT !["."] = i, ![".."] = d]]
      BY <1>4, <1>10, <1>19, <2>1 DEF Fill
    <3>2. PICK E : E = [entries EXCEPT ![d][n] = i] OBVIOUS
    <3>3. /\ E \in [Inums -> [Names \cup Dots -> Inums \cup {None}]]
          /\ \A e \in Inums \ {d} : E[e] = entries[e]
          /\ \A a \in (Names \cup Dots) \ {n} : E[d][a] = entries[d][a]
          /\ E[d][n] = i
      BY <2>0, <3>2
    <3>4. entries' = [E EXCEPT ![i] = [@ EXCEPT !["."] = i, ![".."] = d]] BY <3>1, <3>2
    <3>5. E[i] = NoEntries BY <1>7, <1>13, <3>3
    <3>6. entries' = [E EXCEPT ![i] = [NoEntries EXCEPT !["."] = i, ![".."] = d]]
      BY <3>3, <3>4, <3>5
    <3>7. [NoEntries EXCEPT !["."] = i, ![".."] = d] \in [Names \cup Dots -> Inums \cup {None}]
      BY DEF NoEntries
    <3> QED BY <1>7, <2>1, <3>3, <3>6, <3>7
  <2>2. CASE ~M
    <3>1. entries' = [entries EXCEPT ![d][n] = i] BY <1>4, <1>10, <1>19, <2>2 DEF Fill
    <3> QED BY <1>7, <1>13, <2>0, <2>2, <3>1
  <2> QED BY <2>1, <2>2
<1>24. /\ \A a \in Names : entries'[i][a] = None
       /\ M => entries'[i]["."] = i /\ entries'[i][".."] = d
       /\ ~M => entries'[i][".."] = None
  <2>1. "." \notin Names /\ ".." \notin Names BY InodesAssumption DEF Dots
  <2> QED BY <1>23, <2>1 DEF NoEntries, Dots
<1>25. /\ \A j \in Inums \ {i} : NamesOf(j)' = NamesOf(j)
       /\ NamesOf(i)' = {<<d, n>>}
       /\ Cardinality(NamesOf(i))' = Cardinality(NamesOf(i)) + 1
  <2>1. \A e \in Inums, a \in Names : entries'[e][a] = IF e = d /\ a = n THEN i ELSE entries[e][a]
    BY <1>7, <1>13, <1>23, <1>24 DEF NoEntries
  <2> QED BY <1>10, <1>13, <2>1, NamesAdded
<1>26. \A e \in Inums \ {i} : entries'[e][".."] = entries[e][".."] /\ entries'[e]["."] = entries[e]["."]
  BY <1>11, <1>23 DEF Dots
<1>27. i # ROOTINO
  <2>1. SubDirs(i) = {} BY <1>13, NoLinks DEF Inv
  <2> QED BY <2>1, RootIsThere
<1>28. /\ \A j \in Inums \ {d} : SubDirs(j)' = SubDirs(j)
       /\ M => SubDirs(d)' = SubDirs(d) \cup {i} /\ i \notin SubDirs(d)
       /\ ~M => SubDirs(d)' = SubDirs(d)
  <2>1. \A e \in Inums \ {i} : NamesOf(e)' = {} <=> NamesOf(e) = {} BY <1>25
  <2>2. entries[i][".."] = None BY <1>13 DEF NoEntries, Dots
  <2>3. \A j \in Inums : i \notin SubDirs(j) BY <2>2, Sorts DEF SubDirs
  <2>4. \A j \in Inums : i \in SubDirs(j)' <=> M /\ j = d
    BY <1>24, <1>25, Sorts DEF SubDirs
  <2>5. \A j \in Inums, e \in Inums \ {i} : e \in SubDirs(j)' <=> e \in SubDirs(j)
    BY <1>26, <2>1 DEF SubDirs
  <2>6. \A j \in Inums : SubDirs(j)' \subseteq Inums /\ SubDirs(j) \subseteq Inums BY DEF SubDirs
  <2>7. ASSUME NEW j \in Inums, ~(j = d /\ M) PROVE SubDirs(j)' = SubDirs(j)
    <3>1. PICK S, S1 \in SUBSET Inums : S = SubDirs(j) /\ S1 = SubDirs(j)' BY <2>6
    <3>2. \A e \in Inums : e \in S1 <=> e \in S
      <4> TAKE e \in Inums
      <4>1. CASE e = i BY <2>3, <2>4, <2>7, <3>1, <4>1
      <4>2. CASE e # i BY <2>5, <3>1, <4>2
      <4> QED BY <4>1, <4>2
    <3>3. S1 = S BY <3>2
    <3> QED BY <3>1, <3>3
  <2>8. ASSUME M PROVE SubDirs(d)' = SubDirs(d) \cup {i}
    <3>1. PICK S, S1 \in SUBSET Inums : S = SubDirs(d) /\ S1 = SubDirs(d)' BY <2>6
    <3>2. \A e \in Inums : e \in S1 <=> e \in S \/ e = i
      <4> TAKE e \in Inums
      <4>1. CASE e = i BY <2>4, <2>8, <3>1, <4>1
      <4>2. CASE e # i BY <2>5, <3>1, <4>2
      <4> QED BY <4>1, <4>2
    <3>3. S1 = S \cup {i} BY <3>2
    <3> QED BY <3>1, <3>3
  <2>9. ~M => SubDirs(d)' = SubDirs(d) BY <2>7
  <2> QED BY <2>3, <2>7, <2>8, <2>9
<1>29. M => Cardinality(SubDirs(d))' = Cardinality(SubDirs(d)) + 1
  <2> SUFFICES ASSUME M PROVE Cardinality(SubDirs(d))' = Cardinality(SubDirs(d)) + 1
    OBVIOUS
  <2>1. Cardinality(SubDirs(d) \cup {i}) = Cardinality(SubDirs(d)) + 1 BY <1>28, LinkSets, FS_AddElement
  <2> QED BY <1>28, <2>1
<1>30. PICK k \in Nat, m \in Nat : k = disk[d].nlink /\ m = IF M THEN k + 1 ELSE k
  <2>1. PICK k \in Nat : k = disk[d].nlink BY DEF Inv, TypeOK, InodeType
  <2>2. (IF M THEN k + 1 ELSE k) \in Nat OBVIOUS
  <2> QED BY <2>1, <2>2
<1>31. PICK v : v = IF M THEN [disk[i] EXCEPT !.nlink = 1, !.addrs[0] = b] ELSE [disk[i] EXCEPT !.nlink = 1]
  OBVIOUS
<1>32. /\ v \in InodeType /\ v.nlink = 1 /\ v.type = disk[i].type
       /\ \A a \in 0 .. NDIRECT : v.addrs[a] = IF M /\ a = 0 THEN b ELSE None
  <2>1. disk[i] \in InodeType /\ 0 \in 0 .. NDIRECT BY PlacesAre DEF Inv, TypeOK
  <2>2. \A a \in 0 .. NDIRECT : disk[i].addrs[a] = None BY <1>13 DEF NoBlocks
  <2>3. CASE M
    <3>1. v = [disk[i] EXCEPT !.nlink = 1, !.addrs[0] = b] BY <1>31, <2>3
    <3>2. b \in Blocks BY <1>20, <2>3
    <3> QED BY <2>1, <2>2, <2>3, <3>1, <3>2 DEF InodeType
  <2>4. CASE ~M
    <3>1. v = [disk[i] EXCEPT !.nlink = 1] BY <1>31, <2>4
    <3> QED BY <2>1, <2>2, <2>4, <3>1 DEF InodeType
  <2> QED BY <2>3, <2>4
<1>33. /\ disk' \in [Inums -> InodeType] /\ mem' \in [Inums -> InodeType]
       /\ disk'[i] = v /\ mem'[i] = v /\ disk'[d] = [disk[d] EXCEPT !.nlink = m]
       /\ ((mem'[d] = mem[d] /\ disk'[d] = disk[d]) \/ mem'[d] = disk'[d])
       /\ \A j \in Inums \ {i, d} : disk'[j] = disk[j] /\ mem'[j] = mem[j]
  <2>0. disk[d] \in InodeType BY DEF Inv, TypeOK
  <2>1. CASE M
    <3>1. Update([j \in {i, d} |->
                     IF j = i THEN [Inode(i) EXCEPT !.nlink = 1, !.addrs[0] = NewBlock]
                     ELSE [Inode(d) EXCEPT !.nlink = @ + 1]])
      BY <1>4, <1>19, <2>1, SMTT(30) DEF Fill
    <3>2. disk[d].nlink + 1 = m BY <1>30, <2>1
    <3>3. PICK w \in InodeType : w = [disk[d] EXCEPT !.nlink = m] BY <2>0 DEF InodeType
    <3>4. v = [disk[i] EXCEPT !.nlink = 1, !.addrs[0] = NewBlock] BY <1>20, <1>31, <2>1
    <3>5. Update([j \in {i, d} |-> IF j = i THEN v ELSE w]) BY <1>8, <3>1, <3>2, <3>3, <3>4
    <3> QED BY <1>7, <1>32, <3>3, <3>5, UpdateTwo DEF Inv
  <2>2. CASE ~M
    <3>1. Update([j \in {i} |-> v]) BY <1>4, <1>8, <1>19, <1>31, <2>2 DEF Fill
    <3>2. disk' = [disk EXCEPT ![i] = v] /\ mem' = [mem EXCEPT ![i] = v] BY <3>1, UpdateOne DEF Inv
    <3>3. disk[d] = [disk[d] EXCEPT !.nlink = m] BY <1>30, <2>0, <2>2 DEF InodeType
    <3> QED BY <1>7, <1>32, <3>2, <3>3 DEF Inv, TypeOK
  <2> QED BY <2>1, <2>2
<1>34. disk'[d].nlink = m /\ disk'[d].type = disk[d].type /\ disk'[d].addrs = disk[d].addrs
  BY <1>33 DEF Inv, TypeOK, InodeType
<1>35. /\ \A j \in Inums : disk'[j].type = disk[j].type
       /\ \A j \in Inums \ {i} : disk'[j].addrs = disk[j].addrs
  BY <1>32, <1>33, <1>34
<1>36. RegsOK(r, cwd[p]) BY <1>3, <1>16, <1>17, Sorts DEF RegsOK, Puts, AtPath, OnPaths
<1>37. Locks(p, r)
  <2>1. \A j \in Inums : Keeps(r, j) <=> j = i BY <1>16, <1>17 DEF Keeps
  <2>2. lock \in [Inums -> Procs \cup {Nobody}] BY DEF Inv, TypeOK
  <2> QED BY <1>6, <1>7, <1>21, <2>1, <2>2, Sorts DEF Locks
<1>38. \A j \in Inums : Needs(r, cwd[p], file[p], j) => InUse(j) \/ j = i
  <2>1. \A j \in Inums : Needs(r, cwd[p], file[p], j) => j = i \/ Needs(st[p], cwd[p], file[p], j)
    BY <1>4, <1>16, Sorts DEF Needs
  <2> QED BY <2>1, RegsAre
<1>39. \A j \in Inums : ref'[j] + Refers(st[p], cwd[p], file[p], j) = ref[j] + Refers(r, cwd[p], file[p], j)
  <2>1. \A j \in Inums : Refers(st[p], cwd[p], file[p], j) = Refers(r, cwd[p], file[p], j)
    BY <1>2, <1>4, <1>16, Sorts DEF Refers, One
  <2> QED BY <1>21, <2>1
<1>40. /\ TypeOK' /\ RegsInv' /\ LockInv' /\ RefsCounted'
       /\ \A q \in Procs \ {p} : st'[q] = st[q] /\ cwd'[q] = cwd[q] /\ file'[q] = file[q]
       /\ st'[p] = r /\ cwd'[p] = cwd[p] /\ file'[p] = file[p]
  <2>1. /\ ref' \in [Inums -> Nat]
        /\ indirect' \in [Blocks -> [DOMAIN NoSlots -> Blocks \cup {None}]]
        /\ bitmap' \subseteq Blocks /\ orphans' \subseteq Inums
    BY <1>21, <1>22 DEF Inv, TypeOK
  <2>2. st' = [st EXCEPT ![p] = r] /\ UNCHANGED <<cwd, file, writable>> BY <1>21
  <2>3. entries' \in [Inums -> [Names \cup Dots -> Inums \cup {None}]] BY <1>23
  <2>4. r \in Registers /\ Len(r.drop) <= 2 BY <1>16
  <2>5. disk' \in [Inums -> InodeType] /\ mem' \in [Inums -> InodeType] BY <1>33
  <2> QED BY <1>36, <1>37, <1>39, <2>1, <2>2, <2>3, <2>4, <2>5, LocalMove
<1>41. CacheInv' /\ FreeingInv'
  <2>1. \A q \in Procs \ {p} : st[q].at = "free" =>
           ref'[st[q].drop[1]] = ref[st[q].drop[1]] /\ mem'[st[q].drop[1]] = mem[st[q].drop[1]]
    <3>1. \A q \in Procs \ {p} : st[q].at = "free" => /\ st[q].drop[1] \in Inums
                                                      /\ st[q].drop[1] \notin {d, i}
      BY <1>4, Elsewhere
    <3> QED BY <1>21, <1>33, <3>1
  <2>2. \A j \in Inums : \/ mem'[j] = mem[j] /\ disk'[j] = disk[j]
                         \/ mem'[j] = disk'[j] /\ disk'[j].type # "free"
    <3> TAKE j \in Inums
    <3>1. CASE j = i BY <1>9, <1>33, <1>35, <3>1
    <3>2. CASE j = d BY <1>9, <1>33, <1>34, <3>2
    <3>3. CASE j \notin {i, d} BY <1>33, <3>3
    <3> QED BY <3>1, <3>2, <3>3
  <2> QED BY <1>1, <1>16, <1>40, <2>1, <2>2, CacheMove DEF Inv
<1>42. KnowsInv'
  <2>1. Knows(r)' BY <1>16, <1>17, <1>18 DEF Knows
  <2>2. \A e \in Inums : lock[e] \in Procs \ {p} => entries'[e] = entries[e] BY <1>6, <1>7, <1>23, Sorts
  <2> QED BY <1>35, <1>40, <2>1, <2>2, OthersElsewhere, KnowsMove DEF Inv
<1>43. \A j \in Inums : InTheMaking(j)' <=> InTheMaking(j) /\ j # i
  <2> TAKE j \in Inums
  <2>1. InTheMaking(j)' <=> \E q \in Procs : Making(st'[q]) = j BY CallingNext DEF CallsAre
  <2>2. InTheMaking(j) <=> \E q \in Procs : Making(st[q]) = j BY Calling DEF CallsAre
  <2>3. \A q \in Procs \ {p} : Making(st[q]) # i BY <1>12, Sorts DEF Inv, FreshInv
  <2>4. \A q \in Procs \ {p} : Making(st'[q]) = Making(st[q]) BY <1>40
  <2>5. Making(st'[p]) # j BY <1>18, <1>40, Sorts
  <2> QED BY <1>12, <2>1, <2>2, <2>3, <2>4, <2>5
<1>44. \A j \in Inums : Fresh(j)' <=> Fresh(j) /\ j # i
  <2>1. disk[i].type # "free" BY <1>9
  <2> QED BY <1>35, <1>43, <2>1 DEF Fresh
<1>45. FreshInv'
  <2>1. \A j \in Inums : InUse(j)' => InUse(j) \/ j = i
    <3> SUFFICES ASSUME NEW j \in Inums, NEW q \in Procs, Uses(q, j)' PROVE InUse(j) \/ j = i
      BY DEF InUse
    <3>1. Needs(st'[q], cwd'[q], file'[q], j) BY UsingNext DEF UsesAre
    <3>2. CASE q = p BY <1>38, <1>40, <3>1, <3>2
    <3>3. CASE q # p
      <4>1. Needs(st[q], cwd[q], file[q], j) BY <1>40, <3>1, <3>3
      <4> QED BY <4>1, RegsAre
    <3> QED BY <3>2, <3>3
  <2>2. (\A j \in Inums : Fresh(j) =>
       /\ disk[j].nlink = 0 /\ disk[j].addrs = NoBlocks
       /\ entries[j] = NoEntries /\ NamesOf(j) = {} /\ j \notin orphans
       /\ ~InUse(j))'
    <3> SUFFICES ASSUME NEW j \in Inums, Fresh(j)'
                 PROVE  /\ disk'[j].nlink = 0 /\ disk'[j].addrs = NoBlocks
                        /\ entries'[j] = NoEntries /\ NamesOf(j)' = {} /\ j \notin orphans'
                        /\ ~InUse(j)'
      OBVIOUS
    <3>1. Fresh(j) /\ j # i /\ j # d BY <1>14, <1>44
    <3>2. disk'[j] = disk[j] /\ entries'[j] = entries[j] /\ NamesOf(j)' = NamesOf(j) /\ orphans' = orphans
      BY <1>21, <1>23, <1>25, <1>33, <3>1
    <3> QED BY <2>1, <3>1, <3>2 DEF Inv, FreshInv
  <2>3. (\A q \in Procs : st[q].at = "invalidate" => Fresh(st[q].drop[1]))'
    <3> SUFFICES ASSUME NEW q \in Procs, st'[q].at = "invalidate", NEW j, j = st'[q].drop[1] PROVE Fresh(j)'
      OBVIOUS
    <3>1. q # p /\ st'[q] = st[q] BY <1>16, <1>40
    <3>2. st[q].drop \in Seq(Inums) /\ st[q].drop # <<>>
      BY <3>1, RegsAre DEF RegsOK, Puts
    <3>3. j \in Inums BY <3>1, <3>2
    <3>4. Fresh(j) BY <3>1 DEF Inv, FreshInv
    <3>5. lock[j] = q BY <3>1, <3>3, RegsAre DEF Keeps
    <3>6. j # i BY <1>7, <3>5, Sorts
    <3> QED BY <1>44, <3>3, <3>4, <3>6
  <2>4. (\A q, s \in Procs : Making(st[q]) = Making(st[s]) /\ Making(st[q]) # None => q = s)'
    <3>1. \A q \in Procs : Making(st'[q]) = IF q = p THEN None ELSE Making(st[q]) BY <1>18, <1>40
    <3> QED BY <3>1 DEF Inv, FreshInv
  <2>5. (\A j \in Inums : disk[j].type # "invalid")' BY <1>35 DEF Inv, FreshInv
  <2> QED BY <2>2, <2>3, <2>4, <2>5 DEF FreshInv
<1>46. DirInv'
  <2>1. \A j \in Inums : entries'[j] # NoEntries => disk[j].type = "dir"
    <3> TAKE j \in Inums
    <3>1. CASE j = i BY <1>9, <1>19, <1>23, <3>1
    <3>2. CASE j = d BY <1>9, <3>2
    <3>3. CASE j \notin {i, d} BY <1>23, <3>3 DEF Inv, DirInv
    <3> QED BY <3>1, <3>2, <3>3
  <2>2. NamesOf(ROOTINO)' = {} /\ entries'[ROOTINO][".."] = ROOTINO
    BY <1>25, <1>26, <1>27, Sorts DEF Inv, DirInv
  <2>3. \A j \in Inums : disk[j].type = "dir" /\ ~InTheMaking(j)' =>
                           entries'[j]["."] = j /\ entries'[j][".."] # None
    <3> TAKE j \in Inums
    <3>1. CASE j = i BY <1>9, <1>19, <1>24, <3>1, Sorts
    <3>2. CASE j # i BY <1>26, <1>43, <3>2 DEF Inv, DirInv
    <3> QED BY <3>1, <3>2
  <2>4. \A j \in Inums : disk[j].type = "dir" => \A a, c \in NamesOf(j)' : a = c /\ entries'[j][".."] = a[1]
    <3> TAKE j \in Inums
    <3>1. CASE j = i BY <1>9, <1>19, <1>24, <1>25, <3>1
    <3>2. CASE j # i BY <1>25, <1>26, <3>2 DEF Inv, DirInv
    <3> QED BY <3>1, <3>2
  <2>5. \A j \in orphans' : disk'[j].type = "file" BY <1>21, <1>35 DEF Inv, DirInv, TypeOK
  <2> QED BY <1>35, <2>1, <2>2, <2>3, <2>4, <2>5, Sorts DEF Inv, DirInv
<1>47. LinksInv'
  <2> SUFFICES ASSUME NEW j \in Inums
               PROVE IF j \in orphans' THEN disk'[j].nlink > Count(j)' ELSE disk'[j].nlink = Count(j)'
    BY DEF LinksInv
  <2>1. PICK c, x \in Nat : c = disk[j].nlink /\ disk'[j].nlink = x /\ (j \in orphans' <=> j \in orphans)
    BY <1>21, <1>33 DEF Inv, TypeOK, InodeType
  <2>2. /\ One(UnlinkTo(st[p]) = j) = 0 /\ One(LinkTo(st[p]) = j) = 0 /\ One(LinkTo(r) = j) = 0
        /\ One(UnlinkTo(r) = j) = 0
    BY <1>12, <1>18, Sorts DEF One
  <2>3. PICK N, s, N1, s1 \in Nat : /\ N = Cardinality(NamesOf(j)) /\ s = Cardinality(SubDirs(j))
                                    /\ N1 = Cardinality(NamesOf(j))' /\ s1 = Cardinality(SubDirs(j))'
    BY LinkSets, LinkSetsNext DEF CountsNat
  <2>4. CASE j = i \/ (j = d /\ M)
    <3>1. x + N + s = c + N1 + s1
      <4>1. CASE j = i
        <5>1. N1 = N + 1 /\ s1 = s /\ c = 0 /\ x = 1
          BY <1>7, <1>13, <1>25, <1>28, <1>32, <1>33, <2>1, <2>3, <4>1
        <5> QED BY <5>1
      <4>2. CASE j = d /\ M
        <5>1. N1 = N /\ s1 = s + 1 /\ x = c + 1
          BY <1>7, <1>25, <1>29, <1>30, <1>34, <2>1, <2>3, <4>2
        <5> QED BY <5>1
      <4> QED BY <2>4, <4>1, <4>2
    <3>2. x + N + s + 0 + 0 = c + N1 + s1 + 0 + 0 BY <3>1
    <3>3. x + Cardinality(NamesOf(j)) + Cardinality(SubDirs(j)) + One(LinkTo(st[p]) = j) + One(UnlinkTo(st[p]) = j)
             = disk[j].nlink + Cardinality(NamesOf(j))' + Cardinality(SubDirs(j))'
               + One(LinkTo(r) = j) + One(UnlinkTo(r) = j)
      BY <2>1, <2>2, <2>3, <3>2
    <3> QED BY <1>40, <2>1, <3>3, LinksMove DEF Inv
  <2>5. CASE j # i /\ ~(j = d /\ M)
    <3>1. NamesOf(j)' = NamesOf(j) /\ SubDirs(j)' = SubDirs(j) BY <1>25, <1>28, <2>5
    <3>2. x = c BY <1>30, <1>33, <1>34, <2>1, <2>5
    <3>3. x + One(LinkTo(st[p]) = j) + One(UnlinkTo(st[p]) = j)
            = disk[j].nlink + One(LinkTo(r) = j) + One(UnlinkTo(r) = j)
      BY <2>1, <2>2, <3>2
    <3> QED BY <1>40, <2>1, <3>1, <3>3, LinksMoveSame DEF Inv
  <2> QED BY <2>4, <2>5
<1>48. NoLoops'
  <2>1. \A e \in Inums, a \in Names : entries'[e][a] \in {entries[e][a], None, i}
    <3> TAKE e \in Inums, a \in Names
    <3> QED BY <1>23, <1>24
  <2> QED BY <1>24, <2>1, LoopsKept DEF Inv
<1>49. BlocksOwned'
  <2>1. \A j \in Inums, a \in 0 .. MAXFILE : j # i => BlockAt(disk[j], a)' = BlockAt(disk[j], a)
    BY <1>21, <1>35 DEF BlockAt
  <2>2. \A a \in 0 .. MAXFILE : BlockAt(disk[i], a) = None
    <3>1. \A a \in 0 .. NDIRECT : disk[i].addrs[a] = None BY <1>13 DEF NoBlocks
    <3> QED BY <3>1, PlacesAre DEF BlockAt
  <2>3. \A a \in 0 .. MAXFILE : BlockAt(disk[i], a)' = IF M /\ a = 0 THEN b ELSE None
    <3>1. \A a \in 0 .. NDIRECT : disk'[i].addrs[a] = IF M /\ a = 0 THEN b ELSE None BY <1>32, <1>33
    <3> QED BY <3>1, PlacesAre DEF BlockAt
  <2>4. CASE M
    <3>1. PICK z \in 0 .. MAXFILE : z = 0 BY PlacesAre
    <3>2. PICK y \in Blocks \ bitmap : y = b BY <1>20, <2>4
    <3>3. bitmap' = bitmap \cup {y, y} BY <1>22, <2>4, <3>2
    <3>4. \A j \in Inums, a \in 0 .. MAXFILE :
             BlockAt(disk[j], a)' = IF j = i /\ a = z THEN y ELSE IF j = i /\ a = z THEN y
                                    ELSE BlockAt(disk[j], a)
      BY <2>1, <2>2, <2>3, <2>4, <3>1, <3>2
    <3> QED BY <2>2, <3>3, <3>4, BlocksAdded DEF Inv
  <2>5. CASE ~M
    <3>1. \A j \in Inums, a \in 0 .. MAXFILE : BlockAt(disk[j], a)' = BlockAt(disk[j], a)
      BY <2>1, <2>2, <2>3, <2>5
    <3>2. \A j \in Inums : Addrs(disk[j])' = Addrs(disk[j]) BY <3>1 DEF Addrs
    <3>3. bitmap' = bitmap BY <1>22, <2>5
    <3> QED BY <3>1, <3>2, <3>3 DEF Inv, BlocksOwned
  <2> QED BY <2>4, <2>5
<1> QED BY <1>40, <1>41, <1>42, <1>45, <1>46, <1>47, <1>48, <1>49 DEF Inv

\* create takes a free inode.
LEMMA CreateNew ==
  ASSUME Inv, NEW p \in Procs, Create(p), entries[st[p].cur][st[p].name] = None
  PROVE  Inv'
<1>1. st[p].at \in {"create", "mkdir"} BY DEF Create
<1>2. /\ st[p].at \notin Puts /\ st[p] \in Registers /\ RegsOK(st[p], cwd[p])
      /\ st[p].drop = <<>> /\ st[p].then = "user" /\ Point(st[p]) = st[p].at
      /\ First(st[p].drop) = None /\ Second(st[p].drop) = None
      /\ cwd[p] \in Inums /\ file[p] \in Inums \cup {None}
      /\ st[p].op = st[p].at /\ st[p].cur \in Inums /\ disk[st[p].cur].type = "dir"
      /\ st[p].ip = None /\ Making(st[p]) = None /\ UnlinkTo(st[p]) = None
      /\ (\A j \in Inums : ~Keeps(st[p], j)) /\ st[p].name \in Names \cup Dots
  BY <1>1, AtParent
<1>3. PICK d \in Inums : d = st[p].cur BY <1>2
<1>4. PICK i : i = Min({j \in Inums : disk[j].type = "free"}) OBVIOUS
<1>5. i \in Inums /\ disk[i].type = "free" /\ i # d
  <2>1. \E j \in Inums : disk[j].type = "free" BY <1>3 DEF Create
  <2>2. {j \in Inums : disk[j].type = "free"} \in SUBSET Nat BY Sorts
  <2>3. i \in {j \in Inums : disk[j].type = "free"} BY <1>4, <2>1, <2>2, LeastNumber
  <2> QED BY <1>2, <1>3, <2>3
<1>6. /\ Fresh(i) /\ disk[i].nlink = 0 /\ disk[i].addrs = NoBlocks
      /\ entries[i] = NoEntries /\ NamesOf(i) = {} /\ i \notin orphans /\ ~InUse(i)
  BY <1>5 DEF Inv, FreshInv, Fresh
<1>7. LinkTo(st[p]) = None BY <1>1, <1>2 DEF LinkTo
<1>8. PICK n \in Names : n = st[p].name /\ entries[d][n] = None
  <2>1. Needs(st[p], cwd[p], file[p], d) BY <1>3 DEF Needs
  <2>2. InUse(d) BY <2>1, RegsAre
  <2> QED BY <1>2, <1>3, <2>2, DotsThere, Sorts DEF Dots
<1>9. PICK v : v = [Blank EXCEPT !.type = IF st[p].op = "mkdir" THEN "dir" ELSE "file"] OBVIOUS
<1>10. /\ v \in InodeType /\ v.nlink = 0 /\ v.addrs = NoBlocks
       /\ v.type = IF st[p].op = "mkdir" THEN "dir" ELSE "file"
  BY <1>9, PlacesAre DEF Blank, NoBlocks, InodeType
<1>11. PICK r : r = [st[p] EXCEPT !.at = "fill", !.ip = i] OBVIOUS
<1>12. /\ Lockable(d) /\ disk' = [disk EXCEPT ![i] = v] /\ Get(i, Read(d))
       /\ lock' = [lock EXCEPT ![d] = p] /\ st' = [st EXCEPT ![p] = r]
       /\ UNCHANGED <<entries, indirect, bitmap, cwd, file, writable, orphans>>
  BY <1>3, <1>4, <1>9, <1>11 DEF Create, Go, blockVars, procVars
<1>13. /\ r \in Registers /\ r.at = "fill" /\ r.then = "user" /\ r.cur = d /\ r.ip = i
       /\ r.drop = <<>> /\ r.op = st[p].op /\ r.name = n
       /\ Len(r.drop) <= 2 /\ First(r.drop) = None /\ Second(r.drop) = None
  <2>1. "fill" \in Points BY DEF Points
  <2>2. r \in Registers BY <1>2, <1>5, <1>11, <2>1 DEF Registers
  <2>3. Len(<<>>) = 0 BY EmptySeq
  <2>4. /\ r.at = "fill" /\ r.then = "user" /\ r.cur = d /\ r.ip = i /\ r.drop = <<>>
        /\ r.op = st[p].op /\ r.name = n
    BY <1>2, <1>3, <1>8, <1>11 DEF Registers
  <2> QED BY <2>2, <2>3, <2>4 DEF First, Second
<1>14. Point(r) = "fill" BY <1>13 DEF Point, Puts
<1>15. LinkTo(r) = None /\ UnlinkTo(r) = None /\ Making(r) = i
  BY <1>1, <1>2, <1>13 DEF LinkTo, UnlinkTo, Making
<1>16. RegsOK(r, cwd[p])
  BY <1>1, <1>2, <1>5, <1>13, <1>14, Sorts DEF RegsOK, Puts, AtPath, OnPaths
<1>17. Locks(p, r)
  <2>1. \A j \in Inums : Keeps(r, j) <=> j = d BY <1>13, <1>14 DEF Keeps
  <2>2. lock \in [Inums -> Procs \cup {Nobody}] /\ \A j \in Inums : lock[j] # p
    BY <1>2, RegsAre DEF Inv, TypeOK
  <2>3. lock[d] = Nobody BY <1>12 DEF Lockable, Free
  <2> QED BY <1>12, <2>1, <2>2, <2>3, Sorts DEF Locks
<1>18. \A j \in Inums : Needs(r, cwd[p], file[p], j) => InUse(j)
  <2>1. \A j \in Inums : Needs(r, cwd[p], file[p], j) => Needs(st[p], cwd[p], file[p], j)
    BY <1>3, <1>13, Sorts DEF Needs
  <2> QED BY <2>1, RegsAre
<1>19. Caches(p) /\ \A j \in Inums : ref'[j] = ref[j] + One(j = i)
  <2>1. \A q \in Procs \ {p} : st[q].at = "free" => st[q].drop[1] # i BY <1>5, OnlyHolder
  <2> QED BY <1>5, <1>12, <2>1, CachesGot
<1>20. \A j \in Inums : ref'[j] + Refers(st[p], cwd[p], file[p], j) = ref[j] + Refers(r, cwd[p], file[p], j)
  <2>1. \A j \in Inums : Refers(r, cwd[p], file[p], j) = Refers(st[p], cwd[p], file[p], j) + One(j = i)
    BY <1>2, <1>3, <1>13, Sorts DEF Refers, One
  <2>2. \A j \in Inums : Refers(st[p], cwd[p], file[p], j) \in Nat /\ One(j = i) \in Nat /\ ref[j] \in Nat
    BY DEF Refers, One, Inv, TypeOK
  <2> QED BY <1>19, <2>1, <2>2
<1>21. /\ disk' \in [Inums -> InodeType] /\ disk'[i] = v /\ \A j \in Inums \ {i} : disk'[j] = disk[j]
  BY <1>5, <1>10, <1>12 DEF Inv, TypeOK
<1>22. /\ TypeOK' /\ RegsInv' /\ LockInv' /\ RefsCounted'
       /\ \A q \in Procs \ {p} : st'[q] = st[q] /\ cwd'[q] = cwd[q] /\ file'[q] = file[q]
       /\ st'[p] = r /\ cwd'[p] = cwd[p] /\ file'[p] = file[p]
  <2>1. /\ disk' \in [Inums -> InodeType] /\ mem' \in [Inums -> InodeType] /\ ref' \in [Inums -> Nat]
        /\ entries' \in [Inums -> [Names \cup Dots -> Inums \cup {None}]]
        /\ indirect' \in [Blocks -> [DOMAIN NoSlots -> Blocks \cup {None}]]
        /\ bitmap' \subseteq Blocks /\ orphans' \subseteq Inums
    BY <1>12, <1>19, <1>21 DEF Caches, Inv, TypeOK
  <2>2. st' = [st EXCEPT ![p] = r] /\ UNCHANGED <<cwd, file, writable>> BY <1>12
  <2>3. r \in Registers /\ Len(r.drop) <= 2 BY <1>13
  <2> QED BY <1>16, <1>17, <1>20, <2>1, <2>2, <2>3, LocalMove
<1>23. CacheInv' /\ FreeingInv'
  <2>1. \A j \in Inums : \/ mem'[j] \in {mem[j], Invalid} /\ (disk'[j] = disk[j] \/ disk[j].type = "free")
                         \/ mem'[j] = disk'[j] /\ disk'[j].type # "free"
    BY <1>5, <1>19, <1>21 DEF Caches
  <2>2. \A q \in Procs \ {p} : st[q].at = "free" =>
           ref'[st[q].drop[1]] = ref[st[q].drop[1]] /\ mem'[st[q].drop[1]] = mem[st[q].drop[1]]
    BY <1>19 DEF Caches
  <2> QED BY <1>1, <1>13, <1>22, <2>1, <2>2, CacheMove DEF Inv
<1>24. \A q \in Procs : st[q].cur # i /\ st[q].ip # i
  <2> TAKE q \in Procs
  <2>1. ~Needs(st[q], cwd[q], file[q], i) BY <1>5, <1>6, RegsAre
  <2>2. st[q].at = "fill" => disk[st[q].ip].type # "free"
    <3>1. Knows(st[q]) BY RegsAre
    <3> QED BY <3>1 DEF Knows
  <2> QED BY <1>5, <2>1, <2>2 DEF Needs
<1>25. KnowsInv'
  <2>1. Knows(r)'
    <3>1. disk'[d].type = "dir" /\ disk'[i].type = IF r.op = "mkdir" THEN "dir" ELSE "file"
      BY <1>2, <1>3, <1>5, <1>10, <1>13, <1>21
    <3>2. entries'[d][n] = None BY <1>8, <1>12
    <3> QED BY <1>13, <1>14, <1>15, <3>1, <3>2 DEF Knows
  <2>2. \A q \in Procs \ {p} :
           /\ st[q].cur \in Inums => disk'[st[q].cur].type = disk[st[q].cur].type
           /\ st[q].ip \in Inums => disk'[st[q].ip].type = disk[st[q].ip].type
           /\ st[q].at \in {"fill", "unlink2"} =>
                entries'[st[q].cur][st[q].name] = entries[st[q].cur][st[q].name]
    BY <1>12, <1>21, <1>24
  <2> QED BY <1>22, <2>1, <2>2, KnowsMove DEF Inv
<1>26. \A j \in Inums : NamesOf(j)' = NamesOf(j) BY <1>12 DEF NamesOf
<1>27. \A j \in Inums : SubDirs(j)' = SubDirs(j)
  <2>1. \A e : NamesOf(e)' = NamesOf(e) BY <1>12 DEF NamesOf
  <2> QED BY <1>12, <2>1 DEF SubDirs
<1>28. \A q \in Procs \ {p} : Making(st'[q]) = Making(st[q]) /\ Making(st[q]) # i
  BY <1>5, <1>22, <1>24, Sorts DEF Making
<1>29. \A j \in Inums : InTheMaking(j)' <=> InTheMaking(j) \/ j = i
  <2> TAKE j \in Inums
  <2>1. InTheMaking(j)' <=> \E q \in Procs : Making(st'[q]) = j BY CallingNext DEF CallsAre
  <2>2. InTheMaking(j) <=> \E q \in Procs : Making(st[q]) = j BY Calling DEF CallsAre
  <2>3. Making(st'[p]) = i BY <1>15, <1>22
  <2>4. Making(st[p]) # j BY <1>2, Sorts
  <2> QED BY <1>28, <2>1, <2>2, <2>3, <2>4
<1>30. \A j \in Inums : Fresh(j)' <=> Fresh(j)
  <2> TAKE j \in Inums
  <2>1. CASE j = i BY <1>6, <1>29, <2>1 DEF Fresh
  <2>2. CASE j # i BY <1>21, <1>29, <2>2 DEF Fresh
  <2> QED BY <2>1, <2>2
<1>31. FreshInv'
  <2>1. \A j \in Inums : InUse(j)' => InUse(j)
    <3> SUFFICES ASSUME NEW j \in Inums, NEW q \in Procs, Uses(q, j)' PROVE InUse(j)
      BY DEF InUse
    <3>1. Needs(st'[q], cwd'[q], file'[q], j) BY UsingNext DEF UsesAre
    <3>2. CASE q = p BY <1>18, <1>22, <3>1, <3>2
    <3>3. CASE q # p
      <4>1. Needs(st[q], cwd[q], file[q], j) BY <1>22, <3>1, <3>3
      <4> QED BY <4>1, RegsAre
    <3> QED BY <3>2, <3>3
  <2>2. (\A j \in Inums : Fresh(j) =>
       /\ disk[j].nlink = 0 /\ disk[j].addrs = NoBlocks
       /\ entries[j] = NoEntries /\ NamesOf(j) = {} /\ j \notin orphans
       /\ ~InUse(j))'
    <3> SUFFICES ASSUME NEW j \in Inums, Fresh(j)'
                 PROVE  /\ disk'[j].nlink = 0 /\ disk'[j].addrs = NoBlocks
                        /\ entries'[j] = NoEntries /\ NamesOf(j)' = {} /\ j \notin orphans'
                        /\ ~InUse(j)'
      OBVIOUS
    <3>1. Fresh(j) BY <1>30
    <3>2. disk'[j].nlink = disk[j].nlink /\ disk'[j].addrs = disk[j].addrs BY <1>6, <1>10, <1>21
    <3>3. entries' = entries /\ NamesOf(j)' = NamesOf(j) /\ orphans' = orphans BY <1>12, <1>26
    <3> QED BY <2>1, <3>1, <3>2, <3>3 DEF Inv, FreshInv
  <2>3. (\A q \in Procs : st[q].at = "invalidate" => Fresh(st[q].drop[1]))'
    <3> SUFFICES ASSUME NEW q \in Procs, st'[q].at = "invalidate", NEW j, j = st'[q].drop[1] PROVE Fresh(j)'
      OBVIOUS
    <3>1. q # p /\ st'[q] = st[q] BY <1>13, <1>22
    <3>2. st[q].drop \in Seq(Inums) /\ st[q].drop # <<>>
      BY <3>1, RegsAre DEF RegsOK, Puts
    <3>3. j \in Inums BY <3>1, <3>2
    <3>4. Fresh(j) BY <3>1 DEF Inv, FreshInv
    <3> QED BY <1>30, <3>3, <3>4
  <2>4. (\A q, s \in Procs : Making(st[q]) = Making(st[s]) /\ Making(st[q]) # None => q = s)'
    <3>1. \A q \in Procs : Making(st'[q]) = IF q = p THEN i ELSE Making(st[q]) BY <1>15, <1>22
    <3> QED BY <1>28, <3>1 DEF Inv, FreshInv
  <2>5. (\A j \in Inums : disk[j].type # "invalid")' BY <1>10, <1>21 DEF Inv, FreshInv
  <2> QED BY <2>2, <2>3, <2>4, <2>5 DEF FreshInv
<1>32. DirInv'
  <2>0. i # ROOTINO BY <1>5 DEF Inv, DirInv
  <2>1. \A j \in Inums : entries'[j] # NoEntries => disk'[j].type = "dir"
    <3> TAKE j \in Inums
    <3>1. CASE j = i BY <1>6, <1>12, <3>1
    <3>2. CASE j # i BY <1>12, <1>21, <3>2 DEF Inv, DirInv
    <3> QED BY <3>1, <3>2
  <2>2. disk'[ROOTINO].type = "dir" /\ NamesOf(ROOTINO)' = {} /\ entries'[ROOTINO][".."] = ROOTINO
    BY <1>12, <1>21, <1>26, <2>0, Sorts DEF Inv, DirInv
  <2>3. \A j \in Inums : disk'[j].type = "dir" /\ ~InTheMaking(j)' =>
                           entries'[j]["."] = j /\ entries'[j][".."] # None
    BY <1>12, <1>21, <1>29 DEF Inv, DirInv
  <2>4. \A j \in Inums : disk'[j].type = "dir" => \A a, c \in NamesOf(j)' : a = c /\ entries'[j][".."] = a[1]
    <3> TAKE j \in Inums
    <3>1. CASE j = i BY <1>6, <1>26, <3>1
    <3>2. CASE j # i BY <1>12, <1>21, <1>26, <3>2 DEF Inv, DirInv
    <3> QED BY <3>1, <3>2
  <2>5. \A j \in orphans' : disk'[j].type = "file"
    <3>1. \A j \in orphans : j \in Inums /\ disk[j].type = "file" BY DEF Inv, DirInv, TypeOK
    <3> QED BY <1>6, <1>12, <1>21, <3>1
  <2> QED BY <2>1, <2>2, <2>3, <2>4, <2>5 DEF DirInv
<1>33. LinksInv'
  <2> SUFFICES ASSUME NEW j \in Inums
               PROVE IF j \in orphans' THEN disk'[j].nlink > Count(j)' ELSE disk'[j].nlink = Count(j)'
    BY DEF LinksInv
  <2>1. PICK c \in Nat : c = disk[j].nlink BY DEF Inv, TypeOK, InodeType
  <2>2. disk'[j].nlink = c /\ (j \in orphans' <=> j \in orphans) BY <1>6, <1>10, <1>12, <1>21, <2>1
  <2>3. /\ One(UnlinkTo(st[p]) = j) = 0 /\ One(LinkTo(st[p]) = j) = 0 /\ One(LinkTo(r) = j) = 0
        /\ One(UnlinkTo(r) = j) = 0
    BY <1>2, <1>7, <1>15, Sorts DEF One
  <2>4. c + One(LinkTo(st[p]) = j) + One(UnlinkTo(st[p]) = j)
            = disk[j].nlink + One(LinkTo(r) = j) + One(UnlinkTo(r) = j)
    BY <2>1, <2>3
  <2>5. NamesOf(j)' = NamesOf(j) /\ SubDirs(j)' = SubDirs(j) BY <1>26, <1>27
  <2> QED BY <1>22, <2>2, <2>4, <2>5, LinksMoveSame DEF Inv
<1>34. NoLoops' BY <1>12, LoopsCut DEF Inv
<1>35. BlocksOwned'
  <2>1. \A j \in Inums : disk'[j].addrs = disk[j].addrs BY <1>6, <1>10, <1>21
  <2> QED BY <1>12, <2>1, BlocksKept DEF Inv
<1> QED BY <1>22, <1>23, <1>25, <1>31, <1>32, <1>33, <1>34, <1>35 DEF Inv

LEMMA CreateStep ==
  ASSUME Inv, Steady, NEW p \in Procs, Create(p)
  PROVE  Inv'
BY CreateFound, CreateNew

LEMMA LinkStep ==
  ASSUME Inv, NEW p \in Procs, Link(p)
  PROVE  Inv'
BY LinkOfFile, LinkOfDir

LEMMA RelinkStep ==
  ASSUME Inv, Steady, NEW p \in Procs, Relink(p)
  PROVE  Inv'
BY RelinkFound, RelinkNew

\* What a directory without links names is files, that are not links of anything else.
LEMMA LeftBehind ==
  ASSUME Inv, NEW i \in Inums, disk[i].nlink = 0, NEW n \in Names, NEW j, j = entries[i][n], j # None
  PROVE  j \in Inums /\ j # i /\ disk[j].type = "file" /\ ~Fresh(j) /\ <<i, n>> \in NamesOf(j)
<1>1. j \in Inums BY DEF Inv, TypeOK
<1>2. <<i, n>> \in NamesOf(j) BY DEF NamesOf
<1>3. ~Fresh(j) BY <1>1, <1>2, LinkedIsLive
<1>4. NamesOf(i) = {} /\ SubDirs(i) = {} BY NoLinks DEF Inv
<1>5. disk[j].type # "dir"
  <2> SUFFICES ASSUME disk[j].type = "dir" PROVE FALSE OBVIOUS
  <2>1. entries[j][".."] = <<i, n>>[1] BY <1>1, <1>2 DEF Inv, DirInv
  <2>2. j \in SubDirs(i) BY <1>1, <1>2, <2>1 DEF SubDirs
  <2> QED BY <1>4, <2>2
<1>6. disk[j].type \in {"free", "invalid", "dir", "file"} BY <1>1 DEF Inv, TypeOK, InodeType
<1>7. disk[j].type \notin {"invalid", "free"} BY <1>1, <1>3 DEF Inv, FreshInv, Fresh
<1> QED BY <1>1, <1>2, <1>3, <1>4, <1>5, <1>6, <1>7

\* An inode without links that nobody else refers to is freed.
LEMMA FreeItStep ==
  ASSUME Inv, NEW p \in Procs, FreeIt(p)
  PROVE  Inv'
<1>1. /\ st[p].at = "free" /\ st[p] \in Registers /\ RegsOK(st[p], cwd[p])
      /\ st[p].drop \in Seq(Inums) /\ st[p].drop # <<>> /\ Len(st[p].drop) <= 2
      /\ cwd[p] \in Inums \cup {None} /\ file[p] \in Inums \cup {None}
  BY RegsAre DEF FreeIt, At, RegsOK, Puts
<1>2. PICK i \in Inums : i = st[p].drop[1] /\ i = Head(st[p].drop) BY <1>1
<1>3. /\ lock[i] = p /\ ref[i] = 1 /\ mem[i] = disk[i] /\ disk[i].nlink = 0 /\ disk[i].type # "free"
      /\ \A q \in Procs, f \in Places : Held(q, f) = i => q = p /\ f = "put"
      /\ ~InUse(i) /\ ~InTheMaking(i)
  BY <1>1, <1>2, OnlyHolder
<1>4. /\ NamesOf(i) = {} /\ SubDirs(i) = {} /\ Linking(i) = {} /\ Unlinking(i) = {} /\ i \notin orphans
  BY <1>3, NoLinks DEF Inv
<1>5. i # ROOTINO BY <1>4, RootIsThere
<1>6. PICK O : O = {entries[i][n] : n \in Names} \ {None} OBVIOUS
<1>7. \A j \in O : /\ j \in Inums /\ j # i /\ disk[j].type = "file" /\ ~Fresh(j)
                   /\ \E n \in Names : <<i, n>> \in NamesOf(j)
  <2> TAKE j \in O
  <2>1. PICK n \in Names : j = entries[i][n] /\ j # None BY <1>6
  <2>2. j \in Inums /\ j # i /\ disk[j].type = "file" /\ ~Fresh(j) /\ <<i, n>> \in NamesOf(j)
    BY <1>3, <2>1, LeftBehind
  <2> QED BY ONLY <2>2
<1>8. PICK r : r = [st[p] EXCEPT !.at = "invalidate"] OBVIOUS
<1>9. /\ r \in Registers /\ r.at = "invalidate" /\ r.then = st[p].then /\ r.drop = st[p].drop
      /\ r.cur = st[p].cur /\ r.ip = st[p].ip /\ r.op = st[p].op
      /\ r.rest = st[p].rest /\ r.new = st[p].new /\ r.name = st[p].name
  BY <1>1, <1>8 DEF Registers, Points
<1>10. /\ disk' = [disk EXCEPT ![i] = Blank] /\ mem' = [mem EXCEPT ![i] = Blank]
       /\ entries' = [entries EXCEPT ![i] = NoEntries] /\ orphans' = orphans \cup O
       /\ bitmap' = bitmap \ Addrs(disk[i]) /\ st' = [st EXCEPT ![p] = r]
       /\ UNCHANGED <<ref, lock, indirect, cwd, file, writable>>
  <2>1. Update([j \in {i} |-> Blank]) BY <1>2 DEF FreeIt
  <2>2. disk' = [disk EXCEPT ![i] = Blank] /\ mem' = [mem EXCEPT ![i] = Blank]
    BY <2>1, UpdateOne DEF Inv
  <2>3. st' = [st EXCEPT ![p] = r] BY <1>8 DEF FreeIt, Inv, TypeOK
  <2>4. /\ bitmap' = bitmap \ Addrs(mem[i]) /\ entries' = [entries EXCEPT ![i] = NoEntries]
        /\ orphans' = orphans \cup ({entries[i][n] : n \in Names} \ {None})
        /\ UNCHANGED <<ref, lock, indirect, cwd, file, writable>>
    BY <1>2 DEF FreeIt, procVars
  <2> QED BY <1>3, <1>6, <2>2, <2>3, <2>4
<1>11. Point(r) = Point(st[p]) BY <1>1, <1>9 DEF Point, Puts
<1>12. Making(r) = Making(st[p]) /\ LinkTo(r) = LinkTo(st[p]) /\ UnlinkTo(r) = UnlinkTo(st[p])
  BY <1>1, <1>9 DEF Making, LinkTo, UnlinkTo
<1>13. RegsOK(r, cwd[p]) BY <1>1, <1>9, <1>11 DEF RegsOK, Puts
<1>14. Locks(p, r)
  <2>1. \A j \in Inums : Keeps(r, j) <=> Keeps(st[p], j) BY <1>1, <1>9, <1>11 DEF Keeps
  <2> QED BY <1>10, <2>1, RegsAre DEF Locks, Inv, TypeOK
<1>15. \A j \in Inums : Needs(r, cwd[p], file[p], j) <=> Needs(st[p], cwd[p], file[p], j)
  BY <1>1, <1>9 DEF Needs
<1>16. \A j \in Inums : ref'[j] + Refers(st[p], cwd[p], file[p], j) = ref[j] + Refers(r, cwd[p], file[p], j)
  <2>1. \A j \in Inums : Refers(st[p], cwd[p], file[p], j) = Refers(r, cwd[p], file[p], j)
    BY <1>9 DEF Refers
  <2> QED BY <1>10, <2>1
<1>17. Blank \in InodeType /\ Blank.nlink = 0 /\ Blank.addrs = NoBlocks /\ Blank.type = "free"
  BY PlacesAre DEF Blank, NoBlocks, InodeType
<1>18. /\ disk' \in [Inums -> InodeType] /\ mem' \in [Inums -> InodeType]
       /\ disk'[i] = Blank /\ mem'[i] = Blank
       /\ \A j \in Inums \ {i} : disk'[j] = disk[j] /\ mem'[j] = mem[j]
  BY <1>10, <1>17 DEF Inv, TypeOK
<1>19. /\ entries' \in [Inums -> [Names \cup Dots -> Inums \cup {None}]]
       /\ entries'[i] = NoEntries /\ \A e \in Inums \ {i} : entries'[e] = entries[e]
       /\ \A n \in Names \cup Dots : entries'[i][n] = None
  BY <1>10 DEF Inv, TypeOK, NoEntries
<1>20. /\ TypeOK' /\ RegsInv' /\ LockInv' /\ RefsCounted'
       /\ \A q \in Procs \ {p} : st'[q] = st[q] /\ cwd'[q] = cwd[q] /\ file'[q] = file[q]
       /\ st'[p] = r /\ cwd'[p] = cwd[p] /\ file'[p] = file[p]
  <2>1. /\ ref' \in [Inums -> Nat]
        /\ indirect' \in [Blocks -> [DOMAIN NoSlots -> Blocks \cup {None}]]
        /\ bitmap' \subseteq Blocks /\ orphans' \subseteq Inums
    BY <1>7, <1>10 DEF Inv, TypeOK
  <2>2. st' = [st EXCEPT ![p] = r] /\ UNCHANGED <<cwd, file, writable>> BY <1>10
  <2>3. r \in Registers /\ Len(r.drop) <= 2 BY <1>1, <1>9
  <2> QED BY <1>13, <1>14, <1>16, <1>18, <1>19, <2>1, <2>2, <2>3, LocalMove
<1>21. CacheInv' /\ FreeingInv'
  <2>1. \A j \in Inums : \/ mem'[j] \in {mem[j], Invalid} /\ (disk'[j] = disk[j] \/ disk[j].type = "free")
                         \/ mem'[j] = disk'[j] /\ disk'[j].type # "free"
                         \/ r.at = "invalidate" /\ r.drop[1] = j
    BY <1>2, <1>9, <1>18
  <2>2. \A q \in Procs \ {p} : st[q].at = "free" =>
           ref'[st[q].drop[1]] = ref[st[q].drop[1]] /\ mem'[st[q].drop[1]] = mem[st[q].drop[1]]
    <3>1. \A q \in Procs \ {p} : st[q].at = "free" => st[q].drop[1] \in Inums \ {i}
      BY <1>3, OnlyHolder
    <3> QED BY <1>10, <1>18, <3>1
  <2> QED BY <1>1, <1>9, <1>20, <2>1, <2>2, CacheMove DEF Inv
<1>22. \A q \in Procs : st[q].cur # i /\ st[q].ip # i
  <2> TAKE q \in Procs
  <2>1. Held(q, "cur") # i /\ Held(q, "ip") # i BY <1>3 DEF Places
  <2> QED BY <2>1 DEF Held
<1>23. KnowsInv'
  <2>1. Knows(r)'
    <3>1. Knows(st[p]) BY RegsAre
    <3>2. Point(st[p]) \in {"create", "mkdir", "unlink", "relink", "unlinkbad", "linked"}
             => st[p].cur \in Inums \ {i}
      BY <1>1, <1>22 DEF RegsOK, Registers, AtPath, OnPaths
    <3>3. LinkTo(st[p]) # None => st[p].ip \in Inums \ {i} BY <1>1, <1>22 DEF LinkTo, Registers
    <3>4. Point(r) \notin {"fill", "unlink2"} BY <1>9, <1>13 DEF RegsOK, Puts, AtPath, OnPaths
    <3> QED BY <1>9, <1>11, <1>12, <1>18, <3>1, <3>2, <3>3, <3>4 DEF Knows
  <2>2. \A q \in Procs \ {p} : st[q].at \in {"fill", "unlink2"} =>
            entries'[st[q].cur][st[q].name] = entries[st[q].cur][st[q].name]
    <3>1. \A e \in Inums : lock[e] \in Procs \ {p} => entries'[e] = entries[e] BY <1>3, <1>19
    <3> QED BY <3>1, OthersElsewhere
  <2> QED BY <1>18, <1>20, <1>22, <2>1, <2>2, KnowsMove DEF Inv
<1>24. \A j \in Inums : NamesOf(j)' = NamesOf(j) \ {<<i, n>> : n \in Names}
  <2>1. \A e \in Inums, n \in Names : entries'[e][n] = IF e = i THEN None ELSE entries[e][n] BY <1>19
  <2> TAKE j \in Inums
  <2>2. PICK N1, N \in SUBSET (Inums \X Names) : N1 = NamesOf(j)' /\ N = NamesOf(j) BY DEF NamesOf
  <2>3. \A s \in Inums \X Names : s \in N1 <=> s \in N /\ s[1] # i
    BY <2>1, <2>2, Sorts DEF NamesOf
  <2>4. N1 = N \ {<<i, n>> : n \in Names} BY <2>3
  <2> QED BY <2>2, <2>4
<1>25. \A j \in Inums \ O : NamesOf(j)' = NamesOf(j)
  <2> TAKE j \in Inums \ O
  <2>1. \A n \in Names : <<i, n>> \notin NamesOf(j)
    <3> SUFFICES ASSUME NEW n \in Names, <<i, n>> \in NamesOf(j) PROVE FALSE OBVIOUS
    <3>1. entries[i][n] = j BY DEF NamesOf
    <3> QED BY <1>6, <3>1, Sorts
  <2> QED BY <1>24, <2>1
<1>26. \A j \in O : Cardinality(NamesOf(j))' < Cardinality(NamesOf(j))
  <2> TAKE j \in O
  <2>1. PICK n \in Names : <<i, n>> \in NamesOf(j) BY <1>7
  <2>2. PICK N1, N : N1 = NamesOf(j)' /\ N = NamesOf(j) OBVIOUS
  <2>3. N1 = N \ {<<i, m>> : m \in Names} BY <1>7, <1>24, <2>2
  <2>4. IsFiniteSet(N) BY <2>2, LinkSets
  <2>5. N1 \subseteq N /\ N1 # N BY <2>1, <2>2, <2>3
  <2>6. Cardinality(N1) <= Cardinality(N) /\ Cardinality(N1) # Cardinality(N) /\ IsFiniteSet(N1)
    BY <2>4, <2>5, FS_Subset
  <2>7. Cardinality(N1) \in Nat /\ Cardinality(N) \in Nat BY <2>4, <2>6, FS_CardinalityType
  <2> QED BY <2>2, <2>6, <2>7
<1>27. \A j \in Inums : SubDirs(j)' = SubDirs(j)
  <2> TAKE j \in Inums
  <2>1. PICK S, S1 \in SUBSET Inums : S = SubDirs(j) /\ S1 = SubDirs(j)' BY DEF SubDirs
  <2>2. \A e \in Inums : e \in S1 <=> e \in S
    <3> TAKE e \in Inums
    <3>1. CASE e = i
      <4>1. i \notin S BY <1>4, <1>5, <2>1 DEF SubDirs
      <4>2. i \notin S1 BY <1>19, <2>1, Sorts DEF SubDirs, Dots
      <4> QED BY <3>1, <4>1, <4>2
    <3>2. CASE e \in O
      <4>1. entries[e] = NoEntries BY <1>7, <3>2 DEF Inv, DirInv
      <4>2. entries'[e] = NoEntries BY <1>7, <1>19, <3>2, <4>1
      <4>3. NoEntries[".."] = None BY DEF NoEntries, Dots
      <4> QED BY <2>1, <4>1, <4>2, <4>3, Sorts DEF SubDirs
    <3>3. CASE e # i /\ e \notin O
      <4>1. entries'[e] = entries[e] /\ NamesOf(e)' = NamesOf(e) BY <1>19, <1>25, <3>3
      <4> QED BY <2>1, <4>1 DEF SubDirs
    <3> QED BY <3>1, <3>2, <3>3
  <2>3. S1 = S BY <2>2
  <2> QED BY <2>1, <2>3
<1>28. \A j \in Inums : InTheMaking(j)' <=> InTheMaking(j)
  <2> TAKE j \in Inums
  <2>1. InTheMaking(j)' <=> \E q \in Procs : Making(st'[q]) = j BY CallingNext DEF CallsAre
  <2>2. InTheMaking(j) <=> \E q \in Procs : Making(st[q]) = j BY Calling DEF CallsAre
  <2>3. \A q \in Procs : Making(st'[q]) = Making(st[q]) BY <1>12, <1>20
  <2> QED BY <2>1, <2>2, <2>3
<1>29. \A j \in Inums : Fresh(j)' <=> Fresh(j) \/ j = i
  <2> TAKE j \in Inums
  <2>1. CASE j = i BY <1>17, <1>18, <2>1 DEF Fresh
  <2>2. CASE j # i BY <1>18, <1>28, <2>2 DEF Fresh
  <2> QED BY <2>1, <2>2
<1>30. FreshInv'
  <2>1. \A j \in Inums : InUse(j)' => InUse(j)
    <3> SUFFICES ASSUME NEW j \in Inums, NEW q \in Procs, Uses(q, j)' PROVE InUse(j)
      BY DEF InUse
    <3>1. Needs(st'[q], cwd'[q], file'[q], j) BY UsingNext DEF UsesAre
    <3>2. Needs(st[q], cwd[q], file[q], j) BY <1>15, <1>20, <3>1
    <3> QED BY <3>2, RegsAre
  <2>2. (\A j \in Inums : Fresh(j) =>
       /\ disk[j].nlink = 0 /\ disk[j].addrs = NoBlocks
       /\ entries[j] = NoEntries /\ NamesOf(j) = {} /\ j \notin orphans
       /\ ~InUse(j))'
    <3> SUFFICES ASSUME NEW j \in Inums, Fresh(j)'
                 PROVE  /\ disk'[j].nlink = 0 /\ disk'[j].addrs = NoBlocks
                        /\ entries'[j] = NoEntries /\ NamesOf(j)' = {} /\ j \notin orphans'
                        /\ ~InUse(j)'
      OBVIOUS
    <3>1. CASE j = i
      <4>1. i \notin O BY <1>7
      <4>2. NamesOf(i)' = {} BY <1>4, <1>25, <4>1
      <4> QED BY <1>3, <1>4, <1>10, <1>17, <1>18, <1>19, <2>1, <3>1, <4>1, <4>2
    <3>2. CASE j # i
      <4>1. Fresh(j) /\ j \notin O BY <1>7, <1>29, <3>2
      <4>2. disk'[j] = disk[j] /\ entries'[j] = entries[j] /\ NamesOf(j)' = NamesOf(j)
        BY <1>18, <1>19, <1>25, <3>2, <4>1
      <4> QED BY <1>10, <2>1, <4>1, <4>2 DEF Inv, FreshInv
    <3> QED BY <3>1, <3>2
  <2>3. (\A q \in Procs : st[q].at = "invalidate" => Fresh(st[q].drop[1]))'
    <3> SUFFICES ASSUME NEW q \in Procs, st'[q].at = "invalidate", NEW j, j = st'[q].drop[1] PROVE Fresh(j)'
      OBVIOUS
    <3>1. CASE q = p
      <4>1. j = i BY <1>2, <1>9, <1>20, <3>1
      <4> QED BY <1>29, <4>1
    <3>2. CASE q # p
      <4>1. st'[q] = st[q] BY <1>20, <3>2
      <4>2. st[q].drop \in Seq(Inums) /\ st[q].drop # <<>>
        BY <4>1, RegsAre DEF RegsOK, Puts
      <4>3. j \in Inums BY <4>1, <4>2
      <4>4. Fresh(j) BY <4>1 DEF Inv, FreshInv
      <4> QED BY <1>29, <4>3, <4>4
    <3> QED BY <3>1, <3>2
  <2>4. (\A q, s \in Procs : Making(st[q]) = Making(st[s]) /\ Making(st[q]) # None => q = s)'
    <3>1. \A q \in Procs : Making(st'[q]) = Making(st[q]) BY <1>12, <1>20
    <3> QED BY <3>1 DEF Inv, FreshInv
  <2>5. (\A j \in Inums : disk[j].type # "invalid")' BY <1>17, <1>18 DEF Inv, FreshInv
  <2> QED BY <2>2, <2>3, <2>4, <2>5 DEF FreshInv
<1>31. DirInv'
  <2>1. \A j \in Inums : entries'[j] # NoEntries => disk'[j].type = "dir"
    BY <1>18, <1>19 DEF Inv, DirInv
  <2>2. disk'[ROOTINO].type = "dir" /\ NamesOf(ROOTINO)' = {} /\ entries'[ROOTINO][".."] = ROOTINO
    BY <1>5, <1>18, <1>19, <1>24, Sorts DEF Inv, DirInv
  <2>3. \A j \in Inums : disk'[j].type = "dir" /\ ~InTheMaking(j)' =>
                           entries'[j]["."] = j /\ entries'[j][".."] # None
    BY <1>17, <1>18, <1>19, <1>28 DEF Inv, DirInv
  <2>4. \A j \in Inums : disk'[j].type = "dir" => \A a, c \in NamesOf(j)' : a = c /\ entries'[j][".."] = a[1]
    <3> TAKE j \in Inums
    <3>1. CASE j = i BY <1>17, <1>18, <3>1
    <3>2. CASE j # i BY <1>18, <1>19, <1>24, <3>2 DEF Inv, DirInv
    <3> QED BY <3>1, <3>2
  <2>5. \A j \in orphans' : disk'[j].type = "file"
    <3>1. \A j \in orphans : j \in Inums /\ disk[j].type = "file" BY DEF Inv, DirInv, TypeOK
    <3> QED BY <1>4, <1>7, <1>10, <1>18, <3>1
  <2> QED BY <2>1, <2>2, <2>3, <2>4, <2>5 DEF DirInv
<1>32. LinksInv'
  <2> SUFFICES ASSUME NEW j \in Inums
               PROVE IF j \in orphans' THEN disk'[j].nlink > Count(j)' ELSE disk'[j].nlink = Count(j)'
    BY DEF LinksInv
  <2>1. PICK c \in Nat : c = disk[j].nlink BY DEF Inv, TypeOK, InodeType
  <2>2. disk'[j].nlink = c BY <1>3, <1>17, <1>18, <2>1
  <2>3. CASE j \notin O
    <3>1. j \in orphans' <=> j \in orphans BY <1>10, <2>3
    <3>2. c + One(LinkTo(st[p]) = j) + One(UnlinkTo(st[p]) = j)
            = disk[j].nlink + One(LinkTo(r) = j) + One(UnlinkTo(r) = j)
      BY <1>12, <2>1
    <3>3. NamesOf(j)' = NamesOf(j) /\ SubDirs(j)' = SubDirs(j) BY <1>25, <1>27, <2>3
    <3> QED BY <1>20, <2>2, <3>1, <3>2, <3>3, LinksMoveSame DEF Inv
  <2>4. CASE j \in O
    <3>1. j \in orphans' BY <1>10, <2>4
    <3>2. Linking(j)' = Linking(j) /\ Unlinking(j)' = Unlinking(j)
      <4>1. \A q \in Procs : LinkTo(st'[q]) = LinkTo(st[q]) /\ UnlinkTo(st'[q]) = UnlinkTo(st[q])
        BY <1>12, <1>20
      <4>2. /\ Linking(j)' = {q \in Procs : LinkTo(st'[q]) = j}
            /\ Unlinking(j)' = {q \in Procs : UnlinkTo(st'[q]) = j}
        BY CallingNext DEF CallsAre
      <4>3. /\ Linking(j) = {q \in Procs : LinkTo(st[q]) = j}
            /\ Unlinking(j) = {q \in Procs : UnlinkTo(st[q]) = j}
        BY Calling DEF CallsAre
      <4>4. /\ {q \in Procs : LinkTo(st'[q]) = j} = {q \in Procs : LinkTo(st[q]) = j}
            /\ {q \in Procs : UnlinkTo(st'[q]) = j} = {q \in Procs : UnlinkTo(st[q]) = j}
        BY <4>1
      <4> QED BY <4>2, <4>3, <4>4
    <3>3. PICK N, s, k, l, N1 \in Nat :
             /\ N = Cardinality(NamesOf(j)) /\ s = Cardinality(SubDirs(j))
             /\ k = Cardinality(Linking(j)) /\ l = Cardinality(Unlinking(j))
             /\ N1 = Cardinality(NamesOf(j))'
      BY LinkSets, LinkSetsNext DEF CountsNat
    <3>4. N1 < N BY <1>26, <2>4, <3>3
    <3>5. Count(j) = N + s + k + l BY <3>3 DEF Count
    <3>6. Count(j)' = N1 + s + k + l BY <1>27, <3>2, <3>3 DEF Count
    <3>7. c >= N + s + k + l BY <2>1, <3>5, NoLinks DEF Inv
    <3>8. c > N1 + s + k + l BY <3>4, <3>7
    <3> QED BY <2>2, <3>1, <3>6, <3>8
  <2> QED BY <2>3, <2>4
<1>33. NoLoops'
  <2>1. \A d \in Inums, n \in Names : entries'[d][n] \in {entries[d][n], None} BY <1>19
  <2> QED BY <2>1, LoopsCut DEF Inv
<1>34. BlocksOwned'
  <2>1. \A k \in 0 .. MAXFILE : BlockAt(disk[i], k)' = None
    <3>1. disk'[i].addrs = NoBlocks BY <1>17, <1>18
    <3>2. \A a \in 0 .. NDIRECT : disk'[i].addrs[a] = None BY ONLY <3>1 DEF NoBlocks
    <3> QED BY <3>2, PlacesAre DEF BlockAt
  <2>2. \A j \in Inums, k \in 0 .. MAXFILE :
            BlockAt(disk[j], k)' = IF j = i THEN None ELSE BlockAt(disk[j], k)
    <3> TAKE j \in Inums, k \in 0 .. MAXFILE
    <3>1. CASE j = i BY <2>1, <3>1
    <3>2. CASE j # i
      <4>1. disk'[j] = disk[j] /\ indirect' = indirect BY <1>10, <1>18, <3>2
      <4> QED BY <3>2, <4>1 DEF BlockAt
    <3> QED BY <3>1, <3>2
  <2> QED BY <1>10, <2>2, BlocksFreed DEF Inv
<1> QED BY <1>20, <1>21, <1>23, <1>30, <1>31, <1>32, <1>33, <1>34 DEF Inv

\* The first place of an inode without a block.
LEMMA SizeIs ==
  ASSUME NEW d, Size(d) < MAXFILE
  PROVE  Size(d) \in 0 .. MAXFILE /\ BlockAt(d, Size(d)) = None
<1>1. PICK S : S = {k \in 0 .. MAXFILE : k = MAXFILE \/ BlockAt(d, k) = None} OBVIOUS
<1>2. S \in SUBSET Nat /\ MAXFILE \in S BY <1>1, PlacesAre
<1>3. Min(S) \in S BY <1>2, LeastNumber
<1>4. Size(d) = Min(S) BY <1>1 DEF Size
<1>5. PICK k : k = Size(d) OBVIOUS
<1>6. k \in S /\ k < MAXFILE BY <1>3, <1>4, <1>5
<1>7. k \in 0 .. MAXFILE /\ (k = MAXFILE \/ BlockAt(d, k) = None) BY <1>1, <1>6
<1>8. k # MAXFILE BY <1>6, <1>7, PlacesAre
<1> QED BY <1>5, <1>7, <1>8

\* The places of an inode: direct, indirect, and that of the indirect block.
LEMMA PlacesOf ==
  ASSUME NEW d, NEW k \in 0 .. MAXFILE
  PROVE  /\ k < NDIRECT => BlockAt(d, k) = d.addrs[k]
         /\ k = MAXFILE => BlockAt(d, k) = d.addrs[NDIRECT]
         /\ k >= NDIRECT /\ k # MAXFILE =>
              /\ k \in DOMAIN NoSlots
              /\ BlockAt(d, k) = IF d.addrs[NDIRECT] = None THEN None
                                 ELSE indirect[d.addrs[NDIRECT]][k]
<1>1. k < NDIRECT => k # MAXFILE BY PlacesAre
<1>2. k >= NDIRECT => ~(k < NDIRECT) BY PlacesAre
<1>3. k >= NDIRECT /\ k # MAXFILE => k \in DOMAIN NoSlots
  BY PlacesAre DEF NoSlots
<1> QED BY <1>1, <1>2, <1>3, PlacesAre DEF BlockAt

PlacesSame == \A j \in Inums, k \in 0 .. MAXFILE :
  /\ k < NDIRECT => BlockAt(disk[j], k) = disk[j].addrs[k]
  /\ k = MAXFILE => BlockAt(disk[j], k) = disk[j].addrs[NDIRECT]
  /\ k >= NDIRECT /\ k # MAXFILE =>
       BlockAt(disk[j], k) = IF disk[j].addrs[NDIRECT] = None THEN None
                             ELSE indirect[disk[j].addrs[NDIRECT]][k]

LEMMA PlacesNow == PlacesSame
BY PlacesOf DEF PlacesSame

LEMMA PlacesNext == PlacesSame'
BY PlacesNow, PTL

\* A place is one of the three kinds.
LEMMA KindsOfPlaces ==
  ASSUME NEW k \in 0 .. MAXFILE
  PROVE  k < NDIRECT \/ k = MAXFILE \/ (k >= NDIRECT /\ k # MAXFILE)
BY PlacesAre

\* The indirect block of an inode is in use and that of no other one.
LEMMA IndirectIs ==
  ASSUME BlocksOwned, TypeOK, NEW j \in Inums, NEW a, a = disk[j].addrs[NDIRECT], a # None
  PROVE  a \in Blocks /\ a \in bitmap /\ \A l \in Inums : disk[l].addrs[NDIRECT] = a => l = j
<1>1. PICK k \in 0 .. MAXFILE : k = MAXFILE BY PlacesAre
<1>2. \A l \in Inums : BlockAt(disk[l], k) = disk[l].addrs[NDIRECT]
  BY <1>1, PlacesNow DEF PlacesSame
<1>3. a \in Addrs(disk[j]) BY <1>2 DEF Addrs
<1>4. a \in bitmap BY <1>3 DEF BlocksOwned
<1>5. bitmap \subseteq Blocks BY DEF TypeOK
<1>6. ASSUME NEW l \in Inums, disk[l].addrs[NDIRECT] = a PROVE l = j
  BY <1>2, <1>6 DEF BlocksOwned
<1> QED BY <1>4, <1>5, <1>6

\* Two blocks are free.
LEMMA TwoBlocks ==
  ASSUME Inv, Cardinality(Blocks \ bitmap) >= 2, NEW b, b = NewBlock,
         NEW c, c = Min(Blocks \ (bitmap \cup {b}))
  PROVE  b \in Blocks \ bitmap /\ c \in Blocks \ bitmap /\ b # c
<1>0. IsFiniteSet(Blocks) BY InodesAssumption, FS_Interval DEF Blocks
<1>1. IsFiniteSet(Blocks \ bitmap) BY <1>0, FS_Subset
<1>2. PICK n \in Nat : n = Cardinality(Blocks \ bitmap) BY <1>1, FS_CardinalityType
<1>3. n >= 2 BY <1>2
<1>4. Cardinality({}) = 0 BY FS_EmptySet
<1>5. Cardinality({b}) = 1 BY FS_Singleton
<1>6. Blocks \ bitmap # {} BY <1>2, <1>3, <1>4
<1>7. Blocks \ bitmap # {b} BY <1>2, <1>3, <1>5
<1>8. b \in Blocks \ bitmap BY <1>6, NewBlockIs DEF Inv, TypeOK
<1>9. Blocks \ (bitmap \cup {b}) # {} BY <1>7, <1>8
<1>10. Blocks \ (bitmap \cup {b}) \in SUBSET Nat BY Sorts
<1>11. c \in Blocks \ (bitmap \cup {b}) BY <1>9, <1>10, LeastNumber
<1> QED BY <1>8, <1>11

\* An inode with a block at a place of its own.
WithBlock(d, a, b) == [d EXCEPT !.addrs[a] = b]

LEMMA WithBlockIs ==
  ASSUME NEW d \in InodeType, NEW a \in 0 .. NDIRECT, NEW b \in Blocks, NEW v, v = WithBlock(d, a, b)
  PROVE  /\ v \in InodeType /\ v.type = d.type /\ v.nlink = d.nlink
         /\ \A e \in 0 .. NDIRECT : v.addrs[e] = IF e = a THEN b ELSE d.addrs[e]
BY DEF InodeType, WithBlock

\* The indirect blocks with a new one that holds one block.
WithSlot(a, n, b) == [indirect EXCEPT ![a] = [NoSlots EXCEPT ![n] = b]]

\* Blocks at a place before and after a step.
LEMMA PlaceMoves ==
  ASSUME NEW j \in Inums, NEW k \in 0 .. MAXFILE, NEW x, NEW y, NEW e, NEW f,
         x = BlockAt(disk[j], k), y = BlockAt(disk[j], k)',
         e = disk[j].addrs[NDIRECT], f = disk'[j].addrs[NDIRECT]
  PROVE  /\ k < NDIRECT => x = disk[j].addrs[k] /\ y = disk'[j].addrs[k]
         /\ k = MAXFILE => x = e /\ y = f
         /\ k >= NDIRECT /\ k # MAXFILE =>
              /\ x = IF e = None THEN None ELSE indirect[e][k]
              /\ y = IF f = None THEN None ELSE indirect'[f][k]
<1>1. /\ k < NDIRECT => x = disk[j].addrs[k]
      /\ k = MAXFILE => x = e
      /\ k >= NDIRECT /\ k # MAXFILE => x = IF e = None THEN None ELSE indirect[e][k]
  BY PlacesNow DEF PlacesSame
<1>2. /\ k < NDIRECT => y = disk'[j].addrs[k]
      /\ k = MAXFILE => y = f
      /\ k >= NDIRECT /\ k # MAXFILE => y = IF f = None THEN None ELSE indirect'[f][k]
  BY PlacesNext DEF PlacesSame
<1> QED BY <1>1, <1>2

\* What a write does to the blocks.
Grows(i, v) ==
  /\ v \in InodeType /\ v.type = disk[i].type /\ v.nlink = disk[i].nlink
  /\ disk' = [disk EXCEPT ![i] = v] /\ mem' = [mem EXCEPT ![i] = v]
  /\ indirect' \in [Blocks -> [DOMAIN NoSlots -> Blocks \cup {None}]] /\ bitmap' \subseteq Blocks
  /\ BlocksOwned'

LEMMA GrowsDirect ==
  ASSUME Inv, NEW i \in Inums, NEW d, d = disk[i], NEW n \in 0 .. MAXFILE, BlockAt(d, n) = None,
         n < NDIRECT, bitmap # Blocks, NEW b, b = NewBlock, NEW v, v = WithBlock(d, n, b),
         Update([j \in {i} |-> v]), bitmap' = bitmap \cup {b}, UNCHANGED indirect
  PROVE  Grows(i, v)
<1>1. b \in Blocks \ bitmap BY NewBlockIs
<1>2. d \in InodeType /\ bitmap \subseteq Blocks BY DEF Inv, TypeOK
<1>3. n \in 0 .. NDIRECT BY PlacesAre
<1>4. /\ v \in InodeType /\ v.type = d.type /\ v.nlink = d.nlink
      /\ \A a \in 0 .. NDIRECT : v.addrs[a] = IF a = n THEN b ELSE d.addrs[a]
  <2>1. v = WithBlock(d, n, b) /\ d \in InodeType /\ n \in 0 .. NDIRECT /\ b \in Blocks
    BY <1>1, <1>2, <1>3
  <2> QED BY ONLY <2>1, WithBlockIs
<1>5. disk' = [disk EXCEPT ![i] = v] /\ mem' = [mem EXCEPT ![i] = v]
  <2>1. TypeOK /\ i \in Inums /\ Update([j \in {i} |-> v]) BY DEF Inv
  <2> QED BY ONLY <2>1, UpdateOne
<1>6. disk'[i] = v /\ \A j \in Inums \ {i} : disk'[j] = disk[j] BY <1>5 DEF Inv, TypeOK
<1>7. \A j \in Inums, k \in 0 .. MAXFILE :
            BlockAt(disk[j], k)' = IF j = i /\ k = n THEN b ELSE IF j = i /\ k = n THEN b
                                   ELSE BlockAt(disk[j], k)
  <2> TAKE j \in Inums, k \in 0 .. MAXFILE
  <2>0. PICK x, y, e, f :
           /\ x = BlockAt(disk[j], k) /\ y = BlockAt(disk[j], k)'
           /\ e = disk[j].addrs[NDIRECT] /\ f = disk'[j].addrs[NDIRECT]
    OBVIOUS
  <2>01. /\ k < NDIRECT => x = disk[j].addrs[k] /\ y = disk'[j].addrs[k]
         /\ k = MAXFILE => x = e /\ y = f
         /\ k >= NDIRECT /\ k # MAXFILE =>
              /\ x = IF e = None THEN None ELSE indirect[e][k]
              /\ y = IF f = None THEN None ELSE indirect'[f][k]
    BY <2>0, PlaceMoves
  <2>1. CASE j # i
    <3>1. disk'[j] = disk[j] /\ f = e BY <1>6, <2>0, <2>1
    <3>2. x = y BY <2>01, <3>1, KindsOfPlaces
    <3> QED BY <2>0, <2>1, <3>2
  <2>2. CASE j = i
    <3>1. disk[j] = d /\ disk'[j] = v BY <1>6, <2>2
    <3>2. f = e BY <1>4, <2>0, <3>1, PlacesAre
    <3>3. CASE k < NDIRECT
      <4>1. v.addrs[k] = IF k = n THEN b ELSE d.addrs[k] BY <1>4, <3>3, PlacesAre
      <4> QED BY <2>0, <2>01, <2>2, <3>1, <3>3, <4>1
    <3>4. CASE k = MAXFILE \/ (k >= NDIRECT /\ k # MAXFILE)
      <4>1. k # n BY <3>4, PlacesAre
      <4>2. x = y BY <2>01, <3>2, <3>4
      <4> QED BY <2>0, <2>2, <4>1, <4>2
    <3> QED BY <3>3, <3>4, KindsOfPlaces
  <2> QED BY <2>1, <2>2
<1>8. bitmap' = bitmap \cup {b, b} OBVIOUS
<1>9. BlocksOwned' BY <1>1, <1>7, <1>8, BlocksAdded DEF Inv
<1>10. indirect' \in [Blocks -> [DOMAIN NoSlots -> Blocks \cup {None}]] /\ bitmap' \subseteq Blocks
  BY <1>1, <1>2 DEF Inv, TypeOK
<1> QED BY <1>4, <1>5, <1>9, <1>10 DEF Grows

LEMMA GrowsIndirect ==
  ASSUME Inv, NEW i \in Inums, NEW d, d = disk[i], NEW n \in 0 .. MAXFILE, n < MAXFILE, n >= NDIRECT,
         d.addrs[NDIRECT] = None, Cardinality(Blocks \ bitmap) >= 2,
         NEW b, b = NewBlock, NEW c, c = Min(Blocks \ (bitmap \cup {b})),
         NEW v, v = WithBlock(d, NDIRECT, b),
         Update([j \in {i} |-> v]), bitmap' = bitmap \cup {b, c},
         indirect' = WithSlot(b, n, c)
  PROVE  Grows(i, v)
<1>1. b \in Blocks \ bitmap /\ c \in Blocks \ bitmap /\ b # c BY TwoBlocks
<1>2. d \in InodeType /\ bitmap \subseteq Blocks BY DEF Inv, TypeOK
<1>3. NDIRECT \in 0 .. NDIRECT /\ n \in DOMAIN NoSlots /\ n # MAXFILE
  <2>1. n \in 0 .. MAXFILE /\ n < MAXFILE /\ n >= NDIRECT OBVIOUS
  <2>2. n # MAXFILE /\ NDIRECT \in 0 .. NDIRECT BY ONLY <2>1, PlacesAre
  <2> QED BY ONLY <2>1, <2>2, PlacesOf
<1>4. /\ v \in InodeType /\ v.type = d.type /\ v.nlink = d.nlink
      /\ \A a \in 0 .. NDIRECT : v.addrs[a] = IF a = NDIRECT THEN b ELSE d.addrs[a]
  <2>1. v = WithBlock(d, NDIRECT, b) /\ d \in InodeType /\ NDIRECT \in 0 .. NDIRECT /\ b \in Blocks
    BY <1>1, <1>2, <1>3
  <2> QED BY ONLY <2>1, WithBlockIs
<1>5. disk' = [disk EXCEPT ![i] = v] /\ mem' = [mem EXCEPT ![i] = v]
  <2>1. TypeOK /\ i \in Inums /\ Update([j \in {i} |-> v]) BY DEF Inv
  <2> QED BY ONLY <2>1, UpdateOne
<1>6. disk'[i] = v /\ \A j \in Inums \ {i} : disk'[j] = disk[j] BY <1>5 DEF Inv, TypeOK
<1>7. PICK m \in 0 .. MAXFILE : m = MAXFILE BY PlacesAre
<1>8. PICK s : s = [NoSlots EXCEPT ![n] = c] OBVIOUS
<1>9. /\ s \in [DOMAIN NoSlots -> Blocks \cup {None}]
      /\ \A k \in DOMAIN NoSlots : s[k] = IF k = n THEN c ELSE None
  BY <1>1, <1>3, <1>8 DEF NoSlots
<1>10. /\ indirect' \in [Blocks -> [DOMAIN NoSlots -> Blocks \cup {None}]]
       /\ indirect'[b] = s /\ \A a \in Blocks \ {b} : indirect'[a] = indirect[a]
  BY <1>1, <1>8, <1>9 DEF Inv, TypeOK, WithSlot
<1>11. \A j \in Inums, k \in 0 .. MAXFILE :
            BlockAt(disk[j], k)' = IF j = i /\ k = m THEN b ELSE IF j = i /\ k = n THEN c
                                   ELSE BlockAt(disk[j], k)
  <2> TAKE j \in Inums, k \in 0 .. MAXFILE
  <2>0. PICK x, y, e, f :
           /\ x = BlockAt(disk[j], k) /\ y = BlockAt(disk[j], k)'
           /\ e = disk[j].addrs[NDIRECT] /\ f = disk'[j].addrs[NDIRECT]
    OBVIOUS
  <2>01. /\ k < NDIRECT => x = disk[j].addrs[k] /\ y = disk'[j].addrs[k]
         /\ k = MAXFILE => x = e /\ y = f
         /\ k >= NDIRECT /\ k # MAXFILE =>
              /\ x = IF e = None THEN None ELSE indirect[e][k]
              /\ y = IF f = None THEN None ELSE indirect'[f][k]
    <3>1. /\ j \in Inums /\ k \in 0 .. MAXFILE
          /\ x = BlockAt(disk[j], k) /\ y = BlockAt(disk[j], k)'
          /\ e = disk[j].addrs[NDIRECT] /\ f = disk'[j].addrs[NDIRECT]
      BY <2>0
    <3> QED BY ONLY <3>1, PlaceMoves
  <2>1. CASE j # i
    <3>1. disk'[j] = disk[j] /\ f = e BY <1>6, <2>0, <2>1
    <3>2. e # None => indirect'[e] = indirect[e]
      <4>1. e # None => e \in Blocks /\ e \in bitmap BY <2>0, IndirectIs DEF Inv
      <4> QED BY <1>1, <1>10, <4>1
    <3>3. x = y
      <4>1. k \in 0 .. MAXFILE OBVIOUS
      <4> QED BY ONLY <2>01, <3>1, <3>2, <4>1, KindsOfPlaces
    <3> QED BY <2>0, <2>1, <3>3
  <2>2. CASE j = i
    <3>1. disk[j] = d /\ disk'[j] = v BY <1>6, <2>2
    <3>2. f = b /\ b # None /\ e = None BY <1>1, <1>3, <1>4, <2>0, <3>1, Sorts
    <3>3. CASE k < NDIRECT
      <4>1. v.addrs[k] = d.addrs[k]
        <5>1. k \in 0 .. NDIRECT /\ k # NDIRECT BY <3>3, PlacesAre
        <5> QED BY <1>4, <5>1
      <4>2. k # m /\ k # n
        <5>1. k # MAXFILE /\ k # n BY <3>3, PlacesAre
        <5> QED BY <1>7, <5>1
      <4>3. x = y BY <2>01, <3>1, <3>3, <4>1
      <4> QED BY <2>0, <2>2, <4>2, <4>3
    <3>4. CASE k = MAXFILE
      <4>1. y = b /\ k = m BY <1>7, <2>01, <3>2, <3>4
      <4> QED BY <2>0, <2>2, <4>1
    <3>5. CASE k >= NDIRECT /\ k # MAXFILE
      <4>1. k \in DOMAIN NoSlots BY <3>5, PlacesOf
      <4>2. y = s[k] /\ x = None BY <1>10, <2>01, <3>2, <3>5
      <4>3. y = IF k = n THEN c ELSE None BY <1>9, <4>1, <4>2
      <4>4. k # m BY <1>7, <3>5
      <4> QED BY <2>0, <2>2, <4>2, <4>3, <4>4
    <3> QED BY <3>3, <3>4, <3>5, KindsOfPlaces
  <2> QED BY <2>1, <2>2
<1>12. BlockAt(disk[i], m) = None /\ BlockAt(disk[i], n) = None
  <2>1. BlockAt(disk[i], m) = None BY <1>7, PlacesNow DEF PlacesSame
  <2>2. BlockAt(disk[i], n) = None BY <1>3, PlacesNow DEF PlacesSame
  <2> QED BY <2>1, <2>2
<1>13. b = c <=> m = n BY <1>1, <1>3, <1>7
<1>14. BlocksOwned'
  <2>1. BlocksOwned BY DEF Inv
  <2>2. PICK y \in Blocks \ bitmap, z \in Blocks \ bitmap : y = b /\ z = c BY <1>1
  <2>3. \A j \in Inums, k \in 0 .. MAXFILE :
            BlockAt(disk[j], k)' = IF j = i /\ k = m THEN y ELSE IF j = i /\ k = n THEN z
                                   ELSE BlockAt(disk[j], k)
    BY <1>11, <2>2
  <2>4. bitmap' = bitmap \cup {y, z} /\ (y = z <=> m = n) BY <1>13, <2>2
  <2>5. i \in Inums /\ m \in 0 .. MAXFILE /\ n \in 0 .. MAXFILE /\ y \in Blocks \ bitmap /\ z \in Blocks \ bitmap
    BY <2>2
  <2> QED BY ONLY <1>12, <2>1, <2>3, <2>4, <2>5, BlocksAdded
<1>15. bitmap' \subseteq Blocks BY <1>1, <1>2
<1> QED BY <1>4, <1>5, <1>10, <1>14, <1>15 DEF Grows

LEMMA GrowsSlot ==
  ASSUME Inv, NEW i \in Inums, NEW d, d = disk[i], NEW n \in 0 .. MAXFILE, BlockAt(d, n) = None,
         n < MAXFILE, n >= NDIRECT, d.addrs[NDIRECT] # None, bitmap # Blocks, NEW b, b = NewBlock,
         Update([j \in {i} |-> d]), bitmap' = bitmap \cup {b},
         indirect' = [indirect EXCEPT ![d.addrs[NDIRECT]][n] = b]
  PROVE  Grows(i, d)
<1>1. b \in Blocks \ bitmap BY NewBlockIs
<1>2. d \in InodeType /\ bitmap \subseteq Blocks BY DEF Inv, TypeOK
<1>3. n \in DOMAIN NoSlots /\ n # MAXFILE BY PlacesAre, PlacesOf
<1>4. PICK a : a = d.addrs[NDIRECT] OBVIOUS
<1>5. a \in Blocks /\ \A l \in Inums : disk[l].addrs[NDIRECT] = a => l = i
  BY <1>4, IndirectIs DEF Inv
<1>6. disk' = [disk EXCEPT ![i] = d] /\ mem' = [mem EXCEPT ![i] = d]
  <2>1. TypeOK /\ Update([j \in {i} |-> d]) BY DEF Inv
  <2> QED BY ONLY <2>1, UpdateOne
<1>7. \A j \in Inums : disk'[j] = disk[j] BY <1>6 DEF Inv, TypeOK
<1>8. /\ indirect' \in [Blocks -> [DOMAIN NoSlots -> Blocks \cup {None}]]
      /\ \A k \in DOMAIN NoSlots : indirect'[a][k] = IF k = n THEN b ELSE indirect[a][k]
      /\ \A e \in Blocks \ {a} : indirect'[e] = indirect[e]
  BY <1>1, <1>3, <1>4, <1>5 DEF Inv, TypeOK
<1>9. \A j \in Inums, k \in 0 .. MAXFILE :
            BlockAt(disk[j], k)' = IF j = i /\ k = n THEN b ELSE IF j = i /\ k = n THEN b
                                   ELSE BlockAt(disk[j], k)
  <2> TAKE j \in Inums, k \in 0 .. MAXFILE
  <2>1. PICK e : e = disk[j].addrs[NDIRECT] OBVIOUS
  <2>2. CASE k < NDIRECT \/ k = MAXFILE
    <3>1. k # n BY <1>3, <2>2, PlacesAre
    <3> QED BY <1>7, <2>2, <3>1, PlacesNow, PlacesNext, SMTT(30) DEF PlacesSame
  <2>3. CASE k >= NDIRECT /\ k # MAXFILE
    <3>1. k \in DOMAIN NoSlots BY <2>3, PlacesOf
    <3>2. BlockAt(disk[j], k) = IF e = None THEN None ELSE indirect[e][k]
      BY <2>1, <2>3, PlacesNow DEF PlacesSame
    <3>3. BlockAt(disk[j], k)' = IF e = None THEN None ELSE indirect'[e][k]
      BY <1>7, <2>1, <2>3, PlacesNext, SMTT(30) DEF PlacesSame
    <3>4. CASE j = i
      <4>1. e = a /\ a # None BY <1>4, <2>1, <3>4
      <4>2. indirect'[a][k] = IF k = n THEN b ELSE indirect[a][k] BY <1>8, <3>1
      <4> QED BY <3>2, <3>3, <3>4, <4>1, <4>2
    <3>5. CASE j # i
      <4>1. e # a BY <1>5, <2>1, <3>5
      <4>2. e \in Blocks \cup {None} BY <2>1, PlacesAre DEF Inv, TypeOK, InodeType
      <4>3. e # None => indirect'[e] = indirect[e] BY <1>8, <4>1, <4>2
      <4> QED BY <3>2, <3>3, <3>5, <4>3
    <3> QED BY <3>4, <3>5
  <2> QED BY <2>2, <2>3, KindsOfPlaces
<1>10. bitmap' = bitmap \cup {b, b} OBVIOUS
<1>11. BlocksOwned' BY <1>1, <1>9, <1>10, BlocksAdded DEF Inv
<1>12. bitmap' \subseteq Blocks BY <1>1, <1>2
<1> QED BY <1>2, <1>6, <1>8, <1>11, <1>12 DEF Grows

\* A block is written at the end of an open file.
LEMMA WriteGrows ==
  ASSUME Inv, NEW p \in Procs, Write(p), NEW i \in Inums, i = file[p]
  PROVE  \E v : Grows(i, v)
<1>1. Lockable(i) BY DEF Write
<1>2. Inode(i) = disk[i] /\ disk[i].type # "free" BY <1>1, InodeIsDisk DEF Lockable, Free
<1>3. PICK d : d = disk[i] OBVIOUS
<1>4. PICK n : n = Size(d) OBVIOUS
<1>5. n < MAXFILE BY <1>2, <1>3, <1>4 DEF Write
<1>6. n \in 0 .. MAXFILE /\ BlockAt(d, n) = None BY <1>4, <1>5, SizeIs
<1>7. PICK b : b = NewBlock OBVIOUS
<1>8. PICK c : c = Min(Blocks \ (bitmap \cup {b})) OBVIOUS
<1>9. \/ /\ n < NDIRECT /\ bitmap # Blocks
          /\ Update([j \in {i} |-> [d EXCEPT !.addrs[n] = b]])
          /\ bitmap' = bitmap \cup {b}
          /\ UNCHANGED indirect
       \/ /\ n >= NDIRECT /\ d.addrs[NDIRECT] = None
          /\ Cardinality(Blocks \ bitmap) >= 2
          /\ Update([j \in {i} |-> [d EXCEPT !.addrs[NDIRECT] = b]])
          /\ bitmap' = bitmap \cup {b, c}
          /\ indirect' = [indirect EXCEPT ![b] = [NoSlots EXCEPT ![n] = c]]
       \/ /\ n >= NDIRECT /\ d.addrs[NDIRECT] # None /\ bitmap # Blocks
          /\ Update([j \in {i} |-> d])
          /\ bitmap' = bitmap \cup {b}
          /\ indirect' = [indirect EXCEPT ![d.addrs[NDIRECT]][n] = b]
  BY <1>2, <1>3, <1>4, <1>7, <1>8 DEF Write
<1>10. \E v : Grows(i, v)
  <2>0. NDIRECT \in Nat /\ n \in Nat BY <1>6, PlacesAre
  <2>1. CASE /\ n < NDIRECT /\ bitmap # Blocks
             /\ Update([j \in {i} |-> [d EXCEPT !.addrs[n] = b]])
             /\ bitmap' = bitmap \cup {b}
             /\ UNCHANGED indirect
    <3>1. PICK v : v = WithBlock(d, n, b) OBVIOUS
    <3>2. Update([j \in {i} |-> v]) BY <2>1, <3>1 DEF WithBlock
    <3>3. Grows(i, v) BY <1>3, <1>6, <1>7, <2>1, <3>1, <3>2, GrowsDirect
    <3> QED BY <3>3
  <2>2. CASE /\ n >= NDIRECT /\ d.addrs[NDIRECT] = None
             /\ Cardinality(Blocks \ bitmap) >= 2
             /\ Update([j \in {i} |-> [d EXCEPT !.addrs[NDIRECT] = b]])
             /\ bitmap' = bitmap \cup {b, c}
             /\ indirect' = [indirect EXCEPT ![b] = [NoSlots EXCEPT ![n] = c]]
    <3>1. PICK v : v = WithBlock(d, NDIRECT, b) OBVIOUS
    <3>2. Update([j \in {i} |-> v]) BY <2>2, <3>1 DEF WithBlock
    <3>3. /\ Inv /\ i \in Inums /\ d = disk[i] /\ n \in 0 .. MAXFILE /\ n < MAXFILE /\ n >= NDIRECT
          /\ d.addrs[NDIRECT] = None /\ Cardinality(Blocks \ bitmap) >= 2
          /\ b = NewBlock /\ c = Min(Blocks \ (bitmap \cup {b})) /\ v = WithBlock(d, NDIRECT, b)
          /\ Update([j \in {i} |-> v]) /\ bitmap' = bitmap \cup {b, c}
          /\ indirect' = WithSlot(b, n, c)
      BY <1>3, <1>5, <1>6, <1>7, <1>8, <2>2, <3>1, <3>2 DEF WithSlot
    <3>4. Grows(i, v) BY ONLY <3>3, GrowsIndirect
    <3> QED BY <3>4
  <2>3. CASE /\ n >= NDIRECT /\ d.addrs[NDIRECT] # None /\ bitmap # Blocks
             /\ Update([j \in {i} |-> d])
             /\ bitmap' = bitmap \cup {b}
             /\ indirect' = [indirect EXCEPT ![d.addrs[NDIRECT]][n] = b]
    <3>1. Grows(i, d) BY <1>3, <1>5, <1>6, <1>7, <2>3, GrowsSlot
    <3> QED BY <3>1
  <2> QED BY <1>9, <2>1, <2>2, <2>3
<1> QED BY <1>10

LEMMA WriteStep ==
  ASSUME Inv, NEW p \in Procs, Write(p)
  PROVE  Inv'
<1>1. st[p].at = "user" /\ file[p] # None BY DEF Write, At
<1>2. PICK i \in Inums : i = file[p] BY <1>1, RegsAre
<1>3. Lockable(i) BY <1>2 DEF Write
<1>4. Inode(i) = disk[i] /\ disk[i].type # "free" BY <1>3, InodeIsDisk DEF Lockable, Free
<1>5. PICK v : Grows(i, v) BY <1>2, WriteGrows
<1>6. UNCHANGED <<ref, lock, entries, cwd, file, writable, st, orphans>> BY DEF Write, procVars
<1>7. /\ disk' \in [Inums -> InodeType] /\ mem' \in [Inums -> InodeType]
       /\ disk'[i].type = disk[i].type /\ disk'[i].nlink = disk[i].nlink /\ mem'[i] = disk'[i]
       /\ \A j \in Inums \ {i} : disk'[j] = disk[j] /\ mem'[j] = mem[j]
  BY <1>5 DEF Grows, Inv, TypeOK
<1>8. PICK r \in Registers : r = st[p] BY RegsAre
<1>9. InUse(i) /\ ~Fresh(i) /\ \A q \in Procs : st[q].at = "free" => st[q].drop[1] # i
  <2>1. Needs(st[p], cwd[p], file[p], i) BY <1>2 DEF Needs
  <2> QED BY <2>1, RegsAre, InUseIsLive
<1>10. /\ TypeOK' /\ RegsInv' /\ LockInv' /\ RefsCounted'
       /\ \A q \in Procs \ {p} : st'[q] = st[q] /\ cwd'[q] = cwd[q] /\ file'[q] = file[q]
       /\ st'[p] = r /\ cwd'[p] = cwd[p] /\ file'[p] = file[p]
  <2>1. /\ ref' \in [Inums -> Nat]
        /\ entries' \in [Inums -> [Names \cup Dots -> Inums \cup {None}]]
        /\ indirect' \in [Blocks -> [DOMAIN NoSlots -> Blocks \cup {None}]]
        /\ bitmap' \subseteq Blocks /\ orphans' \subseteq Inums
    BY <1>5, <1>6 DEF Inv, TypeOK, Grows
  <2>2. st' = [st EXCEPT ![p] = r] /\ UNCHANGED <<cwd, file, writable>>
    BY <1>6, <1>8 DEF Inv, TypeOK
  <2>3. Len(r.drop) <= 2 /\ RegsOK(r, cwd[p]) BY <1>8, RegsAre
  <2>4. Locks(p, r) BY <1>6, <1>8, RegsAre DEF Locks, Inv, TypeOK
  <2>5. \A j \in Inums : ref'[j] + Refers(st[p], cwd[p], file[p], j) = ref[j] + Refers(r, cwd[p], file[p], j)
    BY <1>6, <1>8
  <2> QED BY <1>7, <2>1, <2>2, <2>3, <2>4, <2>5, LocalMove
<1>11. CacheInv' /\ FreeingInv'
  <2>1. \A j \in Inums : \/ mem'[j] \in {mem[j], Invalid} /\ (disk'[j] = disk[j] \/ disk[j].type = "free")
                         \/ mem'[j] = disk'[j] /\ disk'[j].type # "free"
    BY <1>4, <1>7
  <2>2. \A q \in Procs \ {p} : st[q].at = "free" =>
           ref'[st[q].drop[1]] = ref[st[q].drop[1]] /\ mem'[st[q].drop[1]] = mem[st[q].drop[1]]
    <3>1. \A q \in Procs \ {p} : st[q].at = "free" => st[q].drop[1] \in Inums \ {i} BY <1>9, OnlyHolder
    <3> QED BY <1>6, <1>7, <3>1
  <2> QED BY <1>1, <1>8, <1>10, <2>1, <2>2, CacheMove DEF Inv
<1>12. \A j \in Inums : disk'[j].type = disk[j].type /\ disk'[j].nlink = disk[j].nlink BY <1>7
<1>13. KnowsInv'
  <2>1. Knows(r)'
    <3>1. Point(r) = "user" /\ r.at = "user" /\ (LinkTo(r) # None => r.ip \in Inums)
      BY <1>1, <1>8 DEF Point, Puts, LinkTo, Registers
    <3>2. LinkTo(r) # None => disk[r.ip].type = "file"
      <4>1. Knows(r) BY <1>8, RegsAre
      <4> QED BY <4>1 DEF Knows
    <3> QED BY <1>12, <3>1, <3>2 DEF Knows
  <2> QED BY <1>6, <1>10, <1>12, <2>1, KnowsMove DEF Inv
<1>14. \A j : NamesOf(j)' = NamesOf(j) BY <1>6 DEF NamesOf
<1>15. \A j : SubDirs(j)' = SubDirs(j) BY <1>6, <1>14 DEF SubDirs
<1>16. FreshInv' /\ \A j \in Inums : (InTheMaking(j)' <=> InTheMaking(j)) /\ (Fresh(j)' <=> Fresh(j))
  <2>1. \A j \in Inums : Fresh(j) => disk'[j] = disk[j] /\ entries'[j] = entries[j]
                                        /\ NamesOf(j)' = {} /\ j \notin orphans'
    BY <1>6, <1>7, <1>9, <1>14 DEF Inv, FreshInv
  <2>2. PICK c0, h0 : c0 = cwd[p] /\ h0 = file[p] OBVIOUS
  <2>6. /\ \A j \in Inums : Needs(r, c0, h0, j) => InUse(j)
        /\ st'[p] = r /\ cwd'[p] = c0 /\ file'[p] = h0
        /\ \A q \in Procs \ {p} : st'[q] = st[q] /\ cwd'[q] = cwd[q] /\ file'[q] = file[q]
    BY <1>8, <1>10, <2>2, RegsAre
  <2>3. Making(r) = Making(st[p]) /\ r.at # "invalidate" BY <1>1, <1>8
  <2>4. TypeOK /\ RegsInv /\ FreshInv BY DEF Inv
  <2>5. /\ \A j \in Inums : disk'[j].type = disk[j].type
        /\ p \in Procs /\ r \in Registers
    BY <1>8, <1>12
  <2> QED BY ONLY <2>1, <2>3, <2>4, <2>5, <2>6, FreshKept
<1>17. DirInv'
  <2>1. DirInv /\ orphans \subseteq Inums BY DEF Inv, TypeOK
  <2>2. entries' = entries /\ orphans' = orphans BY <1>6
  <2>3. \A j \in Inums : (InTheMaking(j)' <=> InTheMaking(j)) /\ disk'[j].type = disk[j].type
    BY <1>12, <1>16
  <2>4. ROOTINO \in Inums BY Sorts
  <2>5. disk'[ROOTINO].type = "dir" /\ NamesOf(ROOTINO)' = {} /\ entries'[ROOTINO][".."] = ROOTINO
    BY ONLY <1>14, <2>1, <2>2, <2>3, <2>4 DEF DirInv
  <2>6. \A j \in Inums : disk'[j].type = "dir" /\ ~InTheMaking(j)' =>
                            entries'[j]["."] = j /\ entries'[j][".."] # None
    BY ONLY <2>1, <2>2, <2>3 DEF DirInv
  <2>7. \A j \in Inums : disk'[j].type = "dir" =>
                            \A x, y \in NamesOf(j)' : x = y /\ entries'[j][".."] = x[1]
    BY ONLY <1>14, <2>1, <2>2, <2>3 DEF DirInv
  <2>8. \A j \in Inums : entries'[j] # NoEntries => disk'[j].type = "dir"
    BY ONLY <2>1, <2>2, <2>3 DEF DirInv
  <2>9. \A j \in orphans' : disk'[j].type = "file" BY ONLY <2>1, <2>2, <2>3 DEF DirInv
  <2> QED BY ONLY <2>5, <2>6, <2>7, <2>8, <2>9 DEF DirInv
<1>18. LinksInv'
  <2> SUFFICES ASSUME NEW j \in Inums
               PROVE IF j \in orphans' THEN disk'[j].nlink > Count(j)' ELSE disk'[j].nlink = Count(j)'
    BY DEF LinksInv
  <2>1. PICK c1 \in Nat : c1 = disk[j].nlink BY DEF Inv, TypeOK, InodeType
  <2>2. disk'[j].nlink = c1 /\ (j \in orphans' <=> j \in orphans) BY <1>6, <1>12, <2>1
  <2>3. c1 + One(LinkTo(st[p]) = j) + One(UnlinkTo(st[p]) = j)
          = disk[j].nlink + One(LinkTo(r) = j) + One(UnlinkTo(r) = j)
    BY <1>8, <2>1
  <2>4. NamesOf(j)' = NamesOf(j) /\ SubDirs(j)' = SubDirs(j) BY <1>14, <1>15
  <2> QED BY <1>10, <2>2, <2>3, <2>4, LinksMoveSame DEF Inv
<1>19. NoLoops' BY <1>6, LoopsCut DEF Inv
<1> QED BY <1>5, <1>10, <1>11, <1>13, <1>16, <1>17, <1>18, <1>19 DEF Inv, Grows

-----------------------------------------------------------------------------
(* The invariant holds in every state *)

\* At the start only the root directory is there, and every process is in it.
LEMMA InitRefs ==
  ASSUME Init
  PROVE  TypeOK /\ RegsInv /\ LockInv /\ RefsCounted
<1>1. TypeOK
  <2>1. 1 \in Blocks /\ 0 \in 0 .. NDIRECT BY InodesAssumption DEF Blocks
  <2>2. NoBlocks \in [0 .. NDIRECT -> Blocks \cup {None}]
        /\ [NoBlocks EXCEPT ![0] = 1] \in [0 .. NDIRECT -> Blocks \cup {None}]
    BY <2>1 DEF NoBlocks
  <2>3. Blank \in InodeType /\ Invalid \in InodeType
        /\ [type |-> "dir", nlink |-> 1, addrs |-> [NoBlocks EXCEPT ![0] = 1]] \in InodeType
    BY <2>2 DEF Blank, Invalid, InodeType
  <2>4. disk \in [Inums -> InodeType] /\ mem \in [Inums -> InodeType] BY <2>3 DEF Init
  <2>5. Cardinality(Procs) \in Nat BY InodesAssumption, FS_CardinalityType
  <2>6. ref \in [Inums -> Nat] /\ lock \in [Inums -> Procs \cup {Nobody}] BY <2>5 DEF Init
  <2>7. entries \in [Inums -> [Names \cup Dots -> Inums \cup {None}]]
    <3>1. NoEntries \in [Names \cup Dots -> Inums \cup {None}]
          /\ [NoEntries EXCEPT !["."] = ROOTINO, ![".."] = ROOTINO] \in [Names \cup Dots -> Inums \cup {None}]
      BY Sorts DEF NoEntries, Dots
    <3> QED BY <3>1 DEF Init
  <2>8. NoSlots \in [DOMAIN NoSlots -> Blocks \cup {None}] BY DEF NoSlots
  <2>9. AtRest \in Registers /\ Len(AtRest.drop) = 0 BY DEF AtRest, Registers, Points, Dots
  <2>10. st \in [Procs -> Registers] /\ \A p \in Procs : Len(st[p].drop) <= 2 BY <2>9 DEF Init
  <2> QED BY <2>1, <2>4, <2>6, <2>7, <2>8, <2>10, Sorts DEF Init, TypeOK
<1>2. \A p \in Procs : st[p] = AtRest /\ cwd[p] = ROOTINO /\ file[p] = None BY DEF Init
<1>3. RegsOK(AtRest, ROOTINO)
  <2>1. Point(AtRest) = "user" BY DEF Point, AtRest, Puts
  <2> QED BY <2>1, Sorts DEF RegsOK, AtRest, Puts, AtPath, OnPaths
<1>4. RegsInv BY <1>2, <1>3 DEF RegsInv
<1>5. LockInv
  <2>1. \A i : ~Keeps(AtRest, i) BY DEF Keeps, Point, AtRest, Puts
  <2>2. \A i \in Inums : lock[i] = Nobody BY DEF Init
  <2> QED BY <1>2, <2>1, <2>2, Sorts DEF LockInv
<1>6. \A i \in Inums : ref[i] = Cardinality(RefsTo(i))
  <2> TAKE i \in Inums
  <2>1. \A p \in Procs, f \in Places : Held(p, f) = IF f = "cwd" THEN ROOTINO ELSE None
    BY <1>2 DEF Held, Places, AtRest
  <2>2. CASE i = ROOTINO
    <3>1. RefsTo(i) = Procs \X {"cwd"} BY <2>1, <2>2, Sorts DEF RefsTo, Places
    <3>2. IsFiniteSet({"cwd"}) /\ Cardinality({"cwd"}) = 1 BY FS_Singleton
    <3>3. PICK n \in Nat : n = Cardinality(Procs) BY InodesAssumption, FS_CardinalityType
    <3>4. Cardinality(Procs \X {"cwd"}) = Cardinality(Procs) * Cardinality({"cwd"})
      BY <3>2, InodesAssumption, FS_Product
    <3>5. n * 1 = n OBVIOUS
    <3>6. ref[i] = n BY <2>2, <3>3 DEF Init
    <3> QED BY <3>1, <3>2, <3>3, <3>4, <3>5, <3>6
  <2>3. CASE i # ROOTINO
    <3>1. RefsTo(i) = {} BY <2>1, <2>3, Sorts DEF RefsTo
    <3>2. ref[i] = 0 BY <2>3 DEF Init
    <3> QED BY <3>1, <3>2, FS_EmptySet
  <2> QED BY <2>2, <2>3
<1> QED BY <1>1, <1>4, <1>5, <1>6 DEF RefsCounted

LEMMA InitTree ==
  ASSUME Init
  PROVE  CacheInv /\ FreeingInv /\ FreshInv /\ KnowsInv /\ DirInv /\ NoLoops
<1>1. \A p \in Procs : st[p] = AtRest /\ cwd[p] = ROOTINO /\ file[p] = None BY DEF Init
<1>2. \A p \in Procs : st[p].at = "user" /\ st[p].op = "none" /\ Point(st[p]) = "user"
  BY <1>1 DEF AtRest, Point, Puts
<1>3. CacheInv BY DEF Init, CacheInv
<1>4. FreeingInv BY <1>2 DEF FreeingInv
<1>5. \A i, n : i \in Inums /\ n \in Names => entries[i][n] = None
  BY InodesAssumption DEF Init, NoEntries, Dots
<1>6. \A i \in Inums : NamesOf(i) = {} BY <1>5, Sorts DEF NamesOf
<1>7. \A i : ~InTheMaking(i) BY <1>2 DEF InTheMaking, At
<1>8. \A i \in Inums \ {ROOTINO} : ~InUse(i)
  <2>1. \A p \in Procs, f \in Places : Held(p, f) = IF f = "cwd" THEN ROOTINO ELSE None
    BY <1>1 DEF Held, Places, AtRest
  <2> QED BY <2>1, Sorts DEF InUse, Uses
<1>9. \A i \in Inums : IF i = ROOTINO
                       THEN disk[i].type = "dir" /\ entries[i]["."] = ROOTINO /\ entries[i][".."] = ROOTINO
                       ELSE disk[i] = Blank /\ entries[i] = NoEntries
  <2>1. [NoEntries EXCEPT !["."] = ROOTINO, ![".."] = ROOTINO]["."] = ROOTINO
        /\ [NoEntries EXCEPT !["."] = ROOTINO, ![".."] = ROOTINO][".."] = ROOTINO
    BY DEF NoEntries, Dots
  <2> QED BY <2>1 DEF Init
<1>10. Blank.type = "free" /\ Blank.nlink = 0 /\ Blank.addrs = NoBlocks BY DEF Blank
<1>11. FreshInv
  <2>1. \A i \in Inums : Fresh(i) => i # ROOTINO BY <1>7, <1>9 DEF Fresh
  <2>2. \A p \in Procs : Making(st[p]) = None BY <1>2 DEF Making
  <2>3. orphans = {} BY DEF Init
  <2> QED BY <1>2, <1>6, <1>8, <1>9, <1>10, <2>1, <2>2, <2>3 DEF FreshInv
<1>12. KnowsInv BY <1>1, <1>2 DEF KnowsInv, Knows, LinkTo, AtRest
<1>13. DirInv
  <2>1. orphans = {} BY DEF Init
  <2> QED BY <1>6, <1>9, <1>10, <2>1, Sorts DEF DirInv
<1>14. NoLoops
  <2> SUFFICES ASSUME NEW D \in (SUBSET Inums) \ {{}}
               PROVE \E d \in D : \A n \in Names : entries[d][n] \notin D
    BY DEF NoLoops
  <2>1. PICK d \in D : TRUE OBVIOUS
  <2>2. \A n \in Names : entries[d][n] = None BY <1>5
  <2>3. None \notin D BY Sorts
  <2> QED BY <2>1, <2>2, <2>3
<1> QED BY <1>3, <1>4, <1>11, <1>12, <1>13, <1>14

LEMMA InitCounts ==
  ASSUME Init
  PROVE  LinksInv /\ BlocksOwned
<1>1. \A i, n : i \in Inums /\ n \in Names => entries[i][n] = None
  BY InodesAssumption DEF Init, NoEntries, Dots
<1>2. \A i \in Inums : NamesOf(i) = {} BY <1>1, Sorts DEF NamesOf
<1>3. \A p \in Procs : st[p].ip = None BY DEF Init, AtRest
<1>4. \A i \in Inums : Linking(i) = {} /\ Unlinking(i) = {} BY <1>3, Sorts DEF Linking, Unlinking
<1>5. \A i \in Inums : entries[i][".."] = IF i = ROOTINO THEN ROOTINO ELSE None
  <2>1. [NoEntries EXCEPT !["."] = ROOTINO, ![".."] = ROOTINO][".."] = ROOTINO /\ NoEntries[".."] = None
    BY DEF NoEntries, Dots
  <2> QED BY <2>1 DEF Init
<1>6. \A i \in Inums : SubDirs(i) = IF i = ROOTINO THEN {ROOTINO} ELSE {}
  BY <1>2, <1>5, Sorts DEF SubDirs
<1>7. LinksInv
  <2>1. Cardinality({}) = 0 /\ Cardinality({ROOTINO}) = 1 BY FS_EmptySet, FS_Singleton
  <2>2. \A i \in Inums : Count(i) = IF i = ROOTINO THEN 1 ELSE 0
    BY <1>2, <1>4, <1>6, <2>1 DEF Count
  <2>3. \A i \in Inums : disk[i].nlink = IF i = ROOTINO THEN 1 ELSE 0 BY DEF Init, Blank
  <2>4. orphans = {} BY DEF Init
  <2> QED BY <2>2, <2>3, <2>4 DEF LinksInv
<1>8. PICK z \in 0 .. MAXFILE : z = 0 /\ z < NDIRECT BY InodesAssumption DEF MAXFILE
<1>9. \A i \in Inums, k \in 0 .. MAXFILE :
         BlockAt(disk[i], k) = IF i = ROOTINO /\ k = z THEN 1 ELSE None
  <2> TAKE i \in Inums, k \in 0 .. MAXFILE
  <2>1. disk[i].addrs = IF i = ROOTINO THEN [NoBlocks EXCEPT ![0] = 1] ELSE NoBlocks
    BY DEF Init, Blank
  <2>2. disk[i].addrs[NDIRECT] = None
    <3>1. NDIRECT \in 0 .. NDIRECT /\ NDIRECT # 0 BY InodesAssumption
    <3> QED BY <2>1, <3>1 DEF NoBlocks
  <2>3. CASE k < NDIRECT
    <3>1. k \in 0 .. NDIRECT BY <2>3, PlacesAre
    <3>2. disk[i].addrs[k] = IF i = ROOTINO /\ k = 0 THEN 1 ELSE None BY <2>1, <3>1 DEF NoBlocks
    <3> QED BY <1>8, <2>3, <3>2, PlacesNow DEF PlacesSame
  <2>4. CASE k = MAXFILE \/ (k >= NDIRECT /\ k # MAXFILE)
    <3>1. k # z BY <1>8, <2>4, PlacesAre
    <3>2. BlockAt(disk[i], k) = None BY <2>2, <2>4, PlacesNow DEF PlacesSame
    <3> QED BY <3>1, <3>2
  <2> QED BY <2>3, <2>4, KindsOfPlaces
<1>10. BlocksOwned
  <2>1. \A i \in Inums : Addrs(disk[i]) = IF i = ROOTINO THEN {1} ELSE {}
    BY <1>9 DEF Addrs, None
  <2>2. UNION {Addrs(disk[i]) : i \in Inums} = {1} BY <2>1, Sorts
  <2>3. bitmap = {1} BY DEF Init
  <2> QED BY <1>9, <2>2, <2>3 DEF BlocksOwned
<1> QED BY <1>7, <1>10

\* A step outside the module's variables.
LEMMA StutterStep ==
  ASSUME Inv, UNCHANGED inodeVars
  PROVE  Inv'
<1>1. /\ disk' = disk /\ mem' = mem /\ ref' = ref /\ lock' = lock /\ entries' = entries
      /\ indirect' = indirect /\ bitmap' = bitmap /\ cwd' = cwd /\ file' = file
      /\ writable' = writable /\ st' = st /\ orphans' = orphans
  BY DEF inodeVars, blockVars, procVars
<1>2. TypeOK' BY <1>1 DEF Inv, TypeOK
<1>3. RegsInv' /\ KnowsInv' /\ LockInv'
  <2>1. RegsInv' BY <1>1 DEF Inv, RegsInv, RegsOK
  <2>2. KnowsInv' BY <1>1 DEF Inv, KnowsInv, Knows
  <2>3. LockInv' BY <1>1 DEF Inv, LockInv, Keeps
  <2> QED BY <2>1, <2>2, <2>3
<1>4. \A p, f : Held(p, f)' = Held(p, f) BY <1>1 DEF Held
<1>5. \A i : RefsTo(i)' = RefsTo(i) BY <1>4 DEF RefsTo
<1>6. RefsCounted' BY <1>1, <1>2, <1>5 DEF Inv, RefsCounted
<1>7. CacheInv' /\ FreeingInv' BY <1>1 DEF Inv, CacheInv, FreeingInv
<1>8. \A i : InTheMaking(i)' <=> InTheMaking(i) BY <1>1 DEF InTheMaking, At
<1>9. \A p, i : Uses(p, i)' <=> Uses(p, i) BY <1>1, <1>4 DEF Uses, Leaving, At
<1>10. \A i : (InUse(i)' <=> InUse(i)) /\ (Fresh(i)' <=> Fresh(i))
  BY <1>1, <1>8, <1>9 DEF InUse, Fresh
<1>11. \A i : NamesOf(i)' = NamesOf(i) BY <1>1 DEF NamesOf
<1>12. FreshInv' BY <1>1, <1>10, <1>11 DEF Inv, FreshInv
<1>13. DirInv' BY <1>1, <1>8, <1>11 DEF Inv, DirInv
<1>14. \A i : Count(i)' = Count(i)
  BY <1>1, <1>11 DEF Count, SubDirs, Linking, Unlinking
<1>15. LinksInv' BY <1>1, <1>14 DEF Inv, LinksInv
<1>16. NoLoops' BY <1>1 DEF Inv, NoLoops
<1>17. \A d, k : BlockAt(d, k)' = BlockAt(d, k) BY <1>1 DEF BlockAt
<1>18. BlocksOwned' BY <1>1, <1>17 DEF Inv, BlocksOwned, Addrs
<1> QED BY <1>2, <1>3, <1>6, <1>7, <1>12, <1>13, <1>15, <1>16, <1>18 DEF Inv

\* Every step preserves the invariant.
LEMMA NextStep ==
  ASSUME Inv, Steady, [Next]_inodeVars
  PROVE  Inv'
<1>1. CASE UNCHANGED inodeVars BY <1>1, StutterStep
<1>2. CASE Next
  <2>1. PICK p \in Procs : Call(p) \/ Continue(p) BY <1>2 DEF Next
  <2>2. CASE \E c \in Calls : c[1] = p /\ Begin(p, c[2], c[3], <<>>)
    <3>1. PICK c \in Calls : Begin(p, c[2], c[3], <<>>) BY <2>2
    <3>2. PICK op, path, new : op = c[2] /\ path = c[3] /\ new = <<>> OBVIOUS
    <3>3. op \in OnPaths /\ path \in Paths /\ new \in Seq(Names \cup Dots) /\ op # "link"
      BY <3>2, InodesAssumption DEF OnPaths
    <3>4. Begin(p, op, path, new) BY <3>1, <3>2
    <3> QED BY <3>3, <3>4, BeginStep
  <2>3. CASE \E l \in Links : l[1] = p /\ Begin(p, "link", l[2], l[3])
    <3>1. PICK l \in Links : Begin(p, "link", l[2], l[3]) BY <2>3
    <3>2. PICK path, new : path = l[2] /\ new = l[3] OBVIOUS
    <3>3. path \in Paths /\ new \in Seq(Names \cup Dots) /\ new # <<>>
      BY <3>2, InodesAssumption DEF Paths
    <3>4. Begin(p, "link", path, new) BY <3>1, <3>2
    <3> QED BY <3>3, <3>4, BeginStep
  <2>4. CASE Close(p) \/ Write(p) BY <2>4, CloseStep, WriteStep
  <2>5. CASE Put(p) \/ FreeIt(p) \/ Invalidate(p) \/ Unref(p)
    BY <2>5, PutStep, FreeItStep, InvalidateStep, UnrefStep
  <2>6. CASE Walk(p) \/ Open(p) \/ Chdir(p) \/ Moved(p)
    BY <2>6, WalkStep, OpenStep, ChdirStep, MovedStep
  <2>7. CASE Create(p) \/ Exists(p) \/ Fill(p) \/ Filled(p)
    BY <2>7, CreateStep, ExistsStep, FillStep, FilledStep
  <2>8. CASE Unlink(p) \/ UnlinkNonempty(p) \/ UnlinkBad(p) \/ UnlinkEntry(p) \/ UnlinkInode(p)
    BY <2>8, UnlinkStep, UnlinkNonemptyStep, UnlinkBadStep, UnlinkEntryStep, UnlinkInodeStep
  <2>9. CASE Link(p) \/ LinkWalk(p) \/ Relink(p) \/ Linked(p) \/ LinkBad(p)
    BY <2>9, LinkStep, LinkWalkStep, RelinkStep, LinkedStep, LinkBadStep
  <2> QED BY <2>1, <2>2, <2>3, <2>4, <2>5, <2>6, <2>7, <2>8, <2>9 DEF Call, Continue
<1> QED BY <1>1, <1>2

\* The inductive invariant of the calls: registers, locks, counts, cache, the tree of
\* directories and the blocks, as long as nobody goes up from a removed directory to one
\* that is gone, too.
THEOREM ConsistentWhileSteady == Spec /\ []Steady => []Inv
<1>1. Init => Inv BY InitRefs, InitTree, InitCounts DEF Inv
<1>2. Inv /\ Steady /\ [Next]_inodeVars => Inv' BY NextStep
<1> QED BY <1>1, <1>2, PTL DEF Spec

\* iget, idup and iput keep ref as the number of references there are, and nlink is the
\* number of names and subdirectories, up to the call that is about to change it; as long
\* as nobody goes up from a removed directory to one that is gone.
THEOREM CountsAgreeWhileSteady == Spec /\ []Steady => []CountsAgree
<1>1. Inv => CountsAgree
  <2> SUFFICES ASSUME Inv PROVE LinksCounted BY DEF CountsAgree, Inv
  <2>1. \A i \in Inums \ orphans : disk[i].nlink = Count(i) BY DEF Inv, LinksInv
  <2> QED BY <2>1 DEF LinksCounted, Count
<1> QED BY <1>1, ConsistentWhileSteady, PTL

\* balloc, bmap and itrunc: no block is lost, none is in two files or twice in one, as
\* long as nobody goes up from a removed directory to one that is gone.
THEOREM BlocksOwnedWhileSteady == Spec /\ []Steady => []BlocksOwned
<1>1. Inv => BlocksOwned BY DEF Inv
<1> QED BY <1>1, ConsistentWhileSteady, PTL

\* A process that others wait for in a circle, and that is not at an iput, is in unlink,
\* with a directory locked that names the inode it wants.
LEMMA WaitedFor ==
  ASSUME Inv, NEW q \in Procs, NEW i \in Inums, lock[i] = q, Wants(q) # None, st[q].at # "put"
  PROVE  st[q].at \in {"fill", "unlink2"} /\ st[q].cur = i
<1>1. Keeps(st[q], i) BY DEF Inv, LockInv
<1>2. st[q].at \notin {"free", "invalidate", "unref", "filled", "unlink3", "unlinkbad", "linked"}
  BY DEF Wants
<1>3. Point(st[q]) = st[q].at BY <1>2 DEF Point, Puts
<1> QED BY <1>1, <1>2, <1>3 DEF Keeps

\* ilock along a path, in create and in unlink: a circle of processes that wait for each
\* other's inodes has one in it that runs iput with another inode locked, as long as nobody
\* goes up from a removed directory to one that is gone.
THEOREM OnlyPutsDeadlockWhileSteady == Spec /\ []Steady => []OnlyPutsDeadlock
<1>1. Inv => OnlyPutsDeadlock
  <2> SUFFICES ASSUME Inv, NEW S \in (SUBSET Procs) \ {{}}, Circle(S),
                      \A p \in S : ~(At(p, "put") /\ \E i \in Inums : lock[i] = p)
               PROVE FALSE
    BY DEF OnlyPutsDeadlock
  <2>1. \A p \in S : Wants(p) # None BY DEF Circle, WaitsFor
  <2>2. \A p \in S : Wants(p) \in Inums
    <3> TAKE p \in S
    <3>1. PICK r \in Registers : r = st[p] BY RegsAre
    <3>2. r.at = "put" => r.drop # <<>>
      <4>1. RegsOK(r, cwd[p]) BY <3>1, RegsAre
      <4> QED BY <4>1 DEF RegsOK, Puts
    <3>3. r.cur \in Inums \cup {None} /\ r.ip \in Inums \cup {None} /\ r.drop \in Seq(Inums)
      BY DEF Registers
    <3>4. r.drop # <<>> => Head(r.drop) \in Inums BY <3>3
    <3> QED BY <2>1, <3>1, <3>2, <3>3, <3>4 DEF Wants
  <2>3. \A p \in S : \E q \in S : st[q].at \in {"fill", "unlink2"} /\ st[q].cur = Wants(p)
    <3> TAKE p \in S
    <3>1. PICK q \in S : lock[Wants(p)] = q BY DEF Circle, WaitsFor
    <3>2. PICK i \in Inums : i = Wants(p) BY <2>2
    <3>3. st[q].at # "put" BY <3>1, <3>2 DEF At
    <3>4. q \in Procs /\ lock[i] = q /\ Wants(q) # None BY <2>1, <3>1, <3>2
    <3> QED BY <3>2, <3>3, <3>4, WaitedFor
  <2>4. \A q \in S : st[q].at # "fill"
    <3> SUFFICES ASSUME NEW q \in S, st[q].at = "fill" PROVE FALSE OBVIOUS
    <3>1. PICK i \in Inums : i = st[q].ip /\ i = Wants(q) BY <2>2 DEF Wants
    <3>2. PICK s \in S : st[s].cur = i BY <2>3, <3>1
    <3>3. Fresh(i) BY <3>1 DEF Fresh, InTheMaking, At
    <3>4. Needs(st[s], cwd[s], file[s], i) BY <3>2 DEF Needs
    <3>5. s \in Procs BY <3>2
    <3>6. InUse(i) BY <3>4, <3>5, RegsAre
    <3> QED BY <3>3, <3>6 DEF Inv, FreshInv
  <2>5. PICK Q : Q = {q \in S : st[q].at = "unlink2"} OBVIOUS
  <2>6. PICK D : D = {st[q].cur : q \in Q} OBVIOUS
  <2>7. \A p \in S : Wants(p) \in D BY <2>3, <2>4, <2>5, <2>6
  <2>8. D # {} BY <2>7
  <2>9. D \subseteq Inums
    <3>1. \A q \in Q : \E p \in S : st[q].cur = Wants(p) \/ st[q].cur \in Inums
      <4> TAKE q \in Q
      <4>1. q \in Procs /\ st[q].at = "unlink2" BY <2>5
      <4>2. RegsOK(st[q], cwd[q]) /\ st[q] \in Registers BY <4>1, RegsAre
      <4>3. st[q].cur # None BY <4>1, <4>2 DEF RegsOK, Point, Puts
      <4>4. st[q].cur \in Inums BY <4>2, <4>3 DEF Registers
      <4> QED BY <2>5, <4>4
    <3> QED BY <2>2, <2>6, <3>1
  <2>10. PICK d \in D : \A n \in Names : entries[d][n] \notin D
    <3>1. D \in (SUBSET Inums) \ {{}} BY <2>8, <2>9
    <3> QED BY <3>1 DEF Inv, NoLoops
  <2>11. PICK q \in Q : d = st[q].cur BY <2>6
  <2>12. q \in S /\ q \in Procs /\ st[q].at = "unlink2" BY <2>5
  <2>13. st[q].name \in Names /\ entries[d][st[q].name] = st[q].ip
    <3>1. Knows(st[q]) BY <2>12, RegsAre
    <3> QED BY <2>11, <2>12, <3>1 DEF Knows
  <2>14. Wants(q) = st[q].ip BY <2>12 DEF Wants
  <2> QED BY <2>7, <2>10, <2>12, <2>13, <2>14
<1> QED BY <1>1, ConsistentWhileSteady, PTL

-----------------------------------------------------------------------------
(* The file tree *)

TreeStep == [Tree!Next]_(Tree!treeVars)

\* A name leads to it, or the ".." of a directory in it.
Reached(i) == \/ i = ROOTINO \/ (\E d \in Inums, n \in Names : entries[d][n] = i)
              \/ \E n \in Names : entries[i][n] # None /\ KindOf(entries[i][n]) = "dir"

SameNames == \A i \in Inums, n \in Names : entries'[i][n] = entries[i][n]
SameKinds == \A i \in Inums : KindOf(i)' = KindOf(i)
SameUsers == \A i \in Inums : InUse(i)' <=> InUse(i)

\* What does not change these is not seen in the tree.
LEMMA TreeUnchanged ==
  /\ SameNames => TreeNames' = TreeNames
  /\ SameKinds => TreeKinds' = TreeKinds
  /\ SameUsers => TreeUsed' = TreeUsed
<1>1. SameNames => TreeNames' = TreeNames BY DEF SameNames, TreeNames
<1>2. SameKinds => TreeKinds' = TreeKinds BY DEF SameKinds, TreeKinds
<1>3. SameUsers => TreeUsed' = TreeUsed BY DEF SameUsers, TreeUsed
<1> QED BY <1>1, <1>2, <1>3

LEMMA TreeStutters == ASSUME SameNames, SameKinds, SameUsers PROVE TreeStep
BY TreeUnchanged DEF TreeStep, Tree!treeVars

LEMMA NodeReached ==
  ASSUME TypeOK, NEW i \in Inums
  PROVE  /\ Tree!Named(i) \/ Tree!Leads(i) <=> Reached(i)
         /\ TreeKinds[i] = KindOf(i) /\ \A n \in Names : TreeNames[i][n] = entries[i][n]
<1>1. TreeKinds[i] = KindOf(i) /\ \A n \in Names : TreeNames[i][n] = entries[i][n]
  BY DEF TreeKinds, TreeNames
<1>2. Tree!Named(i) <=> i = ROOTINO \/ \E d \in Inums, n \in Names : entries[d][n] = i
  BY DEF Tree!Named, TreeNames
<1>3. Tree!Leads(i) <=> \E n \in Names : entries[i][n] # None /\ KindOf(entries[i][n]) = "dir"
  <2>1. \A n \in Names : entries[i][n] # None => entries[i][n] \in Inums BY DEF TypeOK
  <2>2. \A j \in Inums : TreeKinds[j] = KindOf(j) BY DEF TreeKinds
  <2> QED BY <1>1, <2>1, <2>2 DEF Tree!Leads
<1> QED BY <1>1, <1>2, <1>3 DEF Reached

\* Somebody comes to j.
LEMMA NodeUsed ==
  ASSUME TypeOK, SameNames, SameKinds, NEW j \in Inums, Reached(j),
         \A i \in Inums : InUse(i)' <=> InUse(i) \/ i = j
  PROVE  TreeStep
<1>1. TreeNames' = TreeNames /\ TreeKinds' = TreeKinds BY TreeUnchanged
<1>2. TreeUsed' = TreeUsed \cup {j} BY DEF TreeUsed
<1>3. Tree!Use(j) BY <1>1, <1>2, NodeReached DEF Tree!Use
<1> QED BY <1>3 DEF TreeStep, Tree!Next

\* The last user of j leaves it.
LEMMA NodeLeft ==
  ASSUME SameNames, SameKinds, NEW j \in Inums, InUse(j),
         \A i \in Inums : InUse(i)' <=> InUse(i) /\ i # j
  PROVE  TreeStep
<1>1. TreeNames' = TreeNames /\ TreeKinds' = TreeKinds BY TreeUnchanged
<1>2. TreeUsed' = TreeUsed \ {j} /\ j \in TreeUsed BY DEF TreeUsed
<1>3. Tree!Leave(j) BY <1>1, <1>2 DEF Tree!Leave
<1> QED BY <1>3 DEF TreeStep, Tree!Next

\* Nobody can come to j, and it is freed.
LEMMA NodeReclaimed ==
  ASSUME TypeOK, SameUsers, NEW j \in Inums, KindOf(j) # "free", ~Reached(j), ~InUse(j),
         \A i \in Inums \ {j} : KindOf(i)' = KindOf(i), KindOf(j)' = "free",
         \A i \in Inums \ {j}, n \in Names : entries'[i][n] = entries[i][n],
         \A n \in Names : entries'[j][n] = None
  PROVE  TreeStep
<1>1. TreeUsed' = TreeUsed /\ j \notin TreeUsed BY TreeUnchanged DEF TreeUsed
<1>2. TreeKinds' = [TreeKinds EXCEPT ![j] = "free"] BY DEF TreeKinds
<1>3. TreeNames' = [TreeNames EXCEPT ![j] = [n \in Names |-> None]] BY DEF TreeNames
<1>4. Tree!Reclaim(j) BY <1>1, <1>2, <1>3, NodeReached DEF Tree!Reclaim
<1> QED BY <1>4 DEF TreeStep, Tree!Next

\* Only the name n of d changes, to i.
NewName(d, n, i) == \A e \in Inums, m \in Names : entries'[e][m] = IF e = d /\ m = n THEN i ELSE entries[e][m]

LEMMA NameIs ==
  ASSUME NEW d \in Inums, NEW n \in Names, NEW i, NewName(d, n, i)
  PROVE  TreeNames' = [TreeNames EXCEPT ![d][n] = i]
<1>1. PICK E : E = [TreeNames[d] EXCEPT ![n] = i] OBVIOUS
<1>2. TreeNames[d] = [m \in Names |-> entries[d][m]] BY DEF TreeNames
<1>3. E = [m \in Names |-> entries'[d][m]] BY <1>1, <1>2 DEF NewName
<1>4. \A e \in Inums \ {d} : TreeNames[e] = [m \in Names |-> entries'[e][m]]
  BY DEF NewName, TreeNames
<1>5. TreeNames' = [TreeNames EXCEPT ![d] = E] BY <1>3, <1>4 DEF TreeNames
<1> QED BY <1>1, <1>5

LEMMA NodeMade ==
  ASSUME TypeOK, NEW d \in Inums, NEW n \in Names, NEW i \in Inums, NEW k \in {"dir", "file"},
         InUse(d), KindOf(d) = "dir", entries[d][n] = None, NewName(d, n, i),
         KindOf(i) = "free", KindOf(i)' = k, \A j \in Inums \ {i} : KindOf(j)' = KindOf(j),
         \A j \in Inums : InUse(j)' <=> InUse(j) \/ j = i
  PROVE  TreeStep
<1>1. TreeNames' = [TreeNames EXCEPT ![d][n] = i] BY NameIs
<1>2. TreeKinds' = [TreeKinds EXCEPT ![i] = k] BY DEF TreeKinds
<1>3. TreeUsed' = TreeUsed \cup {i} /\ d \in TreeUsed BY DEF TreeUsed
<1>4. Tree!Make(d, n, i, k) BY <1>1, <1>2, <1>3, NodeReached DEF Tree!Make, Tree!Give
<1> QED BY <1>4 DEF TreeStep, Tree!Next

LEMMA NodeLinked ==
  ASSUME TypeOK, SameKinds, SameUsers, NEW d \in Inums, NEW n \in Names, NEW i \in Inums,
         InUse(d), KindOf(d) = "dir", entries[d][n] = None, NewName(d, n, i),
         KindOf(i) = "file", InUse(i)
  PROVE  TreeStep
<1>1. TreeNames' = [TreeNames EXCEPT ![d][n] = i] BY NameIs
<1>2. TreeKinds' = TreeKinds /\ TreeUsed' = TreeUsed BY TreeUnchanged
<1>3. i \in TreeUsed /\ d \in TreeUsed BY DEF TreeUsed
<1>4. Tree!Link(d, n, i) BY <1>1, <1>2, <1>3, NodeReached DEF Tree!Link, Tree!Give
<1> QED BY <1>4 DEF TreeStep, Tree!Next

LEMMA NodeUnlinked ==
  ASSUME TypeOK, SameKinds, SameUsers, NEW d \in Inums, NEW n \in Names, NEW i \in Inums,
         InUse(d), entries[d][n] = i, NewName(d, n, None), \A m \in Names : entries[i][m] = None
  PROVE  TreeStep
<1>1. TreeNames' = [TreeNames EXCEPT ![d][n] = None] BY NameIs
<1>2. TreeKinds' = TreeKinds /\ TreeUsed' = TreeUsed BY TreeUnchanged
<1>3. d \in TreeUsed BY DEF TreeUsed
<1>4. TreeNames[d][n] = i /\ i # None BY NodeReached, Sorts
<1>5. Tree!Empty(i) BY NodeReached DEF Tree!Empty
<1>6. Tree!Remove(d, n) BY <1>1, <1>2, <1>3, <1>4, <1>5 DEF Tree!Remove
<1> QED BY <1>6 DEF TreeStep, Tree!Next

\* Users of an inode before and after a step of p.
OthersUse(p, i) == \E q \in Procs \ {p} : Needs(st[q], cwd[q], file[q], i)

LEMMA UsersMove ==
  ASSUME NEW p \in Procs, NEW r, NEW c, NEW h,
         \A q \in Procs \ {p} : st'[q] = st[q] /\ cwd'[q] = cwd[q] /\ file'[q] = file[q],
         st'[p] = r, cwd'[p] = c, file'[p] = h, NEW i \in Inums
  PROVE  /\ InUse(i) <=> Needs(st[p], cwd[p], file[p], i) \/ OthersUse(p, i)
         /\ InUse(i)' <=> Needs(r, c, h, i) \/ OthersUse(p, i)
<1>1. InUse(i) <=> \E q \in Procs : Needs(st[q], cwd[q], file[q], i)
  BY Using DEF UsesAre, InUse
<1>2. InUse(i)' <=> \E q \in Procs : Needs(st'[q], cwd'[q], file'[q], i)
  BY UsingNext DEF UsesAre, InUse
<1>3. \A q \in Procs \ {p} : Needs(st'[q], cwd'[q], file'[q], i) <=> Needs(st[q], cwd[q], file[q], i)
  OBVIOUS
<1>4. Needs(st'[p], cwd'[p], file'[p], i) <=> Needs(r, c, h, i) OBVIOUS
<1> QED BY <1>1, <1>2, <1>3, <1>4 DEF OthersUse

\* The registers after a step of p.
LEMMA After ==
  ASSUME TypeOK, NEW p \in Procs, NEW r, NEW c, NEW h, Becomes(p, r, c, h)
  PROVE  /\ \A q \in Procs \ {p} : st'[q] = st[q] /\ cwd'[q] = cwd[q] /\ file'[q] = file[q]
         /\ st'[p] = r /\ cwd'[p] = c /\ file'[p] = h
BY DEF Becomes, TypeOK

LEMMA UsersAfter ==
  ASSUME TypeOK, NEW p \in Procs, NEW r, NEW c, NEW h, Becomes(p, r, c, h), NEW i \in Inums
  PROVE  /\ InUse(i) <=> Needs(st[p], cwd[p], file[p], i) \/ OthersUse(p, i)
         /\ InUse(i)' <=> Needs(r, c, h, i) \/ OthersUse(p, i)
BY After, UsersMove

LEMMA MakingAfter ==
  ASSUME TypeOK, NEW p \in Procs, NEW r, NEW c, NEW h, Becomes(p, r, c, h), NEW i \in Inums
  PROVE  InTheMaking(i)' <=> Making(r) = i \/ \E q \in Procs \ {p} : Making(st[q]) = i
<1>1. InTheMaking(i)' <=> \E q \in Procs : Making(st'[q]) = i BY CallingNext DEF CallsAre
<1> QED BY <1>1, After

LEMMA KindsAfter ==
  ASSUME TypeOK, NEW p \in Procs, NEW r, NEW c, NEW h, Becomes(p, r, c, h),
         Making(r) = Making(st[p]), \A i \in Inums : disk'[i].type = disk[i].type
  PROVE  SameKinds
<1> SUFFICES ASSUME NEW i \in Inums PROVE KindOf(i)' = KindOf(i) BY DEF SameKinds
<1>1. InTheMaking(i) <=> \E q \in Procs : Making(st[q]) = i BY Calling DEF CallsAre
<1>2. InTheMaking(i)' <=> InTheMaking(i) BY <1>1, MakingAfter
<1> QED BY <1>2 DEF KindOf

\* A step of p that leaves the directories as they are, and changes at most whether p needs j.
LEMMA QuietTreeStep ==
  ASSUME Inv, NEW p \in Procs, NEW r, NEW c, NEW h, Becomes(p, r, c, h),
         SameNames, \A i \in Inums : disk'[i].type = disk[i].type, Making(r) = Making(st[p]),
         NEW j \in Inums,
         \A i \in Inums \ {j} : Needs(r, c, h, i) <=> Needs(st[p], cwd[p], file[p], i),
         Needs(r, c, h, j) => Needs(st[p], cwd[p], file[p], j) \/ InUse(j) \/ Reached(j)
  PROVE  TreeStep
<1>1. TypeOK BY DEF Inv
<1>2. SameKinds BY <1>1, KindsAfter
<1>3. \A i \in Inums : /\ InUse(i) <=> Needs(st[p], cwd[p], file[p], i) \/ OthersUse(p, i)
                       /\ InUse(i)' <=> Needs(r, c, h, i) \/ OthersUse(p, i)
  BY <1>1, UsersAfter
<1>4. \A i \in Inums \ {j} : InUse(i)' <=> InUse(i) BY <1>3
<1>5. CASE InUse(j)' <=> InUse(j)
  <2>1. SameUsers BY <1>4, <1>5 DEF SameUsers
  <2> QED BY <1>2, <2>1, TreeStutters
<1>6. CASE InUse(j)' /\ ~InUse(j)
  <2>1. Reached(j) BY <1>3, <1>6
  <2>2. \A i \in Inums : InUse(i)' <=> InUse(i) \/ i = j BY <1>4, <1>6
  <2> QED BY <1>1, <1>2, <2>1, <2>2, NodeUsed
<1>7. CASE ~InUse(j)' /\ InUse(j)
  <2>1. \A i \in Inums : InUse(i)' <=> InUse(i) /\ i # j BY <1>4, <1>7
  <2> QED BY <1>2, <1>7, <2>1, NodeLeft
<1> QED BY <1>5, <1>6, <1>7

LEMMA SameNeeds ==
  ASSUME Inv, NEW p \in Procs, NEW r, NEW c, NEW h, Becomes(p, r, c, h),
         SameNames, \A i \in Inums : disk'[i].type = disk[i].type, Making(r) = Making(st[p]),
         \A i \in Inums : Needs(r, c, h, i) <=> Needs(st[p], cwd[p], file[p], i)
  PROVE  TreeStep
BY QuietTreeStep, Sorts

\* The current inode is about to be put, or the other one; or a file is open.
LEMMA TreeDropCur ==
  ASSUME Inv, NEW p \in Procs, NEW x \in Points, st[p].at \notin Puts, st[p].at # "fill", st[p].cur \in Inums,
         st' = [st EXCEPT ![p] = DropCur(st[p], x)], cwd' = cwd, file' = file,
         SameNames, \A i \in Inums : disk'[i].type = disk[i].type
  PROVE  TreeStep
<1>1. /\ st[p] \in Registers /\ st[p].drop = <<>>
      /\ First(st[p].drop) = None /\ Second(st[p].drop) = None
  BY Idle, RegsAre
<1>2. PICK r : r = DropCur(st[p], x) OBVIOUS
<1>3. /\ r.at = "put" /\ r.cur = None /\ r.ip = st[p].ip /\ First(r.drop) = st[p].cur /\ Second(r.drop) = None
  BY <1>1, <1>2, DropCurIs
<1>4. Becomes(p, r, cwd[p], file[p]) BY <1>2 DEF Becomes, Inv, TypeOK
<1>5. Making(r) = Making(st[p]) BY <1>3 DEF Making
<1>6. \A i \in Inums : Needs(r, cwd[p], file[p], i) <=> Needs(st[p], cwd[p], file[p], i)
  BY <1>1, <1>3, Sorts DEF Needs, Puts
<1> QED BY <1>4, <1>5, <1>6, SameNeeds

LEMMA TreeDropIp ==
  ASSUME Inv, NEW p \in Procs, NEW x \in Points, st[p].at \notin Puts, st[p].at # "fill", st[p].ip \in Inums,
         st' = [st EXCEPT ![p] = DropIp(st[p], x)], cwd' = cwd, file' = file,
         SameNames, \A i \in Inums : disk'[i].type = disk[i].type
  PROVE  TreeStep
<1>1. /\ st[p] \in Registers /\ st[p].drop = <<>>
      /\ First(st[p].drop) = None /\ Second(st[p].drop) = None
  BY Idle, RegsAre
<1>2. PICK r : r = DropIp(st[p], x) OBVIOUS
<1>3. /\ r.at = "put" /\ r.ip = None /\ r.cur = st[p].cur /\ First(r.drop) = st[p].ip /\ Second(r.drop) = None
  BY <1>1, <1>2, DropIpIs
<1>4. Becomes(p, r, cwd[p], file[p]) BY <1>2 DEF Becomes, Inv, TypeOK
<1>5. Making(r) = Making(st[p]) BY <1>3 DEF Making
<1>6. \A i \in Inums : Needs(r, cwd[p], file[p], i) <=> Needs(st[p], cwd[p], file[p], i)
  BY <1>1, <1>3, Sorts DEF Needs, Puts
<1> QED BY <1>4, <1>5, <1>6, SameNeeds

LEMMA TreeOpened ==
  ASSUME Inv, NEW p \in Procs, NEW i \in Inums, NEW w \in BOOLEAN,
         st[p].at \in {"open", "openr", "exists", "filled"},
         i = IF st[p].at \in {"open", "openr"} THEN st[p].cur ELSE st[p].ip,
         file[p] = None, Opened(p, i, w), SameNames, \A j \in Inums : disk'[j].type = disk[j].type
  PROVE  TreeStep
<1>1. st[p].at \notin Puts BY DEF Puts
<1>2. /\ RegsOK(st[p], cwd[p]) /\ Point(st[p]) = st[p].at
      /\ First(st[p].drop) = None /\ Second(st[p].drop) = None
  BY <1>1, Idle, RegsAre
<1>3. IF st[p].at \in {"open", "openr"} THEN st[p].ip = None ELSE st[p].cur = None
  BY <1>2 DEF RegsOK, AtPath, OnPaths
<1>4. Becomes(p, AtRest, cwd[p], i) BY DEF Opened, Go, Becomes, Inv, TypeOK
<1>5. Making(AtRest) = Making(st[p]) BY RestIs DEF Making
<1>6. \A j \in Inums : Needs(AtRest, cwd[p], i, j) <=> Needs(st[p], cwd[p], file[p], j)
  BY <1>1, <1>2, <1>3, RestIs, Sorts DEF Needs, Puts
<1> QED BY <1>4, <1>5, <1>6, SameNeeds

LEMMA SameEntries == ASSUME entries' = entries PROVE SameNames
BY DEF SameNames

\* A path begins at the root, or at the directory of the process.
LEMMA TreeStart ==
  ASSUME Inv, NEW p \in Procs, NEW r, Becomes(p, r, cwd[p], file[p]),
         SameNames, \A j \in Inums : disk'[j].type = disk[j].type, Making(r) = Making(st[p]),
         NEW i \in Inums, i # ROOTINO => i = cwd[p],
         \A j \in Inums : Needs(r, cwd[p], file[p], j) <=> Needs(st[p], cwd[p], file[p], j) \/ j = i
  PROVE  TreeStep
<1>1. CASE i = ROOTINO
  <2>1. Reached(i) BY <1>1 DEF Reached
  <2> QED BY <2>1, QuietTreeStep
<1>2. CASE i = cwd[p]
  <2>1. Needs(st[p], cwd[p], file[p], i) BY <1>2 DEF Needs
  <2> QED BY <2>1, SameNeeds
<1> QED BY <1>1, <1>2

\* The calls that come to nothing in the tree.
LEMMA TreeBegin ==
  ASSUME Inv, NEW p \in Procs, NEW op, NEW path, NEW new, Begin(p, op, path, new)
  PROVE  TreeStep
<1>1. st[p].at = "user" /\ st[p].at \notin Puts BY DEF Begin, At, Puts
<1>2. /\ RegsOK(st[p], cwd[p]) /\ Point(st[p]) = st[p].at
      /\ First(st[p].drop) = None /\ Second(st[p].drop) = None
  BY <1>1, Idle, RegsAre
<1>3. st[p].ip = None /\ st[p].cur = None /\ cwd[p] # None BY <1>1, <1>2 DEF RegsOK, AtPath, OnPaths
<1>10. PICK i \in Starts(p) :
         Go(p, [AtRest EXCEPT !.at = "walk", !.op = op, !.cur = i, !.rest = path, !.new = new])
  BY DEF Begin
<1>4. PICK r : r = [AtRest EXCEPT !.at = "walk", !.op = op, !.cur = i, !.rest = path, !.new = new] OBVIOUS
<1>5. r.at = "walk" /\ r.cur = i /\ r.drop = <<>> /\ r.ip = None
  BY <1>4 DEF AtRest
<1>6. First(r.drop) = None /\ Second(r.drop) = None BY <1>5, EmptySeq DEF First, Second
<1>7. Becomes(p, r, cwd[p], file[p]) /\ disk' = disk /\ entries' = entries
  BY <1>4, <1>10 DEF Begin, Go, procVars, Becomes, Inv, TypeOK
<1>8. Making(r) = Making(st[p]) BY <1>1, <1>5 DEF Making
<1>11. i \in Inums /\ (i # ROOTINO => i = cwd[p])
  BY <1>3, StartIsThere DEF Starts
<1>9. \A j \in Inums : Needs(r, cwd[p], file[p], j) <=> Needs(st[p], cwd[p], file[p], j) \/ j = i
  BY <1>1, <1>2, <1>3, <1>5, <1>6, Sorts DEF Needs
<1> QED BY <1>7, <1>8, <1>9, <1>11, TreeStart, SameEntries

LEMMA TreeLinkWalk ==
  ASSUME Inv, NEW p \in Procs, LinkWalk(p)
  PROVE  TreeStep
<1>1. st[p].at = "linkwalk" /\ st[p].at \notin Puts BY DEF LinkWalk, At, Puts
<1>2. /\ RegsOK(st[p], cwd[p]) /\ Point(st[p]) = st[p].at /\ st[p] \in Registers
  BY <1>1, Idle, RegsAre
<1>3. st[p].cur = None /\ cwd[p] # None BY <1>1, <1>2 DEF RegsOK, AtPath, OnPaths
<1>9. PICK i \in Starts(p) :
        Go(p, [st[p] EXCEPT !.at = "walk", !.op = "relink", !.cur = i,
                          !.rest = st[p].new, !.new = <<>>])
  BY DEF LinkWalk
<1>4. PICK r : r = [st[p] EXCEPT !.at = "walk", !.op = "relink", !.cur = i, !.rest = st[p].new, !.new = <<>>]
  OBVIOUS
<1>5. r.at = "walk" /\ r.cur = i /\ r.drop = st[p].drop /\ r.ip = st[p].ip
  BY <1>2, <1>4 DEF Registers
<1>6. Becomes(p, r, cwd[p], file[p]) /\ disk' = disk /\ entries' = entries
  BY <1>4, <1>9 DEF LinkWalk, Go, procVars, Becomes, Inv, TypeOK
<1>7. Making(r) = Making(st[p]) BY <1>1, <1>5 DEF Making
<1>10. i \in Inums /\ (i # ROOTINO => i = cwd[p]) BY <1>3, StartIsThere DEF Starts
<1>8. \A j \in Inums : Needs(r, cwd[p], file[p], j) <=> Needs(st[p], cwd[p], file[p], j) \/ j = i
  BY <1>1, <1>3, <1>5, Sorts DEF Needs
<1> QED BY <1>6, <1>7, <1>8, <1>10, TreeStart, SameEntries

LEMMA TreeClose ==
  ASSUME Inv, NEW p \in Procs, Close(p)
  PROVE  TreeStep
<1>1. st[p].at = "user" /\ st[p].at \notin Puts /\ file[p] # None BY DEF Close, At, Puts
<1>2. /\ RegsOK(st[p], cwd[p]) /\ Point(st[p]) = st[p].at
      /\ First(st[p].drop) = None /\ Second(st[p].drop) = None
  BY <1>1, Idle, RegsAre
<1>3. PICK i \in Inums : i = file[p] BY <1>1, RegsAre
<1>4. PICK r : r = [AtRest EXCEPT !.at = "put", !.drop = <<i>>] OBVIOUS
<1>5. r.at = "put" /\ r.cur = None /\ r.drop = <<i>> /\ r.ip = None BY <1>4 DEF AtRest
<1>6. First(r.drop) = i /\ Second(r.drop) = None BY <1>5, Singles
<1>7. Becomes(p, r, cwd[p], None) /\ disk' = disk /\ entries' = entries
  BY <1>3, <1>4 DEF Close, Go, Becomes, Inv, TypeOK
<1>8. st[p].ip = None /\ st[p].cur = None BY <1>1, <1>2 DEF RegsOK, AtPath, OnPaths
<1>9. Making(r) = Making(st[p]) BY <1>1, <1>5 DEF Making
<1>10. \A j \in Inums : Needs(r, cwd[p], None, j) <=> Needs(st[p], cwd[p], file[p], j)
  BY <1>1, <1>2, <1>3, <1>5, <1>6, <1>8, Sorts DEF Needs
<1> QED BY <1>7, <1>9, <1>10, SameNeeds, SameEntries

LEMMA TreeWrite ==
  ASSUME Inv, NEW p \in Procs, Write(p)
  PROVE  TreeStep
<1>1. PICK i \in Inums : i = file[p] BY RegsAre DEF Write
<1>2. PICK v : Grows(i, v) BY <1>1, WriteGrows
<1>3. \A j \in Inums : disk'[j].type = disk[j].type BY <1>2 DEF Grows, Inv, TypeOK
<1>4. Becomes(p, st[p], cwd[p], file[p]) /\ entries' = entries
  BY DEF Write, procVars, Becomes, Inv, TypeOK
<1> QED BY <1>3, <1>4, SameNeeds, SameEntries

LEMMA TreePut ==
  ASSUME Inv, NEW p \in Procs, Put(p)
  PROVE  TreeStep
<1>1. /\ st[p].at = "put" /\ st[p] \in Registers /\ st[p].drop \in Seq(Inums) /\ st[p].drop # <<>>
      /\ Len(st[p].drop) <= 2
  BY RegsAre DEF Put, At, RegsOK, Puts
<1>2. PICK i \in Inums : i = st[p].drop[1] /\ i = Head(st[p].drop) /\ First(st[p].drop) = i BY <1>1, DropTail
<1>3. PICK x \in {"free", "unref"} : st' = [st EXCEPT ![p] = [st[p] EXCEPT !.at = x]]
  BY <1>2 DEF Put, Go
<1>4. PICK r : r = [st[p] EXCEPT !.at = x] OBVIOUS
<1>5. r.at = x /\ r.drop = st[p].drop /\ r.cur = st[p].cur /\ r.ip = st[p].ip
  BY <1>1, <1>4 DEF Registers
<1>6. Becomes(p, r, cwd[p], file[p]) /\ disk' = disk /\ entries' = entries
  BY <1>3, <1>4 DEF Put, procVars, Becomes, Inv, TypeOK
<1>7. Making(r) = Making(st[p]) BY <1>1, <1>5 DEF Making
<1>8. \A j \in Inums \ {i} : Needs(r, cwd[p], file[p], j) <=> Needs(st[p], cwd[p], file[p], j)
  BY <1>1, <1>2, <1>5 DEF Needs
<1>9. Needs(st[p], cwd[p], file[p], i) BY <1>1, <1>2 DEF Needs
<1> QED BY <1>6, <1>7, <1>8, <1>9, QuietTreeStep, SameEntries

LEMMA TreeInvalidate ==
  ASSUME Inv, NEW p \in Procs, Invalidate(p)
  PROVE  TreeStep
<1>1. st[p].at = "invalidate" /\ st[p] \in Registers BY RegsAre DEF Invalidate, At
<1>2. PICK r : r = [st[p] EXCEPT !.at = "unref"] OBVIOUS
<1>3. r.at = "unref" /\ r.drop = st[p].drop /\ r.cur = st[p].cur /\ r.ip = st[p].ip
  BY <1>1, <1>2 DEF Registers
<1>4. Becomes(p, r, cwd[p], file[p]) /\ disk' = disk /\ entries' = entries
  BY <1>2 DEF Invalidate, Go, procVars, Becomes, Inv, TypeOK
<1>5. Making(r) = Making(st[p]) BY <1>1, <1>3 DEF Making
<1>6. \A j \in Inums : Needs(r, cwd[p], file[p], j) <=> Needs(st[p], cwd[p], file[p], j)
  BY <1>1, <1>3 DEF Needs
<1> QED BY <1>4, <1>5, <1>6, SameNeeds, SameEntries

LEMMA TreeUnref ==
  ASSUME Inv, NEW p \in Procs, Unref(p)
  PROVE  TreeStep
<1>1. /\ st[p].at = "unref" /\ st[p] \in Registers /\ RegsOK(st[p], cwd[p])
      /\ st[p].drop \in Seq(Inums) /\ st[p].drop # <<>> /\ Len(st[p].drop) <= 2
  BY RegsAre DEF Unref, At, RegsOK, Puts
<1>2. PICK left \in Seq(Inums) : left = Tail(st[p].drop) BY <1>1, DropTail
<1>3. /\ First(left) = Second(st[p].drop) /\ Second(left) = None
      /\ (left = <<>> <=> Second(st[p].drop) = None)
  BY <1>1, <1>2, DropTail
<1>4. PICK r : r = IF left # <<>> THEN [st[p] EXCEPT !.at = "put", !.drop = left]
                   ELSE IF st[p].then = "user" THEN AtRest
                   ELSE [st[p] EXCEPT !.at = st[p].then, !.drop = left, !.then = "user"]
  OBVIOUS
<1>5. Becomes(p, r, cwd[p], file[p]) /\ disk' = disk /\ entries' = entries
  BY <1>2, <1>4 DEF Unref, Go, procVars, Becomes, Inv, TypeOK
<1>6. /\ First(r.drop) = Second(st[p].drop) /\ Second(r.drop) = None
      /\ r.cur = st[p].cur /\ r.ip = st[p].ip /\ r.at \notin {"fill", "free", "invalidate", "unref"}
  <2>1. CASE left # <<>>
    <3>1. r.at = "put" /\ r.drop = left /\ r.cur = st[p].cur /\ r.ip = st[p].ip
      BY <1>1, <1>4, <2>1 DEF Registers
    <3> QED BY <1>3, <3>1
  <2>2. CASE left = <<>> /\ st[p].then = "user"
    <3>1. st[p].cur = None /\ st[p].ip = None
      BY <1>1, <2>2 DEF RegsOK, Point, Puts, AtPath, OnPaths
    <3> QED BY <1>3, <1>4, <2>2, <3>1, RestIs
  <2>3. CASE left = <<>> /\ st[p].then # "user"
    <3>1. r.at = st[p].then /\ r.drop = left /\ r.cur = st[p].cur /\ r.ip = st[p].ip
      BY <1>1, <1>4, <2>3 DEF Registers
    <3>2. st[p].then \notin {"fill", "free", "invalidate", "unref"}
      BY <1>1, <2>3 DEF RegsOK, Point, Puts, AtPath, OnPaths
    <3> QED BY <1>3, <3>1, <3>2
  <2> QED BY <2>1, <2>2, <2>3
<1>7. Making(r) = Making(st[p]) BY <1>1, <1>6 DEF Making
<1>8. \A j \in Inums : Needs(r, cwd[p], file[p], j) <=> Needs(st[p], cwd[p], file[p], j)
  BY <1>1, <1>6, Sorts DEF Needs
<1> QED BY <1>5, <1>7, <1>8, SameNeeds, SameEntries

LEMMA TreeMoved ==
  ASSUME Inv, NEW p \in Procs, Moved(p)
  PROVE  TreeStep
<1>1. st[p].at = "moved" /\ st[p].at \notin Puts BY DEF Moved, At, Puts
<1>2. /\ RegsOK(st[p], cwd[p]) /\ Point(st[p]) = st[p].at
      /\ First(st[p].drop) = None /\ Second(st[p].drop) = None
  BY <1>1, Idle, RegsAre
<1>3. st[p].ip = None /\ cwd[p] = None BY <1>1, <1>2 DEF RegsOK, AtPath, OnPaths
<1>4. Becomes(p, AtRest, st[p].cur, file[p]) /\ disk' = disk /\ entries' = entries
  BY DEF Moved, Go, Becomes, Inv, TypeOK
<1>5. Making(AtRest) = Making(st[p]) BY <1>1, RestIs DEF Making
<1>6. \A j \in Inums : Needs(AtRest, st[p].cur, file[p], j) <=> Needs(st[p], cwd[p], file[p], j)
  BY <1>1, <1>2, <1>3, RestIs, Sorts DEF Needs
<1> QED BY <1>4, <1>5, <1>6, SameNeeds, SameEntries

LEMMA TreeOpen ==
  ASSUME Inv, NEW p \in Procs, Open(p)
  PROVE  TreeStep
<1>1. st[p].at \in {"open", "openr"} /\ st[p].at \notin Puts BY DEF Open, Puts
<1>2. PICK i \in Inums : i = st[p].cur
  BY <1>1, Idle, RegsAre DEF RegsOK, AtPath, OnPaths, Registers
<1>3. /\ disk' = disk /\ entries' = entries
      /\ \/ HasFd(p) /\ Opened(p, i, st[p].op = "open")
         \/ Go(p, DropCur(st[p], "user")) /\ UNCHANGED procVars
  BY <1>2 DEF Open
<1>4. CASE HasFd(p) /\ Opened(p, i, st[p].op = "open")
  <2>1. PICK w \in BOOLEAN : w <=> st[p].op = "open" OBVIOUS
  <2>2. Opened(p, i, w) BY <1>4, <2>1 DEF Opened
  <2> QED BY <1>1, <1>2, <1>3, <1>4, <2>2, TreeOpened, SameEntries DEF HasFd
<1>5. CASE Go(p, DropCur(st[p], "user")) /\ UNCHANGED procVars
  <2>1. "user" \in Points BY DEF Points
  <2>2. st' = [st EXCEPT ![p] = DropCur(st[p], "user")] /\ cwd' = cwd /\ file' = file
    BY <1>5 DEF Go, procVars
  <2> QED BY <1>1, <1>2, <1>3, <2>1, <2>2, TreeDropCur, SameEntries
<1> QED BY <1>3, <1>4, <1>5

LEMMA TreeFound ==
  ASSUME Inv, NEW p \in Procs, Exists(p) \/ Filled(p)
  PROVE  TreeStep
<1>1. st[p].at \in {"exists", "filled"} /\ st[p].at \notin Puts BY DEF Exists, Filled, At, Puts
<1>2. PICK i \in Inums : i = st[p].ip
  BY <1>1, Idle, RegsAre DEF RegsOK, Registers
<1>3. /\ disk' = disk /\ entries' = entries
      /\ \/ HasFd(p) /\ Opened(p, i, TRUE)
         \/ Go(p, DropIp(st[p], "user")) /\ UNCHANGED procVars
  <2>1. CASE Exists(p) BY <1>2, <2>1 DEF Exists
  <2>2. CASE Filled(p) BY <1>2, <2>2 DEF Filled
  <2> QED BY <2>1, <2>2
<1>4. CASE HasFd(p) /\ Opened(p, i, TRUE)
  BY <1>1, <1>2, <1>3, <1>4, TreeOpened, SameEntries DEF HasFd
<1>5. CASE Go(p, DropIp(st[p], "user")) /\ UNCHANGED procVars
  <2>1. "user" \in Points BY DEF Points
  <2>2. st' = [st EXCEPT ![p] = DropIp(st[p], "user")] /\ cwd' = cwd /\ file' = file
    BY <1>5 DEF Go, procVars
  <2> QED BY <1>1, <1>2, <1>3, <2>1, <2>2, TreeDropIp, SameEntries
<1> QED BY <1>3, <1>4, <1>5

LEMMA TreeChdir ==
  ASSUME Inv, NEW p \in Procs, Chdir(p)
  PROVE  TreeStep
<1>1. st[p].at = "chdir" /\ st[p].at \notin Puts BY DEF Chdir, At, Puts
<1>2. /\ st[p] \in Registers /\ RegsOK(st[p], cwd[p]) /\ Point(st[p]) = st[p].at
      /\ First(st[p].drop) = None /\ Second(st[p].drop) = None
      /\ cwd[p] \in Inums \cup {None}
  BY <1>1, Idle, RegsAre
<1>3. PICK i \in Inums, k \in Inums : i = st[p].cur /\ k = cwd[p]
  BY <1>1, <1>2 DEF RegsOK, AtPath, OnPaths, Registers
<1>4. /\ disk' = disk /\ entries' = entries /\ file' = file
      /\ \/ /\ Go(p, [st[p] EXCEPT !.at = "put", !.drop = <<k>>, !.then = "moved"])
            /\ cwd' = [cwd EXCEPT ![p] = None]
         \/ Go(p, DropCur(st[p], "user")) /\ cwd' = cwd
  BY <1>3 DEF Chdir
<1>5. CASE Go(p, DropCur(st[p], "user")) /\ cwd' = cwd
  <2>1. "user" \in Points BY DEF Points
  <2>2. st' = [st EXCEPT ![p] = DropCur(st[p], "user")] BY <1>5 DEF Go
  <2> QED BY <1>1, <1>3, <1>4, <1>5, <2>1, <2>2, TreeDropCur, SameEntries
<1>6. CASE /\ Go(p, [st[p] EXCEPT !.at = "put", !.drop = <<k>>, !.then = "moved"])
           /\ cwd' = [cwd EXCEPT ![p] = None]
  <2>1. PICK r : r = [st[p] EXCEPT !.at = "put", !.drop = <<k>>, !.then = "moved"] OBVIOUS
  <2>2. r.at = "put" /\ r.cur = i /\ r.drop = <<k>> /\ r.ip = st[p].ip
    BY <1>2, <1>3, <2>1 DEF Registers
  <2>3. First(r.drop) = k /\ Second(r.drop) = None BY <2>2, Singles
  <2>4. Becomes(p, r, None, file[p]) BY <1>4, <1>6, <2>1 DEF Go, Becomes, Inv, TypeOK
  <2>5. Making(r) = Making(st[p]) BY <1>1, <2>2 DEF Making
  <2>6. \A j \in Inums : Needs(r, None, file[p], j) <=> Needs(st[p], cwd[p], file[p], j)
    BY <1>1, <1>2, <1>3, <2>2, <2>3, Sorts DEF Needs
  <2> QED BY <1>4, <2>4, <2>5, <2>6, SameNeeds, SameEntries
<1> QED BY <1>4, <1>5, <1>6

LEMMA TreeNonempty ==
  ASSUME Inv, NEW p \in Procs, UnlinkNonempty(p)
  PROVE  TreeStep
<1>1. st[p].at = "unlink2" /\ st[p].at \notin Puts BY DEF UnlinkNonempty, At, Puts
<1>2. st[p].ip \in Inums BY <1>1, Idle, RegsAre DEF RegsOK, Registers
<1>3. /\ st' = [st EXCEPT ![p] = DropIp(st[p], "unlinkbad")] /\ cwd' = cwd /\ file' = file
      /\ disk' = disk /\ entries' = entries
  BY DEF UnlinkNonempty, Go, procVars
<1>4. "unlinkbad" \in Points BY DEF Points
<1> QED BY <1>1, <1>2, <1>3, <1>4, TreeDropIp, SameEntries

LEMMA TreeBad ==
  ASSUME Inv, NEW p \in Procs, UnlinkBad(p) \/ Linked(p)
  PROVE  TreeStep
<1>1. st[p].at \in {"unlinkbad", "linked"} /\ st[p].at \notin Puts BY DEF UnlinkBad, Linked, At, Puts
<1>2. st[p].cur \in Inums BY <1>1, Idle, RegsAre DEF RegsOK, Registers
<1>3. PICK x \in Points : st' = [st EXCEPT ![p] = DropCur(st[p], x)]
  <2>1. "user" \in Points /\ "linkbad" \in Points BY DEF Points
  <2> QED BY <2>1 DEF UnlinkBad, Linked, Go
<1>4. cwd' = cwd /\ file' = file /\ disk' = disk /\ entries' = entries
  BY DEF UnlinkBad, Linked, procVars
<1> QED BY <1>1, <1>2, <1>3, <1>4, TreeDropCur, SameEntries

\* A link count is changed.
LEMMA TypeKept ==
  ASSUME Inv, NEW i \in Inums, NEW m, Update([j \in {i} |-> [disk[i] EXCEPT !.nlink = m]])
  PROVE  \A j \in Inums : disk'[j].type = disk[j].type
<1>1. PICK v : v = [disk[i] EXCEPT !.nlink = m] OBVIOUS
<1>2. disk' = [disk EXCEPT ![i] = v] BY <1>1, UpdateOne DEF Inv
<1>3. v.type = disk[i].type BY <1>1 DEF Inv, TypeOK, InodeType
<1> QED BY <1>2, <1>3 DEF Inv, TypeOK

LEMMA TreeCounted ==
  ASSUME Inv, NEW p \in Procs, UnlinkInode(p) \/ LinkBad(p)
  PROVE  TreeStep
<1>1. st[p].at \in {"unlink3", "linkbad"} /\ st[p].at \notin Puts BY DEF UnlinkInode, LinkBad, At, Puts
<1>2. RegsOK(st[p], cwd[p]) /\ Point(st[p]) = st[p].at BY <1>1, Idle, RegsAre
<1>3. PICK i \in Inums : i = st[p].ip BY <1>1, <1>2, RegsAre DEF RegsOK, Registers
<1>4. Inode(i) = disk[i]
  <2>1. CASE UnlinkInode(p)
    <3>1. st[p].at = "unlink3" BY <2>1 DEF UnlinkInode, At
    <3>2. lock[i] = p BY <1>2, <1>3, <3>1, RegsAre DEF Keeps
    <3> QED BY <3>1, <3>2, InodeIsDisk
  <2>2. CASE LinkBad(p)
    <3>1. Lockable(i) BY <1>3, <2>2 DEF LinkBad
    <3> QED BY <3>1, InodeIsDisk DEF Lockable, Free
  <2> QED BY <2>1, <2>2
<1>5. /\ Update([j \in {i} |-> [disk[i] EXCEPT !.nlink = @ - 1]])
      /\ st' = [st EXCEPT ![p] = DropIp(st[p], "user")]
      /\ entries' = entries /\ cwd' = cwd /\ file' = file
  BY <1>3, <1>4 DEF UnlinkInode, LinkBad, Go, procVars
<1>6. \A j \in Inums : disk'[j].type = disk[j].type
  <2>1. PICK m : m = disk[i].nlink - 1 OBVIOUS
  <2>2. Update([j \in {i} |-> [disk[i] EXCEPT !.nlink = m]]) BY <1>5, <2>1
  <2> QED BY <2>2, TypeKept
<1>7. "user" \in Points BY DEF Points
<1> QED BY <1>1, <1>3, <1>5, <1>6, <1>7, TreeDropIp, SameEntries

LEMMA TreeLink ==
  ASSUME Inv, NEW p \in Procs, Link(p)
  PROVE  TreeStep
<1>1. st[p].at = "link" /\ st[p].at \notin Puts BY DEF Link, At, Puts
<1>2. /\ RegsOK(st[p], cwd[p]) /\ Point(st[p]) = st[p].at /\ st[p] \in Registers
  BY <1>1, Idle, RegsAre
<1>3. PICK i \in Inums : i = st[p].cur BY <1>1, <1>2 DEF RegsOK, AtPath, OnPaths, Registers
<1>4. Lockable(i) /\ Inode(i) = disk[i]
  <2>1. Lockable(i) BY <1>3 DEF Link
  <2> QED BY <2>1, InodeIsDisk DEF Lockable, Free
<1>5. /\ entries' = entries /\ cwd' = cwd /\ file' = file
      /\ \/ disk' = disk /\ Go(p, DropCur(st[p], "user"))
         \/ /\ Update([j \in {i} |-> [disk[i] EXCEPT !.nlink = @ + 1]])
            /\ Go(p, [st[p] EXCEPT !.at = "linkwalk", !.ip = i, !.cur = None])
  BY <1>3, <1>4 DEF Link, procVars
<1>6. CASE disk' = disk /\ Go(p, DropCur(st[p], "user"))
  <2>1. "user" \in Points BY DEF Points
  <2>2. st' = [st EXCEPT ![p] = DropCur(st[p], "user")] BY <1>6 DEF Go
  <2> QED BY <1>1, <1>3, <1>5, <1>6, <2>1, <2>2, TreeDropCur, SameEntries
<1>7. CASE /\ Update([j \in {i} |-> [disk[i] EXCEPT !.nlink = @ + 1]])
           /\ Go(p, [st[p] EXCEPT !.at = "linkwalk", !.ip = i, !.cur = None])
  <2>1. PICK r : r = [st[p] EXCEPT !.at = "linkwalk", !.ip = i, !.cur = None] OBVIOUS
  <2>2. r.at = "linkwalk" /\ r.cur = None /\ r.ip = i /\ r.drop = st[p].drop
    BY <1>2, <2>1 DEF Registers
  <2>3. st[p].ip = None BY <1>1, <1>2 DEF RegsOK, AtPath, OnPaths
  <2>4. Becomes(p, r, cwd[p], file[p]) BY <1>5, <1>7, <2>1 DEF Go, Becomes, Inv, TypeOK
  <2>5. Making(r) = Making(st[p]) BY <1>1, <2>2 DEF Making
  <2>6. \A j \in Inums : Needs(r, cwd[p], file[p], j) <=> Needs(st[p], cwd[p], file[p], j)
    BY <1>1, <1>3, <2>2, <2>3, Sorts DEF Needs
  <2>7. \A j \in Inums : disk'[j].type = disk[j].type
    <3>1. PICK m : m = disk[i].nlink + 1 OBVIOUS
    <3>2. Update([j \in {i} |-> [disk[i] EXCEPT !.nlink = m]]) BY <1>7, <3>1
    <3> QED BY <3>2, TypeKept
  <2> QED BY <1>5, <2>4, <2>5, <2>6, <2>7, SameNeeds, SameEntries
<1> QED BY <1>5, <1>6, <1>7

\* What a process finds can be come to in the tree, or somebody is there.
LEMMA FoundIsReached ==
  ASSUME Inv, NEW d \in Inums, InUse(d), disk[d].type = "dir",
         NEW n \in Names \cup Dots, NEW j, j = entries[d][n], j # None,
         n = ".." /\ Removed(d) => ~Removed(j) \/ InUse(j)
  PROVE  j \in Inums /\ (InUse(j) \/ Reached(j))
<1>1. j \in Inums BY DEF Inv, TypeOK
<1>2. CASE n \in Names BY <1>1, <1>2 DEF Reached
<1>3. CASE n = "." BY <1>1, <1>3, DotsThere
<1>4. CASE n = ".." /\ ~Removed(d)
  <2>1. CASE d = ROOTINO BY <1>1, <1>4, <2>1 DEF Inv, DirInv, Reached
  <2>2. CASE NamesOf(d) # {}
    <3>1. PICK s \in NamesOf(d) : TRUE BY <2>2
    <3>2. entries[d][".."] = s[1] BY <3>1 DEF Inv, DirInv
    <3>3. s[2] \in Names /\ entries[s[1]][s[2]] = d BY <3>1 DEF NamesOf
    <3>4. entries[j][s[2]] = d BY <1>4, <3>2, <3>3
    <3>5. KindOf(d) = "dir" BY InUseIsLive DEF KindOf
    <3>6. entries[j][s[2]] # None /\ KindOf(entries[j][s[2]]) = "dir" BY <3>4, <3>5, Sorts
    <3> QED BY <1>1, <3>3, <3>6 DEF Reached
  <2> QED BY <1>4, <2>1, <2>2 DEF Removed
<1>5. CASE n = ".." /\ InUse(j) BY <1>1, <1>5
<1>6. CASE n = ".." /\ ~Removed(j) BY <1>1, <1>6 DEF Removed, NamesOf, Reached
<1> QED BY <1>2, <1>3, <1>4, <1>5, <1>6 DEF Dots

LEMMA FindsReached ==
  ASSUME Inv, Steady, NEW p \in Procs, st[p].cur \in Inums, Lockable(st[p].cur),
         Inode(st[p].cur).type = "dir", NEW n \in Names \cup Dots, NEW j, j = entries[st[p].cur][n], j # None,
         \/ (st[p].at = "walk" /\ n = Head(st[p].rest))
         \/ (st[p].at \in {"create", "mkdir", "relink"} /\ n = st[p].name)
         \/ n \in Names
  PROVE  j \in Inums /\ (InUse(j) \/ Reached(j))
<1>1. PICK d \in Inums : d = st[p].cur OBVIOUS
<1>2. disk[d].type = "dir" BY <1>1, InodeIsDisk DEF Lockable, Free
<1>3. InUse(d)
  <2>1. Needs(st[p], cwd[p], file[p], d) BY <1>1 DEF Needs
  <2> QED BY <2>1, RegsAre
<1>4. ".." \notin Names BY InodesAssumption DEF Dots
<1>5. n = ".." /\ Removed(d) => ~Removed(j) \/ InUse(j)
  <2> SUFFICES ASSUME n = "..", Removed(d) PROVE ~Removed(j) \/ InUse(j)
    OBVIOUS
  <2>1. LooksUp(st[p]) BY <1>4 DEF LooksUp
  <2>2. LET e == entries[st[p].cur][".."] IN ~Removed(e) \/ InUse(e)
    BY <1>1, <2>1 DEF Steady
  <2> QED BY <2>2
<1>6. j = entries[d][n] BY <1>1
<1> QED BY <1>2, <1>3, <1>5, <1>6, FoundIsReached

LEMMA TreeWalk ==
  ASSUME Inv, Steady, NEW p \in Procs, Walk(p)
  PROVE  TreeStep
<1>1. st[p].at = "walk" /\ st[p].at \notin Puts BY DEF Walk, At, Puts
<1>2. /\ st[p] \in Registers /\ RegsOK(st[p], cwd[p])
      /\ st[p].drop = <<>> /\ Point(st[p]) = st[p].at
      /\ First(st[p].drop) = None /\ Second(st[p].drop) = None
  BY <1>1, Idle, RegsAre
<1>3. st[p].cur \in Inums /\ st[p].rest # <<>> /\ st[p].op # "none"
  BY <1>1, <1>2 DEF RegsOK, AtPath, OnPaths, Registers
<1>4. PICK i \in Inums : i = st[p].cur BY <1>3
<1>5. st[p].rest \in Seq(Names \cup Dots) BY <1>2 DEF Registers
<1>6. PICK n \in Names \cup Dots : n = Head(st[p].rest) BY <1>3, <1>5, HeadTailProperties
<1>7. PICK j : j = entries[i][n] OBVIOUS
<1>8. /\ Lockable(i) /\ disk' = disk /\ entries' = entries /\ cwd' = cwd /\ file' = file
      /\ \/ Go(p, DropCur(st[p], Failed(st[p].op)))
         \/ /\ st[p].op \in ToParent
            /\ Go(p, [st[p] EXCEPT !.at = st[p].op, !.name = n, !.rest = <<>>])
         \/ /\ Inode(i).type = "dir" /\ j # None
            /\ Go(p, [DropCur(st[p], IF Len(st[p].rest) = 1 THEN st[p].op ELSE "walk")
                        EXCEPT !.cur = j, !.rest = Tail(@)])
  BY <1>4, <1>6, <1>7 DEF Walk, procVars
<1>9. CASE Go(p, DropCur(st[p], Failed(st[p].op)))
  <2>1. PICK x \in Points : x = Failed(st[p].op) BY DEF Failed, Points
  <2>2. st' = [st EXCEPT ![p] = DropCur(st[p], x)] BY <1>9, <2>1 DEF Go
  <2> QED BY <1>1, <1>3, <1>8, <2>2, TreeDropCur, SameEntries
<1>10. CASE /\ st[p].op \in ToParent
            /\ Go(p, [st[p] EXCEPT !.at = st[p].op, !.name = n, !.rest = <<>>])
  <2>1. PICK r : r = [st[p] EXCEPT !.at = st[p].op, !.name = n, !.rest = <<>>] OBVIOUS
  <2>2. r.at = st[p].op /\ r.cur = i /\ r.drop = st[p].drop /\ r.ip = st[p].ip
    BY <1>2, <1>4, <2>1 DEF Registers
  <2>3. Becomes(p, r, cwd[p], file[p]) BY <1>8, <1>10, <2>1 DEF Go, Becomes, Inv, TypeOK
  <2>4. r.at \notin Puts /\ r.at # "fill" BY <1>10, <2>2 DEF ToParent, Puts
  <2>5. Making(r) = Making(st[p]) BY <1>1, <2>4 DEF Making
  <2>6. \A k \in Inums : Needs(r, cwd[p], file[p], k) <=> Needs(st[p], cwd[p], file[p], k)
    BY <1>1, <1>2, <1>4, <2>2, <2>4, Sorts DEF Needs
  <2> QED BY <1>8, <2>3, <2>5, <2>6, SameNeeds, SameEntries
<1>11. CASE /\ Inode(i).type = "dir" /\ j # None
            /\ Go(p, [DropCur(st[p], IF Len(st[p].rest) = 1 THEN st[p].op ELSE "walk")
                        EXCEPT !.cur = j, !.rest = Tail(@)])
  <2>1. j \in Inums /\ (InUse(j) \/ Reached(j))
    BY <1>1, <1>3, <1>4, <1>6, <1>7, <1>8, <1>11, FindsReached
  <2>2. PICK x : x = IF Len(st[p].rest) = 1 THEN st[p].op ELSE "walk" OBVIOUS
  <2>3. x \in Points
    <3>1. st[p].op \in OnPaths \cup {"link", "relink"} BY <1>2, <1>3 DEF Registers
    <3> QED BY <2>2, <3>1 DEF Points
  <2>4. PICK t : t = Tail(st[p].rest) OBVIOUS
  <2>5. PICK r0 : r0 = DropCur(st[p], x) OBVIOUS
  <2>6. /\ r0 \in Registers /\ r0.at = "put" /\ r0.drop = <<i>> /\ r0.ip = st[p].ip
        /\ First(r0.drop) = i /\ Second(r0.drop) = None /\ r0.rest = st[p].rest
    BY <1>2, <1>4, <2>3, <2>5, DropCurIs
  <2>7. PICK r : r = [r0 EXCEPT !.cur = j, !.rest = t] OBVIOUS
  <2>8. r.at = "put" /\ r.drop = r0.drop /\ r.ip = st[p].ip /\ r.cur = j
    BY <2>6, <2>7 DEF Registers
  <2>9. st' = [st EXCEPT ![p] = r]
    <3>1. r = [DropCur(st[p], x) EXCEPT !.cur = j, !.rest = Tail(@)]
      BY <2>4, <2>5, <2>6, <2>7
    <3> QED BY <1>11, <2>2, <3>1 DEF Go
  <2>10. Becomes(p, r, cwd[p], file[p]) BY <1>8, <2>9 DEF Becomes, Inv, TypeOK
  <2>11. Making(r) = Making(st[p]) BY <1>1, <2>8 DEF Making
  <2>12. \A k \in Inums \ {j} : Needs(r, cwd[p], file[p], k) <=> Needs(st[p], cwd[p], file[p], k)
    BY <1>1, <1>2, <1>4, <2>6, <2>8, Sorts DEF Needs
  <2> QED BY <1>8, <2>1, <2>10, <2>11, <2>12, QuietTreeStep, SameEntries
<1> QED BY <1>8, <1>9, <1>10, <1>11

LEMMA TreeCreateFound ==
  ASSUME Inv, Steady, NEW p \in Procs, Create(p), entries[st[p].cur][st[p].name] # None
  PROVE  TreeStep
<1>1. st[p].at \in {"create", "mkdir"} BY DEF Create
<1>2. PICK i \in Inums : i = st[p].cur BY <1>1, AtParent
<1>3. PICK j : j = entries[st[p].cur][st[p].name] OBVIOUS
<1>4. /\ Lockable(i) /\ Go(p, [DropCur(st[p], "exists") EXCEPT !.ip = j])
      /\ UNCHANGED <<disk, entries, cwd, file>>
  BY <1>2, <1>3 DEF Create, procVars
<1>5. j \in Inums /\ (InUse(j) \/ Reached(j))
  <2>1. Inode(i).type = "dir" BY <1>1, <1>2, <1>4, AtParent, InodeIsDisk DEF Lockable, Free
  <2> QED BY <1>1, <1>2, <1>3, <1>4, <2>1, AtParent, FindsReached
<1>6. PICK r0 : r0 = DropCur(st[p], "exists") OBVIOUS
<1>7. /\ r0 \in Registers /\ r0.at = "put" /\ r0.cur = None
      /\ First(r0.drop) = i /\ Second(r0.drop) = None
  <2>1. "exists" \in Points BY DEF Points
  <2>2. st[p] \in Registers /\ st[p].cur \in Inums /\ st[p].drop = <<>> BY <1>1, AtParent
  <2> QED BY <1>2, <1>6, <2>1, <2>2, DropCurIs
<1>8. PICK r : r = [r0 EXCEPT !.ip = j] OBVIOUS
<1>9. r.at = "put" /\ r.cur = None /\ r.drop = r0.drop /\ r.ip = j BY <1>7, <1>8 DEF Registers
<1>10. Becomes(p, r, cwd[p], file[p]) BY <1>4, <1>6, <1>8 DEF Go, Becomes, Inv, TypeOK
<1>11. Making(r) = Making(st[p]) BY <1>1, <1>9 DEF Making
<1>12. /\ st[p].ip = None /\ First(st[p].drop) = None /\ Second(st[p].drop) = None
       /\ st[p].at \notin Puts
  BY <1>1, AtParent
<1>13. \A k \in Inums \ {j} : Needs(r, cwd[p], file[p], k) <=> Needs(st[p], cwd[p], file[p], k)
  BY <1>1, <1>2, <1>7, <1>9, <1>12, Sorts DEF Needs
<1> QED BY <1>4, <1>5, <1>10, <1>11, <1>13, QuietTreeStep, SameEntries

LEMMA TreeUnlink ==
  ASSUME Inv, Steady, NEW p \in Procs, Unlink(p)
  PROVE  TreeStep
<1>1. st[p].at = "unlink" /\ st[p].at \notin Puts BY DEF Unlink, At, Puts
<1>2. PICK i \in Inums : i = st[p].cur BY <1>1, AtParent
<1>3. PICK j : j = entries[st[p].cur][st[p].name] OBVIOUS
<1>4. /\ Lockable(i) /\ UNCHANGED <<disk, entries, cwd, file>>
      /\ \/ Go(p, DropCur(st[p], "user"))
         \/ /\ st[p].name \notin Dots /\ j # None
            /\ Go(p, [st[p] EXCEPT !.at = "unlink2", !.ip = j])
  BY <1>2, <1>3 DEF Unlink, procVars
<1>5. CASE Go(p, DropCur(st[p], "user"))
  <2>1. "user" \in Points BY DEF Points
  <2>2. st' = [st EXCEPT ![p] = DropCur(st[p], "user")] BY <1>5 DEF Go
  <2> QED BY <1>1, <1>2, <1>4, <2>1, <2>2, TreeDropCur, SameEntries
<1>6. CASE /\ st[p].name \notin Dots /\ j # None
           /\ Go(p, [st[p] EXCEPT !.at = "unlink2", !.ip = j])
  <2>1. st[p].name \in Names BY <1>1, <1>6, AtParent
  <2>2. j \in Inums /\ (InUse(j) \/ Reached(j))
    <3>1. Inode(i).type = "dir" BY <1>1, <1>2, <1>4, AtParent, InodeIsDisk DEF Lockable, Free
    <3> QED BY <1>2, <1>3, <1>4, <1>6, <2>1, <3>1, FindsReached
  <2>3. PICK r : r = [st[p] EXCEPT !.at = "unlink2", !.ip = j] OBVIOUS
  <2>4. st[p] \in Registers /\ st[p].ip = None BY <1>1, AtParent
  <2>5. r.at = "unlink2" /\ r.cur = i /\ r.drop = st[p].drop /\ r.ip = j
    BY <1>2, <2>3, <2>4 DEF Registers
  <2>6. Becomes(p, r, cwd[p], file[p]) BY <1>4, <1>6, <2>3 DEF Go, Becomes, Inv, TypeOK
  <2>7. Making(r) = Making(st[p]) BY <1>1, <2>5 DEF Making
  <2>8. \A k \in Inums \ {j} : Needs(r, cwd[p], file[p], k) <=> Needs(st[p], cwd[p], file[p], k)
    BY <1>1, <1>2, <2>4, <2>5, Sorts DEF Needs
  <2> QED BY <1>4, <2>2, <2>6, <2>7, <2>8, QuietTreeStep, SameEntries
<1> QED BY <1>4, <1>5, <1>6

LEMMA TreeRelinkFound ==
  ASSUME Inv, Steady, NEW p \in Procs, Relink(p), entries[st[p].cur][st[p].name] # None
  PROVE  TreeStep
<1>1. st[p].at = "relink" BY DEF Relink, At
<1>2. PICK i \in Inums : i = st[p].cur BY <1>1, AtParent
<1>3. PICK j : j = entries[st[p].cur][st[p].name] OBVIOUS
<1>4. /\ Lockable(i) /\ Go(p, [st[p] EXCEPT !.at = "put", !.drop = <<j>>, !.then = "linked"])
      /\ UNCHANGED <<disk, entries, cwd, file>>
  BY <1>2, <1>3 DEF Relink, procVars
<1>5. j \in Inums /\ (InUse(j) \/ Reached(j))
  <2>1. Inode(i).type = "dir" BY <1>1, <1>2, <1>4, AtParent, InodeIsDisk DEF Lockable, Free
  <2> QED BY <1>1, <1>2, <1>3, <1>4, <2>1, AtParent, FindsReached
<1>6. PICK r : r = [st[p] EXCEPT !.at = "put", !.drop = <<j>>, !.then = "linked"] OBVIOUS
<1>7. st[p] \in Registers /\ First(st[p].drop) = None /\ Second(st[p].drop) = None
  BY <1>1, AtParent
<1>8. r.at = "put" /\ r.cur = i /\ r.drop = <<j>> /\ r.ip = st[p].ip
  BY <1>2, <1>6, <1>7 DEF Registers
<1>9. First(r.drop) = j /\ Second(r.drop) = None BY <1>5, <1>8, Singles
<1>10. Becomes(p, r, cwd[p], file[p]) BY <1>4, <1>6 DEF Go, Becomes, Inv, TypeOK
<1>11. Making(r) = Making(st[p]) BY <1>1, <1>8 DEF Making
<1>12. \A k \in Inums \ {j} : Needs(r, cwd[p], file[p], k) <=> Needs(st[p], cwd[p], file[p], k)
  BY <1>1, <1>2, <1>7, <1>8, <1>9, Sorts DEF Needs
<1> QED BY <1>4, <1>5, <1>10, <1>11, <1>12, QuietTreeStep, SameEntries

\* A new inode is none of the tree until it has its name.
LEMMA TreeCreateNew ==
  ASSUME Inv, NEW p \in Procs, Create(p), entries[st[p].cur][st[p].name] = None
  PROVE  TreeStep
<1>1. st[p].at \in {"create", "mkdir"} BY DEF Create
<1>2. /\ st[p].at \notin Puts /\ st[p] \in Registers
      /\ First(st[p].drop) = None /\ Second(st[p].drop) = None
      /\ st[p].ip = None /\ Making(st[p]) = None
  BY <1>1, AtParent
<1>3. PICK i : i = Min({j \in Inums : disk[j].type = "free"}) OBVIOUS
<1>4. i \in Inums /\ disk[i].type = "free"
  <2>1. \E j \in Inums : disk[j].type = "free" BY DEF Create
  <2>2. {j \in Inums : disk[j].type = "free"} \in SUBSET Nat BY Sorts
  <2>3. i \in {j \in Inums : disk[j].type = "free"} BY <1>3, <2>1, <2>2, LeastNumber
  <2> QED BY <2>3
<1>5. PICK v : v = [Blank EXCEPT !.type = IF st[p].op = "mkdir" THEN "dir" ELSE "file"] OBVIOUS
<1>6. PICK r : r = [st[p] EXCEPT !.at = "fill", !.ip = i] OBVIOUS
<1>7. /\ disk' = [disk EXCEPT ![i] = v] /\ st' = [st EXCEPT ![p] = r]
      /\ UNCHANGED <<entries, cwd, file>>
  BY <1>3, <1>5, <1>6 DEF Create, Go, procVars
<1>8. r.at = "fill" /\ r.ip = i /\ r.cur = st[p].cur /\ r.drop = st[p].drop
  BY <1>2, <1>6 DEF Registers
<1>9. Becomes(p, r, cwd[p], file[p]) BY <1>7 DEF Becomes, Inv, TypeOK
<1>10. \A j \in Inums : Needs(r, cwd[p], file[p], j) <=> Needs(st[p], cwd[p], file[p], j)
  BY <1>1, <1>2, <1>8, Sorts DEF Needs
<1>11. TypeOK BY DEF Inv
<1>12. SameUsers BY <1>9, <1>10, <1>11, UsersAfter DEF SameUsers
<1>13. SameKinds
  <2> SUFFICES ASSUME NEW j \in Inums PROVE KindOf(j)' = KindOf(j) BY DEF SameKinds
  <2>1. InTheMaking(j) <=> \E q \in Procs : Making(st[q]) = j BY Calling DEF CallsAre
  <2>2. InTheMaking(j)' <=> Making(r) = j \/ \E q \in Procs \ {p} : Making(st[q]) = j
    BY <1>9, <1>11, MakingAfter
  <2>3. Making(r) = i BY <1>8 DEF Making
  <2>4. CASE j = i BY <1>4, <2>2, <2>3, <2>4 DEF KindOf
  <2>5. CASE j # i
    <3>1. disk'[j] = disk[j] BY <1>7, <2>5 DEF Inv, TypeOK
    <3>2. InTheMaking(j)' <=> InTheMaking(j) BY <1>2, <2>1, <2>2, <2>3, <2>5, Sorts
    <3> QED BY <3>1, <3>2 DEF KindOf
  <2> QED BY <2>4, <2>5
<1>14. SameNames BY <1>7, SameEntries
<1> QED BY <1>12, <1>13, <1>14, TreeStutters

LEMMA TreeRelinkNew ==
  ASSUME Inv, NEW p \in Procs, Relink(p), entries[st[p].cur][st[p].name] = None
  PROVE  TreeStep
<1>1. st[p].at = "relink" BY DEF Relink, At
<1>2. /\ st[p].at \notin Puts /\ st[p] \in Registers
      /\ st[p].drop = <<>> /\ First(st[p].drop) = None /\ Second(st[p].drop) = None
      /\ st[p].op = "relink" /\ st[p].cur \in Inums /\ disk[st[p].cur].type = "dir"
      /\ st[p].ip # None /\ st[p].name \in Names \cup Dots
  BY <1>1, AtParent
<1>3. PICK d \in Inums, i \in Inums : d = st[p].cur /\ i = st[p].ip BY <1>2 DEF Registers
<1>4. disk[i].type = "file" /\ disk[d].type = "dir"
  <2>1. LinkTo(st[p]) = i BY <1>2, <1>3 DEF LinkTo
  <2>2. Knows(st[p]) BY RegsAre
  <2> QED BY <1>2, <1>3, <2>1, <2>2, Sorts DEF Knows
<1>5. InUse(d) /\ InUse(i)
  <2>1. Needs(st[p], cwd[p], file[p], d) /\ Needs(st[p], cwd[p], file[p], i) BY <1>1, <1>3 DEF Needs
  <2> QED BY <2>1, RegsAre
<1>6. PICK n \in Names : n = st[p].name
  BY <1>2, <1>3, <1>4, <1>5, DotsThere, Sorts DEF Dots
<1>7. PICK r : r = [DropCur(st[p], "user") EXCEPT !.ip = None, !.drop = <<d, i>>] OBVIOUS
<1>8. /\ entries' = [entries EXCEPT ![d][n] = i] /\ st' = [st EXCEPT ![p] = r]
      /\ UNCHANGED <<disk, cwd, file>>
  BY <1>3, <1>6, <1>7 DEF Relink, Go, procVars
<1>9. r.at = "put" /\ r.cur = None /\ r.ip = None /\ r.drop = <<d, i>>
  <2>1. PICK r0 : r0 = DropCur(st[p], "user") OBVIOUS
  <2>2. "user" \in Points BY DEF Points
  <2>3. r0 \in Registers /\ r0.at = "put" /\ r0.cur = None BY <1>2, <2>1, <2>2, DropCurIs
  <2>4. r = [r0 EXCEPT !.ip = None, !.drop = <<d, i>>] BY <1>7, <2>1
  <2> QED BY <2>3, <2>4 DEF Registers
<1>10. First(r.drop) = d /\ Second(r.drop) = i
  <2>1. Len(<<d, i>>) = 2 /\ <<d, i>>[1] = d /\ <<d, i>>[2] = i OBVIOUS
  <2> QED BY <1>9, <2>1 DEF First, Second
<1>11. TypeOK /\ Becomes(p, r, cwd[p], file[p]) BY <1>8 DEF Becomes, Inv, TypeOK
<1>12. \A j \in Inums : Needs(r, cwd[p], file[p], j) <=> Needs(st[p], cwd[p], file[p], j)
  BY <1>1, <1>2, <1>3, <1>9, <1>10, Sorts DEF Needs
<1>13. SameUsers BY <1>11, <1>12, UsersAfter DEF SameUsers
<1>14. Making(r) = Making(st[p]) BY <1>1, <1>9 DEF Making
<1>15. SameKinds BY <1>8, <1>11, <1>14, KindsAfter
<1>16. NewName(d, n, i) BY <1>8 DEF NewName, Inv, TypeOK
<1>17. KindOf(d) = "dir" /\ KindOf(i) = "file" BY <1>4, <1>5, InUseIsLive DEF KindOf
<1>18. entries[d][n] = None BY <1>3, <1>6
<1> QED BY <1>5, <1>11, <1>13, <1>15, <1>16, <1>17, <1>18, NodeLinked

LEMMA TreeUnlinkEntry ==
  ASSUME Inv, NEW p \in Procs, UnlinkEntry(p)
  PROVE  TreeStep
<1>1. st[p].at = "unlink2" /\ st[p].at \notin Puts BY DEF UnlinkEntry, At, Puts
<1>2. /\ st[p] \in Registers /\ RegsOK(st[p], cwd[p])
      /\ st[p].drop = <<>> /\ Point(st[p]) = st[p].at
      /\ First(st[p].drop) = None /\ Second(st[p].drop) = None
  BY <1>1, Idle, RegsAre
<1>3. st[p].ip \in Inums /\ st[p].cur \in Inums
  BY <1>1, <1>2 DEF RegsOK, AtPath, OnPaths, Registers
<1>4. PICK i \in Inums, d \in Inums : i = st[p].ip /\ d = st[p].cur BY <1>3
<1>5. lock[d] = p
  <2>1. Keeps(st[p], d) BY <1>1, <1>2, <1>4 DEF Keeps
  <2> QED BY <2>1, RegsAre
<1>6. lock[i] = Nobody /\ i # d BY <1>4, <1>5, Sorts DEF UnlinkEntry, Lockable, Free
<1>7. Inode(i) = disk[i] /\ Inode(d) = disk[d] BY <1>1, <1>5, <1>6, InodeIsDisk
<1>8. PICK n \in Names : st[p].name = n /\ entries[d][n] = i
  <2>1. Knows(st[p]) BY RegsAre
  <2> QED BY <1>1, <1>4, <2>1 DEF Knows
<1>9. PICK r : r = DropCur(st[p], "unlink3") OBVIOUS
<1>10. r.at = "put" /\ r.cur = None /\ r.ip = i /\ First(r.drop) = d /\ Second(r.drop) = None
  <2>1. "unlink3" \in Points BY DEF Points
  <2> QED BY <1>2, <1>3, <1>4, <1>9, <2>1, DropCurIs
<1>11. /\ entries' = [entries EXCEPT ![d][n] = None] /\ st' = [st EXCEPT ![p] = r]
       /\ UNCHANGED <<cwd, file>>
       /\ ~(disk[i].type = "dir" /\ ~IsDirEmpty(i))
       /\ \/ Update([j \in {i, d} |-> IF j = i THEN disk[i] ELSE [disk[d] EXCEPT !.nlink = @ - 1]])
          \/ disk' = disk
  BY <1>4, <1>7, <1>8, <1>9 DEF UnlinkEntry, Go, procVars
<1>12. \A j \in Inums : disk'[j].type = disk[j].type
  <2>1. CASE disk' = disk BY <2>1
  <2>2. CASE Update([j \in {i, d} |-> IF j = i THEN disk[i] ELSE [disk[d] EXCEPT !.nlink = @ - 1]])
    <3>1. PICK w : w = [disk[d] EXCEPT !.nlink = @ - 1] OBVIOUS
    <3>2. disk' = [j \in Inums |-> IF j \in {i, d} THEN IF j = i THEN disk[i] ELSE w ELSE disk[j]]
      BY <2>2, <3>1 DEF Update
    <3>3. disk[d] \in InodeType BY DEF Inv, TypeOK
    <3>4. w.type = disk[d].type BY <3>1, <3>3 DEF InodeType
    <3> QED BY <3>2, <3>4
  <2> QED BY <1>11, <2>1, <2>2
<1>13. TypeOK /\ Becomes(p, r, cwd[p], file[p]) BY <1>11 DEF Becomes, Inv, TypeOK
<1>14. \A j \in Inums : Needs(r, cwd[p], file[p], j) <=> Needs(st[p], cwd[p], file[p], j)
  BY <1>1, <1>2, <1>4, <1>10, Sorts DEF Needs
<1>15. SameUsers BY <1>13, <1>14, UsersAfter DEF SameUsers
<1>16. Making(r) = Making(st[p]) BY <1>1, <1>10 DEF Making
<1>17. SameKinds BY <1>12, <1>13, <1>16, KindsAfter
<1>18. NewName(d, n, None) BY <1>11 DEF NewName, Inv, TypeOK
<1>19. \A m \in Names : entries[i][m] = None
  <2>1. CASE disk[i].type = "dir" BY <1>11, <2>1 DEF IsDirEmpty
  <2>2. CASE disk[i].type # "dir" BY <2>2 DEF Inv, DirInv, NoEntries
  <2> QED BY <2>1, <2>2
<1>20. InUse(d)
  <2>1. Needs(st[p], cwd[p], file[p], d) BY <1>4 DEF Needs
  <2> QED BY <2>1, RegsAre
<1> QED BY <1>8, <1>13, <1>15, <1>17, <1>18, <1>19, <1>20, NodeUnlinked

\* The new inode gets its name, and is seen.
LEMMA TreeFill ==
  ASSUME Inv, NEW p \in Procs, Fill(p)
  PROVE  TreeStep
<1>1. st[p].at = "fill" /\ st[p].at \notin Puts BY DEF Fill, At, Puts
<1>2. /\ st[p] \in Registers /\ RegsOK(st[p], cwd[p])
      /\ st[p].drop = <<>> /\ Point(st[p]) = st[p].at
      /\ First(st[p].drop) = None /\ Second(st[p].drop) = None
  BY <1>1, Idle, RegsAre
<1>3. st[p].ip \in Inums /\ st[p].cur \in Inums
  BY <1>1, <1>2 DEF RegsOK, AtPath, OnPaths, Registers
<1>4. PICK i \in Inums, d \in Inums : i = st[p].ip /\ d = st[p].cur BY <1>3
<1>5. lock[d] = p
  <2>1. Keeps(st[p], d) BY <1>1, <1>2, <1>4 DEF Keeps
  <2> QED BY <2>1, RegsAre
<1>6. lock[i] = Nobody /\ i # d BY <1>4, <1>5, Sorts DEF Fill, Lockable, Free
<1>7. Inode(i) = disk[i] /\ Inode(d) = disk[d] BY <1>1, <1>5, <1>6, InodeIsDisk
<1>8. /\ disk[d].type = "dir" /\ disk[i].type \in {"dir", "file"}
      /\ \E a \in Names : st[p].name = a /\ entries[d][a] = None
  <2>1. Knows(st[p]) BY RegsAre
  <2> QED BY <1>1, <1>2, <1>4, <2>1 DEF Knows
<1>9. PICK n \in Names : st[p].name = n /\ entries[d][n] = None BY <1>8
<1>10. Making(st[p]) = i BY <1>1, <1>4 DEF Making
<1>11. InTheMaking(i) /\ entries[i] = NoEntries
  <2>1. InTheMaking(i) BY <1>10, Calling DEF CallsAre
  <2> QED BY <2>1 DEF Inv, FreshInv, Fresh
<1>12. InUse(d) /\ ~InTheMaking(d)
  <2>1. Needs(st[p], cwd[p], file[p], d) BY <1>4 DEF Needs
  <2> QED BY <2>1, RegsAre, InUseIsLive
<1>13. PICK r : r = DropCur(st[p], "filled") OBVIOUS
<1>14. r.at = "put" /\ r.cur = None /\ r.ip = i /\ First(r.drop) = d /\ Second(r.drop) = None
  <2>1. "filled" \in Points BY DEF Points
  <2> QED BY <1>2, <1>3, <1>4, <1>13, <2>1, DropCurIs
<1>15. /\ st' = [st EXCEPT ![p] = r] /\ UNCHANGED <<cwd, file>>
       /\ \/ /\ Update([j \in {i, d} |-> IF j = i THEN [disk[i] EXCEPT !.nlink = 1, !.addrs[0] = NewBlock]
                                        ELSE [disk[d] EXCEPT !.nlink = @ + 1]])
             /\ entries' = [[entries EXCEPT ![d][n] = i] EXCEPT ![i] = [@ EXCEPT !["."] = i, ![".."] = d]]
          \/ /\ Update([j \in {i} |-> [disk[i] EXCEPT !.nlink = 1]])
             /\ entries' = [entries EXCEPT ![d][n] = i]
  BY <1>4, <1>7, <1>9, <1>13, SMTT(30) DEF Fill, Go, procVars
<1>16. \A j \in Inums : disk'[j].type = disk[j].type
  <2>0. disk[d] \in InodeType /\ disk[i] \in InodeType BY DEF Inv, TypeOK
  <2>1. CASE Update([j \in {i} |-> [disk[i] EXCEPT !.nlink = 1]])
    <3>1. PICK m : m = 1 OBVIOUS
    <3>2. Update([j \in {i} |-> [disk[i] EXCEPT !.nlink = m]]) BY <2>1, <3>1
    <3> QED BY <3>2, TypeKept
  <2>2. CASE Update([j \in {i, d} |-> IF j = i THEN [disk[i] EXCEPT !.nlink = 1, !.addrs[0] = NewBlock]
                                      ELSE [disk[d] EXCEPT !.nlink = @ + 1]])
    <3>1. PICK v : v = [disk[i] EXCEPT !.nlink = 1, !.addrs[0] = NewBlock] OBVIOUS
    <3>2. PICK w : w = [disk[d] EXCEPT !.nlink = @ + 1] OBVIOUS
    <3>3. disk' = [j \in Inums |-> IF j \in {i, d} THEN IF j = i THEN v ELSE w ELSE disk[j]]
      BY <2>2, <3>1, <3>2 DEF Update
    <3>4. v.type = disk[i].type BY <2>0, <3>1 DEF InodeType
    <3>5. w.type = disk[d].type BY <2>0, <3>2 DEF InodeType
    <3> QED BY <3>3, <3>4, <3>5
  <2> QED BY <1>15, <2>1, <2>2
<1>17. NewName(d, n, i)
  <2>0. entries \in [Inums -> [Names \cup Dots -> Inums \cup {None}]] BY DEF Inv, TypeOK
  <2>1. CASE entries' = [entries EXCEPT ![d][n] = i] BY <2>0, <2>1 DEF NewName
  <2>2. CASE entries' = [[entries EXCEPT ![d][n] = i] EXCEPT ![i] = [@ EXCEPT !["."] = i, ![".."] = d]]
    <3>1. PICK E : E = [entries EXCEPT ![d][n] = i] OBVIOUS
    <3>2. /\ E \in [Inums -> [Names \cup Dots -> Inums \cup {None}]]
          /\ \A e \in Inums, m \in Names : E[e][m] = IF e = d /\ m = n THEN i ELSE entries[e][m]
      BY <2>0, <3>1
    <3>3. PICK D : D = [E[i] EXCEPT !["."] = i, ![".."] = d] OBVIOUS
    <3>4. entries' = [E EXCEPT ![i] = D] BY <2>2, <3>1, <3>2, <3>3
    <3>5. \A m \in Names : D[m] = E[i][m] BY <3>2, <3>3, InodesAssumption DEF Dots
    <3> QED BY <3>2, <3>4, <3>5 DEF NewName
  <2> QED BY <1>15, <2>1, <2>2
<1>18. TypeOK /\ Becomes(p, r, cwd[p], file[p]) BY <1>15 DEF Becomes, Inv, TypeOK
<1>19. \A j \in Inums \ {i} : InUse(j)' <=> InUse(j)
  <2>1. \A j \in Inums \ {i} : Needs(r, cwd[p], file[p], j) <=> Needs(st[p], cwd[p], file[p], j)
    BY <1>1, <1>2, <1>4, <1>14, Sorts DEF Needs
  <2> QED BY <1>18, <2>1, UsersAfter
<1>20. InUse(i)'
  <2>1. Needs(r, cwd[p], file[p], i) BY <1>14 DEF Needs
  <2> QED BY <1>18, <2>1, UsersAfter
<1>21. \A q \in Procs \ {p} : Making(st[q]) # i
  <2>1. \A q \in Procs : Making(st[p]) = Making(st[q]) /\ Making(st[p]) # None => p = q
    BY DEF Inv, FreshInv
  <2> QED BY <1>10, <2>1, Sorts
<1>22. Making(r) = None BY <1>14 DEF Making
<1>23. \A j \in Inums : InTheMaking(j)' <=> InTheMaking(j) /\ j # i
  <2> TAKE j \in Inums
  <2>1. InTheMaking(j) <=> \E q \in Procs : Making(st[q]) = j BY Calling DEF CallsAre
  <2>2. InTheMaking(j)' <=> Making(r) = j \/ \E q \in Procs \ {p} : Making(st[q]) = j
    BY <1>18, MakingAfter
  <2> QED BY <1>10, <1>21, <1>22, <2>1, <2>2, Sorts
<1>24. PICK k \in {"dir", "file"} : k = disk[i].type BY <1>8
<1>25. KindOf(i) = "free" /\ KindOf(d) = "dir" BY <1>8, <1>11, <1>12 DEF KindOf
<1>26. KindOf(i)' = k BY <1>16, <1>23, <1>24 DEF KindOf
<1>27. \A j \in Inums \ {i} : KindOf(j)' = KindOf(j) BY <1>16, <1>23 DEF KindOf
<1>28. \A j \in Inums : InUse(j)' <=> InUse(j) \/ j = i BY <1>19, <1>20
<1> QED BY <1>9, <1>12, <1>17, <1>18, <1>25, <1>26, <1>27, <1>28, NodeMade

LEMMA TreeFreeIt ==
  ASSUME Inv, NEW p \in Procs, FreeIt(p)
  PROVE  TreeStep
<1>1. /\ st[p].at = "free" /\ st[p] \in Registers
      /\ st[p].drop \in Seq(Inums) /\ st[p].drop # <<>>
  BY RegsAre DEF FreeIt, At, RegsOK, Puts
<1>2. PICK i \in Inums : i = st[p].drop[1] /\ i = Head(st[p].drop) BY <1>1
<1>3. disk[i].nlink = 0 /\ disk[i].type # "free" /\ ~InUse(i) /\ ~InTheMaking(i)
  BY <1>1, <1>2, OnlyHolder
<1>4. NamesOf(i) = {} /\ SubDirs(i) = {} BY <1>3, NoLinks DEF Inv
<1>5. i # ROOTINO BY <1>4, RootIsThere
<1>6. PICK r : r = [st[p] EXCEPT !.at = "invalidate"] OBVIOUS
<1>7. r.at = "invalidate" /\ r.drop = st[p].drop /\ r.cur = st[p].cur /\ r.ip = st[p].ip
  BY <1>1, <1>6 DEF Registers
<1>8. /\ disk' = [disk EXCEPT ![i] = Blank] /\ entries' = [entries EXCEPT ![i] = NoEntries]
      /\ st' = [st EXCEPT ![p] = r] /\ cwd' = cwd /\ file' = file
  <2>1. Update([j \in {i} |-> Blank]) BY <1>2 DEF FreeIt
  <2>2. disk' = [disk EXCEPT ![i] = Blank] BY <2>1, UpdateOne DEF Inv
  <2>3. st' = [st EXCEPT ![p] = r] BY <1>6 DEF FreeIt, Inv, TypeOK
  <2>4. entries' = [entries EXCEPT ![i] = NoEntries] /\ cwd' = cwd /\ file' = file
    BY <1>2 DEF FreeIt, procVars
  <2> QED BY <2>2, <2>3, <2>4
<1>9. TypeOK /\ Becomes(p, r, cwd[p], file[p]) BY <1>8 DEF Becomes, Inv, TypeOK
<1>10. Making(r) = Making(st[p]) BY <1>1, <1>7 DEF Making
<1>11. \A j \in Inums : Needs(r, cwd[p], file[p], j) <=> Needs(st[p], cwd[p], file[p], j)
  BY <1>1, <1>7 DEF Needs
<1>12. SameUsers BY <1>9, <1>11, UsersAfter DEF SameUsers
<1>13. \A j \in Inums : InTheMaking(j)' <=> InTheMaking(j)
  <2> TAKE j \in Inums
  <2>1. InTheMaking(j) <=> \E q \in Procs : Making(st[q]) = j BY Calling DEF CallsAre
  <2>2. InTheMaking(j)' <=> Making(r) = j \/ \E q \in Procs \ {p} : Making(st[q]) = j
    BY <1>9, MakingAfter
  <2> QED BY <1>10, <2>1, <2>2
<1>14. disk'[i] = Blank /\ \A j \in Inums \ {i} : disk'[j] = disk[j] BY <1>8 DEF Inv, TypeOK
<1>15. KindOf(i)' = "free" /\ \A j \in Inums \ {i} : KindOf(j)' = KindOf(j)
  BY <1>13, <1>14 DEF KindOf, Blank
<1>16. /\ \A j \in Inums \ {i}, n \in Names : entries'[j][n] = entries[j][n]
       /\ \A n \in Names : entries'[i][n] = None
  BY <1>8 DEF Inv, TypeOK, NoEntries
<1>17. KindOf(i) # "free" BY <1>3 DEF KindOf
<1>18. ~Reached(i)
  <2>1. ASSUME NEW d \in Inums, NEW n \in Names, entries[d][n] = i PROVE FALSE
    <3>1. <<d, n>> \in NamesOf(i) BY <2>1 DEF NamesOf
    <3> QED BY <1>4, <3>1
  <2>2. ASSUME NEW n \in Names, entries[i][n] # None PROVE KindOf(entries[i][n]) # "dir"
    <3>1. PICK j : j = entries[i][n] OBVIOUS
    <3>2. disk[j].type = "file" BY <1>3, <2>2, <3>1, LeftBehind
    <3> QED BY <3>1, <3>2 DEF KindOf
  <2> QED BY <1>5, <2>1, <2>2 DEF Reached
<1> QED BY <1>3, <1>9, <1>12, <1>15, <1>16, <1>17, <1>18, NodeReclaimed

LEMMA TreeStutter ==
  ASSUME UNCHANGED inodeVars
  PROVE  TreeStep
<1>1. disk' = disk /\ entries' = entries /\ cwd' = cwd /\ file' = file /\ st' = st
  BY DEF inodeVars, procVars
<1>2. \A p, f : Held(p, f)' = Held(p, f) BY <1>1 DEF Held
<1>3. \A i : InTheMaking(i)' <=> InTheMaking(i) BY <1>1 DEF InTheMaking, At
<1>4. \A p, i : Uses(p, i)' <=> Uses(p, i) BY <1>1, <1>2 DEF Uses, Leaving, At
<1>5. SameUsers BY <1>4 DEF SameUsers, InUse
<1>6. SameKinds BY <1>1, <1>3 DEF SameKinds, KindOf
<1> QED BY <1>1, <1>5, <1>6, SameEntries, TreeStutters

\* Every step is a step of the tree.
LEMMA EveryTreeStep ==
  ASSUME Inv, Steady, [Next]_inodeVars
  PROVE  TreeStep
<1>1. CASE UNCHANGED inodeVars BY <1>1, TreeStutter
<1>2. CASE Next
  <2>1. PICK p \in Procs : Call(p) \/ Continue(p) BY <1>2 DEF Next
  <2>2. CASE \E c \in Calls : c[1] = p /\ Begin(p, c[2], c[3], <<>>) BY <2>2, TreeBegin
  <2>3. CASE \E l \in Links : l[1] = p /\ Begin(p, "link", l[2], l[3]) BY <2>3, TreeBegin
  <2>4. CASE Close(p) \/ Write(p) BY <2>4, TreeClose, TreeWrite
  <2>5. CASE Put(p) \/ FreeIt(p) \/ Invalidate(p) \/ Unref(p)
    BY <2>5, TreePut, TreeFreeIt, TreeInvalidate, TreeUnref
  <2>6. CASE Walk(p) \/ Open(p) \/ Chdir(p) \/ Moved(p)
    BY <2>6, TreeWalk, TreeOpen, TreeChdir, TreeMoved
  <2>7. CASE Create(p) \/ Exists(p) \/ Fill(p) \/ Filled(p)
    BY <2>7, TreeCreateFound, TreeCreateNew, TreeFound, TreeFill
  <2>8. CASE Unlink(p) \/ UnlinkNonempty(p) \/ UnlinkBad(p) \/ UnlinkEntry(p) \/ UnlinkInode(p)
    BY <2>8, TreeUnlink, TreeNonempty, TreeBad, TreeUnlinkEntry, TreeCounted
  <2>9. CASE Link(p) \/ LinkWalk(p) \/ Relink(p) \/ Linked(p) \/ LinkBad(p)
    BY <2>9, TreeLink, TreeLinkWalk, TreeRelinkFound, TreeRelinkNew, TreeBad, TreeCounted
  <2> QED BY <2>1, <2>2, <2>3, <2>4, <2>5, <2>6, <2>7, <2>8, <2>9 DEF Call, Continue
<1> QED BY <1>1, <1>2

LEMMA TreeBegins == ASSUME Init PROVE Tree!Init
<1>1. \A p \in Procs : st[p] = AtRest /\ cwd[p] = ROOTINO /\ file[p] = None BY DEF Init
<1>2. \A p \in Procs : st[p].at = "user" BY <1>1 DEF AtRest
<1>3. \A i : ~InTheMaking(i) BY <1>2 DEF InTheMaking, At
<1>4. \A i \in Inums : disk[i].type = IF i = ROOTINO THEN "dir" ELSE "free" BY DEF Init, Blank
<1>5. TreeKinds = [i \in Inums |-> IF i = ROOTINO THEN "dir" ELSE "free"]
  BY <1>3, <1>4 DEF TreeKinds, KindOf
<1>6. \A i \in Inums, n \in Names : entries[i][n] = None
  BY InodesAssumption DEF Init, NoEntries, Dots
<1>7. TreeNames = [i \in Inums |-> [n \in Names |-> None]] BY <1>6 DEF TreeNames
<1>8. \A p \in Procs, f \in Places : Held(p, f) = IF f = "cwd" THEN ROOTINO ELSE None
  BY <1>1 DEF Held, Places, AtRest
<1>9. \A i \in Inums : InUse(i) <=> i = ROOTINO
  <2>1. PICK p \in Procs : TRUE BY InodesAssumption
  <2>2. Held(p, "cwd") = ROOTINO BY <1>8 DEF Places
  <2>3. Uses(p, ROOTINO) BY <2>2 DEF Uses, Leaving, Places
  <2>4. \A i \in Inums \ {ROOTINO} : ~InUse(i) BY <1>8, Sorts DEF InUse, Uses
  <2> QED BY <2>3, <2>4 DEF InUse
<1>10. TreeUsed = {ROOTINO} BY <1>9, Sorts DEF TreeUsed
<1> QED BY <1>5, <1>7, <1>10 DEF Tree!Init

\* As long as nobody goes up from a removed directory to one that is gone, whatever the
\* calls do at the same time, and however the locks are taken and given back,
\* sys_open, sys_mkdir, sys_link, sys_unlink, sys_chdir and iput together change one name of
\* the tree at a time, and free what nobody can come to, as FileTree says.
THEOREM FileTreeWhileSteady == Spec /\ []Steady => ImplementsFileTree
<1>1. Init => Tree!Init BY TreeBegins
<1>2. Inv /\ Steady /\ [Next]_inodeVars => [Tree!Next]_(Tree!treeVars)
  BY EveryTreeStep DEF TreeStep
<1> QED BY <1>1, <1>2, ConsistentWhileSteady, PTL DEF Spec, ImplementsFileTree, Tree!Spec

-----------------------------------------------------------------------------
(* Programs that never go up *)

Down == Names \cup {"."}

\* No path of a call has ".." in it.
NobodyGoesUp == /\ \A c \in Calls : c[3] \in Seq(Down)
                /\ \A l \in Links : l[2] \in Seq(Down) /\ l[3] \in Seq(Down)

PathDown(r) == r.rest \in Seq(Down) /\ r.new \in Seq(Down) /\ r.name \in Down
PathsDown   == \A p \in Procs : PathDown(st[p])

LEMMA DownIsSteady == ASSUME Inv, PathsDown PROVE Steady
<1>1. ".." \notin Down BY InodesAssumption DEF Down, Dots
<1> SUFFICES ASSUME NEW p \in Procs PROVE ~LooksUp(st[p]) BY DEF Steady
<1>2. PathDown(st[p]) BY DEF PathsDown
<1>3. st[p].at = "walk" => Head(st[p].rest) \in Down
  <2> SUFFICES ASSUME st[p].at = "walk" PROVE Head(st[p].rest) \in Down OBVIOUS
  <2>1. Point(st[p]) = "walk" BY DEF Point, Puts
  <2>2. st[p].rest # <<>> BY <2>1, RegsAre DEF RegsOK
  <2> QED BY <1>2, <2>2, HeadTailProperties DEF PathDown
<1> QED BY <1>1, <1>2, <1>3 DEF LooksUp, PathDown

LEMMA RestDown == AtRest.rest \in Seq(Down) /\ AtRest.new \in Seq(Down) /\ AtRest.name \in Down
<1>1. <<>> \in Seq(Down) /\ "." \in Down BY EmptySeq DEF Down
<1> QED BY <1>1 DEF AtRest

\* The ways registers change on which most calls end.
LEMMA GoDown ==
  ASSUME Inv, NEW p \in Procs, PathDown(st[p])
  PROVE  /\ \A x : Go(p, DropCur(st[p], x)) => PathDown(st'[p])
         /\ \A x : Go(p, DropIp(st[p], x)) => PathDown(st'[p])
         /\ Go(p, AtRest) => PathDown(st'[p])
<1>1. st[p] \in Registers /\ st \in [Procs -> Registers] BY DEF Inv, TypeOK
<1>2. ASSUME NEW x, Go(p, DropCur(st[p], x)) PROVE PathDown(st'[p])
  BY <1>1, <1>2 DEF Go, DropCur, PathDown, Registers
<1>3. ASSUME NEW x, Go(p, DropIp(st[p], x)) PROVE PathDown(st'[p])
  BY <1>1, <1>3 DEF Go, DropIp, PathDown, Registers
<1>4. ASSUME Go(p, AtRest) PROVE PathDown(st'[p]) BY <1>1, <1>4, RestDown DEF Go, PathDown
<1> QED BY <1>2, <1>3, <1>4

\* The calls that do not walk.
LEMMA OthersKeepPaths ==
  ASSUME Inv, NEW p \in Procs, PathDown(st[p]),
         \/ Close(p) \/ Write(p) \/ Put(p) \/ FreeIt(p) \/ Invalidate(p) \/ Unref(p)
         \/ Open(p) \/ Chdir(p) \/ Moved(p) \/ Create(p) \/ Exists(p) \/ Fill(p) \/ Filled(p)
         \/ Unlink(p) \/ UnlinkNonempty(p) \/ UnlinkBad(p) \/ UnlinkEntry(p) \/ UnlinkInode(p)
         \/ Link(p) \/ Relink(p) \/ Linked(p) \/ LinkBad(p)
  PROVE  PathDown(st'[p])
<1>1. st[p] \in Registers /\ st \in [Procs -> Registers] BY DEF Inv, TypeOK
<1>2. /\ AtRest.rest \in Seq(Down) /\ AtRest.new \in Seq(Down) /\ AtRest.name \in Down
      /\ AtRest \in Registers
  BY RestDown, RestIs
<1>3. CASE Write(p) BY <1>3 DEF Write
<1>4. CASE FreeIt(p) BY <1>1, <1>4 DEF FreeIt, PathDown, Registers
<1>5. CASE Close(p) BY <1>1, <1>2, <1>5 DEF Close, Go, PathDown, Registers
<1>20. CASE Moved(p) BY <1>1, <1>2, <1>20 DEF Moved, Go, PathDown
<1>6. CASE Put(p) \/ Invalidate(p)
  <2>1. PICK x : st' = [st EXCEPT ![p] = [st[p] EXCEPT !.at = x]] BY <1>6 DEF Put, Invalidate, Go
  <2> QED BY <1>1, <2>1 DEF PathDown, Registers
<1>7. CASE Unref(p)
  <2>1. PICK left : left = Tail(st[p].drop) OBVIOUS
  <2>2. CASE left # <<>>
    <3>1. st' = [st EXCEPT ![p] = [st[p] EXCEPT !.at = "put", !.drop = left]]
      BY <1>7, <2>1, <2>2 DEF Unref, Go
    <3> QED BY <1>1, <3>1 DEF PathDown, Registers
  <2>3. CASE left = <<>> /\ st[p].then = "user"
    <3>1. st' = [st EXCEPT ![p] = AtRest] BY <1>7, <2>1, <2>3 DEF Unref, Go
    <3> QED BY <1>1, <1>2, <3>1 DEF PathDown
  <2>4. CASE left = <<>> /\ st[p].then # "user"
    <3>1. st' = [st EXCEPT ![p] = [st[p] EXCEPT !.at = st[p].then, !.drop = left, !.then = "user"]]
      BY <1>7, <2>1, <2>4 DEF Unref, Go
    <3> QED BY <1>1, <3>1 DEF PathDown, Registers
  <2> QED BY <2>2, <2>3, <2>4
<1>8. CASE Open(p) BY GoDown, <1>8 DEF Open, Opened
<1>9. CASE Exists(p) BY GoDown, <1>9 DEF Exists, Opened
<1>10. CASE Filled(p) BY GoDown, <1>10 DEF Filled, Opened
<1>11. CASE Chdir(p)
  <2>1. \/ Go(p, [st[p] EXCEPT !.at = "put", !.drop = <<cwd[p]>>, !.then = "moved"])
        \/ Go(p, DropCur(st[p], "user"))
    BY <1>11 DEF Chdir, Go
  <2>2. CASE Go(p, [st[p] EXCEPT !.at = "put", !.drop = <<cwd[p]>>, !.then = "moved"])
    BY <1>1, <2>2 DEF Go, DropCur, PathDown, Registers
  <2>3. CASE Go(p, DropCur(st[p], "user")) BY GoDown, <2>3
  <2> QED BY <2>1, <2>2, <2>3
<1>12. CASE Create(p)
  <2>0. PICK e, f : e = entries[st[p].cur][st[p].name] /\ f = Min({j \in Inums : disk[j].type = "free"}) OBVIOUS
  <2>1. \/ Go(p, [DropCur(st[p], "exists") EXCEPT !.ip = e])
        \/ Go(p, [st[p] EXCEPT !.at = "fill", !.ip = f])
    BY <1>12, <2>0 DEF Create
  <2>2. CASE Go(p, [DropCur(st[p], "exists") EXCEPT !.ip = e])
    BY <1>1, <2>2 DEF Go, DropCur, PathDown, Registers
  <2>3. CASE Go(p, [st[p] EXCEPT !.at = "fill", !.ip = f])
    BY <1>1, <2>3 DEF Go, DropCur, PathDown, Registers
  <2> QED BY <2>1, <2>2, <2>3
<1>13. CASE Fill(p) BY <1>1, <1>13 DEF Fill, Go, DropCur, PathDown, Registers
<1>14. CASE Unlink(p)
  <2>0. PICK e : e = entries[st[p].cur][st[p].name] OBVIOUS
  <2>1. \/ Go(p, [st[p] EXCEPT !.at = "unlink2", !.ip = e])
        \/ Go(p, DropCur(st[p], "user"))
    BY <1>14, <2>0 DEF Unlink
  <2>2. CASE Go(p, [st[p] EXCEPT !.at = "unlink2", !.ip = e])
    BY <1>1, <2>2 DEF Go, DropCur, PathDown, Registers
  <2>3. CASE Go(p, DropCur(st[p], "user")) BY GoDown, <2>3
  <2> QED BY <2>1, <2>2, <2>3
<1>15. CASE UnlinkNonempty(p) BY <1>1, <1>15 DEF UnlinkNonempty, Go, DropIp, PathDown, Registers
<1>21. CASE UnlinkBad(p) BY <1>1, <1>21 DEF UnlinkBad, Go, DropCur, PathDown, Registers
<1>22. CASE UnlinkInode(p) BY <1>1, <1>22 DEF UnlinkInode, Go, DropIp, PathDown, Registers
<1>16. CASE UnlinkEntry(p) BY <1>1, <1>16 DEF UnlinkEntry, Go, DropCur, PathDown, Registers
<1>17. CASE Link(p)
  <2>0. PICK e : e = st[p].cur OBVIOUS
  <2>1. \/ Go(p, [st[p] EXCEPT !.at = "linkwalk", !.ip = e, !.cur = None])
        \/ Go(p, DropCur(st[p], "user"))
    BY <1>17, <2>0 DEF Link
  <2>2. CASE Go(p, [st[p] EXCEPT !.at = "linkwalk", !.ip = e, !.cur = None])
    BY <1>1, <2>2 DEF Go, DropCur, PathDown, Registers
  <2>3. CASE Go(p, DropCur(st[p], "user")) BY GoDown, <2>3
  <2> QED BY <2>1, <2>2, <2>3
<1>18. CASE Relink(p)
  <2>0. PICK e, f : e = <<entries[st[p].cur][st[p].name]>> /\ f = <<st[p].cur, st[p].ip>> OBVIOUS
  <2>1. \/ Go(p, [st[p] EXCEPT !.at = "put", !.drop = e, !.then = "linked"])
        \/ Go(p, [DropCur(st[p], "user") EXCEPT !.ip = None, !.drop = f])
    BY <1>18, <2>0 DEF Relink
  <2>2. CASE Go(p, [st[p] EXCEPT !.at = "put", !.drop = e, !.then = "linked"])
    BY <1>1, <2>2 DEF Go, DropCur, PathDown, Registers
  <2>3. CASE Go(p, [DropCur(st[p], "user") EXCEPT !.ip = None, !.drop = f])
    BY <1>1, <2>3 DEF Go, DropCur, PathDown, Registers
  <2> QED BY <2>1, <2>2, <2>3
<1>19. CASE Linked(p) BY <1>1, <1>19 DEF Linked, Go, DropCur, PathDown, Registers
<1>23. CASE LinkBad(p) BY <1>1, <1>23 DEF LinkBad, Go, DropIp, PathDown, Registers
<1> QED BY <1>3, <1>4, <1>5, <1>6, <1>7, <1>8, <1>9, <1>10, <1>11, <1>12, <1>13, <1>14, <1>15,
           <1>16, <1>17, <1>18, <1>19, <1>20, <1>21, <1>22, <1>23

LEMMA WalkGoesDown ==
  ASSUME Inv, NEW p \in Procs, PathDown(st[p]), Walk(p)
  PROVE  PathDown(st'[p])
<1>1. st[p] \in Registers /\ st \in [Procs -> Registers] BY DEF Inv, TypeOK
<1>2. st[p].rest # <<>>
  <2>1. Point(st[p]) = "walk" BY DEF Point, Puts, Walk, At
  <2> QED BY <2>1, RegsAre DEF RegsOK
<1>3. Head(st[p].rest) \in Down /\ Tail(st[p].rest) \in Seq(Down) /\ <<>> \in Seq(Down)
  BY <1>2, HeadTailProperties, EmptySeq DEF PathDown
<1>4. PICK n, left, j, x, y : /\ n = Head(st[p].rest) /\ left = Tail(st[p].rest)
                              /\ j = entries[st[p].cur][n] /\ x = Failed(st[p].op)
                              /\ y = IF Len(st[p].rest) = 1 THEN st[p].op ELSE "walk"
  OBVIOUS
<1>5. \/ st' = [st EXCEPT ![p] = DropCur(st[p], x)]
      \/ st' = [st EXCEPT ![p] = [st[p] EXCEPT !.at = st[p].op, !.name = n, !.rest = <<>>]]
      \/ st' = [st EXCEPT ![p] = [DropCur(st[p], y) EXCEPT !.cur = j, !.rest = Tail(@)]]
  BY <1>4 DEF Walk, Go
<1>6. CASE st' = [st EXCEPT ![p] = DropCur(st[p], x)]
  BY <1>1, <1>6 DEF DropCur, PathDown, Registers
<1>7. CASE st' = [st EXCEPT ![p] = [st[p] EXCEPT !.at = st[p].op, !.name = n, !.rest = <<>>]]
  BY <1>1, <1>3, <1>4, <1>7 DEF PathDown, Registers
<1>8. CASE st' = [st EXCEPT ![p] = [DropCur(st[p], y) EXCEPT !.cur = j, !.rest = Tail(@)]]
  <2>1. st' = [st EXCEPT ![p] = [DropCur(st[p], y) EXCEPT !.cur = j, !.rest = left]]
    BY <1>1, <1>4, <1>8 DEF DropCur, Registers
  <2> QED BY <1>1, <1>3, <1>4, <2>1 DEF DropCur, PathDown, Registers
<1> QED BY <1>5, <1>6, <1>7, <1>8

\* A call changes no registers but its own.
LEMMA OnlyOwnRegs ==
  ASSUME Inv, NEW p \in Procs, Call(p) \/ Continue(p)
  PROVE  \A q \in Procs \ {p} : st'[q] = st[q]
<1>1. st \in [Procs -> Registers] BY DEF Inv, TypeOK
<1>2. \A r : Go(p, r) => \A q \in Procs \ {p} : st'[q] = st[q] BY <1>1 DEF Go
<1>3. ASSUME NEW op, NEW path, NEW new, Begin(p, op, path, new)
      PROVE  \A q \in Procs \ {p} : st'[q] = st[q]
  <2>1. PICK i \in Starts(p) :
          /\ Get(i, mem)
          /\ Go(p, [AtRest EXCEPT !.at = "walk", !.op = op, !.cur = i, !.rest = path, !.new = new])
    BY <1>3 DEF Begin
  <2> QED BY <1>2, <2>1
<1>14. CASE LinkWalk(p)
  <2>1. PICK i \in Starts(p) :
          /\ Get(i, mem)
          /\ Go(p, [st[p] EXCEPT !.at = "walk", !.op = "relink", !.cur = i,
                               !.rest = st[p].new, !.new = <<>>])
    BY <1>14 DEF LinkWalk
  <2> QED BY <1>2, <2>1
<1>4. CASE Close(p) \/ Write(p) BY <1>2, <1>4 DEF Close, Write
<1>5. CASE Put(p) \/ Invalidate(p) \/ Unref(p) BY <1>2, <1>5 DEF Put, Invalidate, Unref
<1>6. CASE FreeIt(p)
  <2>1. st' = [st EXCEPT ![p].at = "invalidate"] BY <1>6 DEF FreeIt
  <2> QED BY <1>1, <2>1
<1>7. CASE Walk(p) BY <1>2, <1>7 DEF Walk
<1>8. CASE Open(p) \/ Chdir(p) \/ Moved(p) BY <1>2, <1>8 DEF Open, Opened, Chdir, Moved
<1>9. CASE Create(p) \/ Exists(p) \/ Fill(p) \/ Filled(p)
  BY <1>2, <1>9 DEF Create, Exists, Opened, Fill, Filled
<1>10. CASE Unlink(p) \/ UnlinkNonempty(p) \/ UnlinkBad(p)
  BY <1>2, <1>10 DEF Unlink, UnlinkNonempty, UnlinkBad
<1>11. CASE UnlinkEntry(p) \/ UnlinkInode(p) BY <1>2, <1>11 DEF UnlinkEntry, UnlinkInode
<1>12. CASE Link(p) \/ LinkBad(p) BY <1>2, <1>12 DEF Link, LinkBad
<1>13. CASE Relink(p) \/ Linked(p) BY <1>2, <1>13 DEF Relink, Linked
<1> QED BY <1>3, <1>4, <1>5, <1>6, <1>7, <1>8, <1>9, <1>10, <1>11, <1>12, <1>13, <1>14 DEF Call, Continue

LEMMA StartsDown ==
  ASSUME Inv, NEW p \in Procs, PathDown(st[p]), NEW op, NEW path \in Seq(Down), NEW new \in Seq(Down),
         Begin(p, op, path, new)
  PROVE  PathDown(st'[p])
<1>1. st \in [Procs -> Registers] BY DEF Inv, TypeOK
<1>4. PICK i \in Starts(p) :
          /\ Get(i, mem)
          /\ Go(p, [AtRest EXCEPT !.at = "walk", !.op = op, !.cur = i, !.rest = path, !.new = new])
  BY DEF Begin
<1>2. st' = [st EXCEPT ![p] = [AtRest EXCEPT !.at = "walk", !.op = op, !.cur = i,
                                           !.rest = path, !.new = new]]
  BY <1>4 DEF Go
<1>3. "." \in Down BY DEF Down
<1> QED BY <1>1, <1>2, <1>3 DEF AtRest, PathDown

LEMMA LinkStartsDown ==
  ASSUME Inv, NEW p \in Procs, PathDown(st[p]), LinkWalk(p)
  PROVE  PathDown(st'[p])
<1>1. st[p] \in Registers /\ st \in [Procs -> Registers] BY DEF Inv, TypeOK
<1>4. PICK i \in Starts(p) :
          /\ Get(i, mem)
          /\ Go(p, [st[p] EXCEPT !.at = "walk", !.op = "relink", !.cur = i,
                               !.rest = st[p].new, !.new = <<>>])
  BY DEF LinkWalk
<1>2. st' = [st EXCEPT ![p] = [st[p] EXCEPT !.at = "walk", !.op = "relink", !.cur = i,
                                          !.rest = st[p].new, !.new = <<>>]]
  BY <1>4 DEF Go
<1>3. <<>> \in Seq(Down) BY EmptySeq
<1> QED BY <1>1, <1>2, <1>3 DEF PathDown, Registers

LEMMA StepsDown ==
  ASSUME NobodyGoesUp, Inv, PathsDown, [Next]_inodeVars, Inv'
  PROVE  PathsDown'
<1>1. CASE UNCHANGED inodeVars BY <1>1 DEF PathsDown, PathDown, inodeVars
<1>2. CASE Next
  <2>1. PICK p \in Procs : Call(p) \/ Continue(p) BY <1>2 DEF Next
  <2>2. PathDown(st[p]) BY DEF PathsDown
  <2>3. PathDown(st'[p])
    <3>1. CASE \E c \in Calls : c[1] = p /\ Begin(p, c[2], c[3], <<>>)
      <4>1. <<>> \in Seq(Down) BY EmptySeq
      <4>2. PICK c \in Calls : Begin(p, c[2], c[3], <<>>) BY <3>1
      <4>3. PICK op, path : op = c[2] /\ path = c[3] /\ path \in Seq(Down) BY DEF NobodyGoesUp
      <4>4. Begin(p, op, path, <<>>) BY <4>2, <4>3
      <4> QED BY <2>2, <4>1, <4>3, <4>4, StartsDown
    <3>2. CASE \E l \in Links : l[1] = p /\ Begin(p, "link", l[2], l[3])
      <4>1. PICK l \in Links : Begin(p, "link", l[2], l[3]) BY <3>2
      <4>2. PICK path, new : /\ path = l[2] /\ path \in Seq(Down)
                             /\ new = l[3] /\ new \in Seq(Down)
        BY DEF NobodyGoesUp
      <4>3. Begin(p, "link", path, new) BY <4>1, <4>2
      <4> QED BY <2>2, <4>2, <4>3, StartsDown
    <3>3. CASE LinkWalk(p) BY <2>2, <3>3, LinkStartsDown
    <3>4. CASE Walk(p) BY <2>2, <3>4, WalkGoesDown
    <3> QED BY <2>1, <2>2, <3>1, <3>2, <3>3, <3>4, OthersKeepPaths DEF Call, Continue
  <2>4. \A q \in Procs \ {p} : st'[q] = st[q] BY <2>1, OnlyOwnRegs
  <2> QED BY <2>3, <2>4 DEF PathsDown
<1> QED BY <1>1, <1>2

\* Where no program gives a path with ".." in it, the hypothesis of the theorems above is
\* no hypothesis: counts, blocks, locks and the tree are always right, whatever the calls,
\* their order and the number of processes, names, inodes and blocks.
THEOREM NeverUpNeverWrong ==
  ASSUME NobodyGoesUp
  PROVE  Spec => []CountsAgree /\ []BlocksOwned /\ []OnlyPutsDeadlock /\ ImplementsFileTree
<1>1. Init => Inv BY InitRefs, InitTree, InitCounts DEF Inv
<1>2. Init => PathsDown
  <2>1. PathDown(AtRest) BY RestDown DEF PathDown
  <2> QED BY <2>1 DEF Init, PathsDown
<1>3. Inv /\ PathsDown => Steady BY DownIsSteady
<1>4. Inv /\ PathsDown /\ [Next]_inodeVars => Inv' /\ PathsDown'
  <2> SUFFICES ASSUME Inv, PathsDown, [Next]_inodeVars PROVE Inv' /\ PathsDown' OBVIOUS
  <2>1. Inv' BY DownIsSteady, NextStep
  <2> QED BY <2>1, StepsDown
<1>5. Spec => []Steady BY <1>1, <1>2, <1>3, <1>4, PTL DEF Spec
<1> QED BY <1>5, CountsAgreeWhileSteady, BlocksOwnedWhileSteady, OnlyPutsDeadlockWhileSteady,
           FileTreeWhileSteady, PTL
=============================================================================
