---------------------------- MODULE PagingProofs ----------------------------
(***************************************************************************)
(* Proofs about Paging.tla.                                                *)
(***************************************************************************)
EXTENDS Paging, FiniteSetTheorems, SequenceTheorems, TLAPS

(* Numbering a set of positions *)

\* The positions of a set are numbered from 1 on, each with its own number.
LEMMA Ranks ==
  ASSUME NEW I \in SUBSET Nat, IsFiniteSet(I)
  PROVE  /\ Cardinality(I) \in Nat
         /\ \A i \in I : Cardinality({j \in I : j <= i}) \in 1 .. Cardinality(I)
         /\ \A i, k \in I : i < k =>
              Cardinality({j \in I : j <= i}) < Cardinality({j \in I : j <= k})
         /\ \A n \in 1 .. Cardinality(I) :
              \E i \in I : Cardinality({j \in I : j <= i}) = n
<1> DEFINE U(i) == {j \in I : j <= i}
           rank == [i \in I |-> Cardinality(U(i))]
<1>1. Cardinality(I) \in Nat BY FS_CardinalityType
<1>2. \A i \in I : IsFiniteSet(U(i)) /\ Cardinality(U(i)) \in 1 .. Cardinality(I)
  <2> TAKE i \in I
  <2>1. U(i) \in SUBSET I OBVIOUS
  <2>2. IsFiniteSet(U(i)) /\ Cardinality(U(i)) <= Cardinality(I) BY <2>1, FS_Subset
  <2>3. Cardinality(U(i)) \in Nat BY <2>2, FS_CardinalityType
  <2>4. i \in U(i) OBVIOUS
  <2>5. Cardinality(U(i)) # 0 BY <2>2, <2>4, FS_EmptySet
  <2> QED BY <1>1, <2>2, <2>3, <2>5
<1>3. \A i, k \in I : i < k => Cardinality(U(i)) < Cardinality(U(k))
  <2> SUFFICES ASSUME NEW i \in I, NEW k \in I, i < k
               PROVE  Cardinality(U(i)) < Cardinality(U(k))
    OBVIOUS
  <2>1. U(i) \in SUBSET U(k) /\ k \in U(k) /\ k \notin U(i)
    <3>1. \A j \in I : j <= i => j <= k OBVIOUS
    <3>2. k <= k /\ ~(k <= i) OBVIOUS
    <3> QED BY <3>1, <3>2
  <2>2. Cardinality(U(i)) <= Cardinality(U(k)) BY <1>2, <2>1, FS_Subset
  <2>3. Cardinality(U(i)) # Cardinality(U(k)) BY <1>2, <2>1, FS_Subset
  <2> QED BY <1>2, <2>2, <2>3
<1>4. rank \in Injection(I, 1 .. Cardinality(I))
  <2>1. rank \in [I -> 1 .. Cardinality(I)] BY <1>2
  <2>2. ASSUME NEW i \in I, NEW k \in I, rank[i] = rank[k] PROVE i = k
    <3>1. Cardinality(U(i)) = Cardinality(U(k)) BY <2>2
    <3>2. Cardinality(U(i)) \in Nat /\ Cardinality(U(k)) \in Nat BY <1>1, <1>2
    <3>3. i < k => Cardinality(U(i)) < Cardinality(U(k)) BY <1>3
    <3>4. k < i => Cardinality(U(k)) < Cardinality(U(i)) BY <1>3
    <3> HIDE DEF U
    <3> QED BY <3>1, <3>2, <3>3, <3>4
  <2>3. \A i, k \in DOMAIN rank : rank[i] = rank[k] => i = k BY <2>2
  <2> QED BY <2>1, <2>3 DEF Injection, IsInjective
<1>5. IsFiniteSet(1 .. Cardinality(I)) /\ Cardinality(1 .. Cardinality(I)) = Cardinality(I)
  BY <1>1, FS_Interval
<1>6. rank \in Surjection(I, 1 .. Cardinality(I)) BY <1>4, <1>5, FS_Injection
<1>7. \A n \in 1 .. Cardinality(I) : \E i \in I : Cardinality(U(i)) = n
  BY <1>6 DEF Surjection
<1> QED BY <1>1, <1>2, <1>3, <1>7

\* A set of positions that is not empty has a first one.
LEMMA FirstPlace ==
  ASSUME NEW I \in SUBSET Nat, IsFiniteSet(I), I # {}
  PROVE  \E i \in I : \A j \in I : i <= j
<1>1. Cardinality(I) \in Nat /\ Cardinality(I) # 0 BY FS_CardinalityType, FS_EmptySet
<1>2. PICK i \in I : Cardinality({j \in I : j <= i}) = 1 BY <1>1, Ranks
<1>3. IsFiniteSet({j \in I : j <= i}) BY FS_Subset
<1>4. PICK x : {j \in I : j <= i} = {x} BY <1>2, <1>3, FS_Singleton
<1>5. i = x BY <1>4
<1>6. ASSUME NEW j \in I PROVE i <= j
  <2>1. j <= i => j = i BY <1>4, <1>5
  <2> QED BY <2>1
<1> QED BY <1>6

-----------------------------------------------------------------------------
(* Lists *)

\* A sublist has the entries at the places kept, each of them once.
LEMMA SublistFacts ==
  ASSUME NEW S, NEW list \in Seq(S), IsInjective(list), NEW kept \in SUBSET DOMAIN list
  PROVE  /\ Sublist(list, kept) \in Seq(S)
         /\ Len(Sublist(list, kept)) <= Len(list)
         /\ IsInjective(Sublist(list, kept))
         /\ \A n \in DOMAIN Sublist(list, kept) : \E i \in kept : Sublist(list, kept)[n] = list[i]
<1> DEFINE c == Cardinality(kept)
           r(i) == Cardinality({j \in kept : j <= i})
           place(n) == CHOOSE i \in kept : r(i) = n
<1>1. DOMAIN list = 1 .. Len(list) /\ Len(list) \in Nat BY LenProperties
<1>2. IsFiniteSet(1 .. Len(list)) /\ Cardinality(1 .. Len(list)) = Len(list)
  <2>1. PICK n \in Nat : n = Len(list) BY <1>1
  <2>2. IsFiniteSet(1 .. n) /\ Cardinality(1 .. n) = n BY FS_Interval
  <2> QED BY <2>1, <2>2
<1>3. IsFiniteSet(kept) /\ c <= Len(list) BY <1>1, <1>2, FS_Subset
<1>4. kept \in SUBSET Nat BY <1>1
<1>5. c \in Nat BY <1>3, FS_CardinalityType
<1>6. \A n \in 1 .. c : place(n) \in kept /\ r(place(n)) = n
  <2> TAKE n \in 1 .. c
  <2>1. \E i \in kept : r(i) = n BY <1>3, <1>4, Ranks
  <2> QED BY <2>1
<1>7. Sublist(list, kept) = [n \in 1 .. c |-> list[place(n)]] BY DEF Sublist
<1> HIDE DEF place, r, c
<1>8. \A n \in 1 .. c : list[place(n)] \in S BY <1>1, <1>6
<1>9. Sublist(list, kept) \in Seq(S) /\ Len(Sublist(list, kept)) = c
  <2>1. Sublist(list, kept) \in [1 .. c -> S] BY <1>7, <1>8
  <2> QED BY <1>5, <2>1, SeqDef, LenProperties
<1>10. DOMAIN Sublist(list, kept) = 1 .. c BY <1>7
<1>11. IsInjective(Sublist(list, kept))
  <2> SUFFICES ASSUME NEW m \in 1 .. c, NEW n \in 1 .. c,
                      Sublist(list, kept)[m] = Sublist(list, kept)[n]
               PROVE  m = n
    BY <1>10 DEF IsInjective
  <2>1. list[place(m)] = list[place(n)] BY <1>7
  <2>2. place(m) = place(n) BY <1>6, <2>1 DEF IsInjective
  <2> QED BY <1>6, <2>2
<1>12. \A n \in 1 .. c : \E i \in kept : Sublist(list, kept)[n] = list[i] BY <1>6, <1>7
<1> QED BY <1>3, <1>9, <1>10, <1>11, <1>12 DEF c

\* A page list without some pages: nothing new, nothing twice, none of the pages.
LEMMA RemovePagesFacts ==
  ASSUME NEW list \in Seq(Pages), IsInjective(list), NEW pages
  PROVE  /\ RemovePages(list, pages) \in Seq(Pages)
         /\ Len(RemovePages(list, pages)) <= Len(list)
         /\ IsInjective(RemovePages(list, pages))
         /\ \A n \in DOMAIN RemovePages(list, pages) :
              /\ RemovePages(list, pages)[n] \in ToSet(list)
              /\ RemovePages(list, pages)[n] \notin pages
<1> DEFINE kept == {i \in DOMAIN list : \/ list[i] \notin pages
                                        \/ \E j \in 1 .. i - 1 : list[j] = list[i]}
<1>1. \A i \in kept : list[i] \notin pages
  <2> SUFFICES ASSUME NEW i \in kept, NEW j \in 1 .. i - 1, list[j] = list[i] PROVE FALSE
    OBVIOUS
  <2>1. j \in DOMAIN list /\ i \in DOMAIN list /\ j # i OBVIOUS
  <2> QED BY <2>1 DEF IsInjective
<1>2. RemovePages(list, pages) = Sublist(list, kept) BY DEF RemovePages
<1>3. kept \in SUBSET DOMAIN list OBVIOUS
<1> HIDE DEF kept
<1> QED BY <1>1, <1>2, <1>3, SublistFacts DEF ToSet

\* The front of a list goes and a page that is not in it comes in at the end.
LEMMA Rotated ==
  ASSUME NEW list \in Seq(Pages), IsInjective(list), list # <<>>,
         NEW a \in Pages, a \notin ToSet(list)
  PROVE  /\ Append(Tail(list), a) \in Seq(Pages)
         /\ Len(Append(Tail(list), a)) = Len(list)
         /\ IsInjective(Append(Tail(list), a))
         /\ Head(list) \in Pages /\ Head(list) \in ToSet(list)
         /\ \A n \in DOMAIN Append(Tail(list), a) :
              \/ Append(Tail(list), a)[n] = a
              \/ /\ Append(Tail(list), a)[n] \in ToSet(list)
                 /\ Append(Tail(list), a)[n] # Head(list)
<1> DEFINE new == Append(Tail(list), a)
<1>1. PICK len \in Nat : len = Len(list) BY LenProperties
<1>2. /\ DOMAIN list = 1 .. len /\ len # 0
      /\ \A i \in 1 .. len : list[i] \in Pages
  BY <1>1, LenProperties, EmptySeq
<1>3. /\ new \in Seq(Pages) /\ Len(new) = len /\ DOMAIN new = 1 .. len
      /\ new[len] = a
      /\ \A n \in 1 .. len - 1 : new[n] = list[n + 1]
  BY <1>1, <1>2, HeadTailProperties, AppendProperties, LenProperties
<1>4. Head(list) = list[1] OBVIOUS
<1> HIDE DEF new
<1>5. \A n \in 1 .. len : n # len => n \in 1 .. len - 1 /\ n + 1 \in 1 .. len /\ n + 1 # 1
  BY SMT
<1>6. \A n \in 1 .. len : n # len =>
        n + 1 \in DOMAIN list /\ new[n] = list[n + 1] /\ n + 1 # 1
  BY ONLY <1>2, <1>3, <1>5, Zenon
<1>7. IsInjective(new)
  <2> SUFFICES ASSUME NEW m \in 1 .. len, NEW n \in 1 .. len, new[m] = new[n]
               PROVE  m = n
    BY <1>3 DEF IsInjective
  <2>1. CASE m # len /\ n # len
    <3>1. list[m + 1] = list[n + 1] /\ m + 1 \in DOMAIN list /\ n + 1 \in DOMAIN list BY <1>6, <2>1
    <3>2. m + 1 = n + 1 BY <3>1 DEF IsInjective
    <3> QED BY ONLY <1>1, <3>2, m \in 1 .. len, n \in 1 .. len
  <2>2. CASE m = len /\ n # len BY <1>3, <1>6, <2>2, Zenon DEF ToSet
  <2>3. CASE m # len /\ n = len BY <1>3, <1>6, <2>3, Zenon DEF ToSet
  <2> QED BY <2>1, <2>2, <2>3
<1>8. \A n \in 1 .. len : new[n] = a \/ (new[n] \in ToSet(list) /\ new[n] # Head(list))
  <2> TAKE n \in 1 .. len
  <2>1. CASE n = len BY <1>3, <2>1
  <2>2. CASE n # len
    <3>1. n + 1 \in DOMAIN list /\ new[n] = list[n + 1] /\ n + 1 # 1 BY <1>6, <2>2
    <3>2. 1 \in DOMAIN list BY <1>2
    <3> QED BY <1>4, <3>1, <3>2, Zenon DEF ToSet, IsInjective
  <2> QED BY <2>1, <2>2
<1>9. Head(list) \in Pages /\ Head(list) \in ToSet(list) BY <1>2, <1>4 DEF ToSet
<1> QED BY <1>1, <1>3, <1>7, <1>8, <1>9 DEF new
\* An entry of meta_list is used up, and one for the page that went out added.
LEMMA EntryReplaced ==
  ASSUME NEW S, NEW ms \in Seq(S), NEW i \in DOMAIN ms, NEW e \in S
  PROVE  /\ Append(RemoveAt(ms, i), e) \in Seq(S)
         /\ Len(Append(RemoveAt(ms, i), e)) = Len(ms)
         /\ ToSet(Append(RemoveAt(ms, i), e)) = {ms[j] : j \in DOMAIN ms \ {i}} \cup {e}
<1> DEFINE a == SubSeq(ms, 1, i - 1)
           b == SubSeq(ms, i + 1, Len(ms))
           r == a \o b
           new == Append(r, e)
<1>1. PICK n \in Nat : n = Len(ms) BY LenProperties
<1>2. DOMAIN ms = 1 .. n /\ \A j \in 1 .. n : ms[j] \in S BY <1>1, LenProperties
<1>3. i \in 1 .. n BY <1>2
<1>4. /\ a \in Seq(S) /\ Len(a) = i - 1
      /\ \A j \in 1 .. i - 1 : a[j] = ms[j]
  <2>1. \A j \in 1 .. i - 1 : ms[j] \in S BY <1>2, <1>3
  <2>2. PICK k \in Int : k = i - 1 BY <1>3
  <2>3. /\ SubSeq(ms, 1, k) \in Seq(S)
        /\ Len(SubSeq(ms, 1, k)) = IF 1 <= k THEN (k - 1) + 1 ELSE 0
        /\ \A j \in 1 .. ((k - 1) + 1) : SubSeq(ms, 1, k)[j] = ms[(1 + j) - 1]
    BY <2>1, <2>2, SubSeqProperties
  <2>4. k \in Nat /\ (k - 1) + 1 = k /\ \A j \in 1 .. k : (1 + j) - 1 = j BY <1>3, <2>2
  <2> QED BY <2>2, <2>3, <2>4
<1>5. /\ b \in Seq(S) /\ Len(b) = n - i
      /\ \A j \in 1 .. n - i : b[j] = ms[i + j]
  <2>1. \A j \in i + 1 .. n : ms[j] \in S BY <1>2, <1>3
  <2>2. PICK k \in Int : k = i + 1 BY <1>3
  <2>3. /\ SubSeq(ms, k, n) \in Seq(S)
        /\ Len(SubSeq(ms, k, n)) = IF k <= n THEN (n - k) + 1 ELSE 0
        /\ \A j \in 1 .. ((n - k) + 1) : SubSeq(ms, k, n)[j] = ms[(k + j) - 1]
    BY <1>1, <2>1, <2>2, SubSeqProperties
  <2>4. (n - k) + 1 = n - i /\ \A j \in 1 .. n - i : (k + j) - 1 = i + j BY <1>1, <1>3, <2>2
  <2>5. (k <= n => (n - k) + 1 = n - i) /\ (~(k <= n) => 0 = n - i) BY <1>1, <1>3, <2>2
  <2> QED BY <1>1, <2>2, <2>3, <2>4, <2>5
<1> HIDE DEF a, b
<1>6. PICK ka \in Nat : ka = i - 1 /\ Len(a) = ka BY <1>3, <1>4
<1>7. PICK kb \in Nat : kb = n - i /\ Len(b) = kb BY <1>3, <1>5
<1>8. /\ r \in Seq(S) /\ Len(r) = ka + kb
      /\ \A j \in 1 .. ka + kb : r[j] = IF j <= ka THEN a[j] ELSE b[j - ka]
  <2>1. a \in Seq(S) /\ b \in Seq(S) BY <1>4, <1>5
  <2>2. /\ r \in Seq(S) /\ Len(r) = Len(a) + Len(b)
        /\ \A j \in 1 .. Len(a) + Len(b) : r[j] = IF j <= Len(a) THEN a[j] ELSE b[j - Len(a)]
    BY ONLY <2>1, ConcatProperties, Zenon
  <2> HIDE DEF r
  <2> QED BY ONLY <1>6, <1>7, <2>2
<1>9. ka + kb = n - 1 BY <1>3, <1>6, <1>7
<1>10. \A j \in 1 .. n - 1 : r[j] = IF j < i THEN ms[j] ELSE ms[j + 1]
  <2> SUFFICES ASSUME NEW j \in 1 .. n - 1
               PROVE  r[j] = IF j < i THEN ms[j] ELSE ms[j + 1]
    OBVIOUS
  <2>0. r[j] = IF j <= ka THEN a[j] ELSE b[j - ka] BY <1>8, <1>9
  <2>1. CASE j < i
    <3>1. j <= ka /\ j \in 1 .. i - 1 BY <1>3, <1>6, <2>1
    <3> QED BY <1>4, <2>0, <2>1, <3>1
  <2>2. CASE ~(j < i)
    <3>1. ~(j <= ka) /\ j - ka \in 1 .. n - i /\ i + (j - ka) = j + 1 BY <1>3, <1>6, <2>2
    <3> QED BY <1>5, <2>0, <2>2, <3>1
  <2> QED BY <2>1, <2>2
<1> HIDE DEF r
<1>11. PICK k \in Nat : k = n - 1 /\ Len(r) = k /\ k + 1 = n BY <1>3, <1>8, <1>9
<1>12. /\ new \in Seq(S) /\ Len(new) = n /\ DOMAIN new = 1 .. n
       /\ new[n] = e
       /\ \A j \in 1 .. k : new[j] = r[j]
  BY <1>8, <1>11, AppendProperties, LenProperties
<1> HIDE DEF new
<1>13. ASSUME NEW j \in 1 .. n PROVE new[j] \in {ms[l] : l \in DOMAIN ms \ {i}} \cup {e}
  <2>1. CASE j = n BY <1>12, <2>1
  <2>2. CASE j # n /\ j < i
    <3>1. j \in 1 .. n - 1 /\ j # i /\ j \in 1 .. k BY <1>3, <1>11, <2>2
    <3>2. new[j] = ms[j] BY <1>10, <1>12, <2>2, <3>1
    <3> QED BY <1>2, <3>1, <3>2
  <2>3. CASE j # n /\ ~(j < i)
    <3>1. j \in 1 .. n - 1 /\ j + 1 # i /\ j + 1 \in 1 .. n /\ j \in 1 .. k BY <1>3, <1>11, <2>3
    <3>2. new[j] = ms[j + 1] BY <1>10, <1>12, <2>3, <3>1
    <3> QED BY <1>2, <3>1, <3>2
  <2> QED BY <2>1, <2>2, <2>3
<1>14. ASSUME NEW l \in DOMAIN ms \ {i} PROVE \E j \in 1 .. n : new[j] = ms[l]
  <2>1. CASE l < i
    <3>1. l \in 1 .. n - 1 /\ l \in 1 .. k /\ l \in 1 .. n BY <1>2, <1>3, <1>11, <2>1
    <3> QED BY <1>10, <1>12, <2>1, <3>1
  <2>2. CASE ~(l < i)
    <3>1. /\ l - 1 \in 1 .. n - 1 /\ l - 1 \in 1 .. k /\ l - 1 \in 1 .. n
          /\ ~(l - 1 < i) /\ (l - 1) + 1 = l
      BY <1>2, <1>3, <1>11, <2>2
    <3> QED BY <1>10, <1>12, <3>1
  <2> QED BY <2>1, <2>2
<1>15. e = new[n] /\ n \in 1 .. n BY <1>3, <1>12
<1>16. ToSet(new) = {ms[j] : j \in DOMAIN ms \ {i}} \cup {e}
  <2>1. ToSet(new) = {new[j] : j \in 1 .. n} BY <1>12 DEF ToSet
  <2> HIDE DEF r
  <2> QED BY ONLY <2>1, <1>13, <1>14, <1>15, Zenon
<1> QED BY <1>1, <1>12, <1>16, Zenon DEF new, r, a, b, RemoveAt
-----------------------------------------------------------------------------
(* The invariant *)

Metas == [va : Pages, slot : Slots]
Entries(p, a) == {m \in ToSet(meta_list[p]) : m.va = a}

\* The lists of p within their arrays, and what they name.
Lists(p) == /\ Len(page_list[p]) <= MAX_PSYCH_PAGES
            /\ IsInjective(page_list[p])
            /\ \A i \in DOMAIN page_list[p] : pte[p][page_list[p][i]].P
            /\ Len(meta_list[p]) = file_offset[p]
            /\ {meta_list[p][i].slot : i \in DOMAIN meta_list[p]} = 0 .. file_offset[p] - 1

\* growproc stores the size after allocuvm, which has come to next: nothing is mapped
\* beyond it, and a slot that is free has no memory.
Sizes(p) == /\ sz[p] <= next[p] /\ next[p] <= goal[p]
            /\ next[p] = goal[p] => sz[p] = goal[p]
            /\ state[p] = "unused" => next[p] = 0
            /\ \A a \in Pages : pte[p][a].P => a < next[p]

\* Every page that p has got is somewhere, and if in one place, as p left it.
Kept(p) == state[p] = "live" =>
  \A a \in Pages : a < next[p] =>
    /\ pte[p][a].P \/ Entries(p, a) # {}
    /\ pte[p][a].P /\ Entries(p, a) = {} => pte[p][a].data = mem[p][a]
    /\ \A m \in Entries(p, a) :
         ~pte[p][a].P /\ Entries(p, a) = {m} => swapFile[p][m.slot] = mem[p][a]

PagingInv == TypeOK /\ FramesCounted /\ \A p \in Procs : Lists(p) /\ Sizes(p) /\ Kept(p)

\* MetaIndex finds an entry of the page, if there is one.
LEMMA MetaIndexFacts ==
  TypeOK => \A p \in Procs, a \in Pages :
    /\ MetaIndex(p, a) # 0 => /\ MetaIndex(p, a) \in DOMAIN meta_list[p]
                              /\ meta_list[p][MetaIndex(p, a)].va = a
    /\ MetaIndex(p, a) = 0 => Entries(p, a) = {}
<1> SUFFICES ASSUME TypeOK, NEW p \in Procs, NEW a \in Pages
             PROVE  /\ MetaIndex(p, a) # 0 => /\ MetaIndex(p, a) \in DOMAIN meta_list[p]
                                              /\ meta_list[p][MetaIndex(p, a)].va = a
                    /\ MetaIndex(p, a) = 0 => Entries(p, a) = {}
  OBVIOUS
<1>1. PICK ms : ms = meta_list[p] OBVIOUS
<1>2. ms \in Seq(Metas) BY <1>1 DEF TypeOK, Metas
<1>3. PICK n \in Nat : n = Len(ms) /\ DOMAIN ms = 1 .. n BY <1>2, LenProperties
<1> DEFINE I == {i \in 1 .. n : ms[i].va = a}
<1>4. MetaIndex(p, a) = IF I # {} THEN Min(I) ELSE 0
  BY <1>1, <1>3 DEF MetaIndex, SelectInSeq
<1>5. CASE I = {}
  <2>1. Entries(p, a) = {} BY <1>1, <1>3, <1>5 DEF Entries, ToSet
  <2> QED BY <1>4, <1>5, <2>1
<1>6. CASE I # {}
  <2>1. I \in SUBSET Nat OBVIOUS
  <2>2. IsFiniteSet(1 .. n) BY FS_Interval
  <2>3. IsFiniteSet(I) BY <2>2, FS_Subset
  <2> HIDE DEF I
  <2>4. \E i \in I : \A j \in I : i <= j BY <1>6, <2>1, <2>3, FirstPlace
  <2>5. Min(I) \in I BY <2>4 DEF Min
  <2>6. Min(I) \in 1 .. n /\ ms[Min(I)].va = a BY <2>5 DEF I
  <2> QED BY <1>1, <1>3, <1>4, <1>6, <2>6
<1> QED BY <1>5, <1>6

\* The invariant in the words of PagesKept.
LEMMA KeptMeans ==
  ASSUME PagingInv, NEW p \in Procs, state[p] = "live", NEW a \in 0 .. sz[p] - 1
  PROVE  /\ Copies(p, a) >= 1
         /\ Copies(p, a) = 1 => Reads(p, a) = mem[p][a]
<1> DEFINE E == Entries(p, a)
<1>1. a \in Pages /\ a < next[p]
  <2>1. MaxPages \in Nat BY PagingAssumption
  <2>2. sz[p] \in 0 .. MaxPages /\ next[p] \in 0 .. MaxPages /\ sz[p] <= next[p]
    BY DEF PagingInv, TypeOK, Sizes
  <2> QED BY <2>1, <2>2 DEF Pages
<1>2. /\ pte[p][a].P \/ E # {}
      /\ pte[p][a].P /\ E = {} => pte[p][a].data = mem[p][a]
      /\ \A m \in E : ~pte[p][a].P /\ E = {m} => swapFile[p][m.slot] = mem[p][a]
  BY <1>1 DEF PagingInv, Kept
<1>3. IsFiniteSet(E) /\ Cardinality(E) \in Nat
  <2>1. PICK ms \in Seq(Metas) : ms = meta_list[p] BY DEF PagingInv, TypeOK, Metas
  <2>2. PICK n \in Nat : n = Len(ms) /\ DOMAIN ms = 1 .. n BY LenProperties
  <2>3. IsFiniteSet(1 .. n) BY FS_Interval
  <2>4. IsFiniteSet(ToSet(ms))
    <3>1. [i \in 1 .. n |-> ms[i]] \in Surjection(1 .. n, ToSet(ms))
      BY <2>2 DEF Surjection, ToSet
    <3> QED BY <2>3, <3>1, FS_Surjection
  <2> QED BY <2>1, <2>4, FS_Subset, FS_CardinalityType DEF Entries
<1>4. Copies(p, a) = Cardinality(E) + (IF pte[p][a].P THEN 1 ELSE 0)
  BY DEF Copies, Entries
<1>5. Cardinality(E) = 0 <=> E = {} BY <1>3, FS_EmptySet
<1>6. Copies(p, a) >= 1 BY <1>2, <1>3, <1>4, <1>5
<1>7. ASSUME Copies(p, a) = 1 PROVE Reads(p, a) = mem[p][a]
  <2>1. CASE pte[p][a].P
    <3>1. E = {} BY <1>3, <1>4, <1>5, <1>7, <2>1
    <3> QED BY <1>2, <2>1, <3>1 DEF Reads
  <2>2. CASE ~pte[p][a].P
    <3>1. Cardinality(E) = 1 BY <1>3, <1>4, <1>7, <2>2
    <3>2. PICK m : E = {m} BY <1>3, <3>1, FS_Singleton
    <3>3. /\ MetaIndex(p, a) \in DOMAIN meta_list[p]
          /\ meta_list[p][MetaIndex(p, a)].va = a
      BY <1>1, <3>2, MetaIndexFacts DEF PagingInv
    <3>4. meta_list[p][MetaIndex(p, a)] \in E BY <3>3 DEF Entries, ToSet
    <3> QED BY <1>2, <2>2, <3>2, <3>4 DEF Reads
  <2> QED BY <2>1, <2>2
<1> QED BY <1>6, <1>7

LEMMA InvMeans == PagingInv => PlacesAgree /\ PagesKept
<1> SUFFICES ASSUME PagingInv PROVE PlacesAgree /\ PagesKept
  OBVIOUS
<1>1. PlacesAgree BY DEF PagingInv, PlacesAgree, ListedResident, SlotsExclusive, Lists
<1>2. PagesKept BY KeptMeans DEF PagesKept
<1> QED BY <1>1, <1>2

\* A process none of whose things change stays as it was.
LEMMA Untouched ==
  ASSUME NEW q \in Procs, Lists(q) /\ Sizes(q) /\ Kept(q),
         state'[q] = state[q], sz'[q] = sz[q], next'[q] = next[q], goal'[q] = goal[q],
         pte'[q] = pte[q], page_list'[q] = page_list[q], meta_list'[q] = meta_list[q],
         file_offset'[q] = file_offset[q], swapFile'[q] = swapFile[q], mem'[q] = mem[q]
  PROVE  (Lists(q) /\ Sizes(q) /\ Kept(q))'
<1>1. Lists(q)' BY DEF Lists
<1>2. Sizes(q)' BY DEF Sizes
<1>3. \A a : Entries(q, a)' = Entries(q, a) BY DEF Entries
<1>4. Kept(q)' BY <1>3 DEF Kept
<1> QED BY <1>1, <1>2, <1>4

-----------------------------------------------------------------------------
(* Frames *)

InMemory == {x \in Procs \X Pages : pte[x[1]][x[2]].P}

\* Pages of all processes can be counted.
LEMMA PlacesFinite ==
  ASSUME NEW F \in SUBSET (Procs \X Pages)
  PROVE  IsFiniteSet(F) /\ Cardinality(F) \in Nat
<1>1. IsFiniteSet(Procs)
  <2>1. NProc \in Int /\ 1 \in Int BY PagingAssumption
  <2> QED BY <2>1, FS_Interval DEF Procs
<1>2. IsFiniteSet(Pages)
  <2>1. MaxPages - 1 \in Int /\ 0 \in Int BY PagingAssumption
  <2> QED BY <2>1, FS_Interval DEF Pages
<1>3. IsFiniteSet(Procs \X Pages) BY <1>1, <1>2, FS_Product
<1>4. IsFiniteSet(F) BY <1>3, FS_Subset
<1> QED BY <1>4, FS_CardinalityType

\* Pages of one process are as many places.
LEMMA PlacesOfOne ==
  ASSUME NEW p \in Procs, NEW A \in SUBSET Pages
  PROVE  /\ {p} \X A \in SUBSET (Procs \X Pages)
         /\ IsFiniteSet(A) /\ Cardinality(A) \in Nat
         /\ Cardinality({p} \X A) = Cardinality(A)
<1>1. IsFiniteSet(A) /\ Cardinality(A) \in Nat
  <2>1. MaxPages - 1 \in Int /\ 0 \in Int BY PagingAssumption
  <2>2. IsFiniteSet(Pages) BY <2>1, FS_Interval DEF Pages
  <2> QED BY <2>2, FS_Subset, FS_CardinalityType
<1>2. IsFiniteSet({p}) /\ Cardinality({p}) = 1 BY FS_Singleton
<1>3. Cardinality({p} \X A) = Cardinality({p}) * Cardinality(A) BY <1>1, <1>2, FS_Product
<1>4. Cardinality({p} \X A) = Cardinality(A) BY <1>1, <1>2, <1>3
<1>5. {p} \X A \in SUBSET (Procs \X Pages) OBVIOUS
<1> QED BY <1>1, <1>4, <1>5

\* Pages of p leave the memory, or come in.
LEMMA FewerInMemory ==
  ASSUME NEW F \in SUBSET (Procs \X Pages), NEW p \in Procs, NEW A \in SUBSET Pages,
         \A a \in A : <<p, a>> \in F
  PROVE  Cardinality(F \ ({p} \X A)) = Cardinality(F) - Cardinality(A)
<1>1. F \cap ({p} \X A) = {p} \X A OBVIOUS
<1>2. IsFiniteSet(F) /\ Cardinality({p} \X A) = Cardinality(A) BY PlacesFinite, PlacesOfOne
<1>3. Cardinality(F \ ({p} \X A)) = Cardinality(F) - Cardinality(F \cap ({p} \X A))
  BY <1>2, FS_Difference
<1> QED BY <1>1, <1>2, <1>3

LEMMA MoreInMemory ==
  ASSUME NEW F \in SUBSET (Procs \X Pages), NEW p \in Procs, NEW A \in SUBSET Pages,
         \A a \in A : <<p, a>> \notin F
  PROVE  Cardinality(F \cup ({p} \X A)) = Cardinality(F) + Cardinality(A)
<1>1. F \cap ({p} \X A) = {} OBVIOUS
<1>2. /\ IsFiniteSet(F) /\ Cardinality(F) \in Nat
      /\ Cardinality({p} \X A) = Cardinality(A) /\ Cardinality(A) \in Nat
      /\ IsFiniteSet({p} \X A)
  BY PlacesFinite, PlacesOfOne
<1>3. Cardinality(F \cup ({p} \X A)) =
        Cardinality(F) + Cardinality({p} \X A) - Cardinality(F \cap ({p} \X A))
  BY <1>2, FS_Union
<1>4. Cardinality({}) = 0 BY FS_EmptySet
<1>5. Cardinality(F \cap ({p} \X A)) = 0 BY <1>1, <1>4, Zenon
<1> QED BY <1>2, <1>3, <1>5

-----------------------------------------------------------------------------
(* One page in, one page out *)

Pte == [P : BOOLEAN, PG : BOOLEAN, data : Contents]

\* The entries the code writes.
LEMMA PteFacts ==
  /\ Junk \in Contents /\ Zero \in Contents
  /\ Unmapped \in Pte /\ ~Unmapped.P
  /\ SwappedOut \in Pte /\ ~SwappedOut.P
  /\ \A data \in Contents : Mapped(data) \in Pte /\ Mapped(data).P /\ Mapped(data).data = data
BY DEF Pte, Contents, Unmapped, SwappedOut, Mapped

\* The page at the front of the list goes out, and no frame is lost or won.
LEMMA SwapFacts ==
  ASSUME TypeOK, NEW p \in Procs, Lists(p), page_list[p] # <<>>,
         NEW a \in Pages, ~pte[p][a].P, NEW data \in Contents, NEW slot \in Slots,
         NEW v, v = Head(page_list[p]), SwapOutFor(p, a, data, slot)
  PROVE  /\ v \in Pages /\ v # a /\ pte[p][v].P
         /\ pte' \in [Procs -> [Pages -> Pte]]
         /\ page_list' \in [Procs -> Seq(Pages)]
         /\ swapFile' \in [Procs -> [Slots -> Contents]]
         /\ \A q \in Procs : q # p => /\ pte'[q] = pte[q]
                                      /\ page_list'[q] = page_list[q]
                                      /\ swapFile'[q] = swapFile[q]
         /\ \A b \in Pages : pte'[p][b] = IF b = v THEN SwappedOut
                                          ELSE IF b = a THEN Mapped(data) ELSE pte[p][b]
         /\ \A s \in Slots : swapFile'[p][s] = IF s = slot THEN pte[p][v].data
                                               ELSE swapFile[p][s]
         /\ Len(page_list'[p]) <= MAX_PSYCH_PAGES
         /\ IsInjective(page_list'[p])
         /\ \A i \in DOMAIN page_list'[p] : pte'[p][page_list'[p][i]].P
         /\ Cardinality(InMemory') = Cardinality(InMemory)
<1> DEFINE list == page_list[p]
<1>1. /\ pte \in [Procs -> [Pages -> Pte]]
      /\ page_list \in [Procs -> Seq(Pages)]
      /\ swapFile \in [Procs -> [Slots -> Contents]]
  BY DEF TypeOK, Pte
<1>2. list \in Seq(Pages) /\ IsInjective(list) BY <1>1 DEF Lists
<1>3. a \notin ToSet(list) BY DEF Lists, ToSet
<1>4. /\ Append(Tail(list), a) \in Seq(Pages)
      /\ Len(Append(Tail(list), a)) = Len(list)
      /\ IsInjective(Append(Tail(list), a))
      /\ v \in Pages /\ v \in ToSet(list)
      /\ \A n \in DOMAIN Append(Tail(list), a) :
           \/ Append(Tail(list), a)[n] = a
           \/ Append(Tail(list), a)[n] \in ToSet(list) /\ Append(Tail(list), a)[n] # v
  BY <1>2, <1>3, Rotated
<1>5. \A b \in ToSet(list) : b \in Pages /\ pte[p][b].P
  <2>1. \A i \in DOMAIN list : list[i] \in Pages BY <1>2, LenProperties
  <2> QED BY <2>1 DEF Lists, ToSet
<1>6. pte[p][v].P /\ v # a BY <1>3, <1>4, <1>5
<1>7. /\ pte' = [pte EXCEPT ![p][a] = Mapped(data), ![p][v] = SwappedOut]
      /\ page_list' = [page_list EXCEPT ![p] = Append(Tail(list), a)]
      /\ swapFile' = [swapFile EXCEPT ![p][slot] = pte[p][v].data]
  BY <1>1 DEF SwapOutFor
<1>8. /\ page_list' \in [Procs -> Seq(Pages)] /\ page_list'[p] = Append(Tail(list), a)
      /\ \A q \in Procs : q # p => page_list'[q] = page_list[q]
  BY <1>1, <1>4, <1>7
<1>9. pte[p][v].data \in Contents BY <1>1, <1>4 DEF Pte
<1>10. /\ swapFile' \in [Procs -> [Slots -> Contents]]
       /\ \A s \in Slots : swapFile'[p][s] = IF s = slot THEN pte[p][v].data
                                             ELSE swapFile[p][s]
       /\ \A q \in Procs : q # p => swapFile'[q] = swapFile[q]
  BY <1>1, <1>7, <1>9
<1>11. Mapped(data) \in Pte /\ SwappedOut \in Pte BY PteFacts
<1>12. /\ pte' \in [Procs -> [Pages -> Pte]]
       /\ \A b \in Pages : pte'[p][b] = IF b = v THEN SwappedOut
                                        ELSE IF b = a THEN Mapped(data) ELSE pte[p][b]
       /\ \A q \in Procs : q # p => pte'[q] = pte[q]
  BY <1>1, <1>4, <1>7, <1>11
<1>13. \A i \in DOMAIN page_list'[p] : pte'[p][page_list'[p][i]].P
  <2> SUFFICES ASSUME NEW i \in DOMAIN page_list'[p] PROVE pte'[p][page_list'[p][i]].P
    OBVIOUS
  <2>1. PICK b : b = page_list'[p][i] OBVIOUS
  <2>2. b = a \/ (b \in ToSet(list) /\ b # v) BY <1>4, <1>8, <2>1
  <2>3. CASE b = a BY <1>6, <1>12, <2>1, <2>3, PteFacts
  <2>4. CASE b # a BY <1>5, <1>12, <2>1, <2>2, <2>4
  <2> QED BY <2>3, <2>4
<1>14. Len(page_list'[p]) <= MAX_PSYCH_PAGES /\ IsInjective(page_list'[p])
  BY <1>4, <1>8 DEF Lists
<1>15. Cardinality(InMemory') = Cardinality(InMemory)
  <2>1. InMemory \in SUBSET (Procs \X Pages) BY DEF InMemory
  <2>2. InMemory' = (InMemory \cup ({p} \X {a})) \ ({p} \X {v})
    <3>1. ASSUME NEW q \in Procs, NEW b \in Pages
          PROVE  <<q, b>> \in InMemory' <=>
                   (<<q, b>> \in InMemory \/ (q = p /\ b = a)) /\ ~(q = p /\ b = v)
      <4>1. <<q, b>> \in InMemory' <=> pte'[q][b].P BY DEF InMemory
      <4>2. <<q, b>> \in InMemory <=> pte[q][b].P BY DEF InMemory
      <4>3. CASE q # p BY <1>12, <4>1, <4>2, <4>3
      <4>4. CASE q = p /\ b = v BY <1>12, <4>1, <4>2, <4>4, PteFacts
      <4>5. CASE q = p /\ b = a /\ b # v BY <1>12, <4>1, <4>2, <4>5, PteFacts
      <4>6. CASE q = p /\ b # a /\ b # v BY <1>12, <4>1, <4>2, <4>6
      <4> QED BY <4>3, <4>4, <4>5, <4>6
    <3>2. InMemory' \in SUBSET (Procs \X Pages) BY DEF InMemory
    <3> QED BY <1>4, <2>1, <3>1, <3>2
  <2>3. Cardinality(InMemory \cup ({p} \X {a})) = Cardinality(InMemory) + Cardinality({a})
    <3>1. \A b \in {a} : <<p, b>> \notin InMemory BY DEF InMemory
    <3> QED BY <2>1, <3>1, MoreInMemory
  <2>4. InMemory \cup ({p} \X {a}) \in SUBSET (Procs \X Pages) BY <2>1
  <2>5. Cardinality((InMemory \cup ({p} \X {a})) \ ({p} \X {v})) =
          Cardinality(InMemory \cup ({p} \X {a})) - Cardinality({v})
    <3>1. \A b \in {v} : <<p, b>> \in InMemory \cup ({p} \X {a}) BY <1>4, <1>6 DEF InMemory
    <3> QED BY <1>4, <2>4, <3>1, FewerInMemory
  <2>6. Cardinality({a}) = 1 /\ Cardinality({v}) = 1 BY FS_Singleton
  <2>7. Cardinality(InMemory) \in Nat BY <2>1, PlacesFinite
  <2> QED BY <2>2, <2>3, <2>5, <2>6, <2>7
<1> QED BY <1>4, <1>6, <1>8, <1>10, <1>12, <1>13, <1>14, <1>15

\* No page is lost in a swap: v goes out to the slot, and a comes in with what it must
\* hold if the entries used up (X) were its only ones.
LEMMA SwapKeeps ==
  ASSUME NEW p \in Procs, Kept(p), state[p] = "live", state'[p] = "live",
         NEW a \in Pages, NEW v \in Pages, v # a, pte[p][v].P, v < next[p],
         NEW data \in Contents, NEW slot \in Slots, NEW X,
         \A m \in X : m.va = a,
         \A m \in ToSet(meta_list[p]) :
           m.slot \in Slots /\ m.va \in Pages /\ (m.slot = slot => m \in X),
         ToSet(meta_list'[p]) = (ToSet(meta_list[p]) \ X) \cup {[va |-> v, slot |-> slot]},
         \A b \in Pages : pte'[p][b] = IF b = v THEN SwappedOut
                                       ELSE IF b = a THEN Mapped(data) ELSE pte[p][b],
         \A s \in Slots : swapFile'[p][s] = IF s = slot THEN pte[p][v].data
                                            ELSE swapFile[p][s],
         \A b \in Pages : b < next'[p] => b < next[p] \/ b = a,
         \A b \in Pages : b # a => mem'[p][b] = mem[p][b],
         Entries(p, a) \ X = {} => data = mem'[p][a]
  PROVE  Kept(p)'
<1> DEFINE e == [va |-> v, slot |-> slot]
<1>1. e.va = v /\ e.slot = slot OBVIOUS
<1>2. Entries(p, v)' = Entries(p, v) \cup {e} BY DEF Entries
<1>3. Entries(p, a)' = Entries(p, a) \ X BY DEF Entries
<1>4. \A b \in Pages : b # v /\ b # a => Entries(p, b)' = Entries(p, b) BY DEF Entries
<1>5. e \notin Entries(p, v) BY DEF Entries
<1> SUFFICES ASSUME NEW b \in Pages, b < next'[p]
             PROVE  /\ pte'[p][b].P \/ Entries(p, b)' # {}
                    /\ pte'[p][b].P /\ Entries(p, b)' = {} => pte'[p][b].data = mem'[p][b]
                    /\ \A m \in Entries(p, b)' :
                         ~pte'[p][b].P /\ Entries(p, b)' = {m} =>
                           swapFile'[p][m.slot] = mem'[p][b]
  BY Zenon DEF Kept
<1>6. CASE b = a
  <2>1. pte'[p][b].P /\ pte'[p][b].data = data BY <1>6, PteFacts
  <2> QED BY <1>3, <1>6, <2>1
<1>7. CASE b = v
  <2>1. ~pte'[p][b].P BY <1>7, PteFacts
  <2>2. e \in Entries(p, b)' BY <1>2, <1>7
  <2>3. ASSUME NEW m \in Entries(p, b)', Entries(p, b)' = {m}
        PROVE  swapFile'[p][m.slot] = mem'[p][b]
    <3>1. m = e BY <2>2, <2>3
    <3>2. Entries(p, v) = {} BY <1>2, <1>5, <1>7, <2>3
    <3>3. pte[p][v].data = mem[p][v] BY <3>2 DEF Kept
    <3> QED BY <1>1, <1>7, <3>1, <3>3
  <2> QED BY <2>1, <2>2, <2>3
<1>8. CASE b # a /\ b # v
  <2>1. pte'[p][b] = pte[p][b] /\ mem'[p][b] = mem[p][b] /\ b < next[p] BY <1>8
  <2>2. Entries(p, b)' = Entries(p, b) BY <1>4, <1>8
  <2>3. \A m \in Entries(p, b) : swapFile'[p][m.slot] = swapFile[p][m.slot]
    BY <1>8 DEF Entries
  <2> QED BY <2>1, <2>2, <2>3 DEF Kept
<1> QED BY <1>6, <1>7, <1>8

\* An entry more at the end.
LEMMA EntryAppended ==
  ASSUME NEW S, NEW ms \in Seq(S), NEW e \in S
  PROVE  /\ Append(ms, e) \in Seq(S)
         /\ Len(Append(ms, e)) = Len(ms) + 1
         /\ ToSet(Append(ms, e)) = ToSet(ms) \cup {e}
<1> DEFINE new == Append(ms, e)
<1>1. PICK n \in Nat : n = Len(ms) /\ DOMAIN ms = 1 .. n BY LenProperties
<1>2. /\ new \in Seq(S) /\ Len(new) = n + 1 /\ DOMAIN new = 1 .. n + 1
      /\ new[n + 1] = e
      /\ \A i \in 1 .. n : new[i] = ms[i]
  BY <1>1, AppendProperties, LenProperties
<1> HIDE DEF new
<1>4. ToSet(new) = ToSet(ms) \cup {e}
  <2>1. \A i \in 1 .. n + 1 : i \in 1 .. n \/ i = n + 1 BY <1>1
  <2>2. \A i \in 1 .. n + 1 : new[i] \in ToSet(ms) \cup {e} BY <1>1, <1>2, <2>1, Zenon DEF ToSet
  <2>3. \A i \in 1 .. n : i \in 1 .. n + 1 /\ new[i] = ms[i] BY <1>1, <1>2
  <2>4. n + 1 \in 1 .. n + 1 BY <1>1
  <2>5. ToSet(new) = {new[i] : i \in 1 .. n + 1} /\ ToSet(ms) = {ms[i] : i \in 1 .. n}
    BY <1>1, <1>2 DEF ToSet
  <2> QED BY ONLY <1>2, <2>2, <2>3, <2>4, <2>5, SMT
<1> QED BY <1>1, <1>2, <1>4 DEF new

\* What the invariant says of a process, for the types.
LEMMA ProcTypes ==
  ASSUME TypeOK, NEW p \in Procs
  PROVE  /\ MaxPages \in Nat \ {0} /\ MAX_PSYCH_PAGES \in Nat \ {0} /\ NFrames \in Nat
         /\ Pages = 0 .. MaxPages - 1 /\ Slots = 0 .. MAX_PSYCH_PAGES - 1
         /\ sz[p] \in 0 .. MaxPages /\ next[p] \in 0 .. MaxPages /\ goal[p] \in 0 .. MaxPages
         /\ pte[p] \in [Pages -> Pte] /\ mem[p] \in [Pages -> Contents]
         /\ page_list[p] \in Seq(Pages) /\ meta_list[p] \in Seq(Metas)
         /\ file_offset[p] \in 0 .. MAX_PSYCH_PAGES
         /\ swapFile[p] \in [Slots -> Contents]
         /\ free \in 0 .. NFrames /\ leaked \in 0 .. NFrames
         /\ \A m \in ToSet(meta_list[p]) : m.slot \in Slots /\ m.va \in Pages /\ m \in Metas
<1>1. meta_list[p] \in Seq(Metas) BY DEF TypeOK, Metas
<1>2. \A m \in ToSet(meta_list[p]) : m \in Metas BY <1>1, LenProperties DEF ToSet
<1>3. \A m \in Metas : m.slot \in Slots /\ m.va \in Pages BY DEF Metas
<1> QED BY <1>1, <1>2, <1>3, PagingAssumption DEF TypeOK, Pages, Slots, Pte

-----------------------------------------------------------------------------
(* sbrk *)

\* A turn of allocuvm: with room in the list, or with a page going out for the new one.
LEMMA AllocStep ==
  ASSUME PagingInv, NEW p \in Procs, AllocPage(p)
  PROVE  PagingInv'
<1>1. PICK a : a = next[p] OBVIOUS
<1>2. TypeOK /\ FramesCounted /\ Lists(p) /\ Sizes(p) /\ Kept(p) BY DEF PagingInv
<1>3. /\ state[p] = "live" /\ ~broken /\ free > 0 /\ a < goal[p] /\ ~pte[p][a].P
      /\ next' = [next EXCEPT ![p] = a + 1]
      /\ sz' = [sz EXCEPT ![p] = IF a + 1 = goal[p] THEN goal[p] ELSE sz[p]]
      /\ mem' = [mem EXCEPT ![p][a] = Zero]
      /\ UNCHANGED <<state, parent, goal, leaked, broken>>
  BY <1>1, <1>2 DEF AllocPage, Allocating, TypeOK
<1>4. a \in Pages /\ a \in Nat /\ a + 1 \in 0 .. MaxPages
  <2>1. /\ a \in 0 .. MaxPages /\ goal[p] \in 0 .. MaxPages
        /\ MaxPages \in Nat \ {0} /\ Pages = 0 .. MaxPages - 1
    BY <1>1, <1>2, ProcTypes
  <2> QED BY ONLY <1>3, <2>1
<1>5. Zero \in Contents BY PteFacts
<1>6. /\ next' \in [Procs -> 0 .. MaxPages] /\ next'[p] = a + 1
      /\ \A q \in Procs : q # p => next'[q] = next[q]
  BY <1>2, <1>3, <1>4 DEF TypeOK, Pte, Metas
<1>7. /\ sz' \in [Procs -> 0 .. MaxPages]
      /\ sz'[p] = IF a + 1 = goal[p] THEN goal[p] ELSE sz[p]
      /\ \A q \in Procs : q # p => sz'[q] = sz[q]
  BY <1>2, <1>3 DEF TypeOK, Pte, Metas
<1>8. /\ mem' \in [Procs -> [Pages -> Contents]]
      /\ \A q \in Procs : q # p => mem'[q] = mem[q]
      /\ \A b \in Pages : mem'[p][b] = IF b = a THEN Zero ELSE mem[p][b]
  BY <1>2, <1>3, <1>4, <1>5 DEF TypeOK, Pte, Metas
<1>9. ASSUME NEW b \in Pages, pte'[p][b].P => pte[p][b].P \/ b = a
      PROVE  pte'[p][b].P => b < next'[p]
  BY <1>1, <1>2, <1>4, <1>6, <1>9, ProcTypes DEF Sizes
<1>10. ASSUME \A b \in Pages : pte'[p][b].P => pte[p][b].P \/ b = a
       PROVE  Sizes(p)'
  <2>1. sz'[p] <= a + 1 /\ a + 1 <= goal[p]
    <3>1. sz[p] <= a BY <1>1, <1>2 DEF Sizes
    <3>2. sz[p] \in Int /\ goal[p] \in Int BY <1>2, ProcTypes
    <3> QED BY ONLY <1>3, <1>4, <1>7, <3>1, <3>2
  <2> QED BY <1>3, <1>6, <1>7, <1>9, <1>10, <2>1 DEF Sizes
<1>11. CASE ListFull(p)
  <2>1. PICK v : v = Head(page_list[p]) OBVIOUS
  <2>2. PICK s : s = file_offset[p] OBVIOUS
  <2>0. PICK e : e = [va |-> v, slot |-> s] OBVIOUS
  <2>3. /\ SwapOutFor(p, a, Zero, s)
        /\ meta_list' = [meta_list EXCEPT ![p] = Append(meta_list[p], e)]
        /\ file_offset' = [file_offset EXCEPT ![p] = s + 1]
        /\ free' = free
        /\ Len(meta_list[p]) < MAX_PSYCH_PAGES
    <3>1. ~(Len(meta_list[p]) >= MAX_PSYCH_PAGES) BY <1>11 DEF AllocPage, MetaFull
    <3>2. Len(meta_list[p]) \in Nat BY <1>2, ProcTypes, LenProperties
    <3>3. Len(meta_list[p]) < MAX_PSYCH_PAGES BY <1>2, <3>1, <3>2, ProcTypes
    <3>4. /\ SwapOutFor(p, next[p], Zero, file_offset[p])
          /\ meta_list' = [meta_list EXCEPT ![p] =
               Append(@, [va |-> Head(page_list[p]), slot |-> file_offset[p]])]
          /\ file_offset' = [file_offset EXCEPT ![p] = @ + 1]
          /\ UNCHANGED free
      BY <1>11, Zenon DEF AllocPage
    <3> QED BY <1>1, <1>2, <1>11, <2>1, <2>0, <2>2, <3>3, <3>4 DEF AllocPage, TypeOK
  <2>4. page_list[p] # <<>>
    <3>1. Len(page_list[p]) >= MAX_PSYCH_PAGES BY <1>11 DEF ListFull
    <3>2. page_list[p] = <<>> => Len(page_list[p]) = 0 OBVIOUS
    <3> QED BY <1>2, <3>1, <3>2, ProcTypes
  <2>5. s \in Nat /\ s = Len(meta_list[p]) /\ s \in Slots /\ s + 1 \in 0 .. MAX_PSYCH_PAGES
    BY <1>2, <2>2, <2>3, ProcTypes DEF Lists
  <2>6. /\ v \in Pages /\ v # a /\ pte[p][v].P
        /\ pte' \in [Procs -> [Pages -> Pte]]
        /\ page_list' \in [Procs -> Seq(Pages)]
        /\ swapFile' \in [Procs -> [Slots -> Contents]]
        /\ \A q \in Procs : q # p => /\ pte'[q] = pte[q]
                                     /\ page_list'[q] = page_list[q]
                                     /\ swapFile'[q] = swapFile[q]
        /\ \A b \in Pages : pte'[p][b] = IF b = v THEN SwappedOut
                                         ELSE IF b = a THEN Mapped(Zero) ELSE pte[p][b]
        /\ \A t \in Slots : swapFile'[p][t] = IF t = s THEN pte[p][v].data
                                              ELSE swapFile[p][t]
        /\ Len(page_list'[p]) <= MAX_PSYCH_PAGES
        /\ IsInjective(page_list'[p])
        /\ \A i \in DOMAIN page_list'[p] : pte'[p][page_list'[p][i]].P
        /\ Cardinality(InMemory') = Cardinality(InMemory)
    BY <1>2, <1>3, <1>4, <1>5, <2>1, <2>3, <2>4, <2>5, SwapFacts, SMTT(30)
  <2>7. e \in Metas /\ e.slot = s BY <2>0, <2>5, <2>6 DEF Metas
  <2>8. /\ Append(meta_list[p], e) \in Seq(Metas)
        /\ Len(Append(meta_list[p], e)) = s + 1
        /\ ToSet(Append(meta_list[p], e)) = ToSet(meta_list[p]) \cup {e}
    <3>1. meta_list[p] \in Seq(Metas) BY <1>2, ProcTypes
    <3>2. /\ Append(meta_list[p], e) \in Seq(Metas)
          /\ Len(Append(meta_list[p], e)) = Len(meta_list[p]) + 1
          /\ ToSet(Append(meta_list[p], e)) = ToSet(meta_list[p]) \cup {e}
      BY ONLY <2>7, <3>1, EntryAppended
    <3> QED BY ONLY <2>5, <3>2, Zenon
  <2>9. /\ meta_list' \in [Procs -> Seq(Metas)]
        /\ meta_list'[p] = Append(meta_list[p], e)
        /\ \A q \in Procs : q # p => meta_list'[q] = meta_list[q]
    BY <1>2, <2>3, <2>8 DEF TypeOK, Pte, Metas
  <2>10. /\ file_offset' \in [Procs -> 0 .. MAX_PSYCH_PAGES]
         /\ file_offset'[p] = s + 1
         /\ \A q \in Procs : q # p => file_offset'[q] = file_offset[q]
    BY <1>2, <2>3, <2>5 DEF TypeOK, Pte, Metas
  <2>11. TypeOK'
    BY <1>2, <1>3, <1>6, <1>7, <1>8, <2>3, <2>6, <2>9, <2>10 DEF TypeOK, Pte, Metas
  <2>12. FramesCounted' BY <1>2, <1>3, <2>3, <2>6 DEF FramesCounted, InMemory
  <2>13. Lists(p)'
    <3>1. {meta_list'[p][i].slot : i \in DOMAIN meta_list'[p]} = {m.slot : m \in ToSet(meta_list'[p])}
      BY DEF ToSet
    <3>2. {meta_list[p][i].slot : i \in DOMAIN meta_list[p]} = {m.slot : m \in ToSet(meta_list[p])}
      BY DEF ToSet
    <3>3. {m.slot : m \in ToSet(meta_list[p])} = 0 .. s - 1 BY <1>2, <2>2, <3>2 DEF Lists
    <3>4. {m.slot : m \in ToSet(meta_list'[p])} = (0 .. s - 1) \cup {s}
      BY <2>7, <2>8, <2>9, <3>3
    <3>5. (0 .. s - 1) \cup {s} = 0 .. (s + 1) - 1 BY <2>5
    <3> QED BY <2>6, <2>8, <2>9, <2>10, <3>1, <3>4, <3>5 DEF Lists
  <2>14. Kept(p)'
    <3>1. \A m \in ToSet(meta_list[p]) : m.slot \in Slots /\ m.va \in Pages /\ m.slot # s
      <4>1. \A m \in ToSet(meta_list[p]) : m.slot \in 0 .. s - 1
        BY <1>2, <2>2 DEF Lists, ToSet
      <4> QED BY <1>2, <2>5, <4>1, ProcTypes
    <3>2. v < next[p] BY <1>2, <2>6 DEF Sizes
    <3>0. PICK X : X = {} OBVIOUS
    <3>3. ToSet(meta_list'[p]) = (ToSet(meta_list[p]) \ X) \cup {[va |-> v, slot |-> s]}
      BY <2>0, <2>8, <2>9, <3>0
    <3>4. \A b \in Pages : b < next'[p] => b < next[p] \/ b = a
      BY <1>1, <1>4, <1>6, PagingAssumption DEF Pages
    <3>5. Zero = mem'[p][a] BY <1>4, <1>8
    <3>6. state'[p] = "live" BY <1>3
    <3>7. \A b \in Pages : b # a => mem'[p][b] = mem[p][b] BY <1>8
    <3>8. /\ \A m \in X : m.va = a
          /\ \A m \in ToSet(meta_list[p]) :
               m.slot \in Slots /\ m.va \in Pages /\ (m.slot = s => m \in X)
      BY <3>0, <3>1
    <3>9. Entries(p, a) \ X = {} => Zero = mem'[p][a] BY <3>5
    <3>10. /\ p \in Procs /\ Kept(p) /\ state[p] = "live" /\ a \in Pages /\ Zero \in Contents
           /\ s \in Slots /\ v \in Pages /\ v # a /\ pte[p][v].P
           /\ \A b \in Pages : pte'[p][b] = IF b = v THEN SwappedOut
                                            ELSE IF b = a THEN Mapped(Zero) ELSE pte[p][b]
           /\ \A t \in Slots : swapFile'[p][t] = IF t = s THEN pte[p][v].data
                                                 ELSE swapFile[p][t]
      BY <1>2, <1>3, <1>4, <1>5, <2>5, <2>6
    <3> QED BY ONLY <3>2, <3>3, <3>4, <3>6, <3>7, <3>8, <3>9, <3>10, SwapKeeps, SMTT(60)
  <2>15. ASSUME NEW q \in Procs, q # p PROVE (Lists(q) /\ Sizes(q) /\ Kept(q))'
    BY <1>3, <1>6, <1>7, <1>8, <2>6, <2>9, <2>10, <2>15, Untouched DEF PagingInv
  <2>16. Sizes(p)' BY <1>10, <2>6, PteFacts
  <2> QED BY <2>11, <2>12, <2>13, <2>14, <2>15, <2>16 DEF PagingInv
<1>12. CASE ~ListFull(p)
  <2>1. /\ pte' = [pte EXCEPT ![p][a] = Mapped(Zero)]
        /\ page_list' = [page_list EXCEPT ![p] = Append(page_list[p], a)]
        /\ free' = free - 1
        /\ UNCHANGED <<meta_list, file_offset, swapFile>>
    BY <1>1, <1>2, <1>12 DEF AllocPage, TypeOK
  <2>2. Mapped(Zero) \in Pte /\ Mapped(Zero).P /\ Mapped(Zero).data = Zero
    BY <1>5, PteFacts
  <2>3. /\ pte' \in [Procs -> [Pages -> Pte]]
        /\ \A b \in Pages : pte'[p][b] = IF b = a THEN Mapped(Zero) ELSE pte[p][b]
        /\ \A q \in Procs : q # p => pte'[q] = pte[q]
    BY <1>2, <1>4, <2>1, <2>2 DEF TypeOK, Pte, Metas
  <2>4. PICK list : list = page_list[p] OBVIOUS
  <2>5. list \in Seq(Pages) BY <1>2, <2>4, ProcTypes
  <2>6. PICK n \in Nat : n = Len(list) /\ DOMAIN list = 1 .. n BY <2>5, LenProperties
  <2>7. n < MAX_PSYCH_PAGES BY <1>2, <1>12, <2>4, <2>6, ProcTypes DEF ListFull
  <2>8. \A i \in 1 .. n : list[i] \in Pages /\ pte[p][list[i]].P
    BY <1>2, <2>4, <2>5, <2>6, LenProperties DEF Lists
  <2>9. PICK new : new = Append(list, a) OBVIOUS
  <2>10. /\ new \in Seq(Pages) /\ Len(new) = n + 1 /\ DOMAIN new = 1 .. n + 1
         /\ new[n + 1] = a /\ \A i \in 1 .. n : new[i] = list[i]
    BY <1>4, <2>5, <2>6, <2>9, AppendProperties, LenProperties
  <2>11. \A i \in 1 .. n + 1 : i \in 1 .. n \/ i = n + 1 BY <2>6
  <2>12. IsInjective(new)
    <3> SUFFICES ASSUME NEW i \in 1 .. n + 1, NEW j \in 1 .. n + 1, new[i] = new[j]
                 PROVE  i = j
      BY <2>10 DEF IsInjective
    <3>1. CASE i \in 1 .. n /\ j \in 1 .. n
      BY <1>2, <2>4, <2>6, <2>10, <3>1 DEF Lists, IsInjective
    <3>2. CASE i = n + 1 /\ j \in 1 .. n BY <1>3, <2>8, <2>10, <3>2
    <3>3. CASE i \in 1 .. n /\ j = n + 1 BY <1>3, <2>8, <2>10, <3>3
    <3> QED BY <2>11, <3>1, <3>2, <3>3
  <2>13. /\ page_list' \in [Procs -> Seq(Pages)] /\ page_list'[p] = new
         /\ \A q \in Procs : q # p => page_list'[q] = page_list[q]
    BY <1>2, <2>1, <2>4, <2>9, <2>10 DEF TypeOK, Pte, Metas
  <2>14. free' \in 0 .. NFrames BY <1>2, <1>3, <2>1, ProcTypes
  <2>15. TypeOK'
    BY <1>2, <1>3, <1>6, <1>7, <1>8, <2>1, <2>3, <2>13, <2>14 DEF TypeOK, Pte, Metas
  <2>16. FramesCounted'
    <3>1. InMemory \in SUBSET (Procs \X Pages) BY DEF InMemory
    <3>2. InMemory' = InMemory \cup ({p} \X {a})
      <4>1. ASSUME NEW q \in Procs, NEW b \in Pages
            PROVE  pte'[q][b].P <=> pte[q][b].P \/ (q = p /\ b = a)
        BY <2>2, <2>3
      <4> QED BY <1>4, <4>1 DEF InMemory
    <3>3. Cardinality(InMemory \cup ({p} \X {a})) = Cardinality(InMemory) + Cardinality({a})
      <4>1. \A b \in {a} : <<p, b>> \notin InMemory BY <1>3 DEF InMemory
      <4>2. {a} \in SUBSET Pages BY <1>4
      <4> QED BY <3>1, <4>1, <4>2, MoreInMemory
    <3>4. Cardinality({a}) = 1 /\ Cardinality(InMemory) \in Nat
      BY <3>1, PlacesFinite, FS_Singleton
    <3>5. free + leaked + Cardinality(InMemory) = NFrames BY <1>2 DEF FramesCounted, InMemory
    <3>6. free' + leaked' + Cardinality(InMemory') = NFrames
      BY <1>2, <1>3, <2>1, <3>2, <3>3, <3>4, <3>5, ProcTypes
    <3> QED BY <3>6 DEF FramesCounted, InMemory
  <2>17. Lists(p)'
    <3>1. \A i \in 1 .. n + 1 : pte'[p][new[i]].P
      <4>1. \A b \in Pages : b = a \/ pte[p][b].P => pte'[p][b].P BY <2>2, <2>3
      <4> QED BY ONLY <1>4, <2>8, <2>10, <2>11, <4>1, Zenon
    <3>2. n + 1 <= MAX_PSYCH_PAGES BY <1>2, <2>7, ProcTypes
    <3>3. /\ Len(meta_list'[p]) = file_offset'[p]
          /\ {meta_list'[p][i].slot : i \in DOMAIN meta_list'[p]} = 0 .. file_offset'[p] - 1
      BY <1>2, <2>1 DEF Lists
    <3>4. Len(page_list'[p]) <= MAX_PSYCH_PAGES BY <2>10, <2>13, <3>2
    <3>5. \A i \in DOMAIN page_list'[p] : pte'[p][page_list'[p][i]].P BY <2>10, <2>13, <3>1
    <3>6. IsInjective(page_list'[p]) BY <2>12, <2>13
    <3> QED BY ONLY <3>3, <3>4, <3>5, <3>6 DEF Lists
  <2>18. Kept(p)'
    <3>1. \A b \in Pages : Entries(p, b)' = Entries(p, b) BY <2>1 DEF Entries
    <3>2. \A b \in Pages : b < next'[p] => b < next[p] \/ b = a
      BY <1>1, <1>4, <1>6, PagingAssumption DEF Pages
    <3>3. ASSUME NEW b \in Pages, b < next'[p]
          PROVE  /\ pte'[p][b].P \/ Entries(p, b) # {}
                 /\ pte'[p][b].P /\ Entries(p, b) = {} => pte'[p][b].data = mem'[p][b]
                 /\ \A m \in Entries(p, b) :
                      ~pte'[p][b].P /\ Entries(p, b) = {m} =>
                        swapFile'[p][m.slot] = mem'[p][b]
      <4>1. CASE b = a BY <1>8, <2>2, <2>3, <4>1
      <4>2. CASE b # a BY <1>2, <1>3, <1>8, <2>1, <2>3, <3>2, <3>3, <4>2 DEF Kept
      <4> QED BY <4>1, <4>2
    <3> QED BY <3>1, <3>3 DEF Kept
  <2>19. ASSUME NEW q \in Procs, q # p PROVE (Lists(q) /\ Sizes(q) /\ Kept(q))'
    BY <1>3, <1>6, <1>7, <1>8, <2>1, <2>3, <2>13, <2>19, Untouched DEF PagingInv
  <2>20. Sizes(p)' BY <1>10, <2>3
  <2> QED BY <2>15, <2>16, <2>17, <2>18, <2>19, <2>20 DEF PagingInv
<1> QED BY <1>11, <1>12

-----------------------------------------------------------------------------
(* Frames given back *)

\* Pages of p lose their frames, which go to the free list.
LEMMA FramesFreed ==
  ASSUME TypeOK, FramesCounted, NEW p \in Procs, NEW A \in SUBSET Pages,
         \A a \in A : pte[p][a].P,
         free' = free + Cardinality(A), leaked' = leaked,
         \A q \in Procs, b \in Pages : pte'[q][b].P <=> pte[q][b].P /\ ~(q = p /\ b \in A)
  PROVE  FramesCounted' /\ free' \in 0 .. NFrames
<1>1. InMemory \in SUBSET (Procs \X Pages) BY DEF InMemory
<1>2. InMemory' = InMemory \ ({p} \X A) BY DEF InMemory
<1>3. Cardinality(InMemory \ ({p} \X A)) = Cardinality(InMemory) - Cardinality(A)
  <2>1. \A a \in A : <<p, a>> \in InMemory BY DEF InMemory
  <2> QED BY <1>1, <2>1, FewerInMemory
<1>4. Cardinality(InMemory) \in Nat /\ Cardinality(InMemory') \in Nat /\ Cardinality(A) \in Nat
  <2>1. InMemory' \in SUBSET (Procs \X Pages) BY <1>1, <1>2
  <2> QED BY <1>1, <2>1, PlacesFinite, PlacesOfOne
<1>5. free + leaked + Cardinality(InMemory) = NFrames BY DEF FramesCounted, InMemory
<1>6. free \in Nat /\ leaked \in Nat /\ NFrames \in Nat BY PagingAssumption DEF TypeOK
<1>7. free' + leaked' + Cardinality(InMemory') = NFrames BY <1>2, <1>3, <1>4, <1>5, <1>6
<1>8. free' \in 0 .. NFrames BY <1>2, <1>3, <1>4, <1>5, <1>6
<1> QED BY <1>7, <1>8 DEF FramesCounted, InMemory

\* deallocuvm: the pages are neither mapped nor listed, and all others are.
LEMMA FreeFacts ==
  ASSUME TypeOK, FramesCounted, NEW p \in Procs, Lists(p),
         NEW lo \in Nat, NEW hi \in Nat, FreePages(p, lo, hi), leaked' = leaked
  PROVE  /\ FramesCounted' /\ free' \in 0 .. NFrames
         /\ pte' \in [Procs -> [Pages -> Pte]]
         /\ page_list' \in [Procs -> Seq(Pages)]
         /\ \A q \in Procs : q # p => pte'[q] = pte[q] /\ page_list'[q] = page_list[q]
         /\ \A b \in Pages : IF lo <= b /\ b < hi THEN ~pte'[p][b].P ELSE pte'[p][b] = pte[p][b]
         /\ Len(page_list'[p]) <= MAX_PSYCH_PAGES
         /\ IsInjective(page_list'[p])
         /\ \A i \in DOMAIN page_list'[p] : pte'[p][page_list'[p][i]].P
<1> DEFINE A == Resident(p, lo, hi)
<1>1. A \in SUBSET Pages /\ \A b \in Pages : b \in A <=> lo <= b /\ b < hi /\ pte[p][b].P
  BY DEF Resident
<1>2. /\ page_list' = [page_list EXCEPT ![p] = RemovePages(@, A)]
      /\ free' = free + Cardinality(A)
      /\ pte' = [pte EXCEPT ![p] = [a \in Pages |-> IF a \in A THEN Unmapped ELSE @[a]]]
  BY DEF FreePages
<1> HIDE DEF A
<1>3. /\ pte \in [Procs -> [Pages -> Pte]] /\ page_list \in [Procs -> Seq(Pages)]
  BY DEF TypeOK, Pte
<1>4. Unmapped \in Pte /\ ~Unmapped.P BY PteFacts
<1>5. PICK list : list = page_list[p] OBVIOUS
<1>6. PICK new : new = RemovePages(list, A) OBVIOUS
<1>7. list \in Seq(Pages) /\ IsInjective(list) /\ Len(list) <= MAX_PSYCH_PAGES
  BY <1>3, <1>5 DEF Lists
<1>8. /\ new \in Seq(Pages) /\ Len(new) <= Len(list) /\ IsInjective(new)
      /\ \A n \in DOMAIN new : new[n] \in ToSet(list) /\ new[n] \notin A
  BY <1>6, <1>7, RemovePagesFacts
<1>9. \A b \in ToSet(list) : b \in Pages /\ pte[p][b].P
  BY <1>5, <1>7, LenProperties DEF Lists, ToSet
<1>10. /\ page_list' \in [Procs -> Seq(Pages)] /\ page_list'[p] = new
       /\ \A q \in Procs : q # p => page_list'[q] = page_list[q]
  BY <1>2, <1>3, <1>5, <1>6, <1>8
<1>11. /\ pte'[p] = [a \in Pages |-> IF a \in A THEN Unmapped ELSE pte[p][a]]
       /\ \A q \in Procs : q # p => pte'[q] = pte[q]
  BY <1>2, <1>3
<1>12. [a \in Pages |-> IF a \in A THEN Unmapped ELSE pte[p][a]] \in [Pages -> Pte]
  BY <1>3, <1>4
<1>13. pte' \in [Procs -> [Pages -> Pte]] BY <1>2, <1>3, <1>12
<1>14. \A b \in Pages : pte'[p][b] = IF b \in A THEN Unmapped ELSE pte[p][b] BY <1>11
<1>15. \A b \in Pages : IF lo <= b /\ b < hi THEN ~pte'[p][b].P ELSE pte'[p][b] = pte[p][b]
  BY <1>1, <1>4, <1>14
<1>16. FramesCounted' /\ free' \in 0 .. NFrames
  <2>1. \A a \in A : pte[p][a].P BY <1>1
  <2>2. ASSUME NEW q \in Procs, NEW b \in Pages
        PROVE  pte'[q][b].P <=> pte[q][b].P /\ ~(q = p /\ b \in A)
    BY <1>4, <1>11, <1>14
  <2> QED BY <1>1, <1>2, <2>1, <2>2, FramesFreed
<1>17. \A i \in DOMAIN new : pte'[p][new[i]].P
  <2>1. \A b \in Pages : pte[p][b].P /\ b \notin A => pte'[p][b].P BY <1>14
  <2> QED BY <1>8, <1>9, <2>1
<1>18. Len(new) <= MAX_PSYCH_PAGES
  BY <1>7, <1>8, LenProperties, PagingAssumption
<1> QED BY <1>8, <1>10, <1>11, <1>13, <1>15, <1>16, <1>17, <1>18

\* A process that keeps its entries and its swap file, and below next' its pages.
LEMMA PagesStay ==
  ASSUME NEW p \in Procs, Kept(p), state[p] = "live",
         meta_list'[p] = meta_list[p], swapFile'[p] = swapFile[p],
         \A b \in Pages : b < next'[p] =>
           /\ b < next[p]
           /\ pte'[p][b] = pte[p][b]
           /\ mem'[p][b] = mem[p][b]
  PROVE  Kept(p)'
<1>1. \A b \in Pages : Entries(p, b)' = Entries(p, b) BY DEF Entries
<1>2. ASSUME NEW b \in Pages, b < next'[p]
      PROVE  /\ pte'[p][b].P \/ Entries(p, b) # {}
             /\ pte'[p][b].P /\ Entries(p, b) = {} => pte'[p][b].data = mem'[p][b]
             /\ \A m \in Entries(p, b) :
                  ~pte'[p][b].P /\ Entries(p, b) = {m} => swapFile'[p][m.slot] = mem'[p][b]
  BY <1>2 DEF Kept
<1> QED BY <1>1, <1>2 DEF Kept

\* The pages added are given back when there is no frame for the next one.
LEMMA AllocFailsStep ==
  ASSUME PagingInv, NEW p \in Procs, AllocFails(p)
  PROVE  PagingInv'
<1>1. TypeOK /\ FramesCounted /\ Lists(p) /\ Sizes(p) /\ Kept(p) BY DEF PagingInv
<1>2. PICK lo, hi : lo = sz[p] /\ hi = goal[p] OBVIOUS
<1>3. lo \in Nat /\ hi \in Nat /\ lo \in 0 .. MaxPages /\ lo <= next[p] /\ next[p] <= hi
  BY <1>1, <1>2, ProcTypes DEF Sizes
<1>4. /\ state[p] = "live" /\ FreePages(p, lo, hi)
      /\ next' = [next EXCEPT ![p] = lo] /\ goal' = [goal EXCEPT ![p] = lo]
      /\ UNCHANGED <<state, parent, sz, meta_list, file_offset, swapFile, leaked, mem, broken>>
  BY <1>2 DEF AllocFails, Allocating
<1>5. /\ next' \in [Procs -> 0 .. MaxPages] /\ next'[p] = lo
      /\ goal' \in [Procs -> 0 .. MaxPages] /\ goal'[p] = lo
      /\ \A q \in Procs : q # p => next'[q] = next[q] /\ goal'[q] = goal[q]
  BY <1>1, <1>3, <1>4 DEF TypeOK
<1>6. /\ FramesCounted' /\ free' \in 0 .. NFrames
      /\ pte' \in [Procs -> [Pages -> Pte]]
      /\ page_list' \in [Procs -> Seq(Pages)]
      /\ \A q \in Procs : q # p => pte'[q] = pte[q] /\ page_list'[q] = page_list[q]
      /\ \A b \in Pages : IF lo <= b /\ b < hi THEN ~pte'[p][b].P ELSE pte'[p][b] = pte[p][b]
      /\ Len(page_list'[p]) <= MAX_PSYCH_PAGES
      /\ IsInjective(page_list'[p])
      /\ \A i \in DOMAIN page_list'[p] : pte'[p][page_list'[p][i]].P
  BY <1>1, <1>3, <1>4, FreeFacts
<1>7. TypeOK' BY <1>1, <1>4, <1>5, <1>6 DEF TypeOK, Pte
<1>8. Lists(p)' BY <1>1, <1>4, <1>6 DEF Lists
<1>9. ASSUME NEW b \in Pages PROVE b \in Nat BY PagingAssumption DEF Pages
<1>10. Sizes(p)'
  <2>1. \A b \in Pages : pte'[p][b].P => b < lo
    <3> SUFFICES ASSUME NEW b \in Pages, pte'[p][b].P, ~(b < lo) PROVE FALSE
      OBVIOUS
    <3>1. ~(b < hi) BY <1>3, <1>6, <1>9
    <3>2. pte[p][b].P BY <1>6, <3>1
    <3>3. b < next[p] BY <1>1, <3>2 DEF Sizes
    <3> QED BY <1>1, <1>3, <1>9, <3>1, <3>3, ProcTypes
  <2> QED BY <1>1, <1>2, <1>3, <1>4, <1>5, <2>1 DEF Sizes
<1>11. Kept(p)'
  <2>1. ASSUME NEW b \in Pages, b < next'[p]
        PROVE  b < next[p] /\ pte'[p][b] = pte[p][b] /\ mem'[p][b] = mem[p][b]
    BY <1>1, <1>3, <1>4, <1>5, <1>6, <1>9, <2>1, ProcTypes
  <2> QED BY <1>1, <1>4, <2>1, PagesStay
<1>12. ASSUME NEW q \in Procs, q # p PROVE (Lists(q) /\ Sizes(q) /\ Kept(q))'
  BY <1>4, <1>5, <1>6, <1>12, Untouched DEF PagingInv
<1> QED BY <1>6, <1>7, <1>8, <1>10, <1>11, <1>12 DEF PagingInv

\* sbrk of a smaller size: nothing is mapped beyond it afterwards.
LEMMA ShrinkStep ==
  ASSUME PagingInv, NEW p \in Procs, NEW n \in 1 .. 2, Shrink(p, n)
  PROVE  PagingInv'
<1>1. TypeOK /\ FramesCounted /\ Lists(p) /\ Sizes(p) /\ Kept(p) BY DEF PagingInv
<1>2. PICK lo, hi : lo = sz[p] - n /\ hi = sz[p] OBVIOUS
<1>3. state[p] = "live" /\ next[p] = goal[p] /\ n < sz[p] BY DEF Shrink, InUser
<1>4. lo \in Nat /\ hi \in Nat /\ lo \in 0 .. MaxPages /\ lo <= hi /\ next[p] = hi
  BY <1>1, <1>2, <1>3, ProcTypes DEF Sizes
<1>5. /\ FreePages(p, lo, hi)
      /\ next' = [next EXCEPT ![p] = lo] /\ goal' = [goal EXCEPT ![p] = lo]
      /\ sz' = [sz EXCEPT ![p] = lo]
      /\ mem' = [mem EXCEPT ![p] = [a \in Pages |-> IF a < lo THEN @[a] ELSE Zero]]
      /\ UNCHANGED <<state, parent, meta_list, file_offset, swapFile, leaked, broken>>
  BY <1>1, <1>2 DEF Shrink, TypeOK
<1>6. /\ next' \in [Procs -> 0 .. MaxPages] /\ next'[p] = lo
      /\ goal' \in [Procs -> 0 .. MaxPages] /\ goal'[p] = lo
      /\ sz' \in [Procs -> 0 .. MaxPages] /\ sz'[p] = lo
      /\ \A q \in Procs : q # p => next'[q] = next[q] /\ goal'[q] = goal[q] /\ sz'[q] = sz[q]
  BY <1>1, <1>4, <1>5 DEF TypeOK
<1>7. /\ mem' \in [Procs -> [Pages -> Contents]]
      /\ \A q \in Procs : q # p => mem'[q] = mem[q]
      /\ \A a \in Pages : a < lo => mem'[p][a] = mem[p][a]
  <2>1. mem[p] \in [Pages -> Contents] /\ Zero \in Contents BY <1>1, ProcTypes, PteFacts
  <2>2. [a \in Pages |-> IF a < lo THEN mem[p][a] ELSE Zero] \in [Pages -> Contents] BY <2>1
  <2> QED BY <1>1, <1>5, <2>2 DEF TypeOK
<1>8. /\ FramesCounted' /\ free' \in 0 .. NFrames
      /\ pte' \in [Procs -> [Pages -> Pte]]
      /\ page_list' \in [Procs -> Seq(Pages)]
      /\ \A q \in Procs : q # p => pte'[q] = pte[q] /\ page_list'[q] = page_list[q]
      /\ \A b \in Pages : IF lo <= b /\ b < hi THEN ~pte'[p][b].P ELSE pte'[p][b] = pte[p][b]
      /\ Len(page_list'[p]) <= MAX_PSYCH_PAGES
      /\ IsInjective(page_list'[p])
      /\ \A i \in DOMAIN page_list'[p] : pte'[p][page_list'[p][i]].P
  BY <1>1, <1>4, <1>5, FreeFacts
<1>9. TypeOK' BY <1>1, <1>5, <1>6, <1>7, <1>8 DEF TypeOK, Pte
<1>10. Lists(p)' BY <1>1, <1>5, <1>8 DEF Lists
<1>11. ASSUME NEW b \in Pages PROVE b \in Nat BY PagingAssumption DEF Pages
<1>12. Sizes(p)'
  <2>1. \A b \in Pages : pte'[p][b].P => b < lo
    <3> SUFFICES ASSUME NEW b \in Pages, pte'[p][b].P, ~(b < lo) PROVE FALSE
      OBVIOUS
    <3>1. ~(b < hi) BY <1>4, <1>8, <1>11
    <3>2. pte[p][b].P BY <1>8, <3>1
    <3> QED BY <1>1, <1>4, <3>1, <3>2 DEF Sizes
  <2> QED BY <1>3, <1>4, <1>5, <1>6, <2>1 DEF Sizes
<1>13. Kept(p)'
  <2>1. ASSUME NEW b \in Pages, b < next'[p]
        PROVE  b < next[p] /\ pte'[p][b] = pte[p][b] /\ mem'[p][b] = mem[p][b]
    BY <1>4, <1>6, <1>7, <1>8, <1>11, <2>1
  <2> QED BY <1>1, <1>3, <1>5, <2>1, PagesStay
<1>14. ASSUME NEW q \in Procs, q # p PROVE (Lists(q) /\ Sizes(q) /\ Kept(q))'
  BY <1>5, <1>6, <1>7, <1>8, <1>14, Untouched DEF PagingInv
<1> QED BY <1>8, <1>9, <1>10, <1>12, <1>13, <1>14 DEF PagingInv

\* sbrk sets out, and a store into a page that is in memory.
LEMMA SbrkStep ==
  ASSUME PagingInv, NEW p \in Procs, NEW n \in 1 .. 2, Sbrk(p, n)
  PROVE  PagingInv'
<1>1. TypeOK /\ FramesCounted /\ Lists(p) /\ Sizes(p) /\ Kept(p) BY DEF PagingInv
<1>2. PICK g : g = sz[p] + n OBVIOUS
<1>3. /\ state[p] = "live" /\ next[p] = goal[p] /\ g <= MaxPages
      /\ goal' = [goal EXCEPT ![p] = g]
      /\ UNCHANGED <<state, parent, sz, next, pte, lists, swapFile, frames, mem, broken>>
  BY <1>2 DEF Sbrk, InUser
<1>4. g \in 0 .. MaxPages /\ next[p] = sz[p] /\ sz[p] < g
  BY <1>1, <1>2, <1>3, ProcTypes DEF Sizes
<1>5. /\ goal' \in [Procs -> 0 .. MaxPages] /\ goal'[p] = g
      /\ \A q \in Procs : q # p => goal'[q] = goal[q]
  BY <1>1, <1>3, <1>4 DEF TypeOK
<1>6. TypeOK' BY <1>1, <1>3, <1>5 DEF TypeOK, lists, frames
<1>7. FramesCounted' BY <1>1, <1>3 DEF FramesCounted, frames
<1>8. Lists(p)' BY <1>1, <1>3 DEF Lists, lists
<1>9. Sizes(p)' BY <1>1, <1>3, <1>4, <1>5, ProcTypes DEF Sizes
<1>10. Kept(p)' BY <1>1, <1>3, PagesStay DEF lists
<1>11. ASSUME NEW q \in Procs, q # p PROVE (Lists(q) /\ Sizes(q) /\ Kept(q))'
  BY <1>3, <1>5, <1>11, Untouched DEF PagingInv, lists
<1> QED BY <1>6, <1>7, <1>8, <1>9, <1>10, <1>11 DEF PagingInv

LEMMA WriteStep ==
  ASSUME PagingInv, NEW p \in Procs, NEW a \in Written, Write(p, a)
  PROVE  PagingInv'
<1>1. TypeOK /\ FramesCounted /\ Lists(p) /\ Sizes(p) /\ Kept(p) BY DEF PagingInv
<1>2. a \in Pages /\ a \in Contents BY PagingAssumption DEF Pages, Contents
<1>3. /\ state[p] = "live" /\ pte[p][a].P
      /\ pte' = [pte EXCEPT ![p][a].data = a]
      /\ mem' = [mem EXCEPT ![p][a] = a]
      /\ UNCHANGED <<state, parent, sz, next, goal, lists, swapFile, frames, broken>>
  BY DEF Write, InUser
<1>4. PICK entry : entry = [pte[p][a] EXCEPT !.data = a] OBVIOUS
<1>5. /\ pte[p] \in [Pages -> Pte] /\ pte[p][a] \in Pte /\ mem[p] \in [Pages -> Contents]
      /\ pte \in [Procs -> [Pages -> Pte]] /\ mem \in [Procs -> [Pages -> Contents]]
  BY <1>1, <1>2 DEF TypeOK, Pte
<1>6. entry \in Pte /\ entry.P = pte[p][a].P /\ entry.data = a BY <1>2, <1>4, <1>5 DEF Pte
<1>7. pte' = [pte EXCEPT ![p] = [pte[p] EXCEPT ![a] = entry]] BY <1>2, <1>3, <1>4, <1>5
<1>8. [pte[p] EXCEPT ![a] = entry] \in [Pages -> Pte] BY <1>5, <1>6
<1>9. /\ pte' \in [Procs -> [Pages -> Pte]]
      /\ \A q \in Procs : q # p => pte'[q] = pte[q]
      /\ \A b \in Pages : pte'[p][b] = IF b = a THEN entry ELSE pte[p][b]
  BY <1>2, <1>5, <1>7, <1>8
<1>10. /\ mem' \in [Procs -> [Pages -> Contents]]
       /\ \A q \in Procs : q # p => mem'[q] = mem[q]
       /\ \A b \in Pages : mem'[p][b] = IF b = a THEN a ELSE mem[p][b]
  BY <1>2, <1>3, <1>5
<1>11. \A q \in Procs, b \in Pages : pte'[q][b].P <=> pte[q][b].P BY <1>6, <1>9
<1>12. TypeOK' BY <1>1, <1>3, <1>9, <1>10 DEF TypeOK, lists, frames, Pte
<1>13. FramesCounted'
  <2>1. {x \in Procs \X Pages : pte'[x[1]][x[2]].P} = {x \in Procs \X Pages : pte[x[1]][x[2]].P}
    BY <1>11
  <2> QED BY <1>1, <1>3, <2>1 DEF FramesCounted, frames
<1>14. Lists(p)'
  <2>1. \A i \in DOMAIN page_list[p] : page_list[p][i] \in Pages
    BY <1>1, ProcTypes, LenProperties
  <2> QED BY <1>1, <1>3, <1>11, <2>1 DEF Lists, lists
<1>15. Sizes(p)' BY <1>1, <1>3, <1>11 DEF Sizes
<1>16. Kept(p)'
  <2>1. \A b \in Pages : Entries(p, b)' = Entries(p, b) BY <1>3 DEF Entries, lists
  <2>2. ASSUME NEW b \in Pages, b < next[p]
        PROVE  /\ pte'[p][b].P \/ Entries(p, b) # {}
               /\ pte'[p][b].P /\ Entries(p, b) = {} => pte'[p][b].data = mem'[p][b]
               /\ \A m \in Entries(p, b) :
                    ~pte'[p][b].P /\ Entries(p, b) = {m} => swapFile[p][m.slot] = mem'[p][b]
    <3>1. CASE b = a BY <1>3, <1>6, <1>9, <1>10, <3>1
    <3>2. CASE b # a BY <1>1, <1>3, <1>9, <1>10, <2>2, <3>2 DEF Kept
    <3> QED BY <3>1, <3>2
  <2> QED BY <1>3, <2>1, <2>2 DEF Kept
<1>17. ASSUME NEW q \in Procs, q # p PROVE (Lists(q) /\ Sizes(q) /\ Kept(q))'
  BY <1>3, <1>9, <1>10, <1>17, Untouched DEF PagingInv, lists
<1> QED BY <1>12, <1>13, <1>14, <1>15, <1>16, <1>17 DEF PagingInv

-----------------------------------------------------------------------------
(* Page faults *)

\* As many entries as slots: no two of them share one.
LEMMA SlotsDiffer ==
  ASSUME NEW ms \in Seq(Metas),
         {ms[i].slot : i \in DOMAIN ms} = 0 .. Len(ms) - 1
  PROVE  \A i, j \in DOMAIN ms : ms[i].slot = ms[j].slot => i = j
<1>1. PICK n \in Nat : n = Len(ms) /\ DOMAIN ms = 1 .. n BY LenProperties
<1> DEFINE f == [i \in 1 .. n |-> ms[i].slot]
<1>2. {ms[i].slot : i \in 1 .. n} = 0 .. n - 1 BY <1>1
<1>3. f \in [1 .. n -> 0 .. n - 1] BY <1>2
<1>4. \A s \in 0 .. n - 1 : \E i \in 1 .. n : f[i] = s BY <1>2
<1>5. f \in Surjection(1 .. n, 0 .. n - 1) BY <1>3, <1>4 DEF Surjection
<1>6. IsFiniteSet(1 .. n) /\ Cardinality(1 .. n) = n BY FS_Interval
<1>7. Cardinality(0 .. n - 1) = n
  <2>1. PICK k \in Int : k = n - 1 OBVIOUS
  <2>2. Cardinality(0 .. k) = IF 0 > k THEN 0 ELSE k - 0 + 1 BY FS_Interval
  <2> QED BY <2>1, <2>2
<1>8. f \in Injection(1 .. n, 0 .. n - 1)
  BY <1>5, <1>6, <1>7, FS_SurjSameCardinalityImpliesInj
<1>9. \A i, j \in 1 .. n : f[i] = f[j] => i = j BY <1>8 DEF Injection, IsInjective
<1> QED BY <1>1, <1>9

\* do_the_swap.
LEMMA PageFaultStep ==
  ASSUME PagingInv, NEW p \in Procs, NEW a \in Pages, PageFault(p, a)
  PROVE  PagingInv'
<1>1. TypeOK /\ FramesCounted /\ Lists(p) /\ Sizes(p) /\ Kept(p) BY DEF PagingInv
<1>2. PICK i : i = MetaIndex(p, a) OBVIOUS
<1>3. PICK ms : ms = meta_list[p] OBVIOUS
<1>4. PICK v : v = Head(page_list[p]) OBVIOUS
<1>5. /\ state[p] = "live" /\ next[p] = goal[p] /\ a < sz[p] /\ ~pte[p][a].P /\ i # 0
      /\ page_list[p] # <<>>
  BY <1>2 DEF PageFault, Faults, InUser
<1>6. i \in DOMAIN ms /\ ms[i].va = a BY <1>1, <1>2, <1>3, <1>5, MetaIndexFacts
<1>7. ms \in Seq(Metas) BY <1>1, <1>3, ProcTypes
<1>8. PICK slot : slot = ms[i].slot OBVIOUS
<1>9. PICK data : data = swapFile[p][slot] OBVIOUS
<1>10. PICK e : e = [va |-> v, slot |-> slot] OBVIOUS
<1>11. PICK new : new = Append(RemoveAt(ms, i), e) OBVIOUS
<1>12. /\ SwapOutFor(p, a, data, slot)
       /\ meta_list' = [meta_list EXCEPT ![p] = new]
       /\ UNCHANGED <<state, parent, sz, next, goal, file_offset, frames, mem, broken>>
  BY <1>1, <1>2, <1>3, <1>4, <1>8, <1>9, <1>10, <1>11 DEF PageFault, TypeOK
<1>13. ms[i] \in Metas /\ ms[i] \in ToSet(ms) BY <1>6, <1>7, LenProperties DEF ToSet
<1>14. slot \in Slots /\ data \in Contents
  <2>1. slot \in Slots BY <1>8, <1>13 DEF Metas
  <2> QED BY <1>1, <1>9, <2>1, ProcTypes
<1>15. /\ v \in Pages /\ v # a /\ pte[p][v].P
       /\ pte' \in [Procs -> [Pages -> Pte]]
       /\ page_list' \in [Procs -> Seq(Pages)]
       /\ swapFile' \in [Procs -> [Slots -> Contents]]
       /\ \A q \in Procs : q # p => /\ pte'[q] = pte[q]
                                    /\ page_list'[q] = page_list[q]
                                    /\ swapFile'[q] = swapFile[q]
       /\ \A b \in Pages : pte'[p][b] = IF b = v THEN SwappedOut
                                        ELSE IF b = a THEN Mapped(data) ELSE pte[p][b]
       /\ \A s \in Slots : swapFile'[p][s] = IF s = slot THEN pte[p][v].data
                                             ELSE swapFile[p][s]
       /\ Len(page_list'[p]) <= MAX_PSYCH_PAGES
       /\ IsInjective(page_list'[p])
       /\ \A n \in DOMAIN page_list'[p] : pte'[p][page_list'[p][n]].P
       /\ Cardinality(InMemory') = Cardinality(InMemory)
  BY <1>1, <1>4, <1>5, <1>12, <1>14, SwapFacts
<1>16. e \in Metas /\ e.slot = slot BY <1>10, <1>14, <1>15 DEF Metas
<1>17. /\ new \in Seq(Metas) /\ Len(new) = Len(ms)
       /\ ToSet(new) = {ms[j] : j \in DOMAIN ms \ {i}} \cup {e}
  BY <1>6, <1>7, <1>11, <1>16, EntryReplaced
<1>18. /\ meta_list' \in [Procs -> Seq(Metas)] /\ meta_list'[p] = new
       /\ \A q \in Procs : q # p => meta_list'[q] = meta_list[q]
  BY <1>1, <1>12, <1>17 DEF TypeOK, Metas
<1>19. Len(ms) = file_offset[p] /\ {ms[j].slot : j \in DOMAIN ms} = 0 .. file_offset[p] - 1
  BY <1>1, <1>3 DEF Lists
<1>20. \A j \in DOMAIN ms : ms[j].slot = slot => j = i
  <2>1. {ms[j].slot : j \in DOMAIN ms} = 0 .. Len(ms) - 1 BY <1>19
  <2>2. \A j, k \in DOMAIN ms : ms[j].slot = ms[k].slot => j = k BY <1>7, <2>1, SlotsDiffer
  <2> QED BY <1>6, <1>8, <2>2
<1>21. PICK X : X = {ms[i]} OBVIOUS
<1>22. ToSet(new) = (ToSet(ms) \ X) \cup {e}
  <2>1. {ms[j] : j \in DOMAIN ms \ {i}} = ToSet(ms) \ X
    <3>1. \A j \in DOMAIN ms : ms[j] = ms[i] => j = i BY <1>8, <1>20
    <3> QED BY <1>21, <3>1, Zenon DEF ToSet
  <2> QED BY <1>17, <2>1
<1>23. TypeOK' BY <1>1, <1>12, <1>15, <1>18 DEF TypeOK, Pte, Metas, frames
<1>24. FramesCounted' BY <1>1, <1>12, <1>15 DEF FramesCounted, InMemory, frames
<1>25. Lists(p)'
  <2>1. {new[j].slot : j \in DOMAIN new} = {m.slot : m \in ToSet(new)} BY DEF ToSet
  <2>2. {ms[j].slot : j \in DOMAIN ms} = {m.slot : m \in ToSet(ms)} BY DEF ToSet
  <2>3. {m.slot : m \in ToSet(new)} = {m.slot : m \in ToSet(ms)}
    BY <1>8, <1>13, <1>16, <1>21, <1>22
  <2>4. {new[j].slot : j \in DOMAIN new} = 0 .. file_offset[p] - 1 BY <1>19, <2>1, <2>2, <2>3
  <2> QED BY <1>12, <1>15, <1>17, <1>18, <1>19, <2>4 DEF Lists
<1>26. \A b \in Pages : pte'[p][b].P => pte[p][b].P \/ b = a BY <1>15, PteFacts
<1>27. Sizes(p)'
  <2>1. a < next[p] BY <1>1, <1>5 DEF Sizes
  <2> QED BY <1>1, <1>12, <1>26, <2>1 DEF Sizes
<1>28. Kept(p)'
  <2>1. \A m \in X : m.va = a BY <1>6, <1>21
  <2>2. \A m \in ToSet(ms) : m.slot \in Slots /\ m.va \in Pages /\ (m.slot = slot => m \in X)
    <3>1. \A m \in ToSet(ms) : m.slot = slot => m \in X BY <1>20, <1>21 DEF ToSet
    <3> QED BY <1>1, <1>3, <3>1, ProcTypes
  <2>3. ToSet(meta_list'[p]) = (ToSet(meta_list[p]) \ X) \cup {[va |-> v, slot |-> slot]}
    BY <1>3, <1>10, <1>18, <1>22
  <2>4. v < next[p] BY <1>1, <1>15 DEF Sizes
  <2>5. /\ \A b \in Pages : b < next'[p] => b < next[p] \/ b = a
        /\ \A b \in Pages : b # a => mem'[p][b] = mem[p][b]
        /\ state'[p] = "live"
    BY <1>5, <1>12
  <2>6. ASSUME Entries(p, a) \ X = {} PROVE data = mem'[p][a]
    <3>1. ms[i] \in Entries(p, a) BY <1>3, <1>6, <1>13 DEF Entries
    <3>2. Entries(p, a) = {ms[i]} BY <1>21, <2>6, <3>1
    <3>3. a < next[p] BY <1>1, <1>5 DEF Sizes
    <3> QED BY <1>1, <1>5, <1>8, <1>9, <1>12, <3>1, <3>2, <3>3 DEF Kept
  <2>7. \A m \in ToSet(meta_list[p]) :
          m.slot \in Slots /\ m.va \in Pages /\ (m.slot = slot => m \in X)
    BY <1>3, <2>2
  <2>8. /\ p \in Procs /\ Kept(p) /\ state[p] = "live" /\ a \in Pages /\ data \in Contents
        /\ slot \in Slots /\ v \in Pages /\ v # a /\ pte[p][v].P
        /\ \A b \in Pages : pte'[p][b] = IF b = v THEN SwappedOut
                                         ELSE IF b = a THEN Mapped(data) ELSE pte[p][b]
        /\ \A s \in Slots : swapFile'[p][s] = IF s = slot THEN pte[p][v].data
                                              ELSE swapFile[p][s]
    BY <1>1, <1>5, <1>14, <1>15
  <2> QED BY ONLY <2>1, <2>3, <2>4, <2>5, <2>6, <2>7, <2>8, SwapKeeps, SMTT(60)
<1>29. ASSUME NEW q \in Procs, q # p PROVE (Lists(q) /\ Sizes(q) /\ Kept(q))'
  BY <1>12, <1>15, <1>18, <1>29, Untouched DEF PagingInv
<1> QED BY <1>23, <1>24, <1>25, <1>27, <1>28, <1>29 DEF PagingInv

-----------------------------------------------------------------------------
(* fork, exit, wait *)

\* The child has every page in memory, and the lists of its parent.
LEMMA ForkStep ==
  ASSUME PagingInv, NEW p \in Procs, NEW q \in Procs, Fork(p, q)
  PROVE  PagingInv'
<1>1. TypeOK /\ FramesCounted /\ Lists(p) /\ Sizes(p) /\ Kept(p) /\ Sizes(q) BY DEF PagingInv
<1>2. PICK n : n = sz[p] OBVIOUS
<1>3. PICK lost : lost = Len(meta_list[p]) OBVIOUS
<1>4. state[p] = "live" /\ next[p] = goal[p] /\ state[q] = "unused" /\ n + lost <= free
  BY <1>2, <1>3 DEF Fork, Forks, InUser
<1>5. p # q BY <1>4
<1>6. n \in 0 .. MaxPages /\ n = next[p] /\ n = goal[p] /\ lost \in Nat
  BY <1>1, <1>2, <1>3, <1>4, ProcTypes, LenProperties DEF Sizes
<1>7. PICK stale \in [{b \in 0 .. n - 1 : ~pte[p][b].P} -> Contents] :
        pte' = [pte EXCEPT ![q] = [b \in Pages |->
                  IF b >= n THEN Unmapped
                  ELSE IF pte[p][b].P THEN Mapped(pte[p][b].data)
                  ELSE Mapped(stale[b])]]
  BY <1>2 DEF Fork
<1>8. /\ state' = [state EXCEPT ![q] = "live"]
      /\ parent' = [parent EXCEPT ![q] = p]
      /\ sz' = [sz EXCEPT ![q] = n]
      /\ next' = [next EXCEPT ![q] = n]
      /\ goal' = [goal EXCEPT ![q] = n]
      /\ free' = free - n - lost
      /\ leaked' = leaked + lost
      /\ page_list' = [page_list EXCEPT ![q] = page_list[p]]
      /\ meta_list' = [meta_list EXCEPT ![q] = meta_list[p]]
      /\ file_offset' = [file_offset EXCEPT ![q] = file_offset[p]]
      /\ swapFile' = [swapFile EXCEPT ![q] = swapFile[p]]
      /\ mem' = [mem EXCEPT ![q] = mem[p]]
      /\ UNCHANGED broken
  BY <1>2, <1>3 DEF Fork
<1>9. \A b \in Pages : b \in Nat BY PagingAssumption DEF Pages
<1>10. PICK table : table = [b \in Pages |-> IF b >= n THEN Unmapped
                                             ELSE IF pte[p][b].P THEN Mapped(pte[p][b].data)
                                             ELSE Mapped(stale[b])]
  OBVIOUS
<1>11. \A b \in Pages : table[b] \in Pte /\ (table[b].P <=> b < n)
                        /\ (b < n /\ pte[p][b].P => table[b].data = pte[p][b].data)
  <2> TAKE b \in Pages
  <2>1. pte[p][b] \in Pte /\ pte[p][b].data \in Contents BY <1>1, ProcTypes DEF Pte
  <2>2. CASE b >= n BY <1>6, <1>9, <1>10, <2>2, PteFacts
  <2>3. CASE ~(b >= n) /\ pte[p][b].P BY <1>6, <1>9, <1>10, <2>1, <2>3, PteFacts
  <2>4. CASE ~(b >= n) /\ ~pte[p][b].P
    <3>1. b \in 0 .. n - 1 BY <1>6, <1>9, <2>4
    <3>2. stale[b] \in Contents BY <2>4, <3>1
    <3> QED BY <1>6, <1>9, <1>10, <2>4, <3>2, PteFacts
  <2> QED BY <2>2, <2>3, <2>4
<1>12. /\ pte' \in [Procs -> [Pages -> Pte]] /\ pte'[q] = table
       /\ \A r \in Procs : r # q => pte'[r] = pte[r]
  <2>1. table \in [Pages -> Pte] BY <1>10, <1>11
  <2> QED BY <1>1, <1>7, <1>10, <2>1 DEF TypeOK, Pte
<1>13. /\ state'[q] = "live" /\ sz'[q] = n /\ next'[q] = n /\ goal'[q] = n
       /\ page_list'[q] = page_list[p] /\ meta_list'[q] = meta_list[p]
       /\ file_offset'[q] = file_offset[p] /\ swapFile'[q] = swapFile[p] /\ mem'[q] = mem[p]
  BY <1>1, <1>8 DEF TypeOK
<1>14. free' \in 0 .. NFrames /\ leaked' \in 0 .. NFrames /\ FramesCounted'
  <2>1. InMemory \in SUBSET (Procs \X Pages) BY DEF InMemory
  <2>2. PICK A : A = {b \in Pages : b < n} OBVIOUS
  <2>3. A = 0 .. n - 1 BY <1>6, <2>2, PagingAssumption DEF Pages
  <2>4. Cardinality(A) = n
    <3>1. PICK k \in Int : k = n - 1 BY <1>6
    <3>2. Cardinality(0 .. k) = IF 0 > k THEN 0 ELSE k - 0 + 1 BY FS_Interval
    <3> QED BY <1>6, <2>3, <3>1, <3>2
  <2>5. InMemory' = InMemory \cup ({q} \X A)
    <3>1. ASSUME NEW r \in Procs, NEW b \in Pages
          PROVE  pte'[r][b].P <=> pte[r][b].P \/ (r = q /\ b \in A)
      <4>1. CASE r # q BY <1>12, <4>1
      <4>2. CASE r = q
        <5>1. ~pte[q][b].P BY <1>1, <1>4, <1>9 DEF Sizes
        <5> QED BY <1>11, <1>12, <2>2, <4>2, <5>1
      <4> QED BY <4>1, <4>2
    <3> QED BY <2>2, <3>1 DEF InMemory
  <2>6. \A b \in A : <<q, b>> \notin InMemory BY <1>1, <1>4, <1>9, <2>2 DEF InMemory, Sizes
  <2>7. Cardinality(InMemory \cup ({q} \X A)) = Cardinality(InMemory) + Cardinality(A)
    BY <2>1, <2>2, <2>6, MoreInMemory
  <2>8. Cardinality(InMemory) \in Nat BY <2>1, PlacesFinite
  <2>9. free + leaked + Cardinality(InMemory) = NFrames BY <1>1 DEF FramesCounted, InMemory
  <2>10. free \in Nat /\ leaked \in Nat /\ NFrames \in Nat /\ n \in Nat
    BY <1>1, <1>6, PagingAssumption DEF TypeOK
  <2>11. /\ free' + leaked' + Cardinality(InMemory') = NFrames
         /\ free' \in 0 .. NFrames /\ leaked' \in 0 .. NFrames
    BY <1>4, <1>6, <1>8, <2>4, <2>5, <2>7, <2>8, <2>9, <2>10
  <2> QED BY <2>11 DEF FramesCounted, InMemory
<1>15. TypeOK'
  <2>1. /\ state' \in [Procs -> {"unused", "live", "zombie"}]
        /\ parent' \in [Procs -> Procs \cup {Init0}]
        /\ sz' \in [Procs -> 0 .. MaxPages] /\ next' \in [Procs -> 0 .. MaxPages]
        /\ goal' \in [Procs -> 0 .. MaxPages]
    BY <1>1, <1>6, <1>8 DEF TypeOK
  <2>2. /\ page_list' \in [Procs -> Seq(Pages)]
        /\ meta_list' \in [Procs -> Seq([va : Pages, slot : Slots])]
        /\ file_offset' \in [Procs -> 0 .. MAX_PSYCH_PAGES]
        /\ swapFile' \in [Procs -> [Slots -> Contents]]
        /\ mem' \in [Procs -> [Pages -> Contents]]
        /\ broken' \in BOOLEAN
    BY <1>1, <1>8 DEF TypeOK
  <2> QED BY <1>12, <1>14, <2>1, <2>2 DEF TypeOK, Pte
<1>16. Lists(q)'
  <2>1. \A i \in DOMAIN page_list[p] : page_list[p][i] \in Pages /\ pte[p][page_list[p][i]].P
    BY <1>1, ProcTypes, LenProperties DEF Lists
  <2>2. \A b \in Pages : pte[p][b].P => table[b].P BY <1>1, <1>6, <1>11 DEF Sizes
  <2>3. \A i \in DOMAIN page_list[p] : table[page_list[p][i]].P BY <2>1, <2>2
  <2> QED BY <1>1, <1>12, <1>13, <2>3 DEF Lists
<1>17. Sizes(q)' BY <1>6, <1>11, <1>12, <1>13 DEF Sizes
<1>18. Kept(q)'
  <2>1. \A b \in Pages : Entries(q, b)' = Entries(p, b) BY <1>13 DEF Entries
  <2>2. ASSUME NEW b \in Pages, b < n
        PROVE  table[b].P /\ (Entries(p, b) = {} => table[b].data = mem[p][b])
    BY <1>1, <1>4, <1>6, <1>11, <2>2 DEF Kept
  <2> QED BY <1>12, <1>13, <2>1, <2>2 DEF Kept
<1>19. ASSUME NEW r \in Procs, r # q PROVE (Lists(r) /\ Sizes(r) /\ Kept(r))'
  <2>1. /\ state'[r] = state[r] /\ sz'[r] = sz[r] /\ next'[r] = next[r] /\ goal'[r] = goal[r]
        /\ pte'[r] = pte[r] /\ page_list'[r] = page_list[r] /\ meta_list'[r] = meta_list[r]
        /\ file_offset'[r] = file_offset[r] /\ swapFile'[r] = swapFile[r] /\ mem'[r] = mem[r]
    BY <1>1, <1>8, <1>12, <1>19 DEF TypeOK
  <2> QED BY <2>1, Untouched DEF PagingInv
<1> QED BY <1>14, <1>15, <1>16, <1>17, <1>18, <1>19 DEF PagingInv

\* A list that loses pages of another process stays a list of pages in memory.
LEMMA ListShortened ==
  ASSUME TypeOK, NEW p \in Procs, Lists(p), NEW pages
  PROVE  /\ RemovePages(page_list[p], pages) \in Seq(Pages)
         /\ Len(RemovePages(page_list[p], pages)) <= MAX_PSYCH_PAGES
         /\ IsInjective(RemovePages(page_list[p], pages))
         /\ \A i \in DOMAIN RemovePages(page_list[p], pages) :
              pte[p][RemovePages(page_list[p], pages)[i]].P
<1>1. PICK list : list = page_list[p] OBVIOUS
<1>2. PICK new : new = RemovePages(list, pages) OBVIOUS
<1>3. list \in Seq(Pages) /\ IsInjective(list) /\ Len(list) <= MAX_PSYCH_PAGES
  BY <1>1, ProcTypes DEF Lists
<1>4. /\ new \in Seq(Pages) /\ Len(new) <= Len(list) /\ IsInjective(new)
      /\ \A n \in DOMAIN new : new[n] \in ToSet(list)
  BY <1>2, <1>3, RemovePagesFacts
<1>5. \A b \in ToSet(list) : pte[p][b].P BY <1>1 DEF Lists, ToSet
<1>6. Len(new) <= MAX_PSYCH_PAGES BY <1>3, <1>4, LenProperties, PagingAssumption
<1>7. \A i \in DOMAIN new : pte[p][new[i]].P BY <1>4, <1>5
<1> QED BY <1>1, <1>2, <1>4, <1>6, <1>7

\* The failed fork only shortens the list of the process that forks.
LEMMA ForkFailsStep ==
  ASSUME PagingInv, NEW p \in Procs, NEW q \in Procs, ForkFails(p, q)
  PROVE  PagingInv'
<1>1. TypeOK /\ FramesCounted /\ Lists(p) /\ Sizes(p) /\ Kept(p) BY DEF PagingInv
<1>2. PICK new : new = RemovePages(page_list[p], 0 .. free - 1) OBVIOUS
<1>3. /\ page_list' = [page_list EXCEPT ![p] = new]
      /\ UNCHANGED <<state, parent, sz, next, goal, pte, meta_list, file_offset, swapFile,
                     frames, mem, broken>>
  BY <1>1, <1>2 DEF ForkFails, TypeOK
<1>4. /\ new \in Seq(Pages) /\ Len(new) <= MAX_PSYCH_PAGES /\ IsInjective(new)
      /\ \A i \in DOMAIN new : pte[p][new[i]].P
  BY <1>1, <1>2, ListShortened
<1>5. /\ page_list' \in [Procs -> Seq(Pages)] /\ page_list'[p] = new
      /\ \A r \in Procs : r # p => page_list'[r] = page_list[r]
  BY <1>1, <1>3, <1>4 DEF TypeOK
<1>6. TypeOK' BY <1>1, <1>3, <1>5 DEF TypeOK, frames
<1>7. FramesCounted' BY <1>1, <1>3 DEF FramesCounted, frames
<1>8. Lists(p)' BY <1>1, <1>3, <1>4, <1>5 DEF Lists
<1>9. Sizes(p)' BY <1>1, <1>3 DEF Sizes
<1>10. Kept(p)'
  <2>1. \A b \in Pages : Entries(p, b)' = Entries(p, b) BY <1>3 DEF Entries
  <2> QED BY <1>1, <1>3, <2>1 DEF Kept
<1>11. ASSUME NEW r \in Procs, r # p PROVE (Lists(r) /\ Sizes(r) /\ Kept(r))'
  BY <1>3, <1>5, <1>11, Untouched DEF PagingInv
<1> QED BY <1>6, <1>7, <1>8, <1>9, <1>10, <1>11 DEF PagingInv

LEMMA ExitStep ==
  ASSUME PagingInv, NEW p \in Procs, Exit(p)
  PROVE  PagingInv'
<1>1. TypeOK /\ FramesCounted /\ Lists(p) /\ Sizes(p) BY DEF PagingInv
<1>2. /\ state[p] = "live"
      /\ state' = [state EXCEPT ![p] = "zombie"]
      /\ parent' = [r \in Procs |-> IF parent[r] = p THEN Init0 ELSE parent[r]]
      /\ swapFile' = [swapFile EXCEPT ![p] = [s \in Slots |-> Zero]]
      /\ UNCHANGED <<sz, next, goal, pte, lists, frames, mem, broken>>
  BY DEF Exit, InUser
<1>3. state' \in [Procs -> {"unused", "live", "zombie"}] /\ state'[p] = "zombie"
  BY <1>1, <1>2 DEF TypeOK
<1>4. parent' \in [Procs -> Procs \cup {Init0}] BY <1>1, <1>2 DEF TypeOK
<1>5. swapFile' \in [Procs -> [Slots -> Contents]]
  <2>1. [s \in Slots |-> Zero] \in [Slots -> Contents] BY PteFacts
  <2> QED BY <1>1, <1>2, <2>1 DEF TypeOK
<1>6. TypeOK' BY <1>1, <1>2, <1>3, <1>4, <1>5 DEF TypeOK, lists, frames
<1>7. FramesCounted' BY <1>1, <1>2 DEF FramesCounted, frames
<1>8. Lists(p)' BY <1>1, <1>2 DEF Lists, lists
<1>9. Sizes(p)' BY <1>1, <1>2, <1>3 DEF Sizes
<1>10. Kept(p)' BY <1>3 DEF Kept
<1>11. ASSUME NEW r \in Procs, r # p PROVE (Lists(r) /\ Sizes(r) /\ Kept(r))'
  <2>1. state'[r] = state[r] /\ swapFile'[r] = swapFile[r] BY <1>1, <1>2, <1>11 DEF TypeOK
  <2> QED BY <1>2, <2>1, Untouched DEF PagingInv, lists
<1> QED BY <1>6, <1>7, <1>8, <1>9, <1>10, <1>11 DEF PagingInv

\* The frames of a zombie are free, its slot is as a new one, and page_list is as said.
LEMMA FreeZombieStep ==
  ASSUME PagingInv, NEW z \in Procs, state[z] = "zombie", FreeZombie(z),
         page_list' \in [Procs -> Seq(Pages)], page_list'[z] = <<>>,
         \A r \in Procs : /\ Len(page_list'[r]) <= MAX_PSYCH_PAGES
                          /\ IsInjective(page_list'[r])
                          /\ r # z => \A i \in DOMAIN page_list'[r] : pte[r][page_list'[r][i]].P
  PROVE  PagingInv'
<1>1. TypeOK /\ FramesCounted BY DEF PagingInv
<1>2. PICK A : A = Resident(z, 0, MaxPages) OBVIOUS
<1>3. A \in SUBSET Pages /\ \A b \in Pages : b \in A <=> pte[z][b].P
  BY <1>2, PagingAssumption DEF Resident, Pages
<1>4. /\ state' = [state EXCEPT ![z] = "unused"]
      /\ parent' = [parent EXCEPT ![z] = Init0]
      /\ pte' = [pte EXCEPT ![z] = NoPages]
      /\ free' = free + Cardinality(A)
      /\ sz' = [sz EXCEPT ![z] = 0]
      /\ next' = [next EXCEPT ![z] = 0]
      /\ goal' = [goal EXCEPT ![z] = 0]
      /\ meta_list' = [meta_list EXCEPT ![z] = <<>>]
      /\ file_offset' = [file_offset EXCEPT ![z] = 0]
      /\ mem' = [mem EXCEPT ![z] = Blank]
      /\ UNCHANGED <<swapFile, leaked, broken>>
  BY <1>2 DEF FreeZombie
<1>5. NoPages \in [Pages -> Pte] /\ Blank \in [Pages -> Contents]
      /\ \A b \in Pages : ~NoPages[b].P
  BY PteFacts DEF NoPages, Blank
<1>6. /\ pte' \in [Procs -> [Pages -> Pte]] /\ pte'[z] = NoPages
      /\ \A r \in Procs : r # z => pte'[r] = pte[r]
  BY <1>1, <1>4, <1>5 DEF TypeOK, Pte
<1>7. FramesCounted' /\ free' \in 0 .. NFrames
  <2>1. \A a \in A : pte[z][a].P BY <1>3
  <2>2. ASSUME NEW r \in Procs, NEW b \in Pages
        PROVE  pte'[r][b].P <=> pte[r][b].P /\ ~(r = z /\ b \in A)
    BY <1>3, <1>5, <1>6
  <2> QED BY <1>1, <1>3, <1>4, <2>1, <2>2, FramesFreed
<1>8. 0 \in 0 .. MaxPages /\ 0 \in 0 .. MAX_PSYCH_PAGES BY PagingAssumption
<1>9. TypeOK'
  <2>1. /\ state' \in [Procs -> {"unused", "live", "zombie"}]
        /\ parent' \in [Procs -> Procs \cup {Init0}]
        /\ sz' \in [Procs -> 0 .. MaxPages] /\ next' \in [Procs -> 0 .. MaxPages]
        /\ goal' \in [Procs -> 0 .. MaxPages]
        /\ file_offset' \in [Procs -> 0 .. MAX_PSYCH_PAGES]
        /\ mem' \in [Procs -> [Pages -> Contents]]
    BY <1>1, <1>4, <1>5, <1>8 DEF TypeOK
  <2>2. meta_list' \in [Procs -> Seq([va : Pages, slot : Slots])]
    <3>1. <<>> \in Seq([va : Pages, slot : Slots]) BY EmptySeq
    <3> QED BY <1>1, <1>4, <3>1 DEF TypeOK
  <2> QED BY <1>1, <1>4, <1>6, <1>7, <2>1, <2>2 DEF TypeOK, Pte
<1>10. /\ state'[z] = "unused" /\ sz'[z] = 0 /\ next'[z] = 0 /\ goal'[z] = 0
       /\ meta_list'[z] = <<>> /\ file_offset'[z] = 0
  BY <1>1, <1>4 DEF TypeOK
<1>11. Lists(z)'
  <2>1. DOMAIN meta_list'[z] = {} /\ DOMAIN page_list'[z] = {} /\ Len(meta_list'[z]) = 0
    BY <1>10
  <2>2. 0 .. file_offset'[z] - 1 = {} BY <1>10
  <2> QED BY <1>10, <2>1, <2>2 DEF Lists
<1>12. Sizes(z)' BY <1>5, <1>6, <1>10 DEF Sizes
<1>13. Kept(z)' BY <1>10 DEF Kept
<1>14. ASSUME NEW r \in Procs, r # z PROVE (Lists(r) /\ Sizes(r) /\ Kept(r))'
  <2>1. /\ state'[r] = state[r] /\ sz'[r] = sz[r] /\ next'[r] = next[r] /\ goal'[r] = goal[r]
        /\ pte'[r] = pte[r] /\ meta_list'[r] = meta_list[r]
        /\ file_offset'[r] = file_offset[r] /\ swapFile'[r] = swapFile[r] /\ mem'[r] = mem[r]
    BY <1>1, <1>4, <1>6, <1>14 DEF TypeOK
  <2>2. Lists(r) /\ Sizes(r) /\ Kept(r) BY DEF PagingInv
  <2>3. Lists(r)' BY <1>14, <2>1, <2>2 DEF Lists
  <2>4. Sizes(r)' BY <2>1, <2>2 DEF Sizes
  <2>5. Kept(r)'
    <3>1. CASE state[r] = "live" BY <2>1, <2>2, <3>1, PagesStay
    <3>2. CASE state[r] # "live" BY <2>1, <3>2 DEF Kept
    <3> QED BY <3>1, <3>2
  <2> QED BY <2>3, <2>4, <2>5
<1> QED BY <1>7, <1>9, <1>11, <1>12, <1>13, <1>14 DEF PagingInv

\* A process waits for its child, and init for what is left to it.
LEMMA WaitStep ==
  ASSUME PagingInv, NEW p \in Procs, NEW z \in Procs, Wait(p, z)
  PROVE  PagingInv'
<1>1. TypeOK /\ Lists(p) BY DEF PagingInv
<1>2. PICK new : new = RemovePages(page_list[p], Resident(z, 0, MaxPages)) OBVIOUS
<1>3. /\ state[p] = "live" /\ state[z] = "zombie" /\ FreeZombie(z)
      /\ page_list' = [page_list EXCEPT ![p] = new, ![z] = <<>>]
  BY <1>1, <1>2 DEF Wait, InUser, TypeOK
<1>4. p # z BY <1>3
<1>5. /\ new \in Seq(Pages) /\ Len(new) <= MAX_PSYCH_PAGES /\ IsInjective(new)
      /\ \A i \in DOMAIN new : pte[p][new[i]].P
  BY <1>1, <1>2, ListShortened
<1>6. <<>> \in Seq(Pages) BY EmptySeq
<1>7. /\ page_list' \in [Procs -> Seq(Pages)]
      /\ \A r \in Procs : page_list'[r] = IF r = z THEN <<>> ELSE IF r = p THEN new
                                          ELSE page_list[r]
  BY <1>1, <1>3, <1>4, <1>5, <1>6 DEF TypeOK
<1>8. ASSUME NEW r \in Procs
      PROVE  /\ Len(page_list'[r]) <= MAX_PSYCH_PAGES
             /\ IsInjective(page_list'[r])
             /\ r # z => \A i \in DOMAIN page_list'[r] : pte[r][page_list'[r][i]].P
  <2>1. CASE r = z
    <3>1. Len(page_list'[r]) = 0 /\ DOMAIN page_list'[r] = {} BY <1>7, <2>1
    <3> QED BY <2>1, <3>1, PagingAssumption DEF IsInjective
  <2>2. CASE r = p /\ r # z BY <1>5, <1>7, <2>2
  <2>3. CASE r # p /\ r # z BY <1>7, <2>3 DEF PagingInv, Lists
  <2> QED BY <2>1, <2>2, <2>3
<1> QED BY <1>3, <1>7, <1>8, FreeZombieStep

LEMMA InitWaitsStep ==
  ASSUME PagingInv, NEW z \in Procs, InitWaits(z)
  PROVE  PagingInv'
<1>1. TypeOK BY DEF PagingInv
<1>2. state[z] = "zombie" /\ FreeZombie(z) /\ page_list' = [page_list EXCEPT ![z] = <<>>]
  BY DEF InitWaits
<1>3. <<>> \in Seq(Pages) BY EmptySeq
<1>4. /\ page_list' \in [Procs -> Seq(Pages)]
      /\ \A r \in Procs : page_list'[r] = IF r = z THEN <<>> ELSE page_list[r]
  BY <1>1, <1>2, <1>3 DEF TypeOK
<1>5. ASSUME NEW r \in Procs
      PROVE  /\ Len(page_list'[r]) <= MAX_PSYCH_PAGES
             /\ IsInjective(page_list'[r])
             /\ r # z => \A i \in DOMAIN page_list'[r] : pte[r][page_list'[r][i]].P
  <2>1. CASE r = z
    <3>1. Len(page_list'[r]) = 0 /\ DOMAIN page_list'[r] = {} BY <1>4, <2>1
    <3> QED BY <2>1, <3>1, PagingAssumption DEF IsInjective
  <2>2. CASE r # z BY <1>4, <2>2 DEF PagingInv, Lists
  <2> QED BY <2>1, <2>2
<1> QED BY <1>2, <1>4, <1>5, FreeZombieStep

-----------------------------------------------------------------------------
(* The theorems *)

\* Process 1 alone, with one page of zeros.
LEMMA PagingInit == Init => PagingInv
<1> SUFFICES ASSUME Init PROVE PagingInv
  OBVIOUS
<1>1. 1 \in Procs /\ 0 \in Pages /\ 1 \in 0 .. MaxPages /\ 0 \in 0 .. MaxPages
      /\ 0 \in 0 .. MAX_PSYCH_PAGES /\ 0 \in 0 .. NFrames /\ NFrames - 1 \in 0 .. NFrames
  BY PagingAssumption DEF Procs, Pages
<1>2. PICK table : table = [NoPages EXCEPT ![0] = Mapped(Zero)] OBVIOUS
<1>3. /\ NoPages \in [Pages -> Pte] /\ \A a \in Pages : ~NoPages[a].P
      /\ Blank \in [Pages -> Contents] /\ \A a \in Pages : Blank[a] = Zero
  BY PteFacts DEF NoPages, Blank
<1>4. /\ table \in [Pages -> Pte]
      /\ \A a \in Pages : (table[a].P <=> a = 0) /\ (a = 0 => table[a].data = Zero)
  BY <1>1, <1>2, <1>3, PteFacts
<1>5. PICK l \in {<<>>, <<0>>} : page_list = [p \in Procs |-> IF p = 1 THEN l ELSE <<>>]
  BY DEF Init
<1>6. <<>> \in Seq(Pages) /\ <<0>> \in Seq(Pages) /\ <<>> \in Seq([va : Pages, slot : Slots])
  BY <1>1
<1>7. /\ l \in Seq(Pages) /\ Len(l) <= MAX_PSYCH_PAGES /\ IsInjective(l)
      /\ \A i \in DOMAIN l : l[i] = 0
  <2>1. CASE l = <<>> BY <1>6, <2>1, PagingAssumption DEF IsInjective
  <2>2. CASE l = <<0>> BY <1>6, <2>2, PagingAssumption DEF IsInjective
  <2> QED BY <1>5, <2>1, <2>2
<1>8. /\ state = [p \in Procs |-> IF p = 1 THEN "live" ELSE "unused"]
      /\ parent = [p \in Procs |-> Init0]
      /\ sz = [p \in Procs |-> IF p = 1 THEN 1 ELSE 0]
      /\ next = sz /\ goal = sz
      /\ pte = [p \in Procs |-> IF p = 1 THEN table ELSE NoPages]
      /\ meta_list = [p \in Procs |-> <<>>]
      /\ file_offset = [p \in Procs |-> 0]
      /\ swapFile = [p \in Procs |-> [s \in Slots |-> Zero]]
      /\ free = NFrames - 1 /\ leaked = 0
      /\ mem = [p \in Procs |-> Blank]
      /\ broken = FALSE
  BY <1>2 DEF Init
<1>9. TypeOK
  <2>1. [s \in Slots |-> Zero] \in [Slots -> Contents] BY PteFacts
  <2>2. pte \in [Procs -> [Pages -> Pte]] BY <1>3, <1>4, <1>8
  <2>3. page_list \in [Procs -> Seq(Pages)] BY <1>5, <1>6, <1>7
  <2>4. /\ state \in [Procs -> {"unused", "live", "zombie"}]
        /\ parent \in [Procs -> Procs \cup {Init0}]
        /\ sz \in [Procs -> 0 .. MaxPages]
        /\ file_offset \in [Procs -> 0 .. MAX_PSYCH_PAGES]
        /\ meta_list \in [Procs -> Seq([va : Pages, slot : Slots])]
    BY <1>1, <1>6, <1>8
  <2>5. swapFile \in [Procs -> [Slots -> Contents]] BY <1>8, <2>1
  <2>6. mem \in [Procs -> [Pages -> Contents]] BY <1>3, <1>8
  <2> QED BY <1>1, <1>8, <2>2, <2>3, <2>4, <2>5, <2>6 DEF TypeOK, Pte
<1>10. FramesCounted
  <2>1. {x \in Procs \X Pages : pte[x[1]][x[2]].P} = {<<1, 0>>}
    <3>1. ASSUME NEW p \in Procs, NEW a \in Pages PROVE pte[p][a].P <=> p = 1 /\ a = 0
      BY <1>3, <1>4, <1>8
    <3> QED BY <1>1, <3>1
  <2>2. Cardinality({<<1, 0>>}) = 1 BY FS_Singleton
  <2>3. NFrames - 1 + 0 + 1 = NFrames BY PagingAssumption
  <2> QED BY <1>8, <2>1, <2>2, <2>3, Zenon DEF FramesCounted
<1>11. ASSUME NEW p \in Procs PROVE Lists(p) /\ Sizes(p) /\ Kept(p)
  <2>1. /\ meta_list[p] = <<>> /\ file_offset[p] = 0 /\ mem[p] = Blank
        /\ page_list[p] = IF p = 1 THEN l ELSE <<>>
        /\ pte[p] = IF p = 1 THEN table ELSE NoPages
        /\ sz[p] = (IF p = 1 THEN 1 ELSE 0) /\ next[p] = sz[p] /\ goal[p] = sz[p]
    BY <1>5, <1>8
  <2>2. Entries(p, 0) = {} BY <2>1 DEF Entries, ToSet
  <2>3. Lists(p)
    <3>1. Len(<<>>) = 0 /\ DOMAIN <<>> = {} OBVIOUS
    <3>2. {meta_list[p][i].slot : i \in DOMAIN meta_list[p]} = {} BY <2>1, <3>1
    <3>3. 0 .. file_offset[p] - 1 = {} BY <2>1
    <3>4. \A i \in DOMAIN page_list[p] : pte[p][page_list[p][i]].P
      BY <1>1, <1>4, <1>7, <2>1, <3>1
    <3>5. Len(page_list[p]) <= MAX_PSYCH_PAGES /\ IsInjective(page_list[p])
      <4>1. CASE p = 1 BY <1>7, <2>1, <4>1
      <4>2. CASE p # 1 BY <2>1, <3>1, <4>2, PagingAssumption DEF IsInjective
      <4> QED BY <4>1, <4>2
    <3> QED BY <2>1, <3>1, <3>2, <3>3, <3>4, <3>5 DEF Lists
  <2>4. Sizes(p) BY <1>3, <1>4, <1>8, <2>1 DEF Sizes
  <2>5. Kept(p)
    <3>1. ASSUME NEW a \in Pages, a < next[p]
          PROVE  pte[p][a].P /\ pte[p][a].data = mem[p][a]
      <4>1. a \in Nat BY PagingAssumption DEF Pages
      <4>2. p = 1 /\ a = 0 BY <2>1, <3>1, <4>1
      <4> QED BY <1>3, <1>4, <2>1, <4>2
    <3> QED BY <3>1 DEF Kept
  <2> QED BY <2>3, <2>4, <2>5
<1> QED BY <1>9, <1>10, <1>11 DEF PagingInv

\* A kernel that is broken keeps what it had.
LEMMA BrokenStep ==
  ASSUME PagingInv, Break \/ UNCHANGED pagingVars
  PROVE  PagingInv'
<1>1. /\ UNCHANGED <<state, parent, sz, next, goal, pte, page_list, meta_list, file_offset,
                     swapFile, free, leaked, mem>>
      /\ broken' \in BOOLEAN
  BY DEF Break, pagingVars, lists, frames, PagingInv, TypeOK
<1>2. TypeOK' /\ FramesCounted' BY <1>1 DEF PagingInv, TypeOK, FramesCounted
<1>3. \A q \in Procs : (Lists(q) /\ Sizes(q) /\ Kept(q))' BY <1>1, Untouched DEF PagingInv
<1> QED BY <1>2, <1>3 DEF PagingInv

LEMMA PagingStep == PagingInv /\ [Next]_pagingVars => PagingInv'
<1> SUFFICES ASSUME PagingInv, [Next]_pagingVars PROVE PagingInv'
  OBVIOUS
<1>1. ASSUME NEW p \in Procs, NEW n \in 1 .. 2, Sbrk(p, n) \/ Shrink(p, n) PROVE PagingInv'
  BY <1>1, SbrkStep, ShrinkStep
<1>2. ASSUME NEW p \in Procs,
             \/ AllocPage(p) \/ AllocFails(p) \/ AllocBreaks(p)
             \/ Exit(p) \/ InitWaits(p)
      PROVE  PagingInv'
  BY <1>2, AllocStep, AllocFailsStep, ExitStep, InitWaitsStep, BrokenStep DEF AllocBreaks
<1>3. ASSUME NEW p \in Procs, NEW a \in Written, Write(p, a) PROVE PagingInv'
  BY <1>3, WriteStep
<1>4. ASSUME NEW p \in Procs, NEW a \in Pages, PageFault(p, a) \/ FaultBreaks(p, a)
      PROVE  PagingInv'
  BY <1>4, PageFaultStep, BrokenStep DEF FaultBreaks
<1>5. ASSUME NEW p \in Procs, NEW q \in Procs,
             \/ Fork(p, q) \/ ForkFails(p, q) \/ ForkBreaks(p, q)
             \/ Wait(p, q)
      PROVE  PagingInv'
  BY <1>5, ForkStep, ForkFailsStep, WaitStep, BrokenStep DEF ForkBreaks
<1>6. CASE UNCHANGED pagingVars BY <1>6, BrokenStep
<1> QED BY <1>1, <1>2, <1>3, <1>4, <1>5, <1>6 DEF Next

\* The lists, page tables, swap slots and frames agree in every process, through every
\* sequence of sbrk, faults, forks, failed forks, exits and waits.
THEOREM PlacesAlwaysAgree == Spec => []PlacesAgree
<1>1. PagingInv => PlacesAgree BY InvMeans
<1> QED BY <1>1, PagingInit, PagingStep, PTL DEF Spec

\* No page of a live process is lost, and one that is in one place only holds what the
\* process stored there, however often it went to the swap file and came back.
THEOREM NoPageLost == Spec => []PagesKept
<1>1. PagingInv => PagesKept BY InvMeans
<1> QED BY <1>1, PagingInit, PagingStep, PTL DEF Spec
=============================================================================
