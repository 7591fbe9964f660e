--------------------------- MODULE ProcTableProofs ---------------------------
(***************************************************************************)
(* The process table's families: no process on two CPUs, every process     *)
(* with a living parent, nobody asleep in wait over a zombie; and the      *)
(* shares of the lottery.                                                  *)
(***************************************************************************)
EXTENDS ProcTable, TLAPS, FiniteSetTheorems, NaturalsInduction, WellFoundedInduction

(* The invariant *)

\* Each fork has its own embryo, and each embryo its fork.
ForksInv ==
  /\ \A p \in Slots : at[p] = "forking" <=> np[p] # Null
  /\ \A p \in Slots : np[p] # Null => proc[np[p]].state = "EMBRYO" /\ proc[p].state \in Live
  /\ \A p, q \in Slots : np[p] # Null /\ np[p] = np[q] => p = q
  /\ \A q \in Slots : proc[q].state = "EMBRYO" => \E p \in Slots : np[p] = q

\* Who is a process has a living parent; init, and what is not a process yet, has none.
ParentsInv ==
  /\ proc[initproc].state \in Live /\ proc[initproc].parent = Null
  /\ \A p \in Slots : proc[p].state \in {"UNUSED", "EMBRYO"} => proc[p].parent = Null
  /\ \A p \in Slots : proc[p].state \in Live \cup {"ZOMBIE"} /\ p # initproc =>
       proc[p].parent \notin {Null, p} /\ proc[proc[p].parent].state \in Live

\* Pids are given out once.
PidsInv ==
  /\ \A p \in Slots : proc[p].pid < nextpid
  /\ \A p, q \in Slots : /\ proc[p].state # "UNUSED" /\ proc[q].state # "UNUSED"
                         /\ proc[p].pid = proc[q].pid
                         => p = q

TableInv == TypeOK /\ OneCpuEach /\ ForksInv /\ ParentsInv /\ PidsInv /\ NoLostChild

-----------------------------------------------------------------------------
(* Sets of slots, and tickets *)

\* A nonempty set of numbers has a least one.
LEMMA LeastNumber ==
  ASSUME NEW S \in SUBSET Nat, S # {}
  PROVE  Min(S) \in S /\ \A j \in S : Min(S) <= j
<1> DEFINE R == {ss \in Nat \X Nat : ss[1] < ss[2]}
<1>1. IsWellFoundedOn(R, Nat)
  BY NatLessThanWellFounded DEF OpToRel
<1>2. PICK k \in S : \A j \in S : ~ (<<j, k>> \in R)
  BY <1>1, WFMin
<1>3. ASSUME NEW j \in S, j < k PROVE FALSE
  <2>1. <<j, k>> \in R
    BY <1>3
  <2> QED BY <1>2, <2>1
<1>4. \E i \in S : \A j \in S : i <= j BY <1>3
<1> QED BY <1>4 DEF Min

\* What the slots are.
LEMMA SlotNumbers == /\ Slots \subseteq Nat /\ initproc \in Slots /\ Null \notin Slots
                     /\ Ticks \notin Slots /\ Ticks \in Nat /\ IsFiniteSet(Slots)
                     /\ \A p \in Slots : p \in 0 .. Ticks
<1>1. NPROC \in Nat \ {0} /\ NPROC \in Int /\ 1 \in Int BY ProcAssumption
<1>2. IsFiniteSet(Slots) BY <1>1, FS_Interval DEF Slots
<1> QED BY <1>1, <1>2 DEF Slots, initproc, Null, Ticks

\* The first slot of a set of slots.
LEMMA FirstSlot ==
  ASSUME NEW S \in SUBSET Slots, S # {}
  PROVE  Min(S) \in S /\ \A q \in S : Min(S) <= q
<1>1. S \in SUBSET Nat BY SlotNumbers
<1> QED BY <1>1, LeastNumber

\* Finitely many tickets, and the sums that make up a sum.
LEMMA Sums ==
  ASSUME NEW S \in SUBSET Slots, NEW t \in [Slots -> Nat]
  PROVE  /\ IsFiniteSet(Lots(S, t)) /\ TicketSum(S, t) \in Nat
         /\ \A q \in Slots \ S : TicketSum(S \cup {q}, t) = TicketSum(S, t) + t[q]
         /\ S = {} => TicketSum(S, t) = 0
<1>1. ASSUME NEW q \in Slots
      PROVE  IsFiniteSet({q} \X (1 .. t[q])) /\ Cardinality({q} \X (1 .. t[q])) = t[q]
  <2>1. PICK n \in Nat : n = t[q] OBVIOUS
  <2>2. n \in Int /\ 1 \in Int BY <2>1
  <2>3. IsFiniteSet(1 .. n) /\ Cardinality(1 .. n) = IF 1 > n THEN 0 ELSE n - 1 + 1
    BY <2>2, FS_Interval
  <2>4. IsFiniteSet(1 .. n) /\ Cardinality(1 .. n) = n BY <2>1, <2>3
  <2>5. IsFiniteSet({q}) /\ Cardinality({q}) = 1 BY FS_Singleton
  <2>6. Cardinality({q} \X (1 .. n)) = 1 * n /\ IsFiniteSet({q} \X (1 .. n))
    <3>1. PICK Q, N : Q = {q} /\ N = 1 .. n OBVIOUS
    <3>2. /\ IsFiniteSet(Q) /\ Cardinality(Q) = 1
          /\ IsFiniteSet(N) /\ Cardinality(N) = n
      BY <2>4, <2>5, <3>1
    <3>3. IsFiniteSet(Q \X N) /\ Cardinality(Q \X N) = Cardinality(Q) * Cardinality(N)
      BY ONLY <3>2, FS_Product
    <3> QED BY ONLY <3>1, <3>2, <3>3
  <2> QED BY <2>1, <2>6
<1>2. IsFiniteSet(Lots(S, t))
  <2> DEFINE T == {{q} \X (1 .. t[q]) : q \in S}
             f == [q \in S |-> {q} \X (1 .. t[q])]
  <2>1. IsFiniteSet(S) BY SlotNumbers, FS_Subset
  <2>2. f \in Surjection(S, T) BY DEF Surjection
  <2>3. IsFiniteSet(T) BY <2>1, <2>2, FS_Surjection
  <2>4. \A x \in T : IsFiniteSet(x) BY <1>1
  <2> QED BY <2>3, <2>4, FS_UNION DEF Lots
<1>3. TicketSum(S, t) \in Nat BY <1>2, FS_CardinalityType DEF TicketSum
<1>4. ASSUME NEW q \in Slots \ S PROVE TicketSum(S \cup {q}, t) = TicketSum(S, t) + t[q]
  <2> DEFINE A == Lots(S, t)
             B == {q} \X (1 .. t[q])
  <2>1. Lots(S \cup {q}, t) = A \cup B BY DEF Lots
  <2>2. A \cap B = {} BY DEF Lots
  <2>3. IsFiniteSet(A) /\ IsFiniteSet(B) /\ Cardinality(B) = t[q] BY <1>1, <1>2
  <2>4. Cardinality(A) \in Nat BY <2>3, FS_CardinalityType
  <2> HIDE DEF A, B
  <2>5. Cardinality(A \cup B) = Cardinality(A) + Cardinality(B) - Cardinality(A \cap B)
    BY <2>3, FS_Union
  <2>6. Cardinality(A \cap B) = 0 BY <2>2, FS_EmptySet
  <2>7. Cardinality(A \cup B) = Cardinality(A) + t[q] BY <2>3, <2>4, <2>5, <2>6
  <2> QED BY <2>1, <2>7 DEF A, TicketSum
<1>5. ASSUME S = {} PROVE TicketSum(S, t) = 0
  <2>1. Lots(S, t) = {} BY <1>5 DEF Lots
  <2> QED BY <2>1, FS_EmptySet DEF TicketSum
<1> QED BY <1>2, <1>3, <1>4, <1>5

\* More slots, more tickets.
LEMMA SumsGrow ==
  ASSUME NEW S \in SUBSET Slots, NEW T \in SUBSET S, NEW t \in [Slots -> Nat]
  PROVE  TicketSum(T, t) <= TicketSum(S, t)
<1>1. Lots(T, t) \in SUBSET Lots(S, t) BY DEF Lots
<1>2. IsFiniteSet(Lots(S, t)) BY Sums
<1> QED BY <1>1, <1>2, FS_Subset DEF TicketSum

\* A number drawn is a number, and a winner is one of the slots.
LEMMA DrawsAndWinners ==
  ASSUME NEW S \in SUBSET Slots, NEW t \in [Slots -> Nat]
  PROVE  /\ Draws(S, t) \subseteq Nat
         /\ \A n \in Nat : Winner(S, t, n) \in S \cup {0}
<1>1. PICK total \in Nat : total = TicketSum(S, t) BY Sums
<1>2. Draws(S, t) \subseteq Nat BY <1>1 DEF Draws
<1>3. ASSUME NEW n \in Nat PROVE Winner(S, t, n) \in S \cup {0}
  <2> DEFINE reached == {p \in S : n <= Cummulative(S, t, p)}
  <2>1. reached # {} => Min(reached) \in reached BY FirstSlot
  <2> QED BY <2>1 DEF Winner
<1> QED BY <1>2, <1>3

\* The last slot of a set of slots.
LEMMA LastSlot ==
  ASSUME NEW S \in SUBSET Slots, S # {}
  PROVE  Max(S) \in S /\ \A q \in S : q <= Max(S)
<1> DEFINE U == {k \in Nat : \A q \in S : q <= k}
<1>1. NPROC \in U BY ProcAssumption DEF Slots
<1>2. U \in SUBSET Nat /\ U # {} BY <1>1
<1>3. PICK m \in U : \A k \in U : m <= k BY <1>2, LeastNumber
<1>4. m \in S
  <2>1. SUFFICES ASSUME m \notin S PROVE FALSE
    OBVIOUS
  <2>2. \A q \in S : q \in Nat /\ q >= 1 /\ q <= m /\ q # m
    BY <1>3, <2>1, ProcAssumption DEF Slots
  <2>3. m - 1 \in Nat /\ \A q \in S : q <= m - 1 BY <1>3, <2>2
  <2>4. m - 1 \in U BY <2>3
  <2> QED BY <1>3, <2>4
<1>5. \E x \in S : \A q \in S : x >= q
  <2>1. \A q \in S : m >= q BY <1>3, SlotNumbers
  <2> QED BY <1>4, <2>1
<1>6. Max(S) \in S /\ \A q \in S : Max(S) >= q BY <1>5 DEF Max
<1> QED BY <1>6, SlotNumbers

\* The running sum at a slot, and before it.
LEMMA RunningSum ==
  ASSUME NEW S \in SUBSET Slots, NEW t \in [Slots -> Nat], NEW p \in S
  PROVE  /\ TicketSum({q \in S : q < p}, t) \in Nat
         /\ Cummulative(S, t, p) = TicketSum({q \in S : q < p}, t) + t[p]
         /\ \A q \in S : q < p => Cummulative(S, t, q) <= TicketSum({r \in S : r < p}, t)
         /\ p = Min(S) => TicketSum({q \in S : q < p}, t) = 0
         /\ p # Min(S) => \E q \in S : /\ q < p
                                      /\ Cummulative(S, t, q) = TicketSum({r \in S : r < p}, t)
         /\ p = Max(S) => Cummulative(S, t, p) = TicketSum(S, t)
         /\ p # Max(S) => Cummulative(S, t, p) + t[Max(S)] <= TicketSum(S, t)
<1> DEFINE B == {q \in S : q < p}
<1>1. B \in SUBSET Slots /\ p \in Slots \ B /\ S # {}
  <2>1. p \in Nat BY SlotNumbers
  <2>2. ~(p < p) BY <2>1
  <2> QED BY <2>2
<1>2. \A q \in Slots : q \in Nat BY SlotNumbers
<1>3. TicketSum(B, t) \in Nat BY <1>1, Sums
<1>4. Cummulative(S, t, p) = TicketSum(B, t) + t[p]
  <2>1. {q \in S : q <= p} = B \cup {p} BY <1>2
  <2> QED BY <1>1, <2>1, Sums DEF Cummulative
<1>5. ASSUME NEW q \in S, q < p PROVE Cummulative(S, t, q) <= TicketSum(B, t)
  <2>1. {r \in S : r <= q} \in SUBSET B BY <1>2, <1>5
  <2> QED BY <1>1, <2>1, SumsGrow DEF Cummulative
<1>6. ASSUME p = Min(S) PROVE TicketSum(B, t) = 0
  <2>1. \A q \in S : p <= q BY <1>1, <1>6, FirstSlot
  <2>2. B = {} BY <1>2, <2>1
  <2> QED BY <1>1, <2>2, Sums
<1>7. ASSUME p # Min(S)
      PROVE  \E q \in S : q < p /\ Cummulative(S, t, q) = TicketSum(B, t)
  <2>1. Min(S) \in B
    <3>1. Min(S) \in S /\ Min(S) <= p BY <1>1, FirstSlot
    <3>2. Min(S) \in Nat /\ p \in Nat BY <1>2, <3>1
    <3> QED BY <1>7, <3>1, <3>2
  <2>2. PICK d \in B : \A q \in B : q <= d BY <1>1, <2>1, LastSlot
  <2>3. {r \in S : r <= d} = B BY <1>2, <2>2
  <2> QED BY <2>2, <2>3 DEF Cummulative
<1>8. ASSUME p = Max(S) PROVE Cummulative(S, t, p) = TicketSum(S, t)
  <2>1. \A q \in S : q <= p BY <1>1, <1>8, LastSlot
  <2>2. {q \in S : q <= p} = S BY <2>1
  <2> QED BY <2>2 DEF Cummulative
<1>9. ASSUME p # Max(S) PROVE Cummulative(S, t, p) + t[Max(S)] <= TicketSum(S, t)
  <2>1. PICK m \in S : m = Max(S) /\ \A q \in S : q <= m BY <1>1, LastSlot
  <2>2. p <= m /\ p # m BY <1>9, <2>1
  <2>3. {q \in S : q <= p} \in SUBSET (S \ {m}) BY <1>2, <2>2
  <2>4. TicketSum({q \in S : q <= p}, t) <= TicketSum(S \ {m}, t) BY <2>3, SumsGrow
  <2>5. TicketSum(S, t) = TicketSum(S \ {m}, t) + t[m]
    <3>1. S = (S \ {m}) \cup {m} /\ m \in Slots \ (S \ {m}) OBVIOUS
    <3>2. TicketSum((S \ {m}) \cup {m}, t) = TicketSum(S \ {m}, t) + t[m] BY <3>1, Sums
    <3> QED BY <3>1, <3>2
  <2>6. TicketSum(S \ {m}, t) \in Nat /\ TicketSum({q \in S : q <= p}, t) \in Nat /\ t[m] \in Nat
    BY Sums
  <2> QED BY <2>1, <2>4, <2>5, <2>6 DEF Cummulative
<1> QED BY <1>3, <1>4, <1>5, <1>6, <1>7, <1>8, <1>9

\* With a ticket for each, every number drawn wins for somebody, and a slot wins for as
\* many numbers as it has tickets, but one more if it is the first and one fewer if it
\* is the last.
LEMMA SharesOfDraw ==
  ASSUME NEW S \in SUBSET Slots, NEW t \in [Slots -> Nat], \A q \in S : t[q] >= 1, S # {}
  PROVE  /\ \A n \in Draws(S, t) : Winner(S, t, n) \in S
         /\ \A p \in S : Cardinality(Wins(S, t, p))
                           = t[p] + (IF p = Min(S) THEN 1 ELSE 0) - (IF p = Max(S) THEN 1 ELSE 0)
<1> DEFINE m == Max(S)
<1>1. m \in S BY LastSlot
<1>2. PICK total \in Nat : total = TicketSum(S, t) BY Sums
<1>3. Cummulative(S, t, m) = total /\ total >= t[m] /\ t[m] >= 1
  <2>1. Cummulative(S, t, m) = total BY <1>1, <1>2, RunningSum
  <2>2. PICK b \in Nat : total = b + t[m] BY <1>1, <2>1, RunningSum
  <2> QED BY <1>1, <2>1, <2>2
<1>4. Draws(S, t) = 0 .. total - 1
  <2>1. total # 0 BY <1>1, <1>3
  <2> QED BY <1>2, <2>1 DEF Draws
<1>5. ASSUME NEW n \in 0 .. total - 1
      PROVE  /\ Winner(S, t, n) \in S
             /\ \A p \in S : Winner(S, t, n) = p <=> /\ n <= Cummulative(S, t, p)
                                                    /\ \A q \in S : q < p => Cummulative(S, t, q) < n
  <2> DEFINE reached == {p \in S : n <= Cummulative(S, t, p)}
             w == Min(reached)
  <2>1. m \in reached BY <1>1, <1>2, <1>3, <1>5
  <2>2. w \in reached /\ \A q \in reached : w <= q BY <2>1, FirstSlot
  <2>3. Winner(S, t, n) = w BY <2>1 DEF Winner
  <2>4. \A p \in S : Cummulative(S, t, p) \in Nat /\ p \in Nat
    <3>1. ASSUME NEW p \in S PROVE Cummulative(S, t, p) \in Nat
      <4>1. {q \in S : q <= p} \in SUBSET Slots OBVIOUS
      <4> QED BY <4>1, Sums DEF Cummulative
    <3> QED BY <3>1, SlotNumbers
  <2> HIDE DEF w
  <2>5. ASSUME NEW p \in S, n <= Cummulative(S, t, p), \A q \in S : q < p => Cummulative(S, t, q) < n
        PROVE  w = p
    <3>1. w <= p BY <2>2, <2>5
    <3>2. ~(w < p) BY <1>5, <2>2, <2>4, <2>5
    <3> QED BY <2>2, <2>4, <3>1, <3>2
  <2>6. ASSUME NEW q \in S, q < w PROVE Cummulative(S, t, q) < n
    <3>1. ~(w <= q) BY <2>2, <2>4, <2>6
    <3>2. ~(n <= Cummulative(S, t, q)) BY <2>2, <3>1
    <3> QED BY <1>5, <2>4, <3>2
  <2> QED BY <2>2, <2>3, <2>5, <2>6
<1>6. ASSUME NEW p \in S
      PROVE  Cardinality(Wins(S, t, p))
               = t[p] + (IF p = Min(S) THEN 1 ELSE 0) - (IF p = m THEN 1 ELSE 0)
  <2> DEFINE b == TicketSum({q \in S : q < p}, t)
             c == Cummulative(S, t, p)
             lo == IF p = Min(S) THEN 0 ELSE b + 1
             hi == IF p = m THEN total - 1 ELSE c
  <2>1. /\ b \in Nat /\ t[p] \in Nat /\ t[p] >= 1 /\ c = b + t[p]
        /\ p = Min(S) => b = 0
        /\ p = m => c = total
        /\ p # m => c < total
    <3>1. b \in Nat /\ c = b + t[p] /\ (p = Min(S) => b = 0) BY RunningSum
    <3>2. p = m => c = total BY <1>3
    <3>3. t[p] \in Nat /\ t[p] >= 1 /\ t[m] \in Nat BY <1>1
    <3>4. p # m => c + t[m] <= total BY <1>2, RunningSum
    <3> QED BY <1>3, <3>1, <3>2, <3>3, <3>4
  <2>2. ASSUME NEW n \in 0 .. total - 1, p # Min(S)
        PROVE  (\A q \in S : q < p => Cummulative(S, t, q) < n) <=> b < n
    <3>1. PICK q \in S : q < p /\ Cummulative(S, t, q) = b BY <2>2, RunningSum
    <3>2. \A r \in S : r < p => Cummulative(S, t, r) <= b BY RunningSum
    <3>3. ASSUME NEW r \in S PROVE Cummulative(S, t, r) \in Nat
      <4>1. {x \in S : x <= r} \in SUBSET Slots OBVIOUS
      <4> QED BY <4>1, Sums DEF Cummulative
    <3> HIDE DEF b
    <3> QED BY <2>1, <2>2, <3>1, <3>2, <3>3
  <2>3. p = Min(S) => \A q \in S : ~(q < p)
    <3>1. \A q \in S : Min(S) <= q BY FirstSlot
    <3> QED BY <3>1, SlotNumbers
  <2> HIDE DEF b, c
  <2>4. ASSUME NEW n \in 0 .. total - 1
        PROVE  Winner(S, t, n) = p <=> n \in lo .. hi
    <3>1. Winner(S, t, n) = p <=> n <= c /\ \A q \in S : q < p => Cummulative(S, t, q) < n
      BY <1>5 DEF c
    <3>2. CASE p = Min(S) BY <2>1, <2>3, <3>1, <3>2
    <3>3. CASE p # Min(S)
      <4>1. (\A q \in S : q < p => Cummulative(S, t, q) < n) <=> b < n BY <2>2, <3>3
      <4> QED BY <2>1, <3>1, <3>3, <4>1
    <3> QED BY <3>2, <3>3
  <2>5. lo \in Int /\ hi \in Int /\ lo >= 0 /\ hi <= total - 1 BY <2>1
  <2>6. Wins(S, t, p) = lo .. hi
    <3>1. Wins(S, t, p) = {n \in 0 .. total - 1 : Winner(S, t, n) = p} BY <1>4 DEF Wins
    <3> HIDE DEF lo, hi
    <3> QED BY <2>4, <2>5, <3>1
  <2>7. Cardinality(lo .. hi) = IF lo > hi THEN 0 ELSE hi - lo + 1 BY <2>5, FS_Interval
  <2> QED BY <2>1, <2>6, <2>7
<1> QED BY <1>4, <1>5, <1>6

-----------------------------------------------------------------------------
(* Steps *)

\* A record of the table.
Process == [state : States, pid : 0 .. MaxPid, parent : Slots \cup {Null},
            killed : BOOLEAN, chan : 0 .. Ticks, tickets : TicketChoices \cup {0, 1}]

\* A slot of another state, channel or flag is a slot all the same.
LEMMA Records ==
  ASSUME NEW r \in Process
  PROVE  /\ \A s \in States : [r EXCEPT !.state = s] \in Process
         /\ \A p \in Slots : [r EXCEPT !.parent = p] \in Process
         /\ \A p \in Slots \cup {Null, Ticks} : [r EXCEPT !.chan = p] \in Process
         /\ \A n \in TicketChoices \cup {0, 1} : [r EXCEPT !.tickets = n] \in Process
         /\ [r EXCEPT !.killed = TRUE] \in Process
<1>1. \A p \in Slots \cup {Null, Ticks} : p \in 0 .. Ticks BY SlotNumbers DEF Null, Ticks
<1> QED BY <1>1 DEF Process

\* Whose CPU it is, is RUNNING there and nowhere else.
LEMMA OnCpu ==
  ASSUME TableInv, NEW p \in Slots, NEW c \in Cpus, cpu[c].proc = p
  PROVE  proc[p].state = "RUNNING" /\ \A d \in Cpus : cpu[d].proc = p => d = c
BY DEF TableInv, OneCpuEach

\* Steps that leave the CPUs what they run.
LEMMA CpuSame ==
  ASSUME TableInv, TypeOK',
         \A c \in Cpus : cpu'[c].proc = cpu[c].proc,
         \A p \in Slots : proc'[p].state = "RUNNING" <=> proc[p].state = "RUNNING"
  PROVE  OneCpuEach'
<1>1. ASSUME NEW p \in Slots
      PROVE  /\ proc'[p].state = "RUNNING" <=> \E c \in Cpus : cpu'[c].proc = p
             /\ \A c, d \in Cpus : cpu'[c].proc = p /\ cpu'[d].proc = p => c = d
  BY DEF TableInv, OneCpuEach
<1> QED BY <1>1 DEF OneCpuEach

\* A process leaves its CPU.
LEMMA CpuLeft ==
  ASSUME TableInv, TypeOK', NEW p \in Slots, NEW c \in Cpus, cpu[c].proc = p,
         LeaveCpu(c), proc'[p].state # "RUNNING",
         \A q \in Slots \ {p} : proc'[q].state = "RUNNING" <=> proc[q].state = "RUNNING"
  PROVE  OneCpuEach'
<1>1. \A d \in Cpus : cpu'[d].proc = IF d = c THEN Null ELSE cpu[d].proc
  BY DEF TableInv, TypeOK, LeaveCpu, Idle
<1>2. \A q \in Slots : q # Null BY SlotNumbers
<1>3. \A d \in Cpus : cpu'[d].proc # p BY <1>1, <1>2, OnCpu
<1>4. ASSUME NEW q \in Slots
      PROVE  /\ proc'[q].state = "RUNNING" <=> \E d \in Cpus : cpu'[d].proc = q
             /\ \A d, e \in Cpus : cpu'[d].proc = q /\ cpu'[e].proc = q => d = e
  <2>1. CASE q = p BY <1>3, <2>1
  <2>2. CASE q # p
    <3>1. \A d \in Cpus : cpu'[d].proc = q <=> cpu[d].proc = q BY <1>1, <1>2, <2>2
    <3> QED BY <2>2, <3>1 DEF TableInv, OneCpuEach
  <2> QED BY <2>1, <2>2
<1> QED BY <1>4 DEF OneCpuEach

\* A step that makes or ends no process and lends nobody's child to another leaves the
\* families alone, if whoever sleeps in wait has a reason to.
LEMMA FamilySame ==
  ASSUME TableInv, TypeOK', OneCpuEach', np' = np, nextpid' = nextpid,
         \A p \in Slots : at'[p] = "forking" <=> at[p] = "forking",
         \A p \in Slots : /\ proc'[p].pid = proc[p].pid /\ proc'[p].parent = proc[p].parent
                          /\ \/ proc'[p].state = proc[p].state
                             \/ proc'[p].state \in Live /\ proc[p].state \in Live,
         \A p \in Slots : proc'[p].state = "SLEEPING" /\ proc'[p].chan = p =>
            /\ ~proc'[p].killed
            /\ \/ proc[p].state = "SLEEPING" /\ proc[p].chan = p
               \/ Children(p) # {} /\ Zombies(p) = {}
  PROVE  TableInv'
<1>0. /\ \A p \in Slots : proc'[p].state = "EMBRYO" <=> proc[p].state = "EMBRYO"
      /\ \A p \in Slots : proc'[p].state = "UNUSED" <=> proc[p].state = "UNUSED"
      /\ \A p \in Slots : proc'[p].state = "ZOMBIE" <=> proc[p].state = "ZOMBIE"
      /\ \A p \in Slots : proc'[p].state \in Live <=> proc[p].state \in Live
  BY DEF Live
<1>1. ForksInv'
  <2>1. \A p \in Slots : np[p] # Null => np[p] \in Slots BY DEF TableInv, TypeOK
  <2>2. (\A p \in Slots : at[p] = "forking" <=> np[p] # Null)' BY DEF TableInv, ForksInv
  <2>3. (\A p \in Slots : np[p] # Null => proc[np[p]].state = "EMBRYO" /\ proc[p].state \in Live)'
    BY <1>0, <2>1 DEF TableInv, ForksInv
  <2>4. (\A p, q \in Slots : np[p] # Null /\ np[p] = np[q] => p = q)' BY DEF TableInv, ForksInv
  <2>5. (\A q \in Slots : proc[q].state = "EMBRYO" => \E p \in Slots : np[p] = q)'
    BY <1>0 DEF TableInv, ForksInv
  <2> QED BY <2>2, <2>3, <2>4, <2>5 DEF ForksInv
<1>2. ParentsInv'
  <2>1. \A p \in Slots : proc[p].parent # Null => proc[p].parent \in Slots
    BY DEF TableInv, TypeOK
  <2>2. initproc \in Slots BY SlotNumbers
  <2> QED BY <1>0, <2>1, <2>2 DEF TableInv, ParentsInv
<1>3. PidsInv' BY DEF TableInv, PidsInv, TypeOK, Live
<1>4. NoLostChild'
  <2>1. ASSUME NEW p \in Slots PROVE Children(p)' = Children(p) /\ Zombies(p)' = Zombies(p)
    BY DEF Children, Zombies, Live
  <2> QED BY <2>1 DEF TableInv, NoLostChild
<1> QED BY <1>1, <1>2, <1>3, <1>4 DEF TableInv

\* The table after wakeup1.
LEMMA Woken ==
  ASSUME TableInv, NEW chans
  PROVE  /\ Wakeup1(proc, chans) \in [Slots -> Process]
         /\ \A q \in Slots :
              LET r == Wakeup1(proc, chans)[q]
              IN  /\ r.pid = proc[q].pid /\ r.parent = proc[q].parent
                  /\ r.killed = proc[q].killed /\ r.chan = proc[q].chan
                  /\ r.tickets = proc[q].tickets
                  /\ r.state = IF proc[q].state = "SLEEPING" /\ proc[q].chan \in chans
                               THEN "RUNNABLE" ELSE proc[q].state
<1>1. proc \in [Slots -> Process] BY DEF TableInv, TypeOK, Process
<1>2. ASSUME NEW q \in Slots
      PROVE  LET r == Wakeup1(proc, chans)[q]
             IN  /\ r \in Process
                 /\ r.pid = proc[q].pid /\ r.parent = proc[q].parent
                 /\ r.killed = proc[q].killed /\ r.chan = proc[q].chan
                 /\ r.tickets = proc[q].tickets
                 /\ r.state = IF proc[q].state = "SLEEPING" /\ proc[q].chan \in chans
                              THEN "RUNNABLE" ELSE proc[q].state
  <2>1. proc[q] \in Process BY <1>1
  <2>2. Wakeup1(proc, chans)[q] =
          IF proc[q].state = "SLEEPING" /\ proc[q].chan \in chans
          THEN [proc[q] EXCEPT !.state = "RUNNABLE"] ELSE proc[q]
    BY DEF Wakeup1
  <2> QED BY <2>1, <2>2 DEF Process, States
<1>3. Wakeup1(proc, chans) \in [Slots -> Process] BY <1>2 DEF Wakeup1
<1> QED BY <1>2, <1>3

\* Entering wait or sys_sleep changes where the process is.
LEMMA Entering ==
  ASSUME TableInv, NEW p \in Slots, NEW c \in Cpus, EnterWait(p, c) \/ EnterSleep(p, c)
  PROVE  TableInv'
<1>1. /\ proc' = proc /\ nextpid' = nextpid /\ np' = np /\ cpu' = cpu /\ lock' = lock
      /\ panicked' = panicked /\ at[p] = "user"
      /\ at' = [at EXCEPT ![p] = "wait"] \/ at' = [at EXCEPT ![p] = "tosleep"]
  BY DEF EnterWait, EnterSleep, InUser, Goto
<1>2. TypeOK' BY <1>1 DEF TableInv, TypeOK, Points
<1>3. OneCpuEach' BY <1>1, <1>2, CpuSame
<1>4. \A q \in Slots : at'[q] = "forking" <=> at[q] = "forking" BY <1>1 DEF TableInv, TypeOK
<1>5. \A q \in Slots : proc[q].state = "SLEEPING" /\ proc[q].chan = q =>
        ~proc[q].killed /\ Children(q) # {} /\ Zombies(q) = {}
  BY DEF TableInv, NoLostChild
<1> QED BY <1>1, <1>2, <1>3, <1>4, <1>5, FamilySame

\* Scanning in vain.
LEMMA ScanningInVain ==
  ASSUME TableInv, NEW p \in Slots, NEW c \in Cpus, WaitFails(p, c) \/ WaitSleeps(p, c)
  PROVE  TableInv'
<1>1. /\ cpu[c].proc = p /\ at[p] = "wait" /\ Zombies(p) = {}
      /\ nextpid' = nextpid /\ np' = np /\ panicked' = panicked
  BY DEF WaitFails, WaitSleeps, Scans
<1>2. proc[p].state = "RUNNING" BY <1>1, OnCpu
<1>3. proc[p] \in Process /\ proc \in [Slots -> Process] BY DEF TableInv, TypeOK, Process
<1>4. \A q \in Slots : proc[q].state = "SLEEPING" /\ proc[q].chan = q => ~proc[q].killed
  BY DEF TableInv, NoLostChild
<1>5. CASE WaitFails(p, c)
  <2>1. /\ proc' = [proc EXCEPT ![p] = [proc[p] EXCEPT !.chan = Null]]
        /\ at' = [at EXCEPT ![p] = "user"] /\ cpu' = cpu /\ lock' = NoCpu
    BY <1>5 DEF WaitFails, Goto
  <2>2. [proc[p] EXCEPT !.chan = Null] \in Process BY <1>3, Records
  <2>3. proc' \in [Slots -> Process] BY <1>3, <2>1, <2>2
  <2>4. TypeOK' BY <1>1, <2>1, <2>3 DEF TableInv, TypeOK, Process, Points
  <2>5. \A q \in Slots : /\ proc'[q].state = proc[q].state /\ proc'[q].pid = proc[q].pid
                         /\ proc'[q].parent = proc[q].parent
                         /\ proc'[q].killed = proc[q].killed
                         /\ q # p => proc'[q].chan = proc[q].chan
    BY <1>3, <2>1 DEF Process
  <2>6. OneCpuEach' BY <2>1, <2>4, <2>5, CpuSame
  <2>7. \A q \in Slots : at'[q] = "forking" <=> at[q] = "forking"
    BY <1>1, <2>1 DEF TableInv, TypeOK
  <2> QED BY <1>1, <1>2, <1>4, <2>4, <2>5, <2>6, <2>7, FamilySame
<1>6. CASE WaitSleeps(p, c)
  <2>1. /\ proc' = [proc EXCEPT ![p] = [proc[p] EXCEPT !.state = "SLEEPING", !.chan = p]]
        /\ at' = at /\ LeaveCpu(c) /\ Children(p) # {} /\ ~proc[p].killed
    BY <1>6 DEF WaitSleeps, NothingToWaitFor
  <2>2. [proc[p] EXCEPT !.state = "SLEEPING", !.chan = p] \in Process
    <3>1. p \in 0 .. Ticks BY SlotNumbers
    <3> QED BY <1>3, <3>1 DEF Process, States
  <2>3. proc' \in [Slots -> Process] BY <1>3, <2>1, <2>2
  <2>4. TypeOK'
    <3>1. cpu' \in [Cpus -> [proc : Slots \cup {Null}, lottery : Nat \cup {NoDraw}]]
      BY <2>1 DEF TableInv, TypeOK, LeaveCpu, Idle
    <3> QED BY <1>1, <2>1, <2>3, <3>1 DEF TableInv, TypeOK, Process, LeaveCpu
  <2>5. \A q \in Slots : /\ proc'[q].pid = proc[q].pid
                         /\ proc'[q].parent = proc[q].parent
                         /\ proc'[q].killed = proc[q].killed
                         /\ q # p => proc'[q].chan = proc[q].chan
                         /\ proc'[q].state = IF q = p THEN "SLEEPING" ELSE proc[q].state
    BY <1>3, <2>1 DEF Process
  <2>6. OneCpuEach' BY <1>1, <2>1, <2>4, <2>5, CpuLeft
  <2> QED BY <1>1, <1>2, <1>4, <2>1, <2>4, <2>5, <2>6, FamilySame DEF Live
<1> QED BY <1>5, <1>6

\* Giving up the CPU, runnable or asleep on the clock.
LEMMA GivingUp ==
  ASSUME TableInv, NEW p \in Slots, NEW c \in Cpus, SleepOnTicks(p, c) \/ Yield(p, c)
  PROVE  TableInv'
<1>1. /\ cpu[c].proc = p /\ LeaveCpu(c)
      /\ nextpid' = nextpid /\ np' = np /\ panicked' = panicked
  BY DEF SleepOnTicks, Yield, Runs
<1>2. proc[p].state = "RUNNING" BY <1>1, OnCpu
<1>3. proc[p] \in Process /\ proc \in [Slots -> Process] BY DEF TableInv, TypeOK, Process
<1>4. \A q \in Slots : proc[q].state = "SLEEPING" /\ proc[q].chan = q => ~proc[q].killed
  BY DEF TableInv, NoLostChild
<1>5. PICK r \in Process :
        /\ proc' = [proc EXCEPT ![p] = r]
        /\ r.pid = proc[p].pid /\ r.parent = proc[p].parent /\ r.killed = proc[p].killed
        /\ r.state \in {"SLEEPING", "RUNNABLE"} /\ (r.state = "SLEEPING" => r.chan = Ticks)
  <2>1. CASE SleepOnTicks(p, c)
    <3>1. proc' = [proc EXCEPT ![p] = [proc[p] EXCEPT !.state = "SLEEPING", !.chan = Ticks]]
      BY <2>1 DEF SleepOnTicks
    <3>2. Ticks \in 0 .. Ticks BY SlotNumbers
    <3>3. [proc[p] EXCEPT !.state = "SLEEPING", !.chan = Ticks] \in Process
      BY <1>3, <3>2 DEF Process, States
    <3> QED BY <1>3, <3>1, <3>3 DEF Process
  <2>2. CASE Yield(p, c)
    <3>1. proc' = [proc EXCEPT ![p] = [proc[p] EXCEPT !.state = "RUNNABLE"]]
      BY <2>2 DEF Yield
    <3>2. [proc[p] EXCEPT !.state = "RUNNABLE"] \in Process BY <1>3 DEF Process, States
    <3> QED BY <1>3, <3>1, <3>2 DEF Process
  <2> QED BY <2>1, <2>2
<1>6. proc' \in [Slots -> Process] BY <1>3, <1>5
<1>7. /\ at' \in [Slots -> Points]
      /\ \A q \in Slots : at'[q] = "forking" <=> at[q] = "forking"
  <2>1. at \in [Slots -> Points] BY DEF TableInv, TypeOK
  <2>2. CASE SleepOnTicks(p, c)
    <3>1. at' = [at EXCEPT ![p] = "user"] /\ at[p] = "tosleep" BY <2>2 DEF SleepOnTicks, Goto
    <3> QED BY <2>1, <3>1 DEF Points
  <2>3. CASE Yield(p, c)
    <3>1. at' = at BY <2>3 DEF Yield
    <3> QED BY <2>1, <3>1
  <2> QED BY <2>2, <2>3
<1>8. TypeOK'
  <2>1. cpu' \in [Cpus -> [proc : Slots \cup {Null}, lottery : Nat \cup {NoDraw}]]
    BY <1>1 DEF TableInv, TypeOK, LeaveCpu, Idle
  <2> QED BY <1>1, <1>6, <1>7, <2>1 DEF TableInv, TypeOK, Process, LeaveCpu
<1>9. \A q \in Slots : /\ proc'[q].pid = proc[q].pid
                       /\ proc'[q].parent = proc[q].parent
                       /\ proc'[q].killed = proc[q].killed
                       /\ q # p => proc'[q] = proc[q]
  BY <1>3, <1>5
<1>10. proc'[p] = r BY <1>3, <1>5
<1>11. OneCpuEach' BY <1>1, <1>5, <1>8, <1>9, <1>10, CpuLeft
<1>12. p # Ticks BY SlotNumbers
<1> QED BY <1>1, <1>2, <1>4, <1>5, <1>7, <1>8, <1>9, <1>10, <1>11, <1>12, FamilySame DEF Live

\* The clock, kill, settickets and the end of a switch to a process change no more than
\* channels, flags and tickets, and wake who sleeps.
LEMMA Marking ==
  ASSUME TableInv,
         Tick \/ \E p \in Slots, c \in Cpus : Kill(p, c) \/ SetTickets(p, c) \/ Resume(p, c)
  PROVE  TableInv'
<1>1. /\ nextpid' = nextpid /\ np' = np /\ panicked' = panicked /\ at' = at /\ cpu' = cpu
      /\ lock' = lock \/ lock' = NoCpu
  BY DEF Tick, Kill, SetTickets, Resume
<1>2. proc \in [Slots -> Process] BY DEF TableInv, TypeOK, Process
<1> DEFINE Marked ==
      /\ proc' \in [Slots -> Process]
      /\ \A q \in Slots :
           /\ proc'[q].pid = proc[q].pid /\ proc'[q].parent = proc[q].parent
           /\ \/ proc'[q].state = proc[q].state
              \/ proc[q].state = "SLEEPING" /\ proc'[q].state = "RUNNABLE"
           /\ proc'[q].state = "SLEEPING" =>
                proc'[q].chan = proc[q].chan /\ proc'[q].killed = proc[q].killed
<1>3. Marked
  <2>1. CASE Tick
    <3>1. proc' = Wakeup1(proc, {Ticks}) BY <2>1 DEF Tick
    <3> QED BY <3>1, Woken
  <2>2. ASSUME NEW p \in Slots, NEW c \in Cpus,
               Kill(p, c) \/ SetTickets(p, c) \/ Resume(p, c)
        PROVE  Marked
    <3>1. CASE Kill(p, c)
      <4>1. PICK pid \in Victims : /\ {q \in Slots : proc[q].pid = pid} # {}
                                   /\ proc' = KillTable(Min({q \in Slots : proc[q].pid = pid}))
        BY <3>1 DEF Kill
      <4>2. PICK v \in Slots : v = Min({q \in Slots : proc[q].pid = pid}) BY <4>1, FirstSlot
      <4>3. PICK s \in States :
              s = IF proc[v].state = "SLEEPING" THEN "RUNNABLE" ELSE proc[v].state
        BY <1>2 DEF Process, States
      <4>4. proc' = [proc EXCEPT ![v] = [proc[v] EXCEPT !.killed = TRUE, !.state = s]]
        BY <1>2, <4>1, <4>2, <4>3 DEF KillTable, Process
      <4>5. [proc[v] EXCEPT !.killed = TRUE, !.state = s] \in Process BY <1>2 DEF Process
      <4>6. proc' \in [Slots -> Process] BY <1>2, <4>4, <4>5
      <4> QED BY <1>2, <4>3, <4>4, <4>6 DEF Process
    <3>2. CASE SetTickets(p, c)
      <4>1. PICK n \in TicketChoices :
              proc' = [proc EXCEPT ![Min({q \in Slots : proc[q].pid = proc[p].pid})].tickets = n]
        BY <3>2 DEF SetTickets
      <4>2. PICK v \in Slots : v = Min({q \in Slots : proc[q].pid = proc[p].pid})
        <5>1. p \in {q \in Slots : proc[q].pid = proc[p].pid} OBVIOUS
        <5> QED BY <5>1, FirstSlot
      <4>3. proc' = [proc EXCEPT ![v] = [proc[v] EXCEPT !.tickets = n]] BY <4>1, <4>2
      <4>4. [proc[v] EXCEPT !.tickets = n] \in Process BY <1>2, Records
      <4>5. proc' \in [Slots -> Process] BY <1>2, <4>3, <4>4
      <4> QED BY <1>2, <4>3, <4>5 DEF Process
    <3>3. CASE Resume(p, c)
      <4>1. proc' = [proc EXCEPT ![p] = [proc[p] EXCEPT !.chan = Null]] /\ cpu[c].proc = p
        BY <3>3 DEF Resume
      <4>2. proc[p].state = "RUNNING" BY <4>1, OnCpu
      <4>3. [proc[p] EXCEPT !.chan = Null] \in Process BY <1>2, Records
      <4>4. proc' \in [Slots -> Process] BY <1>2, <4>1, <4>3
      <4> QED BY <1>2, <4>1, <4>2, <4>4 DEF Process
    <3> QED BY <2>2, <3>1, <3>2, <3>3
  <2> QED BY <2>1, <2>2
<1>4. TypeOK' BY <1>1, <1>3 DEF TableInv, TypeOK, Process
<1>5. OneCpuEach' BY <1>1, <1>3, <1>4, CpuSame
<1>6. \A q \in Slots : proc[q].state = "SLEEPING" /\ proc[q].chan = q => ~proc[q].killed
  BY DEF TableInv, NoLostChild
<1>7. \A q \in Slots : \/ proc'[q].state = proc[q].state
                       \/ proc'[q].state \in Live /\ proc[q].state \in Live
  BY <1>3 DEF Live
<1>8. \A q \in Slots : proc'[q].state = "SLEEPING" => proc[q].state = "SLEEPING" BY <1>3
<1> QED BY <1>1, <1>3, <1>4, <1>5, <1>6, <1>7, <1>8, FamilySame

\* The tickets are numbers, and so is what is drawn; who wins is RUNNABLE.
LEMMA Lotteries ==
  ASSUME TableInv
  PROVE  /\ InState("RUNNABLE") \in SUBSET Slots /\ Tickets \in [Slots -> Nat]
         /\ Draws(InState("RUNNABLE"), Tickets) \subseteq Nat
         /\ \A n \in Nat : Winner(InState("RUNNABLE"), Tickets, n) \in InState("RUNNABLE") \cup {0}
<1>1. InState("RUNNABLE") \in SUBSET Slots BY DEF InState
<1>2. Tickets \in [Slots -> Nat]
  <2>1. \A p \in Slots : proc[p].tickets \in TicketChoices \cup {0, 1} BY DEF TableInv, TypeOK
  <2>2. TicketChoices \cup {0, 1} \subseteq Nat BY ProcAssumption
  <2> QED BY <2>1, <2>2 DEF Tickets
<1> QED BY <1>1, <1>2, DrawsAndWinners

\* The scheduler draws.
LEMMA Drawing ==
  ASSUME TableInv, NEW c \in Cpus, Draw(c)
  PROVE  TableInv'
<1>1. PICK n \in Nat : cpu' = [cpu EXCEPT ![c] = [cpu[c] EXCEPT !.lottery = n]]
  BY Lotteries DEF Draw
<1>2. /\ proc' = proc /\ nextpid' = nextpid /\ at' = at /\ np' = np /\ lock' = lock
      /\ panicked' = panicked
  BY DEF Draw
<1>3. /\ cpu' \in [Cpus -> [proc : Slots \cup {Null}, lottery : Nat \cup {NoDraw}]]
      /\ \A d \in Cpus : cpu'[d].proc = cpu[d].proc
  BY <1>1 DEF TableInv, TypeOK
<1>4. TypeOK' BY <1>2, <1>3 DEF TableInv, TypeOK
<1>5. OneCpuEach' BY <1>2, <1>3, <1>4, CpuSame
<1>6. \A q \in Slots : proc[q].state = "SLEEPING" /\ proc[q].chan = q => ~proc[q].killed
  BY DEF TableInv, NoLostChild
<1> QED BY <1>2, <1>4, <1>5, <1>6, FamilySame

\* The scheduler switches to the winner, who was on no CPU.
LEMMA Dispatching ==
  ASSUME TableInv, NEW c \in Cpus, Dispatch(c)
  PROVE  TableInv'
<1>1. /\ nextpid' = nextpid /\ at' = at /\ np' = np /\ panicked' = panicked
      /\ cpu[c].proc = Null /\ cpu[c].lottery # NoDraw
  BY DEF Dispatch
<1>2. cpu[c].lottery \in Nat BY <1>1 DEF TableInv, TypeOK
<1>3. PICK w \in InState("RUNNABLE") \cup {0} :
        w = Winner(InState("RUNNABLE"), Tickets, cpu[c].lottery)
  BY <1>2, Lotteries
<1>4. \A q \in Slots : proc[q].state = "SLEEPING" /\ proc[q].chan = q => ~proc[q].killed
  BY DEF TableInv, NoLostChild
<1>5. proc \in [Slots -> Process] BY DEF TableInv, TypeOK, Process
<1>6. CASE w = 0
  <2>1. proc' = proc /\ lock' = lock /\ cpu' = [cpu EXCEPT ![c] = Idle]
    BY <1>3, <1>6 DEF Dispatch
  <2>2. /\ cpu' \in [Cpus -> [proc : Slots \cup {Null}, lottery : Nat \cup {NoDraw}]]
        /\ \A d \in Cpus : cpu'[d].proc = cpu[d].proc
    BY <1>1, <2>1 DEF TableInv, TypeOK, Idle
  <2>3. TypeOK' BY <1>1, <2>1, <2>2 DEF TableInv, TypeOK
  <2>4. OneCpuEach' BY <2>1, <2>2, <2>3, CpuSame
  <2> QED BY <1>1, <1>4, <2>1, <2>3, <2>4, FamilySame
<1>7. CASE w # 0
  <2>1. /\ proc' = [proc EXCEPT ![w] = [proc[w] EXCEPT !.state = "RUNNING"]] /\ lock' = c
        /\ cpu' = [cpu EXCEPT ![c] = [proc |-> w, lottery |-> NoDraw]]
    BY <1>3, <1>7 DEF Dispatch
  <2>2. w \in Slots /\ proc[w].state = "RUNNABLE" BY <1>3, <1>7 DEF InState
  <2>3. [proc[w] EXCEPT !.state = "RUNNING"] \in Process BY <1>5, <2>2 DEF Process, States
  <2>4. proc' \in [Slots -> Process] BY <1>5, <2>1, <2>3
  <2>5. cpu' \in [Cpus -> [proc : Slots \cup {Null}, lottery : Nat \cup {NoDraw}]]
    BY <2>1, <2>2 DEF TableInv, TypeOK
  <2>6. TypeOK' BY <1>1, <2>1, <2>4, <2>5 DEF TableInv, TypeOK, Process
  <2>7. \A q \in Slots : /\ proc'[q].pid = proc[q].pid
                         /\ proc'[q].parent = proc[q].parent
                         /\ proc'[q].killed = proc[q].killed
                         /\ proc'[q].chan = proc[q].chan
                         /\ proc'[q].state = IF q = w THEN "RUNNING" ELSE proc[q].state
    BY <1>5, <2>1, <2>2 DEF Process
  <2>8. OneCpuEach'
    <3>1. \A d \in Cpus : cpu'[d].proc = IF d = c THEN w ELSE cpu[d].proc
      BY <2>1 DEF TableInv, TypeOK
    <3>2. \A d \in Cpus : cpu[d].proc # w BY <2>2 DEF TableInv, OneCpuEach
    <3>3. \A q \in Slots : q # Null BY SlotNumbers
    <3>4. ASSUME NEW q \in Slots
          PROVE  /\ proc'[q].state = "RUNNING" <=> \E d \in Cpus : cpu'[d].proc = q
                 /\ \A d, e \in Cpus : cpu'[d].proc = q /\ cpu'[e].proc = q => d = e
      <4>1. CASE q = w BY <2>7, <3>1, <3>2, <4>1
      <4>2. CASE q # w
        <5>1. \A d \in Cpus : cpu'[d].proc = q <=> cpu[d].proc = q BY <1>1, <3>1, <3>3, <4>2
        <5> QED BY <2>7, <4>2, <5>1 DEF TableInv, OneCpuEach
      <4> QED BY <4>1, <4>2
    <3> QED BY <3>4 DEF OneCpuEach
  <2> QED BY <1>1, <1>4, <2>2, <2>6, <2>7, <2>8, FamilySame DEF Live
<1> QED BY <1>6, <1>7

\* fork takes a slot, gives it back, or makes it a process.
LEMMA Allocating ==
  ASSUME TableInv, NEW p \in Slots, NEW c \in Cpus, AllocProc(p, c)
  PROVE  TableInv'
<1>1. /\ cpu[c].proc = p /\ at[p] = "user" /\ nextpid <= MaxPid /\ InState("UNUSED") # {}
      /\ nextpid' = nextpid + 1 /\ at' = [at EXCEPT ![p] = "forking"]
      /\ cpu' = cpu /\ lock' = lock /\ panicked' = panicked
  BY DEF AllocProc, InUser, Runs, Goto
<1>2. PICK q \in InState("UNUSED") : q = Min(InState("UNUSED"))
  <2>1. InState("UNUSED") \in SUBSET Slots BY DEF InState
  <2> QED BY <1>1, <2>1, FirstSlot
<1>3. q \in Slots /\ proc[q].state = "UNUSED" BY DEF InState
<1>4. /\ proc' = [proc EXCEPT ![q] = [proc[q] EXCEPT !.state = "EMBRYO", !.pid = nextpid,
                                                     !.tickets = 1]]
      /\ np' = [np EXCEPT ![p] = q]
  BY <1>2, <1>3 DEF AllocProc
<1>5. /\ proc \in [Slots -> Process] /\ np \in [Slots -> Slots \cup {Null}]
      /\ at \in [Slots -> Points] /\ nextpid \in 1 .. MaxPid + 1
  BY DEF TableInv, TypeOK, Process
<1>6. MaxPid \in Nat BY ProcAssumption
<1>7. [proc[q] EXCEPT !.state = "EMBRYO", !.pid = nextpid, !.tickets = 1] \in Process
  <2>1. nextpid \in 0 .. MaxPid /\ 1 \in TicketChoices \cup {0, 1} BY <1>1, <1>5, <1>6
  <2> QED BY <1>3, <1>5, <2>1, ZenonT(30) DEF Process, States
<1>8. proc' \in [Slots -> Process] BY <1>4, <1>5, <1>7
<1>9. TypeOK'
  <2>1. np' \in [Slots -> Slots \cup {Null}] BY <1>3, <1>4, <1>5
  <2>2. at' \in [Slots -> Points] BY <1>1, <1>5 DEF Points
  <2>3. nextpid' \in 1 .. MaxPid + 1 BY <1>1, <1>5, <1>6
  <2> QED BY <1>1, <1>8, <2>1, <2>2, <2>3 DEF TableInv, TypeOK, Process
<1>10. /\ \A r \in Slots : /\ r # q => proc'[r] = proc[r]
                           /\ proc'[r].parent = proc[r].parent
       /\ proc'[q].state = "EMBRYO" /\ proc'[q].pid = nextpid
       /\ \A r \in Slots : np'[r] = IF r = p THEN q ELSE np[r]
       /\ \A r \in Slots : at'[r] = IF r = p THEN "forking" ELSE at[r]
  BY <1>1, <1>3, <1>4, <1>5 DEF Process
<1>11. proc[p].state = "RUNNING" BY <1>1, OnCpu
<1>12. OneCpuEach' BY <1>1, <1>3, <1>9, <1>10, CpuSame
<1>13. \A r \in Slots : r # Null BY SlotNumbers
<1>14. ForksInv'
  <2>1. np[p] = Null BY <1>1 DEF TableInv, ForksInv
  <2>2. \A r \in Slots : np[r] # Null => np[r] \in Slots /\ proc[np[r]].state = "EMBRYO"
    BY <1>5 DEF TableInv, ForksInv
  <2>3. \A r \in Slots : np[r] # q BY <1>3, <1>13, <2>2
  <2>4. (\A r \in Slots : at[r] = "forking" <=> np[r] # Null)'
    BY <1>3, <1>10, <1>13 DEF TableInv, ForksInv
  <2>5. (\A r \in Slots : np[r] # Null => proc[np[r]].state = "EMBRYO" /\ proc[r].state \in Live)'
    <3>1. ASSUME NEW r \in Slots, np'[r] # Null
          PROVE  proc'[np'[r]].state = "EMBRYO" /\ proc'[r].state \in Live
      <4>1. CASE r = p BY <1>3, <1>10, <1>11, <4>1 DEF Live
      <4>2. CASE r # p
        <5>1. np'[r] = np[r] /\ proc[r].state \in Live BY <1>10, <3>1, <4>2 DEF TableInv, ForksInv
        <5>2. r # q BY <1>3, <5>1 DEF Live
        <5> QED BY <1>10, <2>2, <2>3, <3>1, <5>1, <5>2
      <4> QED BY <4>1, <4>2
    <3> QED BY <3>1
  <2>6. (\A r, s \in Slots : np[r] # Null /\ np[r] = np[s] => r = s)'
    BY <1>10, <2>3 DEF TableInv, ForksInv
  <2>7. (\A s \in Slots : proc[s].state = "EMBRYO" => \E r \in Slots : np[r] = s)'
    <3>1. ASSUME NEW s \in Slots, proc'[s].state = "EMBRYO" PROVE \E r \in Slots : np'[r] = s
      <4>1. CASE s = q BY <1>10, <4>1
      <4>2. CASE s # q
        <5>1. PICK r \in Slots : np[r] = s BY <1>10, <3>1, <4>2 DEF TableInv, ForksInv
        <5>2. r # p BY <1>13, <2>1, <5>1
        <5> QED BY <1>10, <5>1, <5>2
      <4> QED BY <4>1, <4>2
    <3> QED BY <3>1
  <2> QED BY <2>4, <2>5, <2>6, <2>7 DEF ForksInv
<1>15. ParentsInv'
  <2>1. \A r \in Slots : proc[r].parent # Null => proc[r].parent \in Slots
    BY <1>5 DEF Process
  <2>2. initproc \in Slots BY SlotNumbers
  <2> QED BY <1>3, <1>10, <2>1, <2>2 DEF TableInv, ParentsInv, Live
<1>16. PidsInv'
  <2>1. \A r \in Slots : proc[r].pid \in Nat /\ proc[r].pid < nextpid
    <3>1. \A r \in Slots : proc[r].pid \in 0 .. MaxPid BY <1>5 DEF Process
    <3> QED BY <1>6, <3>1 DEF TableInv, PidsInv
  <2>2. nextpid \in Nat BY <1>5, <1>6
  <2> QED BY <1>1, <1>3, <1>10, <2>1, <2>2 DEF TableInv, PidsInv
<1>17. NoLostChild'
  <2>1. ASSUME NEW r \in Slots PROVE Children(r)' = Children(r) /\ Zombies(r)' = Zombies(r)
    BY <1>3, <1>10 DEF Children, Zombies
  <2> QED BY <1>10, <2>1 DEF TableInv, NoLostChild
<1> QED BY <1>9, <1>12, <1>14, <1>15, <1>16, <1>17 DEF TableInv

\* fork is over: the slot it was filling is given back, or is a process now.
LEMMA ForkOver ==
  ASSUME TableInv, NEW p \in Slots, NEW c \in Cpus, ForkFails(p, c) \/ ForkSucceeds(p, c)
  PROVE  TableInv'
<1>1. /\ cpu[c].proc = p /\ at[p] = "forking"
      /\ at' = [at EXCEPT ![p] = "user"] /\ np' = [np EXCEPT ![p] = Null]
      /\ nextpid' = nextpid /\ cpu' = cpu /\ lock' = lock /\ panicked' = panicked
  BY DEF ForkFails, ForkSucceeds, Runs, Goto
<1>2. /\ proc \in [Slots -> Process] /\ np \in [Slots -> Slots \cup {Null}]
      /\ at \in [Slots -> Points]
  BY DEF TableInv, TypeOK, Process
<1>3. proc[p].state = "RUNNING" BY <1>1, OnCpu
<1>4. PICK e \in Slots : e = np[p]
  <2>1. np[p] # Null BY <1>1 DEF TableInv, ForksInv
  <2> QED BY <1>2, <2>1
<1>5. \A r \in Slots : r # Null BY SlotNumbers
<1>6. proc[e].state = "EMBRYO" /\ proc[e].parent = Null /\ e # p /\ e # initproc
  <2>1. proc[e].state = "EMBRYO" BY <1>4, <1>5 DEF TableInv, ForksInv
  <2> QED BY <1>3, <2>1 DEF TableInv, ParentsInv, Live
<1>7. PICK x \in Process :
        /\ proc' = [proc EXCEPT ![e] = x] /\ x.pid = proc[e].pid
        /\ \/ x.state = "UNUSED" /\ x.parent = Null
           \/ x.state = "RUNNABLE" /\ x.parent = p
  <2>1. CASE ForkFails(p, c)
    <3>1. proc' = [proc EXCEPT ![e] = [proc[e] EXCEPT !.state = "UNUSED"]]
      BY <1>4, <2>1 DEF ForkFails
    <3>2. [proc[e] EXCEPT !.state = "UNUSED"] \in Process BY <1>2 DEF Process, States
    <3> QED BY <1>2, <1>6, <3>1, <3>2 DEF Process
  <2>2. CASE ForkSucceeds(p, c)
    <3>1. proc' = [proc EXCEPT ![e] = [proc[e] EXCEPT !.parent = p,
                                                      !.tickets = proc[p].tickets,
                                                      !.state = "RUNNABLE"]]
      BY <1>2, <1>4, <2>2 DEF ForkSucceeds
    <3>2. [proc[e] EXCEPT !.parent = p, !.tickets = proc[p].tickets, !.state = "RUNNABLE"]
            \in Process
      BY <1>2, ZenonT(30) DEF Process, States
    <3> QED BY <1>2, <3>1, <3>2 DEF Process
  <2> QED BY <2>1, <2>2
<1>8. proc' \in [Slots -> Process] BY <1>2, <1>7
<1>9. TypeOK'
  <2>1. np' \in [Slots -> Slots \cup {Null}] BY <1>1, <1>2
  <2>2. at' \in [Slots -> Points] BY <1>1, <1>2 DEF Points
  <2> QED BY <1>1, <1>8, <2>1, <2>2 DEF TableInv, TypeOK, Process
<1>10. /\ \A r \in Slots : r # e => proc'[r] = proc[r]
       /\ proc'[e] = x
       /\ \A r \in Slots : np'[r] = IF r = p THEN Null ELSE np[r]
       /\ \A r \in Slots : at'[r] = IF r = p THEN "user" ELSE at[r]
  BY <1>1, <1>2, <1>7
<1>11. OneCpuEach' BY <1>1, <1>6, <1>7, <1>9, <1>10, CpuSame
<1>12. ForksInv'
  <2>1. \A r \in Slots : np[r] # Null => np[r] \in Slots BY <1>2
  <2>2. \A r \in Slots : r # p => np[r] # e BY <1>4, <1>5 DEF TableInv, ForksInv
  <2>3. (\A r \in Slots : at[r] = "forking" <=> np[r] # Null)'
    BY <1>10 DEF TableInv, ForksInv
  <2>4. (\A r \in Slots : np[r] # Null => proc[np[r]].state = "EMBRYO" /\ proc[r].state \in Live)'
    <3>1. ASSUME NEW r \in Slots, np'[r] # Null
          PROVE  proc'[np'[r]].state = "EMBRYO" /\ proc'[r].state \in Live
      <4>1. r # p /\ np'[r] = np[r] BY <1>10, <3>1
      <4>2. proc[np[r]].state = "EMBRYO" /\ proc[r].state \in Live
        BY <3>1, <4>1 DEF TableInv, ForksInv
      <4>3. r # e BY <1>6, <4>2 DEF Live
      <4> QED BY <1>10, <2>1, <2>2, <3>1, <4>1, <4>2, <4>3
    <3> QED BY <3>1
  <2>5. (\A r, s \in Slots : np[r] # Null /\ np[r] = np[s] => r = s)'
    BY <1>10 DEF TableInv, ForksInv
  <2>6. (\A s \in Slots : proc[s].state = "EMBRYO" => \E r \in Slots : np[r] = s)'
    <3>1. ASSUME NEW s \in Slots, proc'[s].state = "EMBRYO" PROVE \E r \in Slots : np'[r] = s
      <4>1. s # e BY <1>7, <1>10, <3>1
      <4>2. PICK r \in Slots : np[r] = s BY <1>10, <3>1, <4>1 DEF TableInv, ForksInv
      <4>3. r # p BY <1>4, <4>1, <4>2
      <4> QED BY <1>10, <4>2, <4>3
    <3> QED BY <3>1
  <2> QED BY <2>3, <2>4, <2>5, <2>6 DEF ForksInv
<1>13. ParentsInv'
  <2>1. \A r \in Slots : proc[r].parent # Null => proc[r].parent \in Slots
    BY <1>2 DEF Process
  <2>2. initproc \in Slots BY SlotNumbers
  <2>3. ASSUME NEW r \in Slots, proc'[r].state \in Live \cup {"ZOMBIE"}, r # initproc
        PROVE  proc'[r].parent \notin {Null, r} /\ proc'[proc'[r].parent].state \in Live
    <3>1. CASE r = e
      <4>1. x.parent = p BY <1>7, <1>10, <2>3, <3>1 DEF Live
      <4> QED BY <1>3, <1>5, <1>6, <1>10, <3>1, <4>1 DEF Live
    <3>2. CASE r # e
      <4>1. /\ proc[r].parent \notin {Null, r} /\ proc[proc[r].parent].state \in Live
            /\ proc'[r] = proc[r]
        BY <1>10, <2>3, <3>2 DEF TableInv, ParentsInv
      <4>2. proc[r].parent # e BY <1>6, <4>1 DEF Live
      <4> QED BY <1>10, <2>1, <4>1, <4>2
    <3> QED BY <3>1, <3>2
  <2>4. ASSUME NEW r \in Slots, proc'[r].state \in {"UNUSED", "EMBRYO"}
        PROVE  proc'[r].parent = Null
    BY <1>7, <1>10, <2>4 DEF TableInv, ParentsInv
  <2>5. proc'[initproc].state \in Live /\ proc'[initproc].parent = Null
    BY <1>6, <1>10, <2>2 DEF TableInv, ParentsInv
  <2> QED BY <2>3, <2>4, <2>5 DEF ParentsInv
<1>14. PidsInv' BY <1>1, <1>6, <1>7, <1>10 DEF TableInv, PidsInv
<1>15. NoLostChild'
  <2>1. ASSUME NEW r \in Slots, r # p
        PROVE  Children(r)' = Children(r) /\ Zombies(r)' = Zombies(r)
    BY <1>5, <1>6, <1>7, <1>10, <2>1 DEF Children, Zombies
  <2>2. ASSUME NEW r \in Slots, proc'[r].state = "SLEEPING", proc'[r].chan = r
        PROVE  Children(r)' # {} /\ Zombies(r)' = {} /\ ~proc'[r].killed
    <3>1. r # e BY <1>7, <1>10, <2>2
    <3>2. proc'[r] = proc[r] /\ r # p BY <1>3, <1>10, <2>2, <3>1
    <3> QED BY <2>1, <2>2, <3>2 DEF TableInv, NoLostChild
  <2> QED BY <2>2 DEF NoLostChild
<1> QED BY <1>9, <1>11, <1>12, <1>13, <1>14, <1>15 DEF TableInv

\* exit passes the children to init, and wakes whoever has a ZOMBIE now.
LEMMA Exiting ==
  ASSUME TableInv, NEW p \in Slots, NEW c \in Cpus, Exit(p, c)
  PROVE  TableInv'
<1> DEFINE chans == {proc[p].parent} \cup (IF Zombies(p) # {} THEN {initproc} ELSE {})
           woken == Wakeup1(proc, chans)
<1>1. /\ cpu[c].proc = p /\ at[p] = "user" /\ p # initproc /\ LeaveCpu(c)
      /\ proc' = ExitTable(p) /\ nextpid' = nextpid /\ at' = at /\ np' = np
      /\ panicked' = panicked
  BY DEF Exit, Runs
<1>2. proc \in [Slots -> Process] /\ initproc \in Slots
  BY SlotNumbers DEF TableInv, TypeOK, Process
<1>3. proc[p].state = "RUNNING" BY <1>1, OnCpu
<1>4. \A r \in Slots : r # Null BY SlotNumbers
<1>5. ASSUME NEW r \in Slots
      PROVE  /\ woken[r] \in Process
             /\ woken[r].pid = proc[r].pid /\ woken[r].parent = proc[r].parent
             /\ woken[r].killed = proc[r].killed /\ woken[r].chan = proc[r].chan
             /\ woken[r].state = IF proc[r].state = "SLEEPING" /\ proc[r].chan \in chans
                                 THEN "RUNNABLE" ELSE proc[r].state
  BY Woken
<1>6. \A r \in Slots :
        proc'[r] = IF r = p THEN [woken[r] EXCEPT !.state = "ZOMBIE"]
                   ELSE IF proc[r].parent = p THEN [woken[r] EXCEPT !.parent = initproc]
                   ELSE woken[r]
  BY <1>1 DEF ExitTable, Children
<1> HIDE DEF woken
<1>7. ASSUME NEW r \in Slots
      PROVE  /\ proc'[r] \in Process
             /\ proc'[r].pid = proc[r].pid /\ proc'[r].killed = proc[r].killed
             /\ proc'[r].chan = proc[r].chan
             /\ proc'[r].parent = IF r # p /\ proc[r].parent = p THEN initproc
                                  ELSE proc[r].parent
             /\ proc'[r].state = IF r = p THEN "ZOMBIE"
                                 ELSE IF proc[r].state = "SLEEPING" /\ proc[r].chan \in chans
                                 THEN "RUNNABLE" ELSE proc[r].state
  <2>1. woken[r] \in Process BY <1>5
  <2>2. [woken[r] EXCEPT !.state = "ZOMBIE"] \in Process BY <2>1 DEF Process, States
  <2>3. [woken[r] EXCEPT !.parent = initproc] \in Process BY <1>2, <2>1, Records
  <2>4. CASE r = p
    <3>1. proc'[r] = [woken[r] EXCEPT !.state = "ZOMBIE"] BY <1>6, <2>4
    <3> QED BY <1>5, <2>2, <2>4, <3>1 DEF Process
  <2>5. CASE r # p /\ proc[r].parent = p
    <3>1. proc'[r] = [woken[r] EXCEPT !.parent = initproc] BY <1>6, <2>5
    <3> QED BY <1>5, <2>3, <2>5, <3>1 DEF Process
  <2>6. CASE r # p /\ proc[r].parent # p
    <3>1. proc'[r] = woken[r] BY <1>6, <2>6
    <3> QED BY <1>5, <2>6, <3>1
  <2> QED BY <2>4, <2>5, <2>6
<1>8. proc' \in [Slots -> Process] BY <1>1, <1>7 DEF ExitTable
<1>9. TypeOK'
  <2>1. cpu' \in [Cpus -> [proc : Slots \cup {Null}, lottery : Nat \cup {NoDraw}]]
    BY <1>1 DEF TableInv, TypeOK, LeaveCpu, Idle
  <2> QED BY <1>1, <1>8, <2>1 DEF TableInv, TypeOK, Process, LeaveCpu
<1>10. OneCpuEach' BY <1>1, <1>7, <1>9, CpuLeft
<1>11. /\ \A r \in Slots : proc'[r].state = "EMBRYO" <=> proc[r].state = "EMBRYO"
       /\ \A r \in Slots : proc'[r].state = "UNUSED" <=> proc[r].state = "UNUSED"
       /\ \A r \in Slots : proc'[r].state = "ZOMBIE" <=> r = p \/ proc[r].state = "ZOMBIE"
       /\ \A r \in Slots : proc'[r].state \in Live <=> r # p /\ proc[r].state \in Live
  BY <1>3, <1>7 DEF Live
<1>12. ForksInv'
  <2>1. \A r \in Slots : np[r] # Null => np[r] \in Slots /\ r # p
    BY <1>1 DEF TableInv, TypeOK, ForksInv
  <2>2. (\A r \in Slots : at[r] = "forking" <=> np[r] # Null)'
    BY <1>1 DEF TableInv, ForksInv
  <2>3. (\A r \in Slots : np[r] # Null => proc[np[r]].state = "EMBRYO" /\ proc[r].state \in Live)'
    BY <1>1, <1>11, <2>1 DEF TableInv, ForksInv
  <2>4. (\A r, s \in Slots : np[r] # Null /\ np[r] = np[s] => r = s)'
    BY <1>1 DEF TableInv, ForksInv
  <2>5. (\A s \in Slots : proc[s].state = "EMBRYO" => \E r \in Slots : np[r] = s)'
    BY <1>1, <1>11 DEF TableInv, ForksInv
  <2> QED BY <2>2, <2>3, <2>4, <2>5 DEF ForksInv
<1>13. ParentsInv'
  <2>1. \A r \in Slots : proc[r].parent # Null => proc[r].parent \in Slots
    BY <1>2 DEF Process
  <2>2. proc[initproc].state \in Live /\ proc[initproc].parent = Null
    BY DEF TableInv, ParentsInv
  <2>3. proc'[initproc].state \in Live /\ proc'[initproc].parent = Null
    BY <1>1, <1>2, <1>4, <1>7, <1>11, <2>2
  <2>4. ASSUME NEW r \in Slots, proc'[r].state \in {"UNUSED", "EMBRYO"}
        PROVE  proc'[r].parent = Null
    BY <1>4, <1>7, <1>11, <2>4 DEF TableInv, ParentsInv
  <2>5. ASSUME NEW r \in Slots, proc'[r].state \in Live \cup {"ZOMBIE"}, r # initproc
        PROVE  proc'[r].parent \notin {Null, r} /\ proc'[proc'[r].parent].state \in Live
    <3>1. proc[r].parent \notin {Null, r} /\ proc[proc[r].parent].state \in Live
      <4>1. proc[r].state \in Live \cup {"ZOMBIE"} BY <1>3, <1>11, <2>5 DEF Live
      <4> QED BY <2>5, <4>1 DEF TableInv, ParentsInv
    <3>2. CASE r # p /\ proc[r].parent = p
      BY <1>2, <1>4, <1>7, <2>3, <2>5, <3>2
    <3>3. CASE r = p \/ proc[r].parent # p
      BY <1>7, <1>11, <2>1, <3>1, <3>3
    <3> QED BY <3>2, <3>3
  <2> QED BY <2>3, <2>4, <2>5 DEF ParentsInv
<1>14. PidsInv' BY <1>1, <1>7, <1>11 DEF TableInv, PidsInv
<1>15. NoLostChild'
  <2>1. ASSUME NEW r \in Slots, proc'[r].state = "SLEEPING", proc'[r].chan = r
        PROVE  Children(r)' # {} /\ Zombies(r)' = {} /\ ~proc'[r].killed
    <3>1. r # p /\ proc[r].state = "SLEEPING" /\ proc[r].chan = r /\ r \notin chans
      BY <1>7, <2>1
    <3>2. Children(r) # {} /\ Zombies(r) = {} /\ ~proc[r].killed
      BY <3>1 DEF TableInv, NoLostChild
    <3>3. Children(r) \subseteq Children(r)' BY <1>7, <3>1 DEF Children
    <3>4. Zombies(r)' = {}
      <4>1. ASSUME NEW s \in Slots, proc'[s].parent = r, proc'[s].state = "ZOMBIE" PROVE FALSE
        <5>1. CASE s # p /\ proc[s].parent = p
          <6>1. r = initproc BY <1>7, <4>1, <5>1
          <6>2. s \in Zombies(p) BY <1>11, <4>1, <5>1 DEF Zombies, Children
          <6> QED BY <3>1, <6>1, <6>2
        <5>2. CASE s = p BY <1>7, <3>1, <4>1, <5>2
        <5>3. CASE s # p /\ proc[s].parent # p
          <6>1. s \in Zombies(r) BY <1>7, <1>11, <4>1, <5>3 DEF Zombies, Children
          <6> QED BY <3>2, <6>1
        <5> QED BY <5>1, <5>2, <5>3
      <4> QED BY <4>1 DEF Zombies, Children
    <3> QED BY <1>7, <3>2, <3>3, <3>4
  <2> QED BY <2>1 DEF NoLostChild
<1> QED BY <1>9, <1>10, <1>12, <1>13, <1>14, <1>15 DEF TableInv

\* wait clears the slot of a ZOMBIE, which is nobody's parent.
LEMMA Reaping ==
  ASSUME TableInv, NEW p \in Slots, NEW c \in Cpus, Reap(p, c)
  PROVE  TableInv'
<1>1. /\ cpu[c].proc = p /\ at[p] = "wait" /\ Zombies(p) # {}
      /\ nextpid' = nextpid /\ at' = [at EXCEPT ![p] = "user"] /\ np' = np /\ cpu' = cpu
      /\ lock' = NoCpu /\ panicked' = panicked
  BY DEF Reap, Scans, Goto
<1>2. /\ proc \in [Slots -> Process] /\ initproc \in Slots /\ at \in [Slots -> Points]
      /\ nextpid \in 1 .. MaxPid + 1
  BY SlotNumbers DEF TableInv, TypeOK, Process
<1>3. proc[p].state = "RUNNING" BY <1>1, OnCpu
<1>4. \A r \in Slots : r # Null BY SlotNumbers
<1>5. PICK z \in Zombies(p) : z = Min(Zombies(p))
  <2>1. Zombies(p) \in SUBSET Slots BY DEF Zombies, Children
  <2> QED BY <1>1, <2>1, FirstSlot
<1>6. z \in Slots /\ proc[z].state = "ZOMBIE" /\ proc[z].parent = p /\ z # p /\ z # initproc
  <2>1. z \in Slots /\ proc[z].state = "ZOMBIE" /\ proc[z].parent = p
    BY <1>5 DEF Zombies, Children
  <2> QED BY <1>3, <2>1 DEF TableInv, ParentsInv, Live
<1>7. proc' = [proc EXCEPT ![z] = [proc[z] EXCEPT !.state = "UNUSED", !.pid = 0,
                                                  !.parent = Null, !.killed = FALSE],
                           ![p] = [proc[p] EXCEPT !.chan = Null]]
  BY <1>2, <1>5, <1>6 DEF Reap
<1>8. PICK x \in Process : x = [proc[z] EXCEPT !.state = "UNUSED", !.pid = 0,
                                               !.parent = Null, !.killed = FALSE]
  <2>1. 0 \in 0 .. MaxPid BY ProcAssumption
  <2>2. PICK old \in Process : old = proc[z] BY <1>2, <1>6
  <2>3. [old EXCEPT !.state = "UNUSED", !.pid = 0, !.parent = Null, !.killed = FALSE]
          \in Process
    BY <2>1 DEF Process, States
  <2> QED BY <2>2, <2>3
<1>9. PICK y \in Process : y = [proc[p] EXCEPT !.chan = Null]
  <2>1. [proc[p] EXCEPT !.chan = Null] \in Process BY <1>2, Records
  <2> QED BY <2>1
<1>10. proc' = [proc EXCEPT ![z] = x, ![p] = y] BY <1>7, <1>8, <1>9
<1>11. proc' \in [Slots -> Process] BY <1>2, <1>10
<1>12. TypeOK'
  <2>1. at' \in [Slots -> Points] BY <1>1, <1>2 DEF Points
  <2> QED BY <1>1, <1>11, <2>1 DEF TableInv, TypeOK, Process
<1>13. \A r \in Slots :
         /\ proc'[r].state = IF r = z THEN "UNUSED" ELSE proc[r].state
         /\ proc'[r].parent = IF r = z THEN Null ELSE proc[r].parent
         /\ proc'[r].pid = IF r = z THEN 0 ELSE proc[r].pid
         /\ r # z => proc'[r].killed = proc[r].killed
         /\ r # p => proc'[r].chan = proc[r].chan
  <2>1. \A r \in Slots : proc'[r] = IF r = p THEN y ELSE IF r = z THEN x ELSE proc[r]
    BY <1>2, <1>6, <1>10
  <2>2. /\ x.state = "UNUSED" /\ x.pid = 0 /\ x.parent = Null /\ x.chan = proc[z].chan
        /\ y.state = proc[p].state /\ y.pid = proc[p].pid /\ y.parent = proc[p].parent
        /\ y.killed = proc[p].killed
    BY <1>2, <1>6, <1>8, <1>9 DEF Process
  <2> QED BY <1>6, <2>1, <2>2
<1>14. OneCpuEach' BY <1>1, <1>6, <1>12, <1>13, CpuSame
<1>15. ForksInv'
  <2>1. \A r \in Slots : np[r] # Null => np[r] \in Slots BY DEF TableInv, TypeOK
  <2>2. (\A r \in Slots : at[r] = "forking" <=> np[r] # Null)'
    BY <1>1, <1>2 DEF TableInv, ForksInv
  <2>3. (\A r \in Slots : np[r] # Null => proc[np[r]].state = "EMBRYO" /\ proc[r].state \in Live)'
    BY <1>1, <1>6, <1>13, <2>1 DEF TableInv, ForksInv, Live
  <2>4. (\A r, s \in Slots : np[r] # Null /\ np[r] = np[s] => r = s)'
    BY <1>1 DEF TableInv, ForksInv
  <2>5. (\A s \in Slots : proc[s].state = "EMBRYO" => \E r \in Slots : np[r] = s)'
    BY <1>1, <1>13 DEF TableInv, ForksInv
  <2> QED BY <2>2, <2>3, <2>4, <2>5 DEF ForksInv
<1>16. ParentsInv'
  <2>1. \A r \in Slots : proc[r].parent # Null => proc[r].parent \in Slots
    BY <1>2 DEF Process
  <2>2. proc'[initproc].state \in Live /\ proc'[initproc].parent = Null
    BY <1>2, <1>6, <1>13 DEF TableInv, ParentsInv
  <2>3. ASSUME NEW r \in Slots, proc'[r].state \in {"UNUSED", "EMBRYO"}
        PROVE  proc'[r].parent = Null
    BY <1>13, <2>3 DEF TableInv, ParentsInv
  <2>4. ASSUME NEW r \in Slots, proc'[r].state \in Live \cup {"ZOMBIE"}, r # initproc
        PROVE  proc'[r].parent \notin {Null, r} /\ proc'[proc'[r].parent].state \in Live
    <3>1. r # z /\ proc[r].state = proc'[r].state /\ proc'[r].parent = proc[r].parent
      BY <1>13, <2>4 DEF Live
    <3>2. proc[r].parent \notin {Null, r} /\ proc[proc[r].parent].state \in Live
      BY <2>4, <3>1 DEF TableInv, ParentsInv
    <3>3. proc[r].parent # z BY <1>6, <3>2 DEF Live
    <3> QED BY <1>13, <2>1, <3>1, <3>2, <3>3
  <2> QED BY <2>2, <2>3, <2>4 DEF ParentsInv
<1>17. PidsInv'
  <2>1. 0 < nextpid BY <1>2, ProcAssumption
  <2> QED BY <1>1, <1>13, <2>1 DEF TableInv, PidsInv
<1>18. NoLostChild'
  <2>1. ASSUME NEW r \in Slots, proc'[r].state = "SLEEPING", proc'[r].chan = r
        PROVE  Children(r)' # {} /\ Zombies(r)' = {} /\ ~proc'[r].killed
    <3>1. r # p /\ r # z /\ proc[r].state = "SLEEPING" /\ proc[r].chan = r
      BY <1>3, <1>6, <1>13, <2>1
    <3>2. Children(r) # {} /\ Zombies(r) = {} /\ ~proc[r].killed
      BY <3>1 DEF TableInv, NoLostChild
    <3>3. Children(r)' = Children(r)
      BY <1>4, <1>6, <1>13, <3>1 DEF Children
    <3>4. \A s \in Children(r) : s # z BY <1>6, <3>1 DEF Children
    <3>5. Zombies(r)' = Zombies(r)
      BY <1>13, <3>3, <3>4 DEF Zombies, Children
    <3> QED BY <1>13, <3>1, <3>2, <3>3, <3>5
  <2> QED BY <2>1 DEF NoLostChild
<1> QED BY <1>12, <1>14, <1>15, <1>16, <1>17, <1>18 DEF TableInv

-----------------------------------------------------------------------------
(* The invariants *)

\* The invariant holds after userinit.
LEMMA TableInit == Init => TableInv
<1> SUFFICES ASSUME Init PROVE TableInv
  OBVIOUS
<1>1. /\ initproc \in Slots /\ Null \notin Slots /\ \A p \in Slots : p \in 0 .. Ticks
      /\ 0 \in 0 .. Ticks
  BY SlotNumbers
<1>2. /\ MaxPid \in Nat /\ 0 \in 0 .. MaxPid /\ 1 \in 0 .. MaxPid /\ 2 \in 1 .. MaxPid + 1
  BY ProcAssumption
<1>3. Free \in Process BY <1>1, <1>2 DEF Free, Process, States, Null
<1>4. PICK one \in Process :
        one = [Free EXCEPT !.state = "RUNNABLE", !.pid = 1, !.tickets = 1]
  <2>1. [Free EXCEPT !.state = "RUNNABLE", !.pid = 1, !.tickets = 1] \in Process
    BY <1>2, <1>3 DEF Process, States
  <2> QED BY <2>1
<1>5. proc = [p \in Slots |-> IF p = initproc THEN one ELSE Free] BY <1>4 DEF Init
<1>6. /\ one.state = "RUNNABLE" /\ one.pid = 1 /\ one.parent = Null /\ one.chan = Null
      /\ Free.state = "UNUSED" /\ Free.pid = 0 /\ Free.parent = Null
  BY <1>4 DEF Free
<1>7. TypeOK
  <2>1. proc \in [Slots -> Process] BY <1>3, <1>4, <1>5
  <2>2. cpu \in [Cpus -> [proc : Slots \cup {Null}, lottery : Nat \cup {NoDraw}]]
    BY DEF Init, Idle
  <2> QED BY <1>2, <2>1, <2>2 DEF Init, TypeOK, Process, Points
<1>8. OneCpuEach
  <2>1. \A c \in Cpus : cpu[c].proc = Null BY DEF Init, Idle
  <2> QED BY <1>1, <1>5, <1>6, <2>1 DEF OneCpuEach
<1>9. ForksInv BY <1>5, <1>6 DEF Init, ForksInv
<1>10. ParentsInv BY <1>1, <1>5, <1>6 DEF ParentsInv, Live
<1>11. PidsInv
  <2>1. nextpid = 2 BY DEF Init
  <2> QED BY <1>5, <1>6, <2>1 DEF PidsInv
<1>12. NoLostChild BY <1>5, <1>6 DEF NoLostChild
<1> QED BY <1>7, <1>8, <1>9, <1>10, <1>11, <1>12 DEF TableInv

\* Every step keeps it.
LEMMA TableStep == TableInv /\ [Next]_procVars => TableInv'
<1> SUFFICES ASSUME TableInv, [Next]_procVars PROVE TableInv'
  OBVIOUS
<1>1. CASE UNCHANGED procVars
  BY <1>1 DEF procVars, TableInv, TypeOK, OneCpuEach, ForksInv, ParentsInv, PidsInv,
              NoLostChild, Children, Zombies
<1>2. ASSUME NEW p \in Slots, NEW c \in Cpus, InitExits(p, c) PROVE TableInv'
  <2>1. /\ proc' = proc /\ nextpid' = nextpid /\ at' = at /\ np' = np /\ cpu' = cpu
        /\ lock' = lock /\ panicked' \in BOOLEAN
    BY <1>2 DEF InitExits
  <2> QED BY <2>1 DEF TableInv, TypeOK, OneCpuEach, ForksInv, ParentsInv, PidsInv,
                      NoLostChild, Children, Zombies
<1>3. ASSUME NEW p \in Slots, NEW c \in Cpus, Syscall(p, c) \/ Yield(p, c) \/ Resume(p, c)
      PROVE  TableInv'
  BY <1>2, <1>3, Entering, ScanningInVain, GivingUp, Marking, Allocating, ForkOver, Exiting,
     Reaping DEF Syscall, Scan
<1>4. ASSUME NEW c \in Cpus, Draw(c) \/ Dispatch(c) PROVE TableInv'
  BY <1>4, Drawing, Dispatching
<1>5. CASE Tick BY <1>5, Marking
<1>6. CASE Halted BY <1>1, <1>6 DEF Halted
<1> QED BY <1>1, <1>3, <1>4, <1>5, <1>6 DEF Next

\* Among the processes, families and CPUs agree, and nobody sleeps over a ZOMBIE: what
\* the invariant is for.
LEMMA TableAlways == Spec => []TableInv
BY TableInit, TableStep, PTL DEF Spec

\* The CPUs run whom the table says, each process has a parent that lives, pids are
\* unique, and every slot in the making is being made by one fork.
THEOREM FamiliesWhole == Spec => []Family
<1>1. TableInv => Family
  <2> SUFFICES ASSUME TableInv PROVE Family
    OBVIOUS
  <2>1. ASSUME NEW q \in Slots, proc[q].state = "EMBRYO"
        PROVE  Cardinality({p \in Slots : np[p] = q}) = 1
    <3>1. PICK p \in Slots : np[p] = q BY <2>1 DEF TableInv, ForksInv
    <3>2. q # Null BY SlotNumbers
    <3>3. {r \in Slots : np[r] = q} = {p} BY <3>1, <3>2 DEF TableInv, ForksInv
    <3> QED BY <3>3, FS_Singleton
  <2>2. \A p \in Slots : proc[p].state \in Live \cup {"ZOMBIE"} /\ p # initproc =>
          proc[p].parent # Null /\ proc[proc[p].parent].state \in Live
    BY DEF TableInv, ParentsInv
  <2> QED BY <2>1, <2>2 DEF TableInv, PidsInv, Family
<1> QED BY <1>1, TableAlways, PTL

\* No wakeup of wait is lost: whoever sleeps there has children, none of them a ZOMBIE,
\* and has not been killed.
THEOREM ChildrenNotForgotten == Spec => []NoLostChild
<1>1. TableInv => NoLostChild BY DEF TableInv
<1> QED BY <1>1, TableAlways, PTL

-----------------------------------------------------------------------------
(* The shares *)

\* Each RUNNABLE process holds a ticket.  (It is born with one, but settickets stores
\* whatever it is given.)
Holding == \A p \in InState("RUNNABLE") : proc[p].tickets >= 1

\* What the draw of the code gives: every number has a winner, and each RUNNABLE process
\* wins for as many numbers as it has tickets, one more for the first, one fewer for the
\* last.
RealShares ==
  /\ InState("RUNNABLE") # {} =>
       \A n \in Draws(InState("RUNNABLE"), Tickets) :
         Winner(InState("RUNNABLE"), Tickets, n) \in InState("RUNNABLE")
  /\ \A p \in InState("RUNNABLE") :
    Cardinality(Wins(InState("RUNNABLE"), Tickets, p)) =
      proc[p].tickets + (IF p = Min(InState("RUNNABLE")) THEN 1 ELSE 0)
                      - (IF p = Max(InState("RUNNABLE")) THEN 1 ELSE 0)

\* A RUNNABLE process without a ticket is the one thing that upsets the shares.
LEMMA SharesOfHolders ==
  ASSUME TableInv, Holding
  PROVE  RealShares
<1> DEFINE S == InState("RUNNABLE")
<1>1. S \in SUBSET Slots /\ Tickets \in [Slots -> Nat] BY Lotteries
<1>2. \A q \in S : Tickets[q] = proc[q].tickets /\ Tickets[q] >= 1
  BY <1>1 DEF Tickets, Holding
<1> HIDE DEF S
<1>3. CASE S # {}
  <2>1. /\ \A n \in Draws(S, Tickets) : Winner(S, Tickets, n) \in S
        /\ \A p \in S : Cardinality(Wins(S, Tickets, p))
                          = Tickets[p] + (IF p = Min(S) THEN 1 ELSE 0)
                                       - (IF p = Max(S) THEN 1 ELSE 0)
    BY <1>1, <1>2, <1>3, SharesOfDraw
  <2> QED BY <1>2, <2>1 DEF RealShares, S
<1>4. CASE S = {} BY <1>4 DEF RealShares, S
<1> QED BY <1>3, <1>4

\* As long as every RUNNABLE process holds a ticket, every number drawn wins for one of
\* them, and each wins for as many numbers as it has tickets, but one more for the first
\* in the table and one fewer for the last (proc.c:364).
THEOREM SharesAmongHolders == Spec => [](Holding => RealShares)
<1>1. TableInv => (Holding => RealShares) BY SharesOfHolders
<1> QED BY <1>1, TableAlways, PTL

\* The last RUNNABLE process of several wins no draw with one ticket.
LastStarves ==
  \A p, q \in InState("RUNNABLE") :
    (\A r \in InState("RUNNABLE") : r <= p) /\ q # p /\ proc[p].tickets = 1
    => Wins(InState("RUNNABLE"), Tickets, p) = {}

\* As long as every RUNNABLE process holds a ticket, the last of several is never chosen
\* with the one ticket that every process is born with (proc.c:364).
THEOREM TheLastStarves == Spec => [](Holding => LastStarves)
<1> DEFINE S == InState("RUNNABLE")
<1>1. TableInv => (Holding => LastStarves)
  <2> SUFFICES ASSUME TableInv, Holding, NEW p \in S, NEW q \in S,
                      \A r \in S : r <= p, q # p, proc[p].tickets = 1
               PROVE  Wins(S, Tickets, p) = {}
    BY DEF LastStarves
  <2>1. S \in SUBSET Slots /\ Tickets \in [Slots -> Nat] BY Lotteries
  <2>2. S \in SUBSET Nat BY <2>1, SlotNumbers
  <2>3. /\ Cardinality(Wins(S, Tickets, p))
             = proc[p].tickets + (IF p = Min(S) THEN 1 ELSE 0) - (IF p = Max(S) THEN 1 ELSE 0)
    BY SharesOfHolders DEF RealShares
  <2> HIDE DEF S
  <2>4. p # Min(S)
    <3>1. Min(S) <= q BY <2>1, FirstSlot
    <3>2. q <= p BY <2>1
    <3> QED BY <2>2, <3>1, <3>2
  <2>5. p = Max(S)
    <3>1. \A x \in S : (\A r \in S : r <= x) => x = p BY <2>2
    <3> QED BY <3>1 DEF Max
  <2>6. Cardinality(Wins(S, Tickets, p)) = 0 BY <2>3, <2>4, <2>5
  <2>7. IsFiniteSet(Wins(S, Tickets, p))
    <3>1. TicketSum(S, Tickets) \in Nat BY <2>1, Sums
    <3>2. IsFiniteSet(Draws(S, Tickets))
      <4>1. IsFiniteSet({0}) BY FS_Singleton
      <4>2. IsFiniteSet(0 .. TicketSum(S, Tickets) - 1) BY <3>1, FS_Interval
      <4> QED BY <4>1, <4>2 DEF Draws
    <3> QED BY <3>2, FS_Subset DEF Wins
  <2> QED BY <2>6, <2>7, FS_EmptySet
<1> QED BY <1>1, TableAlways, PTL
=============================================================================
